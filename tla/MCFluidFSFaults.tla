-------------------------- MODULE MCFluidFSFaults ---------------------------
(***************************************************************************)
(* A smaller disk for FluidFSFaults: block 0, the root table and two       *)
(* blocks for files, which all lie in the root directory.                  *)
(***************************************************************************)
EXTENDS FluidFSFaults, TLC

CONSTANTS f1, f2

MCImage ==
  [b \in Blocks |->
     IF b = 0 THEN [Zero EXCEPT ![0] = [EmptyNode EXCEPT !.name = Junk]] ELSE Zero]

\* Nothing tells the files' names apart.
MCSymmetry == Permutations({f1, f2})

MCImageMap == 0 .. RootBlock
=============================================================================
