----------------------------- MODULE MCFluidFS -----------------------------
(***************************************************************************)
(* A small disk for FluidFS: block 0 (boot code, then zeroes), one fixed   *)
(* block (the root table), one directory, and three more blocks.           *)
(***************************************************************************)
EXTENDS FluidFS

CONSTANTS d1, f1, f2

Blank(n) == [EmptyNode EXCEPT !.name = n]

\* The root table holds the directory and then free records; its block is
\* the one behind the root block.
MCImage ==
  [b \in Blocks |->
     CASE b = 0 -> [s \in Slots |-> IF s = 0 THEN Blank(Junk) ELSE EmptyNode]
       [] b = RootBlock ->
            [Zero EXCEPT ![0] = [Blank(d1) EXCEPT !.dir = TRUE, !.ptr[0] = RootBlock + 1]]
       [] OTHER -> Zero]

MCImageMap == 0 .. RootBlock + 1
=============================================================================
