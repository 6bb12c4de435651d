------------------------------ MODULE MCPacker ------------------------------
(* The files are interchangeable.                                           *)
EXTENDS Packer, TLC
Symmetric == Permutations(Files)
=============================================================================
