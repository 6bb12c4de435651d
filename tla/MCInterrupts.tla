---------------------------- MODULE MCInterrupts ----------------------------
(***************************************************************************)
(* The library of the repository, and all three lines.                     *)
(***************************************************************************)
EXTENDS Interrupts
=============================================================================
