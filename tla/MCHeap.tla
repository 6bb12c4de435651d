------------------------------- MODULE MCHeap -------------------------------
(* A heap of a few bytes, with headers of two.                             *)
EXTENDS Heap

MCSizes == 0 .. 3
=============================================================================
