----------------------------- MODULE LineReader -----------------------------
(***************************************************************************)
(* What a line editor promises: the line handed on is what was typed, but  *)
(* for what was erased again and what no longer fitted.                    *)
(***************************************************************************)
EXTENDS Integers, Sequences

CONSTANTS
  Symbols,  \* what can be typed
  Longest   \* the length of the longest line

VARIABLES
  line,   \* the line so far
  taken   \* the line handed on last

vars == <<line, taken>>

Init == line = <<>> /\ taken = <<>>

Type(c) ==
  /\ Len(line) < Longest
  /\ line' = Append(line, c)
  /\ UNCHANGED taken

Erase ==
  /\ line # <<>>
  /\ line' = SubSeq(line, 1, Len(line) - 1)
  /\ UNCHANGED taken

Take == taken' = line /\ line' = <<>>

Next == (\E c \in Symbols : Type(c)) \/ Erase \/ Take

Spec == Init /\ [][Next]_vars
=============================================================================
