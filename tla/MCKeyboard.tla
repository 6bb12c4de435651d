----------------------------- MODULE MCKeyboard -----------------------------
(* Three cells, so that a few presses go round the buffer, two shifts, a   *)
(* key with a symbol and one without.                                      *)
EXTENDS Keyboard
=============================================================================
