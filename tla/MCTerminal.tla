----------------------------- MODULE MCTerminal -----------------------------
(* A screen of three columns and three rows in use; the line can wrap once. *)
EXTENDS Terminal

CONSTANTS chA, chB, full

MCPrompt == <<chA>>
MCInfo == <<NewLine>>
\* A line that wraps, and one that ends in a tall picture.
MCOutputs == {<<NewLine, chA, chB, chA, chB>>, <<full, NewLine>>}
=============================================================================
