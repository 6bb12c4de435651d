------------------------------ MODULE Terminal ------------------------------
(***************************************************************************)
(* The shell's line editor (program/shell/shell.c) on the console: one     *)
(* action per key that get_char returns.  Keys that change nothing (shift, *)
(* caps lock, a symbol for a full line, backspace on an empty one) are     *)
(* stuttering steps.                                                       *)
(***************************************************************************)
EXTENDS Console

CONSTANTS
  Symbols,     \* the characters that can be typed
  BufferSize,  \* bytes of the line buffer (COMMAND_BUFFER_SIZE, 128)
  Prompt,      \* "NFOS86/> "
  Info,        \* the text below which a cleared screen starts
  Outputs,     \* what commands print
  FarColumn,   \* set_cursor takes columns modulo this (256)
  Nul          \* the byte 0

VARIABLES
  con,     \* the console
  buffer,  \* command_buffer
  index,   \* command_index
  home,    \* history: where the line begins on the screen
  lost,    \* history: the cursor has left the screen since the last ENTER
  ran      \* history: the last line execute was given, as it read it

vars == <<con, buffer, index, home, lost, ran>>

ASSUME TerminalAssumption ==
  /\ Symbols \subseteq Glyphs \ Tall /\ Space \in Symbols
  /\ BufferSize \in Nat \ {0}
  /\ FarColumn \in Nat /\ FarColumn > Columns + BufferSize
  /\ FarColumn + BufferSize < 16 * Columns
  /\ {Prompt, Info} \cup Outputs \subseteq Seq(Glyphs \cup {NewLine})
  /\ Len(Prompt) <= Columns
  /\ Nul \notin Glyphs

Place(c) == [x |-> c.x, y |-> c.y]

\* What is in the buffer up to its first 0.
Read(b) ==
  LET n == CHOOSE n \in 0 .. BufferSize - 1 :
             b[n] = Nul /\ \A i \in 0 .. n - 1 : b[i] # Nul
  IN [i \in 1 .. n |-> b[i - 1]]

\* Defect: the line is not ended, and runs on into the one before.
EndedNot(b, n) == b

\* execute puts a 0 behind the line.
Ended(b, n) == [b EXCEPT ![n] = Nul]

\* execute puts a 0 over every space of the line, to split it into words.
Split(b) == [i \in DOMAIN b |-> IF i < Len(Read(b)) /\ b[i] = Space THEN Nul ELSE b[i]]

-----------------------------------------------------------------------------
\* ENTER with a line: its command prints something or clears the screen,
\* then comes a new prompt.  An empty line only gets the prompt.
Enter ==
  LET b == Ended(buffer, index) IN
  /\ ran' = Read(b)
  /\ buffer' = Split(b)
  /\ index' = 0
  /\ \E shown \in IF Read(b) = <<>> THEN {con}
                  ELSE {DrawnAll(Cleared, Info)} \cup {DrawnAll(con, o) : o \in Outputs} :
       con' = DrawnAll(shown, <<NewLine>> \o Prompt)
  /\ home' = Place(con')
  /\ lost' = FALSE

\* Defect: the cursor stays behind the blank.
EraseAhead ==
  /\ index # 0
  /\ con' = Drawn([con EXCEPT !.x = (@ - 1) % FarColumn], Space)
  /\ index' = index - 1
  /\ buffer' = [buffer EXCEPT ![index - 1] = Nul]
  /\ lost' = (lost \/ con.x = 0)
  /\ UNCHANGED <<home, ran>>

\* BACKSPACE: back one column, a blank, back again.  In column 0 that is the
\* column FarColumn - 1.
Erase ==
  LET back == (con.x - 1) % FarColumn IN
  /\ index # 0
  /\ con' = [Drawn([con EXCEPT !.x = back], Space) EXCEPT !.x = back]
  /\ index' = index - 1
  /\ buffer' = [buffer EXCEPT ![index - 1] = Nul]
  /\ lost' = (lost \/ con.x = 0)
  /\ UNCHANGED <<home, ran>>

\* Any other key.
Type(c) ==
  /\ index < BufferSize - 1
  /\ buffer' = [buffer EXCEPT ![index] = c]
  /\ index' = index + 1
  /\ con' = Drawn(con, c)
  /\ home' = IF con.x = Columns /\ con'.y = con.y THEN [home EXCEPT !.y = @ - 1] ELSE home
  /\ UNCHANGED <<lost, ran>>

Init ==
  /\ con = DrawnAll(Cleared, Info \o Prompt)
  /\ buffer = [i \in 0 .. BufferSize - 1 |-> Nul]
  /\ index = 0
  /\ home = Place(con)
  /\ lost = FALSE
  /\ ran = <<>>

Next == Enter \/ Erase \/ \E c \in Symbols : Type(c)

Spec == Init /\ [][Next]_vars

-----------------------------------------------------------------------------
(* Properties                                                              *)

\* The cursor never leaves the rows of the screen, and the line always leaves
\* room for its 0.
TypeOK ==
  /\ con \in [x : 0 .. FarColumn + BufferSize, y : 0 .. Rows - 2, cells : Cells, open : BOOLEAN]
  /\ buffer \in [0 .. BufferSize - 1 -> Symbols \cup {Nul}]
  /\ index \in 0 .. BufferSize - 1
  /\ home \in [x : 0 .. Columns, y : Int]
  /\ lost \in BOOLEAN
  /\ ran \in Seq(Symbols)

\* Character i of the line stands in cell Column(i) of row Row(i), where
\* column Columns is none: the character is not drawn.
Column(i) == (home.x + i) % (Columns + 1)
Row(i) == home.y + (home.x + i) \div (Columns + 1)

\* It did not meet the end of a row and has not scrolled out.
Visible(i) == Column(i) < Columns /\ Row(i) >= 0

\* The cursor is where the next character of the line belongs, through wraps,
\* scrolls and any number of erasures, but for one: when the character that
\* met the end of the row is erased, the cursor leaves the screen, and stays
\* wrong until the next ENTER.
CursorFollows ==
  ~lost => con.x = Column(index) /\ con.y = Row(index)

\* What is on the screen is what ENTER will hand on: each character of the
\* line that can be seen is the one in the buffer.
LineShown ==
  ~lost => \A i \in 0 .. index - 1 :
             Visible(i) => con.cells[Row(i)][Column(i)] = buffer[i]

\* The screen shows the line that ENTER would execute, and where it ends.
LineOnScreen == TypeOK /\ CursorFollows /\ LineShown

\* The command executed is what was typed and not erased (see LineReader),
\* whatever older lines have left in the buffer.
Editor == INSTANCE LineReader WITH
            Longest <- BufferSize - 1,
            line <- [i \in 1 .. index |-> buffer[i - 1]],
            taken <- ran
ReadsLines == Editor!Spec

-----------------------------------------------------------------------------
(* The inductive invariant behind LineOnScreen and ReadsLines (proved in   *)
(* TerminalProofs).                                                        *)

\* The line is typed characters, none of them the byte 0 that ends it.
LineTyped == \A i \in 0 .. index - 1 : buffer[i] \in Symbols

\* Every BACKSPACE takes back what its character has added to the column.
CursorBound == con.x <= FarColumn + index

\* The mask is not the one that spoils a scroll as long as a character of the
\* line can be seen.
MaskHolds == ~lost /\ con.open => \A i \in 0 .. index - 1 : ~Visible(i)

IInv == LineOnScreen /\ LineTyped /\ CursorBound /\ MaskHolds
=============================================================================
