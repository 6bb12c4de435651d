------------------------------ MODULE Console -------------------------------
(***************************************************************************)
(* The text console on the VGA screen (drivers/video/vga_640_480.c), cell  *)
(* by cell.  A console is a record: the cursor, the cells, and the bit     *)
(* mask the last write has left in the VGA, on which scrolling depends.    *)
(* The operations are operators from consoles to consoles; Terminal runs   *)
(* them.  Colours are left out.                                            *)
(***************************************************************************)
EXTENDS Integers, Sequences

CONSTANTS
  Columns,  \* characters in a row (80)
  Rows,     \* rows of characters (30); the last one is kept free
  Glyphs,   \* the characters with a picture
  Tall,     \* those whose picture reaches into the last line of the cell
  Space,    \* the blank one
  NewLine,  \* '\n'
  Smear     \* a cell that shows no single character

\* The frame buffer goes on behind the screen; a scroll moves one row of
\* that in.
Cells == [0 .. Rows -> [0 .. Columns - 1 -> Glyphs \cup {Smear}]]

ASSUME ConsoleAssumption ==
  /\ Columns \in Nat \ {0} /\ Rows \in Nat /\ Rows >= 2
  /\ Tall \subseteq Glyphs /\ Space \in Glyphs \ Tall
  /\ NewLine \notin Glyphs /\ Smear \notin Glyphs

All(c) == [r \in 0 .. Rows |-> [i \in 0 .. Columns - 1 |-> c]]

\* screen_clear: cursor to the corner, all cells blank, the mask full.
Cleared == [x |-> 0, y |-> 0, cells |-> All(Space), open |-> TRUE]

\* scroll: memcpy moves the rows up byte by byte.  A byte keeps its picture
\* on its way through the latches only if the mask lets no bit of the CPU's
\* through; otherwise the colour of the last character is written.
Scrolled(con) ==
  [con EXCEPT !.cells =
     [r \in 0 .. Rows |->
        IF r = Rows THEN con.cells[r]
        ELSE IF con.open THEN All(Smear)[r] ELSE con.cells[r + 1]]]

\* Defect: the cursor is moved up, but the text is not.
BrokenLineStays(con) ==
  LET next == [con EXCEPT !.x = 0, !.y = @ + 1] IN
  IF next.y = Rows - 1 THEN [next EXCEPT !.y = @ - 1] ELSE next

\* The cursor goes to the next row; before the last one the screen scrolls.
BrokenLine(con) ==
  LET next == [con EXCEPT !.x = 0, !.y = @ + 1] IN
  IF next.y = Rows - 1 THEN Scrolled([next EXCEPT !.y = @ - 1]) ELSE next

\* The picture of c at the cursor.  Right of the screen the address runs on
\* into the pixel lines below: the picture is spread over two rows.
Pictured(con, c) ==
  LET col == con.x % Columns IN
  [con EXCEPT
     !.cells =
       IF con.x < Columns THEN [@ EXCEPT ![con.y][col] = c]
       ELSE [@ EXCEPT ![con.y][col] = Smear, ![con.y + 1][col] = Smear],
     !.x = @ + 1,
     !.open = c \in Tall]

\* draw_char: the character that meets the end of the row is not drawn.
Drawn(con, c) ==
  IF c = NewLine \/ con.x = Columns THEN BrokenLine(con) ELSE Pictured(con, c)

\* draw_string, and printf from the programs' library: one by one.
DrawnAll(con, s) ==
  LET after[n \in 0 .. Len(s)] == IF n = 0 THEN con ELSE Drawn(after[n - 1], s[n])
  IN after[Len(s)]
=============================================================================
