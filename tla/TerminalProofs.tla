--------------------------- MODULE TerminalProofs ---------------------------
(***************************************************************************)
(* What stands on the screen is the line that ENTER executes, and that     *)
(* line is what was typed and not erased: for any screen, buffer, prompt   *)
(* and output.                                                             *)
(***************************************************************************)
EXTENDS Terminal, WellFoundedInduction, SequenceTheorems, TLAPS

-----------------------------------------------------------------------------
(* Numbers.                                                                *)

LEMMA LeastElement ==
  ASSUME NEW T, T \subseteq Nat, T # {}
  PROVE  \E x \in T : \A y \in T : x <= y
<1> DEFINE R == OpToRel(<, Nat)
<1>1. \A x, y \in Nat : y < x => <<y, x>> \in R
  BY DEF OpToRel
<1>2. IsWellFoundedOn(R, Nat)
  BY NatLessThanWellFounded
<1> HIDE DEF R
<1>3. PICK x \in T : \A y \in T : ~(<<y, x>> \in R)
  BY <1>2, WFMin
<1>4. \A y \in T : ~(y < x)
  BY <1>1, <1>3
<1>5. \A y \in T : x <= y
  BY <1>4
<1> QED
  BY <1>5

(* Positions in a text of rows w wide.                                     *)
LEMMA Division ==
  ASSUME NEW a \in Nat, NEW w \in Nat \ {0}
  PROVE  \E q \in Nat, r \in 0 .. w - 1 : a \div w = q /\ a % w = r /\ a = w * q + r
<1> DEFINE q == a \div w
           r == a % w
<1>1. q \in Nat /\ r \in 0 .. w - 1
  OBVIOUS
<1>2. r = a - w * q
  OBVIOUS
<1>3. a \div w = q /\ a % w = r
  OBVIOUS
<1> HIDE DEF q, r
<1>4. a = w * q + r
  BY <1>1, <1>2
<1> QED
  BY <1>1, <1>3, <1>4

LEMMA DivisionIsUnique ==
  ASSUME NEW w \in Nat \ {0}, NEW q \in Nat, NEW r \in 0 .. w - 1, NEW p \in Nat,
         NEW t \in 0 .. w - 1, w * q + r = w * p + t
  PROVE  q = p /\ r = t
<1>1. ASSUME q < p PROVE FALSE
  <2>1. w * (q + 1) <= w * p
    BY <1>1
  <2> QED
    BY <2>1
<1>2. ASSUME p < q PROVE FALSE
  <2>1. w * (p + 1) <= w * q
    BY <1>2
  <2> QED
    BY <2>1
<1>3. q = p
  BY <1>1, <1>2
<1> QED
  BY <1>3

LEMMA FirstRow ==
  ASSUME NEW w \in Nat \ {0}, NEW a \in 0 .. w - 1
  PROVE  a \div w = 0 /\ a % w = a
<1>1. PICK q \in Nat, r \in 0 .. w - 1 : a \div w = q /\ a % w = r /\ a = w * q + r
  BY Division
<1>2. w * q + r = w * 0 + a /\ 0 \in Nat
  BY <1>1
<1>3. q = 0 /\ r = a
  BY <1>2, DivisionIsUnique
<1> QED
  BY <1>1, <1>3

(* The position after a is in the next column, or begins the next row.     *)
LEMMA NextPosition ==
  ASSUME NEW a \in Nat, NEW w \in Nat \ {0}
  PROVE  /\ a % w < w - 1 => (a + 1) % w = (a % w) + 1 /\ (a + 1) \div w = a \div w
         /\ a % w = w - 1 => (a + 1) % w = 0 /\ (a + 1) \div w = (a \div w) + 1
<1>1. PICK q \in Nat, r \in 0 .. w - 1 : a \div w = q /\ a % w = r /\ a = w * q + r
  BY Division
<1>2. PICK p \in Nat, t \in 0 .. w - 1 :
        (a + 1) \div w = p /\ (a + 1) % w = t /\ a + 1 = w * p + t
  BY Division
<1>3. ASSUME r < w - 1 PROVE t = r + 1 /\ p = q
  <2>1. w * q + (r + 1) = w * p + t /\ r + 1 \in 0 .. w - 1
    BY <1>1, <1>2, <1>3
  <2> QED
    BY <2>1, DivisionIsUnique
<1>4. ASSUME r = w - 1 PROVE t = 0 /\ p = q + 1
  <2>1. w * (q + 1) + 0 = w * p + t /\ 0 \in 0 .. w - 1 /\ q + 1 \in Nat
    BY <1>1, <1>2, <1>4
  <2> QED
    BY <2>1, DivisionIsUnique
<1> QED
  BY <1>1, <1>2, <1>3, <1>4

(* Different positions are in different rows or columns, later ones not in *)
(* an earlier row.                                                         *)
LEMMA PositionsDiffer ==
  ASSUME NEW a \in Nat, NEW b \in Nat, a < b, NEW w \in Nat \ {0}
  PROVE  /\ a \div w <= b \div w
         /\ a \div w = b \div w => a % w # b % w
<1>1. PICK q \in Nat, r \in 0 .. w - 1 : a \div w = q /\ a % w = r /\ a = w * q + r
  BY Division
<1>2. PICK p \in Nat, t \in 0 .. w - 1 : b \div w = p /\ b % w = t /\ b = w * p + t
  BY Division
<1>3. ASSUME p < q PROVE FALSE
  <2>1. w * (p + 1) <= w * q
    BY <1>3
  <2> QED
    BY <1>1, <1>2, <2>1
<1>4. q = p => r # t
  BY <1>1, <1>2
<1> QED
  BY <1>1, <1>2, <1>3, <1>4

-----------------------------------------------------------------------------
(* The console.                                                            *)

(* A string is drawn one character after the other.                        *)
LEMMA DrawnAllUnfolds ==
  ASSUME NEW start, NEW A, NEW s \in Seq(A)
  PROVE  \E h : /\ h[0] = start
                /\ \A n \in 1 .. Len(s) : h[n] = Drawn(h[n - 1], s[n])
                /\ DrawnAll(start, s) = h[Len(s)]
<1> DEFINE After(f) ==
             f = [n \in 0 .. Len(s) |-> IF n = 0 THEN start ELSE Drawn(f[n - 1], s[n])]
           Prefix(f, m) ==
             /\ f[0] = start
             /\ \A n \in 1 .. m : f[n] = Drawn(f[n - 1], s[n])
<1>1. Len(s) \in Nat
  OBVIOUS
<1>2. \A m \in 0 .. Len(s) : \E f : Prefix(f, m)
  <2> DEFINE T == {m \in 0 .. Len(s) : ~ \E f : Prefix(f, m)}
  <2> SUFFICES ASSUME T # {} PROVE FALSE
    OBVIOUS
  <2>1. T \subseteq Nat
    BY <1>1
  <2>2. PICK m \in T : \A n \in T : m <= n
    <3> HIDE DEF T
    <3> QED
      BY <2>1, LeastElement
  <2>3. CASE m = 0
    <3>1. Prefix([n \in {0} |-> start], 0)
      OBVIOUS
    <3> QED
      BY <2>2, <2>3, <3>1
  <2>4. CASE m # 0
    <3>1. m - 1 \in 0 .. Len(s) /\ m - 1 \notin T /\ m \in 1 .. Len(s)
      <4>1. m \in 0 .. Len(s)
        OBVIOUS
      <4> HIDE DEF T
      <4> QED
        BY <1>1, <2>2, <2>4, <4>1
    <3>2. PICK f : Prefix(f, m - 1)
      BY <3>1
    <3> DEFINE g == [n \in 0 .. m |-> IF n = m THEN Drawn(f[m - 1], s[m]) ELSE f[n]]
    <3>3. g[0] = start
      BY <3>1, <3>2
    <3>4. \A n \in 1 .. m : g[n] = Drawn(g[n - 1], s[n])
      BY <3>1, <3>2
    <3>5. Prefix(g, m)
      BY <3>3, <3>4
    <3> QED
      BY <2>2, <3>5
  <2> QED
    BY <2>3, <2>4
<1>3. \E f : After(f)
  <2>1. PICK f : Prefix(f, Len(s))
    <3>1. Len(s) \in 0 .. Len(s)
      BY <1>1
    <3> HIDE DEF Prefix
    <3> QED
      BY <1>2, <3>1
  <2> DEFINE g == [n \in 0 .. Len(s) |-> f[n]]
  <2>2. ASSUME NEW n \in 0 .. Len(s)
        PROVE  g[n] = IF n = 0 THEN start ELSE Drawn(g[n - 1], s[n])
    <3>1. CASE n = 0
      BY <2>1, <3>1
    <3>2. CASE n # 0
      <4>1. n \in 1 .. Len(s) /\ n - 1 \in 0 .. Len(s)
        BY <1>1, <3>2
      <4>2. g[n] = f[n] /\ g[n - 1] = f[n - 1]
        BY <4>1
      <4>3. f[n] = Drawn(f[n - 1], s[n])
        BY <2>1, <4>1
      <4> QED
        BY <3>2, <4>2, <4>3
    <3> QED
      BY <3>1, <3>2
  <2>3. g = [n \in 0 .. Len(s) |-> g[n]]
    OBVIOUS
  <2> HIDE DEF g
  <2>4. After(g)
    BY <2>2, <2>3
  <2> QED
    BY <2>4
<1> DEFINE h == CHOOSE f : After(f)
<1>4. After(h)
  BY <1>3
<1>5. DrawnAll(start, s) = h[Len(s)]
  BY DEF DrawnAll
<1> HIDE DEF h
<1>6. h[0] = start /\ \A n \in 1 .. Len(s) : h[n] = Drawn(h[n - 1], s[n])
  <2>1. h = [n \in 0 .. Len(s) |-> IF n = 0 THEN start ELSE Drawn(h[n - 1], s[n])]
    BY <1>4
  <2>2. \A n \in 0 .. Len(s) : h[n] = IF n = 0 THEN start ELSE Drawn(h[n - 1], s[n])
    BY <2>1
  <2> QED
    BY <1>1, <2>2
<1> QED
  BY <1>5, <1>6

(* What every character keeps, a string keeps that begins with it, or whose *)
(* first character brings it about.                                        *)
LEMMA DrawnAllStays ==
  ASSUME NEW C, NEW A, \A k \in C, a \in A : Drawn(k, a) \in C,
         NEW start, NEW s \in Seq(A),
         start \in C \/ (s # <<>> /\ Drawn(start, s[1]) \in C)
  PROVE  DrawnAll(start, s) \in C
<1>1. Len(s) \in Nat /\ \A n \in 1 .. Len(s) : s[n] \in A
  OBVIOUS
<1>2. PICK h : /\ h[0] = start
               /\ \A n \in 1 .. Len(s) : h[n] = Drawn(h[n - 1], s[n])
               /\ DrawnAll(start, s) = h[Len(s)]
  BY DrawnAllUnfolds
<1> DEFINE T == {n \in 0 .. Len(s) : (n = 0 => start \in C) /\ h[n] \notin C}
<1>3. T = {}
  <2> SUFFICES ASSUME T # {} PROVE FALSE
    OBVIOUS
  <2>1. T \subseteq Nat
    BY <1>1
  <2>2. PICK m \in T : \A n \in T : m <= n
    <3> HIDE DEF T
    <3> QED
      BY <2>1, LeastElement
  <2>3. m \in 1 .. Len(s)
    BY <1>1, <1>2, <2>2
  <2>4. m - 1 \in 0 .. Len(s) /\ m - 1 \notin T
    <3> HIDE DEF T
    <3> QED
      BY <1>1, <2>2, <2>3
  <2>5. CASE h[m - 1] \in C
    BY <1>1, <1>2, <2>2, <2>3, <2>5
  <2>6. CASE h[m - 1] \notin C
    <3>1. m = 1 /\ start \notin C
      BY <2>3, <2>4, <2>6
    <3>2. Drawn(start, s[1]) \in C
      BY <3>1
    <3> QED
      BY <1>2, <2>2, <2>3, <3>1, <3>2
  <2> QED
    BY <2>5, <2>6
<1>4. Len(s) \in 0 .. Len(s) /\ (Len(s) = 0 => start \in C)
  BY <1>1
<1> QED
  BY <1>2, <1>3, <1>4

-----------------------------------------------------------------------------
USE ConsoleAssumption, TerminalAssumption

Consoles == [x : Nat, y : 0 .. Rows - 2, cells : Cells, open : BOOLEAN]
Inside == [x : 0 .. Columns, y : 0 .. Rows - 2, cells : Cells, open : BOOLEAN]

LEMMA AllCells ==
  ASSUME NEW c \in Glyphs \cup {Smear}
  PROVE  All(c) \in Cells
BY DEF All, Cells

LEMMA ConsoleRecord ==
  ASSUME NEW k \in Consoles
  PROVE  /\ \E x, y, cells, open :
              k = [x |-> x, y |-> y, cells |-> cells, open |-> open]
         /\ k.x \in Nat /\ k.y \in 0 .. Rows - 2 /\ k.cells \in Cells /\ k.open \in BOOLEAN
BY DEF Consoles

LEMMA ScrolledRecord ==
  ASSUME NEW k \in Consoles
  PROVE  /\ Scrolled(k) \in Consoles
         /\ Scrolled(k) = [x |-> k.x, y |-> k.y, cells |-> Scrolled(k).cells, open |-> k.open]
         /\ ~k.open => \A r \in 0 .. Rows - 1 : Scrolled(k).cells[r] = k.cells[r + 1]
<1> DEFINE rows == [r \in 0 .. Rows |->
                      IF r = Rows THEN k.cells[r]
                      ELSE IF k.open THEN All(Smear)[r] ELSE k.cells[r + 1]]
<1>1. /\ \A r \in 0 .. Rows : /\ k.cells[r] \in [0 .. Columns - 1 -> Glyphs \cup {Smear}]
                               /\ All(Smear)[r] \in [0 .. Columns - 1 -> Glyphs \cup {Smear}]
  BY AllCells, ConsoleRecord DEF Cells
<1>2. rows \in Cells
  <2> SUFFICES ASSUME NEW r \in 0 .. Rows
               PROVE  rows[r] \in [0 .. Columns - 1 -> Glyphs \cup {Smear}]
    BY DEF Cells
  <2>1. CASE r = Rows
    BY <1>1, <2>1
  <2>2. CASE r # Rows
    <3>1. r + 1 \in 0 .. Rows
      BY <2>2
    <3> QED
      BY <1>1, <2>2, <3>1
  <2> QED
    BY <2>1, <2>2
<1>3. \A r \in 0 .. Rows - 1 : ~k.open => rows[r] = k.cells[r + 1]
  OBVIOUS
<1>4. Scrolled(k) = [k EXCEPT !.cells = rows]
  BY DEF Scrolled
<1> HIDE DEF rows
<1>5. Scrolled(k) = [x |-> k.x, y |-> k.y, cells |-> rows, open |-> k.open]
  <2>1. PICK x, y, cells, open :
          k = [x |-> x, y |-> y, cells |-> cells, open |-> open]
    BY ConsoleRecord
  <2> QED
    BY <1>4, <2>1
<1> QED
  BY <1>2, <1>3, <1>5, ConsoleRecord DEF Consoles

(* A line break: down a row, or all rows up.                               *)
LEMMA LineBroken ==
  ASSUME NEW k \in Consoles
  PROVE  /\ BrokenLine(k) \in Inside
         /\ BrokenLine(k).x = 0
         /\ BrokenLine(k).open = k.open
         /\ k.y < Rows - 2 => BrokenLine(k).y = k.y + 1 /\ BrokenLine(k).cells = k.cells
         /\ k.y = Rows - 2 =>
              /\ BrokenLine(k).y = k.y
              /\ ~k.open => \A r \in 0 .. Rows - 1 : BrokenLine(k).cells[r] = k.cells[r + 1]
<1> DEFINE at == [x |-> 0, y |-> k.y, cells |-> k.cells, open |-> k.open]
           next == [k EXCEPT !.x = 0, !.y = @ + 1]
<1>1. at \in Consoles /\ at.x = 0 /\ at.y = k.y /\ at.cells = k.cells /\ at.open = k.open
  BY ConsoleRecord DEF Consoles
<1>2. next = [x |-> 0, y |-> k.y + 1, cells |-> k.cells, open |-> k.open]
  <2>1. PICK x, y, cells, open :
          k = [x |-> x, y |-> y, cells |-> cells, open |-> open]
    BY ConsoleRecord
  <2>2. [k EXCEPT !.x = 0] = [x |-> 0, y |-> y, cells |-> cells, open |-> open]
    BY <2>1
  <2>3. next = [[k EXCEPT !.x = 0] EXCEPT !.y = k.y + 1]
    OBVIOUS
  <2> HIDE DEF next
  <2> QED
    BY <2>1, <2>2, <2>3
<1>3. BrokenLine(k) = IF next.y = Rows - 1 THEN Scrolled([next EXCEPT !.y = @ - 1]) ELSE next
  BY DEF BrokenLine
<1> HIDE DEF next
<1>4. CASE k.y < Rows - 2
  <2>1. BrokenLine(k) = next
    BY <1>2, <1>3, <1>4, ConsoleRecord
  <2> QED
    BY <1>2, <1>4, <2>1, ConsoleRecord DEF Inside
<1>5. CASE k.y = Rows - 2
  <2>1. [next EXCEPT !.y = @ - 1] = at
    <3>1. PICK cells, open : /\ next = [x |-> 0, y |-> k.y + 1, cells |-> cells, open |-> open]
                             /\ k.cells = cells /\ k.open = open
      BY <1>2
    <3>2. next.y - 1 = k.y
      BY <3>1, ConsoleRecord
    <3>3. [next EXCEPT !.y = k.y] = at
      BY <3>1
    <3> QED
      BY <3>2, <3>3
  <2>2. BrokenLine(k) = Scrolled(at)
    BY <1>2, <1>3, <1>5, <2>1, ConsoleRecord
  <2> HIDE DEF at
  <2>3. /\ Scrolled(at) \in Consoles
        /\ Scrolled(at).x = 0 /\ Scrolled(at).y = k.y /\ Scrolled(at).open = k.open
        /\ ~k.open => \A r \in 0 .. Rows - 1 : Scrolled(at).cells[r] = k.cells[r + 1]
    BY <1>1, ScrolledRecord
  <2>4. Scrolled(at) \in Inside
    BY <2>3, ConsoleRecord DEF Inside
  <2> QED
    BY <1>5, <2>2, <2>3, <2>4
<1> QED
  BY <1>4, <1>5, ConsoleRecord

(* One cell is drawn.                                                      *)
Put(cells, y, x, c) == [cells EXCEPT ![y][x] = c]

LEMMA CellChanged ==
  ASSUME NEW cells \in Cells, NEW y \in 0 .. Rows, NEW x \in 0 .. Columns - 1, NEW c
  PROVE  /\ Put(cells, y, x, c)[y][x] = c
         /\ \A r \in 0 .. Rows, i \in 0 .. Columns - 1 :
              ~(r = y /\ i = x) => Put(cells, y, x, c)[r][i] = cells[r][i]
<1> DEFINE row == [cells[y] EXCEPT ![x] = c]
           new == [cells EXCEPT ![y] = row]
<1>1. Put(cells, y, x, c) = new
  BY DEF Put
<1>2. row[x] = c /\ \A i \in 0 .. Columns - 1 : i # x => row[i] = cells[y][i]
  BY DEF Cells
<1> HIDE DEF row
<1>3. new[y] = row /\ \A r \in 0 .. Rows : r # y => new[r] = cells[r]
  BY DEF Cells
<1> HIDE DEF new
<1> QED
  BY <1>1, <1>2, <1>3

LEMMA PicturedRecord ==
  ASSUME NEW k \in Consoles, NEW c \in Glyphs
  PROVE  /\ Pictured(k, c) \in Consoles
         /\ Pictured(k, c).x = k.x + 1 /\ Pictured(k, c).y = k.y
         /\ Pictured(k, c).open = (c \in Tall)
         /\ k.x < Columns =>
              Pictured(k, c).cells = Put(k.cells, k.y, k.x, c)
<1> DEFINE col == k.x % Columns
           shown == IF k.x < Columns THEN [k.cells EXCEPT ![k.y][col] = c]
                    ELSE [k.cells EXCEPT ![k.y][col] = Smear, ![k.y + 1][col] = Smear]
<1>1. Pictured(k, c) = [k EXCEPT !.cells = shown, !.x = @ + 1, !.open = c \in Tall]
  BY DEF Pictured
<1>2. col \in 0 .. Columns - 1 /\ (k.x < Columns => col = k.x)
  <2>1. PICK q \in Nat, r \in 0 .. Columns - 1 : col = r
    BY ConsoleRecord, Division
  <2>2. k.x < Columns => k.x \in 0 .. Columns - 1
    BY ConsoleRecord
  <2> QED
    BY <2>1, <2>2, FirstRow
<1> HIDE DEF col
<1>3. shown \in Cells
  <2>1. CASE k.x < Columns
    BY <1>2, <2>1, ConsoleRecord DEF Cells
  <2>2. CASE ~(k.x < Columns)
    <3> DEFINE first == [k.cells EXCEPT ![k.y][col] = Smear]
    <3>1. k.y \in 0 .. Rows /\ k.y + 1 \in 0 .. Rows
      BY ConsoleRecord
    <3>2. first \in Cells
      BY <1>2, <3>1, ConsoleRecord DEF Cells
    <3>3. shown = [first EXCEPT ![k.y + 1][col] = Smear]
      BY <2>2
    <3> HIDE DEF first, shown
    <3> QED
      BY <1>2, <3>1, <3>2, <3>3 DEF Cells
  <2> QED
    BY <2>1, <2>2
<1>4. k.x < Columns => shown = Put(k.cells, k.y, k.x, c)
  BY <1>2 DEF Put
<1> HIDE DEF shown
<1>5. Pictured(k, c) = [x |-> k.x + 1, y |-> k.y, cells |-> shown, open |-> (c \in Tall)]
  <2>1. PICK x, y, cells, open :
          k = [x |-> x, y |-> y, cells |-> cells, open |-> open]
    BY ConsoleRecord
  <2> QED
    BY <1>1, <2>1
<1> QED
  BY <1>3, <1>4, <1>5, ConsoleRecord DEF Consoles

LEMMA DrawnStays ==
  ASSUME NEW c \in Glyphs \cup {NewLine}
  PROVE  /\ \A k \in Consoles : Drawn(k, c) \in Consoles
         /\ \A k \in Inside : Drawn(k, c) \in Inside
         /\ \A k \in Consoles : c = NewLine => Drawn(k, c) \in Inside
<1>1. Inside \subseteq Consoles
  BY DEF Inside, Consoles
<1>2. ASSUME NEW k \in Consoles, c = NewLine \/ k.x = Columns
      PROVE  Drawn(k, c) \in Inside
  BY <1>2, LineBroken DEF Drawn
<1>3. ASSUME NEW k \in Consoles, ~(c = NewLine \/ k.x = Columns)
      PROVE  Drawn(k, c) \in Consoles /\ (k.x <= Columns => Drawn(k, c) \in Inside)
  <2>1. Drawn(k, c) = Pictured(k, c) /\ c \in Glyphs
    BY <1>3 DEF Drawn
  <2>2. Pictured(k, c) \in Consoles /\ Pictured(k, c).x = k.x + 1
    BY <2>1, PicturedRecord
  <2>3. k.x <= Columns => Pictured(k, c).x \in 0 .. Columns
    BY <1>3, <2>2, ConsoleRecord
  <2> QED
    BY <2>1, <2>2, <2>3, ConsoleRecord DEF Inside
<1>4. \A k \in Inside : k \in Consoles /\ k.x <= Columns
  BY <1>1 DEF Inside
<1> QED
  BY <1>1, <1>2, <1>3, <1>4

LEMMA ClearedInside == Cleared \in Inside
BY AllCells DEF Cleared, Inside

LEMMA StringStays ==
  ASSUME NEW s \in Seq(Glyphs \cup {NewLine})
  PROVE  /\ \A k \in Consoles : DrawnAll(k, s) \in Consoles
         /\ \A k \in Inside : DrawnAll(k, s) \in Inside
         /\ \A k \in Consoles : s # <<>> /\ s[1] = NewLine => DrawnAll(k, s) \in Inside
<1> DEFINE A == Glyphs \cup {NewLine}
<1>1. /\ \A k \in Consoles, a \in A : Drawn(k, a) \in Consoles
      /\ \A k \in Inside, a \in A : Drawn(k, a) \in Inside
      /\ \A k \in Consoles : Drawn(k, NewLine) \in Inside
  BY DrawnStays
<1> HIDE DEF A
<1>2. s \in Seq(A)
  BY DEF A
<1>3. ASSUME NEW k \in Consoles PROVE DrawnAll(k, s) \in Consoles
  BY <1>1, <1>2, DrawnAllStays
<1>4. ASSUME NEW k \in Inside PROVE DrawnAll(k, s) \in Inside
  BY <1>1, <1>2, DrawnAllStays
<1>5. ASSUME NEW k \in Consoles, s # <<>>, s[1] = NewLine PROVE DrawnAll(k, s) \in Inside
  BY <1>1, <1>2, <1>5, DrawnAllStays
<1> QED
  BY <1>3, <1>4, <1>5

-----------------------------------------------------------------------------
(* Where the characters of the line stand.                                 *)
HomeOK == home \in [x : 0 .. Columns, y : Int]

LEMMA PlaceOfCharacter ==
  ASSUME HomeOK, NEW i \in Nat
  PROVE  Column(i) \in 0 .. Columns /\ Row(i) \in Int
<1> DEFINE a == home.x + i
           w == Columns + 1
<1>1. a \in Nat /\ w \in Nat \ {0} /\ home.y \in Int /\ w - 1 = Columns
  BY DEF HomeOK
<1>2. Column(i) = a % w /\ Row(i) = home.y + a \div w
  BY DEF Column, Row
<1> HIDE DEF a, w
<1>3. PICK q \in Nat, r \in 0 .. w - 1 : a \div w = q /\ a % w = r
  BY <1>1, Division
<1> QED
  BY <1>1, <1>2, <1>3

LEMMA FirstPlace ==
  ASSUME HomeOK
  PROVE  Column(0) = home.x /\ Row(0) = home.y
<1> DEFINE a == home.x
           w == Columns + 1
<1>1. home.x + 0 = a /\ a \in 0 .. w - 1 /\ w \in Nat \ {0} /\ home.y \in Int
  BY DEF HomeOK
<1>2. Column(0) = a % w /\ Row(0) = home.y + a \div w
  BY <1>1 DEF Column, Row
<1>3. a = home.x
  OBVIOUS
<1> HIDE DEF a, w
<1>4. a \div w = 0 /\ a % w = a
  BY <1>1, FirstRow
<1>5. Column(0) = home.x
  BY <1>2, <1>3, <1>4
<1>6. Row(0) = home.y + 0
  BY <1>2, <1>4
<1>7. home.y + 0 = home.y
  BY <1>1
<1> QED
  BY <1>5, <1>6, <1>7

LEMMA PlaceOfNext ==
  ASSUME HomeOK, NEW i \in Nat
  PROVE  /\ Column(i) < Columns => Column(i + 1) = Column(i) + 1 /\ Row(i + 1) = Row(i)
         /\ Column(i) = Columns => Column(i + 1) = 0 /\ Row(i + 1) = Row(i) + 1
<1> DEFINE a == home.x + i
           w == Columns + 1
<1>1. /\ a \in Nat /\ w \in Nat \ {0} /\ home.y \in Int
      /\ home.x + (i + 1) = a + 1 /\ Columns = w - 1
  BY DEF HomeOK
<1>2. /\ Column(i) = a % w /\ Row(i) = home.y + a \div w
      /\ Column(i + 1) = (a + 1) % w /\ Row(i + 1) = home.y + ((a + 1) \div w)
  BY <1>1 DEF Column, Row
<1>3. a \div w \in Nat
  <2> HIDE DEF a, w
  <2> QED
    BY <1>1, Division
<1> HIDE DEF a, w
<1>4. /\ a % w < w - 1 => (a + 1) % w = (a % w) + 1 /\ (a + 1) \div w = a \div w
      /\ a % w = w - 1 => (a + 1) % w = 0 /\ (a + 1) \div w = (a \div w) + 1
  BY <1>1, NextPosition
<1> QED
  BY <1>1, <1>2, <1>3, <1>4

LEMMA PlacesDiffer ==
  ASSUME HomeOK, NEW i \in Nat, NEW j \in Nat, i < j
  PROVE  Row(i) <= Row(j) /\ (Row(i) = Row(j) => Column(i) # Column(j))
<1> DEFINE a == home.x + i
           b == home.x + j
           w == Columns + 1
<1>1. a \in Nat /\ b \in Nat /\ a < b /\ w \in Nat \ {0} /\ home.y \in Int
  BY DEF HomeOK
<1>2. /\ Column(i) = a % w /\ Row(i) = home.y + a \div w
      /\ Column(j) = b % w /\ Row(j) = home.y + b \div w
  BY DEF Column, Row
<1> HIDE DEF a, b, w
<1>3. a \div w \in Nat /\ b \div w \in Nat
  BY <1>1, Division
<1>4. a \div w <= b \div w /\ (a \div w = b \div w => a % w # b % w)
  BY <1>1, PositionsDiffer
<1> QED
  BY <1>1, <1>2, <1>3, <1>4

LEMMA TypesOfState ==
  ASSUME TypeOK
  PROVE  con \in Consoles /\ HomeOK /\ index \in Nat
BY DEF TypeOK, Consoles, HomeOK

-----------------------------------------------------------------------------
(* A new prompt.                                                           *)
Fresh ==
  /\ con \in Inside
  /\ buffer \in [0 .. BufferSize - 1 -> Symbols \cup {Nul}]
  /\ index = 0
  /\ home = Place(con)
  /\ lost = FALSE
  /\ ran \in Seq(Symbols)

LEMMA FreshHolds == Fresh => IInv
<1> SUFFICES ASSUME Fresh PROVE IInv
  OBVIOUS
<1>1. con \in Consoles /\ con.x \in 0 .. Columns /\ con.y \in 0 .. Rows - 2
  BY DEF Fresh, Inside, Consoles
<1>2. home = [x |-> con.x, y |-> con.y]
  BY DEF Fresh, Place
<1>3. HomeOK
  BY <1>1, <1>2 DEF HomeOK
<1>4. con \in [x : 0 .. FarColumn + BufferSize, y : 0 .. Rows - 2, cells : Cells, open : BOOLEAN]
  BY DEF Fresh, Inside
<1>5. TypeOK
  <2>1. index \in 0 .. BufferSize - 1
    BY DEF Fresh
  <2>3. lost \in BOOLEAN
    BY DEF Fresh
  <2>4. ran \in Seq(Symbols)
    BY DEF Fresh
  <2>2. buffer \in [0 .. BufferSize - 1 -> Symbols \cup {Nul}]
    BY DEF Fresh
  <2> QED
    BY <1>3, <1>4, <2>1, <2>2, <2>3, <2>4 DEF TypeOK, HomeOK
<1>6. CursorFollows
  <2>1. Column(0) = con.x /\ Row(0) = con.y
    BY <1>2, <1>3, FirstPlace
  <2> QED
    BY <2>1 DEF CursorFollows, Fresh
<1>7. LineShown /\ LineTyped /\ MaskHolds
  BY DEF Fresh, LineShown, LineTyped, MaskHolds
<1>8. CursorBound
  BY <1>1 DEF Fresh, CursorBound
<1> QED
  BY <1>5, <1>6, <1>7, <1>8 DEF IInv, LineOnScreen

LEMMA InitHolds == Init => IInv
<1> SUFFICES ASSUME Init PROVE Fresh
  BY FreshHolds
<1>1. Info \o Prompt \in Seq(Glyphs \cup {NewLine})
  OBVIOUS
<1>2. con \in Inside
  BY <1>1, StringStays, ClearedInside DEF Init
<1> QED
  BY <1>2 DEF Init, Fresh

-----------------------------------------------------------------------------
(* ENTER.                                                                  *)

(* What the buffer holds up to the 0 that ENTER puts there is the line.    *)
LEMMA ReadEnded ==
  ASSUME TypeOK, LineTyped
  PROVE  /\ Ended(buffer, index) \in [0 .. BufferSize - 1 -> Symbols \cup {Nul}]
         /\ Read(Ended(buffer, index)) = [i \in 1 .. index |-> buffer[i - 1]]
         /\ Read(Ended(buffer, index)) \in Seq(Symbols)
<1> DEFINE b == Ended(buffer, index)
           N(n) == b[n] = Nul /\ \A i \in 0 .. n - 1 : b[i] # Nul
           n0 == CHOOSE n \in 0 .. BufferSize - 1 : N(n)
<1>1. /\ index \in 0 .. BufferSize - 1
      /\ b \in [0 .. BufferSize - 1 -> Symbols \cup {Nul}]
      /\ b[index] = Nul /\ \A i \in 0 .. index - 1 : b[i] = buffer[i] /\ buffer[i] \in Symbols
  BY DEF TypeOK, LineTyped, Ended
<1>2. Nul \notin Symbols
  OBVIOUS
<1>3. Read(b) = [i \in 1 .. n0 |-> b[i - 1]]
  BY DEF Read
<1> HIDE DEF b
<1>4. N(index)
  BY <1>1, <1>2
<1>5. \A n \in 0 .. BufferSize - 1 : N(n) => n = index
  <2> SUFFICES ASSUME NEW n \in 0 .. BufferSize - 1, N(n), n # index PROVE FALSE
    OBVIOUS
  <2>1. CASE n < index
    <3>1. n \in 0 .. index - 1
      BY <1>1, <2>1
    <3> QED
      BY <1>1, <1>2, <3>1
  <2>2. CASE index < n
    <3>1. index \in 0 .. n - 1
      BY <1>1, <2>2
    <3> QED
      BY <1>1, <3>1
  <2> QED
    BY <1>1, <2>1, <2>2
<1>6. n0 = index
  <2> HIDE DEF N
  <2> QED
    BY <1>1, <1>4, <1>5
<1> HIDE DEF n0
<1>7. Read(b) = [i \in 1 .. index |-> buffer[i - 1]]
  <2>1. \A i \in 1 .. index : i - 1 \in 0 .. index - 1
    BY <1>1
  <2>2. \A i \in 1 .. index : b[i - 1] = buffer[i - 1]
    BY <1>1, <2>1
  <2> QED
    BY <1>3, <1>6, <2>2
<1>8. [i \in 1 .. index |-> buffer[i - 1]] \in Seq(Symbols)
  <2>1. \A i \in 1 .. index : buffer[i - 1] \in Symbols
    BY <1>1
  <2> QED
    BY <1>1, <2>1
<1> QED
  BY <1>1, <1>7, <1>8 DEF b

LEMMA SplitType ==
  ASSUME NEW b \in [0 .. BufferSize - 1 -> Symbols \cup {Nul}]
  PROVE  Split(b) \in [0 .. BufferSize - 1 -> Symbols \cup {Nul}]
<1> DEFINE old(i) == i < Len(Read(b)) /\ b[i] = Space
<1>1. Split(b) = [i \in DOMAIN b |-> IF old(i) THEN Nul ELSE b[i]]
  BY DEF Split
<1> HIDE DEF old
<1> QED
  BY <1>1

LEMMA EnterHolds ==
  ASSUME IInv, Enter
  PROVE  IInv'
<1>1. TypeOK /\ LineTyped
  BY DEF IInv, LineOnScreen
<1>2. con \in Consoles
  BY <1>1, TypesOfState
<1>3. PICK shown : /\ \/ shown = con
                      \/ shown = DrawnAll(Cleared, Info)
                      \/ \E o \in Outputs : shown = DrawnAll(con, o)
                   /\ con' = DrawnAll(shown, <<NewLine>> \o Prompt)
  <2>1. PICK shown \in IF Read(Ended(buffer, index)) = <<>> THEN {con}
                       ELSE {DrawnAll(Cleared, Info)} \cup {DrawnAll(con, o) : o \in Outputs} :
          con' = DrawnAll(shown, <<NewLine>> \o Prompt)
    BY DEF Enter
  <2> QED
    BY <2>1
<1>4. shown \in Consoles
  <2>1. Cleared \in Consoles
    BY ClearedInside DEF Inside, Consoles
  <2>2. Info \in Seq(Glyphs \cup {NewLine}) /\ \A o \in Outputs : o \in Seq(Glyphs \cup {NewLine})
    OBVIOUS
  <2> QED
    BY <1>2, <1>3, <2>1, <2>2, StringStays
<1>5. con' \in Inside
  <2> DEFINE s == <<NewLine>> \o Prompt
  <2>1. s \in Seq(Glyphs \cup {NewLine}) /\ s # <<>> /\ s[1] = NewLine
    <3>1. Prompt \in Seq(Glyphs \cup {NewLine}) /\ <<NewLine>> \in Seq(Glyphs \cup {NewLine})
      OBVIOUS
    <3>2. s \in Seq(Glyphs \cup {NewLine}) /\ Len(s) = 1 + Len(Prompt)
      BY <3>1
    <3>3. Len(Prompt) \in Nat /\ Len(<<NewLine>>) = 1 /\ <<NewLine>>[1] = NewLine
      BY <3>1
    <3>4. s[1] = NewLine
      BY <3>1, <3>3
    <3> QED
      BY <3>2, <3>3, <3>4
  <2> HIDE DEF s
  <2>2. DrawnAll(shown, s) \in Inside
    BY <1>4, <2>1, StringStays
  <2> QED
    BY <1>3, <2>2 DEF s
<1>6. buffer' \in [0 .. BufferSize - 1 -> Symbols \cup {Nul}] /\ ran' \in Seq(Symbols)
  BY <1>1, ReadEnded, SplitType DEF Enter
<1>7. Fresh'
  <2>1. index' = 0 /\ home' = Place(con') /\ lost' = FALSE
    BY DEF Enter
  <2>2. Place(con') = Place(con)'
    BY DEF Place
  <2> QED
    BY <1>5, <1>6, <2>1 DEF Fresh, Inside, Cells, Place
<1>8. Fresh' => IInv'
  BY FreshHolds, PTL
<1> QED
  BY <1>7, <1>8

-----------------------------------------------------------------------------
(* A character.                                                            *)
LEMMA TypeHolds ==
  ASSUME IInv, NEW c \in Symbols, Type(c)
  PROVE  IInv'
<1>1. /\ TypeOK /\ CursorFollows /\ LineShown /\ LineTyped /\ CursorBound /\ MaskHolds
      /\ con \in Consoles /\ HomeOK
  BY TypesOfState DEF IInv, LineOnScreen
<1>2. /\ c \in Glyphs /\ c # NewLine /\ c \notin Tall
  OBVIOUS
<1>3. /\ con.x \in Nat /\ con.x <= FarColumn + index /\ con.y \in 0 .. Rows - 2
      /\ con.open \in BOOLEAN /\ con.cells \in Cells
      /\ home.x \in 0 .. Columns /\ home.y \in Int
  BY <1>1 DEF Consoles, HomeOK, CursorBound
<1>4. /\ index \in 0 .. BufferSize - 2 /\ index' = index + 1 /\ index' \in 0 .. BufferSize - 1
      /\ buffer \in [0 .. BufferSize - 1 -> Symbols \cup {Nul}]
      /\ buffer' = [buffer EXCEPT ![index] = c]
      /\ con' = Drawn(con, c) /\ lost' = lost /\ ran' = ran
  <2>1. index \in 0 .. BufferSize - 1 /\ buffer \in [0 .. BufferSize - 1 -> Symbols \cup {Nul}]
    BY <1>1 DEF TypeOK
  <2>2. /\ index < BufferSize - 1 /\ index' = index + 1 /\ buffer' = [buffer EXCEPT ![index] = c]
        /\ con' = Drawn(con, c) /\ lost' = lost /\ ran' = ran
    BY DEF Type
  <2> QED
    BY <2>1, <2>2
<1>5. /\ buffer' \in [0 .. BufferSize - 1 -> Symbols \cup {Nul}]
      /\ buffer'[index] = c /\ \A i \in 0 .. index - 1 : buffer'[i] = buffer[i]
  BY <1>4
<1>6. LineTyped'
  <2>1. \A i \in 0 .. index' - 1 : i = index \/ i \in 0 .. index - 1
    BY <1>4
  <2> QED
    BY <1>1, <1>5, <2>1 DEF LineTyped
<1>7. /\ Column(index) \in 0 .. Columns /\ Row(index) \in Int
      /\ \A i \in 0 .. index : Column(i) \in 0 .. Columns /\ Row(i) \in Int
  <2>1. index \in Nat /\ \A i \in 0 .. index : i \in Nat
    BY <1>4
  <2> QED
    BY <1>1, <2>1, PlaceOfCharacter
<1>8. \A i \in 0 .. index - 1 :
        Row(i) <= Row(index) /\ (Row(i) = Row(index) => Column(i) # Column(index))
  BY <1>1, <1>4, PlacesDiffer
<1>9. CASE con.x # Columns
  <2>1. con' = Pictured(con, c)
    BY <1>2, <1>4, <1>9 DEF Drawn
  <2>2. /\ con' \in Consoles /\ con'.x = con.x + 1 /\ con'.y = con.y /\ ~con'.open
        /\ con.x < Columns => con'.cells = Put(con.cells, con.y, con.x, c)
    <3>1. con'.open = (c \in Tall)
      BY <1>1, <1>2, <2>1, PicturedRecord
    <3>2. ~con'.open
      BY <1>2, <3>1, Zenon
    <3> QED
      BY <1>1, <1>2, <2>1, <3>2, PicturedRecord
  <2>3. home' = home
    BY <1>9 DEF Type
  <2>4. \A i : Column(i)' = Column(i) /\ Row(i)' = Row(i)
    BY <2>3 DEF Column, Row
  <2>5. CursorBound'
    BY <1>3, <1>4, <2>2 DEF CursorBound
  <2>6. TypeOK'
    <3>1. con' \in [x : 0 .. FarColumn + BufferSize, y : 0 .. Rows - 2, cells : Cells, open : BOOLEAN]
      BY <1>3, <1>4, <2>2 DEF Consoles
    <3> QED
      BY <1>1, <1>4, <1>5, <2>3, <3>1 DEF TypeOK, Cells
  <2>7. CursorFollows'
    <3> SUFFICES ASSUME ~lost'
                 PROVE  con'.x = Column(index + 1) /\ con'.y = Row(index + 1)
      BY <1>4, <2>4 DEF CursorFollows
    <3>1. con.x = Column(index) /\ con.y = Row(index)
      BY <1>1, <1>4 DEF CursorFollows
    <3>2. Column(index) < Columns
      BY <1>7, <1>9, <3>1
    <3>3. Column(index + 1) = Column(index) + 1 /\ Row(index + 1) = Row(index)
      BY <1>1, <1>4, <3>2, PlaceOfNext
    <3> QED
      BY <2>2, <3>1, <3>3
  <2>8. LineShown'
    <3> SUFFICES ASSUME ~lost', NEW i \in 0 .. index, Column(i) < Columns, Row(i) >= 0
                 PROVE  con'.cells[Row(i)][Column(i)] = buffer'[i]
      BY <1>4, <2>4 DEF LineShown, Visible
    <3>1. con.x = Column(index) /\ con.y = Row(index) /\ con.x < Columns
      BY <1>1, <1>4, <1>7, <1>9 DEF CursorFollows
    <3>2. con'.cells = Put(con.cells, con.y, con.x, c)
      BY <2>2, <3>1
    <3>3. CASE i = index
      <4>1. con.y \in 0 .. Rows /\ con.x \in 0 .. Columns - 1
        BY <1>3, <3>1
      <4>2. con'.cells[con.y][con.x] = c
        BY <1>3, <3>2, <4>1, CellChanged
      <4> QED
        BY <1>5, <3>1, <3>3, <4>2
    <3>4. CASE i # index
      <4>1. i \in 0 .. index - 1
        BY <1>4, <3>4
      <4>2. Row(i) \in 0 .. Rows /\ Column(i) \in 0 .. Columns - 1
            /\ ~(Row(i) = con.y /\ Column(i) = con.x)
        BY <1>3, <1>7, <1>8, <3>1, <4>1
      <4>3. con'.cells[Row(i)][Column(i)] = con.cells[Row(i)][Column(i)]
        <5>1. con.y \in 0 .. Rows /\ con.x \in 0 .. Columns - 1
          BY <1>3, <3>1
        <5>2. \A r \in 0 .. Rows, j \in 0 .. Columns - 1 :
                ~(r = con.y /\ j = con.x) => con'.cells[r][j] = con.cells[r][j]
          <6>1. con.cells \in Cells
            BY <1>3
          <6> QED
            BY <3>2, <5>1, <6>1, CellChanged
        <5> QED
          BY <4>2, <5>2
      <4>4. con.cells[Row(i)][Column(i)] = buffer[i]
        BY <1>1, <1>4, <4>1 DEF LineShown, Visible
      <4> QED
        BY <1>5, <4>1, <4>3, <4>4
    <3> QED
      BY <3>3, <3>4
  <2>9. MaskHolds'
    BY <2>2 DEF MaskHolds
  <2> QED
    BY <1>6, <2>5, <2>6, <2>7, <2>8, <2>9 DEF IInv, LineOnScreen
<1>10. CASE con.x = Columns
  <2>1. con' = BrokenLine(con)
    BY <1>4, <1>10 DEF Drawn
  <2>2. /\ con' \in Inside /\ con'.x = 0 /\ con'.open = con.open
        /\ con.y < Rows - 2 => con'.y = con.y + 1 /\ con'.cells = con.cells
        /\ con.y = Rows - 2 =>
             /\ con'.y = con.y
             /\ ~con.open => \A r \in 0 .. Rows - 1 : con'.cells[r] = con.cells[r + 1]
    BY <1>1, <2>1, LineBroken
  <2>3. con.y < Rows - 2 \/ con.y = Rows - 2
    BY <1>3
  <2>4. /\ con.y < Rows - 2 => home' = home
        /\ con.y = Rows - 2 => home' = [home EXCEPT !.y = @ - 1]
    <3>1. home' = IF con'.y = con.y THEN [home EXCEPT !.y = @ - 1] ELSE home
      BY <1>10 DEF Type
    <3>2. con.y + 1 # con.y
      BY <1>3
    <3> QED
      BY <2>2, <3>1, <3>2
  <2>5. /\ home' \in [x : 0 .. Columns, y : Int] /\ home'.x = home.x
        /\ con.y < Rows - 2 => home'.y = home.y
        /\ con.y = Rows - 2 => home'.y = home.y - 1
    BY <1>1, <2>3, <2>4 DEF HomeOK
  <2>6. \A i \in 0 .. index + 1 :
          /\ Column(i)' = Column(i)
          /\ con.y < Rows - 2 => Row(i)' = Row(i)
          /\ con.y = Rows - 2 => Row(i)' = Row(i) - 1
    <3> SUFFICES ASSUME NEW i \in 0 .. index + 1
                 PROVE  /\ Column(i)' = Column(i)
                        /\ con.y < Rows - 2 => Row(i)' = Row(i)
                        /\ con.y = Rows - 2 => Row(i)' = Row(i) - 1
      OBVIOUS
    <3> DEFINE down == (home.x + i) \div (Columns + 1)
    <3>1. /\ Column(i)' = Column(i) /\ Row(i) = home.y + down /\ Row(i)' = home'.y + down
      BY <2>5 DEF Column, Row
    <3>2. down \in Nat
      <4> DEFINE a == home.x + i
                 w == Columns + 1
      <4>1. a \in Nat /\ w \in Nat \ {0} /\ down = a \div w
        BY <1>3, <1>4
      <4> HIDE DEF a, w, down
      <4> QED
        BY <4>1, Division
    <3> HIDE DEF down
    <3> QED
      BY <1>3, <2>5, <3>1, <3>2
  <2>7. CursorBound'
    BY <1>3, <1>4, <2>2 DEF CursorBound
  <2>8. TypeOK'
    <3>1. con' \in [x : 0 .. FarColumn + BufferSize, y : 0 .. Rows - 2, cells : Cells, open : BOOLEAN]
      BY <2>2 DEF Inside
    <3> QED
      BY <1>1, <1>4, <1>5, <2>5, <3>1 DEF TypeOK, Cells
  <2>9. CursorFollows'
    <3> SUFFICES ASSUME ~lost' PROVE (con.x = Column(index))' /\ (con.y = Row(index))'
      BY DEF CursorFollows
    <3> PICK next \in Nat : next = index + 1
      BY <1>4
    <3>1. con.x = Column(index) /\ con.y = Row(index)
      BY <1>1, <1>4 DEF CursorFollows
    <3>2. Column(next) = 0 /\ Row(next) = Row(index) + 1
      BY <1>1, <1>4, <1>10, <3>1, PlaceOfNext
    <3>3. /\ Column(next)' = 0
          /\ con.y < Rows - 2 => Row(next)' = con.y + 1
          /\ con.y = Rows - 2 => Row(next)' = con.y
      <4>1. next \in 0 .. index + 1
        BY <1>4
      <4> QED
        BY <1>3, <2>6, <3>1, <3>2, <4>1
    <3>4. con'.x = Column(next)' /\ con'.y = Row(next)'
      BY <2>2, <2>3, <3>3
    <3> QED
      BY <1>4, <3>4 DEF Column, Row
  <2>10. ASSUME ~lost', NEW i \in 0 .. index, Visible(i)'
         PROVE  i \in 0 .. index - 1 /\ Visible(i)
    <3>1. Column(index) = Columns
      BY <1>1, <1>4, <1>10, <2>10 DEF CursorFollows
    <3>2. Column(i) < Columns /\ Row(i)' >= 0
      BY <1>4, <2>6, <2>10 DEF Visible
    <3>3. i # index
      BY <1>7, <3>1, <3>2
    <3>4. Row(i) >= 0
      BY <1>4, <1>7, <2>3, <2>6, <3>2
    <3> QED
      BY <1>4, <3>2, <3>3, <3>4 DEF Visible
  <2>11. LineShown'
    <3> SUFFICES ASSUME ~lost', NEW i \in 0 .. index, Visible(i)'
                 PROVE  con'.cells[Row(i)'][Column(i)'] = buffer'[i]
      BY <1>4 DEF LineShown
    <3>1. i \in 0 .. index - 1 /\ Visible(i)
      BY <2>10
    <3>2. con.cells[Row(i)][Column(i)] = buffer[i]
      BY <1>1, <1>4, <3>1 DEF LineShown
    <3>3. con'.cells[Row(i)'] = con.cells[Row(i)]
      <4>1. CASE con.y < Rows - 2
        BY <1>4, <2>2, <2>6, <4>1
      <4>2. CASE con.y = Rows - 2
        <5>1. ~con.open
          BY <1>1, <1>4, <3>1 DEF MaskHolds
        <5>2. Row(i)' = Row(i) - 1 /\ Row(i)' >= 0
          BY <1>4, <2>6, <4>2 DEF Visible
        <5>3. Row(i) <= con.y
          BY <1>1, <1>4, <1>8, <3>1 DEF CursorFollows
        <5>4. Row(i) - 1 \in 0 .. Rows - 1 /\ Row(i) - 1 + 1 = Row(i)
          BY <1>3, <1>7, <5>2, <5>3
        <5> QED
          BY <2>2, <4>2, <5>1, <5>2, <5>4
      <4> QED
        BY <2>3, <4>1, <4>2
    <3> QED
      BY <1>4, <1>5, <2>6, <3>1, <3>2, <3>3
  <2>12. MaskHolds'
    <3> SUFFICES ASSUME ~lost', con'.open, NEW i \in 0 .. index, Visible(i)' PROVE FALSE
      BY <1>4 DEF MaskHolds
    <3>1. i \in 0 .. index - 1 /\ Visible(i)
      BY <2>10
    <3> QED
      BY <1>1, <1>4, <2>2, <3>1 DEF MaskHolds
  <2> QED
    BY <1>6, <2>7, <2>8, <2>9, <2>11, <2>12 DEF IInv, LineOnScreen
<1> QED
  BY <1>9, <1>10

-----------------------------------------------------------------------------
(* BACKSPACE.                                                              *)
LEMMA EraseHolds ==
  ASSUME IInv, Erase
  PROVE  IInv'
<1> DEFINE back == (con.x - 1) % FarColumn
           at == [con EXCEPT !.x = back]
           blank == Drawn(at, Space)
<1>1. /\ TypeOK /\ CursorFollows /\ LineShown /\ LineTyped /\ CursorBound /\ MaskHolds
      /\ con \in Consoles /\ HomeOK
  BY TypesOfState DEF IInv, LineOnScreen
<1>2. /\ con.x \in Nat /\ con.y \in 0 .. Rows - 2
      /\ con.open \in BOOLEAN /\ con.cells \in Cells
      /\ home.x \in 0 .. Columns /\ home.y \in Int
  BY <1>1 DEF Consoles, HomeOK
<1>3. back \in 0 .. FarColumn - 1 /\ (con.x \in 1 .. Columns => back = con.x - 1)
  <2>1. FarColumn \in Nat \ {0} /\ con.x - 1 \in Int
    BY <1>2
  <2>2. back \in 0 .. FarColumn - 1
    BY <2>1
  <2>3. ASSUME con.x \in 1 .. Columns PROVE back = con.x - 1
    <3>1. con.x - 1 \in 0 .. FarColumn - 1
      BY <2>3
    <3> QED
      BY <2>1, <3>1, FirstRow
  <2> QED
    BY <2>2, <2>3
<1>4. con' = [blank EXCEPT !.x = back]
  BY DEF Erase
<1> HIDE DEF back
<1>5. at \in Consoles /\ at.x = back /\ at.y = con.y /\ at.cells = con.cells
  <2>1. PICK x, y, cells, open :
          con = [x |-> x, y |-> y, cells |-> cells, open |-> open]
    BY <1>1, ConsoleRecord
  <2>2. at = [x |-> back, y |-> y, cells |-> cells, open |-> open]
    BY <2>1
  <2>3. y = con.y /\ cells = con.cells /\ open = con.open
    BY <2>1
  <2> HIDE DEF at
  <2> QED
    BY <1>2, <1>3, <2>2, <2>3 DEF Consoles
<1> HIDE DEF at
<1>6. Space \in Glyphs /\ Space # NewLine /\ Space \notin Tall
  OBVIOUS
<1>7. blank \in Consoles
  BY <1>5, <1>6, DrawnStays
<1> HIDE DEF blank
<1>8. /\ con' \in Consoles /\ con'.x = back
      /\ con'.y = blank.y /\ con'.cells = blank.cells /\ con'.open = blank.open
  <2>1. PICK x, y, cells, open :
          blank = [x |-> x, y |-> y, cells |-> cells, open |-> open]
    BY <1>7, ConsoleRecord
  <2>2. con' = [x |-> back, y |-> y, cells |-> cells, open |-> open]
    BY <1>4, <2>1
  <2>3. y = blank.y /\ cells = blank.cells /\ open = blank.open
    BY <2>1
  <2> QED
    BY <1>3, <1>7, <2>2, <2>3 DEF Consoles
<1>9. /\ index \in 1 .. BufferSize - 1 /\ index' = index - 1 /\ index' \in 0 .. BufferSize - 1
      /\ buffer \in [0 .. BufferSize - 1 -> Symbols \cup {Nul}]
      /\ buffer' = [buffer EXCEPT ![index - 1] = Nul]
      /\ lost' = (lost \/ con.x = 0) /\ home' = home /\ ran' = ran
  <2>1. index \in 0 .. BufferSize - 1 /\ buffer \in [0 .. BufferSize - 1 -> Symbols \cup {Nul}]
    BY <1>1 DEF TypeOK
  <2>2. /\ index # 0 /\ index' = index - 1 /\ buffer' = [buffer EXCEPT ![index - 1] = Nul]
        /\ lost' = (lost \/ con.x = 0) /\ home' = home /\ ran' = ran
    BY DEF Erase
  <2> QED
    BY <2>1, <2>2
<1>10. /\ buffer' \in [0 .. BufferSize - 1 -> Symbols \cup {Nul}]
       /\ \A i \in 0 .. index - 2 : buffer'[i] = buffer[i]
  BY <1>9
<1>11. TypeOK'
  <2>1. con' \in [x : 0 .. FarColumn + BufferSize, y : 0 .. Rows - 2, cells : Cells, open : BOOLEAN]
    BY <1>3, <1>8 DEF Consoles
  <2>2. lost' \in BOOLEAN /\ ran' \in Seq(Symbols) /\ home' \in [x : 0 .. Columns, y : Int]
    BY <1>1, <1>9 DEF TypeOK
  <2> QED
    BY <1>9, <1>10, <2>1, <2>2 DEF TypeOK, Cells
<1>12. LineTyped'
  <2>1. \A i \in 0 .. index' - 1 : i \in 0 .. index - 1 /\ i \in 0 .. index - 2
    BY <1>9
  <2> QED
    BY <1>1, <1>10, <2>1 DEF LineTyped
<1>13. CursorBound'
  BY <1>3, <1>8, <1>9 DEF CursorBound
<1>14. \A i : Column(i)' = Column(i) /\ Row(i)' = Row(i)
  BY <1>9 DEF Column, Row
<1>15. PICK last \in Nat : last = index - 1 /\ last = index'
  BY <1>9
<1>16. ASSUME ~lost'
       PROVE  /\ ~lost /\ back = Column(last) /\ con.y = Row(last) /\ back < Columns
              /\ con'.y = con.y /\ ~con'.open
              /\ con'.cells = Put(con.cells, con.y, back, Space)
  <2>1. ~lost /\ con.x # 0
    BY <1>9, <1>16
  <2>2. con.x = Column(last + 1) /\ con.y = Row(last + 1)
    BY <1>1, <1>9, <1>15, <2>1 DEF CursorFollows
  <2>3. Column(last) \in 0 .. Columns /\ Column(last + 1) \in 0 .. Columns /\ last + 1 \in Nat
    <3>1. last \in Nat /\ last + 1 \in Nat
      BY <1>15
    <3> QED
      BY <1>1, <3>1, PlaceOfCharacter
  <2>4. /\ Column(last) < Columns => Column(last + 1) = Column(last) + 1 /\ Row(last + 1) = Row(last)
        /\ Column(last) = Columns => Column(last + 1) = 0
    BY <1>1, <1>15, PlaceOfNext
  <2>5. Column(last) < Columns /\ con.x = Column(last) + 1 /\ con.y = Row(last)
    BY <2>1, <2>2, <2>3, <2>4
  <2>6. back = Column(last) /\ back < Columns
    BY <1>2, <1>3, <2>3, <2>5
  <2>7. blank = Pictured(at, Space)
    BY <1>5, <1>6, <2>6 DEF blank, Drawn
  <2>8. /\ blank.y = con.y /\ blank.open = (Space \in Tall)
        /\ blank.cells = Put(con.cells, con.y, back, Space)
    BY <1>5, <1>6, <2>6, <2>7, PicturedRecord
  <2>9. ~blank.open
    BY <1>6, <2>8, Zenon
  <2> QED
    BY <1>8, <2>1, <2>5, <2>6, <2>8, <2>9
<1>17. CursorFollows'
  <2> SUFFICES ASSUME ~lost' PROVE (con.x = Column(index))' /\ (con.y = Row(index))'
    BY DEF CursorFollows
  <2>1. con'.x = Column(last)' /\ con'.y = Row(last)'
    BY <1>8, <1>14, <1>16 DEF Column, Row
  <2> QED
    BY <1>15, <2>1 DEF Column, Row
<1>18. LineShown'
  <2> SUFFICES ASSUME ~lost', NEW i \in 0 .. index - 2, Column(i) < Columns, Row(i) >= 0
               PROVE  con'.cells[Row(i)][Column(i)] = buffer'[i]
    BY <1>9, <1>14 DEF LineShown, Visible
  <2>1. i \in Nat /\ i < last /\ i \in 0 .. index - 1
    BY <1>9, <1>15
  <2>2. Row(i) <= Row(last) /\ (Row(i) = Row(last) => Column(i) # Column(last))
    BY <1>1, <1>15, <2>1, PlacesDiffer
  <2>3. Column(i) \in 0 .. Columns /\ Row(i) \in Int
    BY <1>1, <2>1, PlaceOfCharacter
  <2>4. /\ Row(i) \in 0 .. Rows /\ Column(i) \in 0 .. Columns - 1
        /\ ~(Row(i) = con.y /\ Column(i) = back)
    BY <1>2, <1>16, <2>2, <2>3
  <2>5. con'.cells[Row(i)][Column(i)] = con.cells[Row(i)][Column(i)]
    <3>1. con.y \in 0 .. Rows /\ back \in 0 .. Columns - 1
      BY <1>2, <1>3, <1>16
    <3>2. con'.cells = Put(con.cells, con.y, back, Space)
      BY <1>16
    <3>3. \A r \in 0 .. Rows, j \in 0 .. Columns - 1 :
            ~(r = con.y /\ j = back) => con'.cells[r][j] = con.cells[r][j]
      BY <1>2, <3>1, <3>2, CellChanged
    <3> QED
      BY <2>4, <3>3
  <2>6. con.cells[Row(i)][Column(i)] = buffer[i]
    BY <1>1, <1>16, <2>1 DEF LineShown, Visible
  <2> QED
    BY <1>10, <2>5, <2>6
<1>19. MaskHolds'
  BY <1>16 DEF MaskHolds
<1> QED
  BY <1>11, <1>12, <1>13, <1>17, <1>18, <1>19 DEF IInv, LineOnScreen

-----------------------------------------------------------------------------
(* The cursor follows the line through wraps, scrolls and erasures, and    *)
(* every character of the line that can be seen is the one in the buffer.  *)
THEOREM TerminalInvariant == Spec => []IInv
<1>1. Init => IInv
  BY InitHolds
<1>2. IInv /\ [Next]_vars => IInv'
  <2> SUFFICES ASSUME IInv, [Next]_vars PROVE IInv'
    OBVIOUS
  <2>1. CASE Enter
    BY <2>1, EnterHolds
  <2>2. CASE Erase
    BY <2>2, EraseHolds
  <2>3. ASSUME NEW c \in Symbols, Type(c) PROVE IInv'
    BY <2>3, TypeHolds
  <2>4. CASE UNCHANGED vars
    <3>1. IInv <=> IInv'
      BY <2>4 DEF vars, IInv, LineOnScreen, TypeOK, CursorFollows, LineShown, LineTyped,
                  CursorBound, MaskHolds, Visible, Column, Row, Cells
    <3> QED
      BY <3>1
  <2> QED
    BY <2>1, <2>2, <2>3, <2>4 DEF Next
<1> QED
  BY <1>1, <1>2, PTL DEF Spec

(* vga_640_480_draw_char and shell_programm: what stands on the screen is  *)
(* what ENTER executes.                                                    *)
THEOREM ShownIsExecuted == Spec => []LineOnScreen
<1>1. IInv => LineOnScreen
  BY DEF IInv
<1> QED
  BY <1>1, TerminalInvariant, PTL

-----------------------------------------------------------------------------
(* The line handed to execute is the one the editor promises.              *)
LineTypedSoFar == [i \in 1 .. index |-> buffer[i - 1]]

LEMMA LineReads ==
  ASSUME TypeOK, LineTyped
  PROVE  /\ LineTypedSoFar \in Seq(Symbols) /\ Len(LineTypedSoFar) = index
         /\ index \in 0 .. BufferSize - 1
         /\ \A i \in 1 .. index : LineTypedSoFar[i] = buffer[i - 1]
<1>1. index \in 0 .. BufferSize - 1
  BY DEF TypeOK
<1>2. \A i \in 1 .. index : buffer[i - 1] \in Symbols
  BY <1>1 DEF LineTyped
<1> QED
  BY <1>1, <1>2 DEF LineTypedSoFar

LEMMA EditorInit ==
  ASSUME Init
  PROVE  Editor!Init
<1>1. LineTypedSoFar = <<>>
  BY DEF Init, LineTypedSoFar
<1> QED
  BY <1>1 DEF Init, LineTypedSoFar, Editor!Init

LEMMA EditorStep ==
  ASSUME IInv, [Next]_vars
  PROVE  [Editor!Next]_(Editor!vars)
<1>1. TypeOK /\ LineTyped
  BY DEF IInv, LineOnScreen
<1>2. /\ LineTypedSoFar \in Seq(Symbols) /\ Len(LineTypedSoFar) = index
      /\ index \in 0 .. BufferSize - 1
      /\ \A i \in 1 .. index : LineTypedSoFar[i] = buffer[i - 1]
  BY <1>1, LineReads
<1>3. buffer \in [0 .. BufferSize - 1 -> Symbols \cup {Nul}]
  BY <1>1 DEF TypeOK
<1>4. LineTypedSoFar' = [i \in 1 .. index' |-> buffer'[i - 1]]
  BY DEF LineTypedSoFar
<1>5. ASSUME Enter PROVE Editor!Take
  <2>1. ran' = LineTypedSoFar
    BY <1>1, <1>5, ReadEnded DEF Enter, LineTypedSoFar
  <2>2. LineTypedSoFar' = <<>>
    BY <1>4, <1>5 DEF Enter
  <2> QED
    BY <2>1, <2>2 DEF Editor!Take, LineTypedSoFar
<1>6. ASSUME Erase PROVE Editor!Erase
  <2>1. /\ index # 0 /\ index' = index - 1 /\ ran' = ran
        /\ buffer' = [buffer EXCEPT ![index - 1] = Nul]
    BY <1>6 DEF Erase
  <2>2. LineTypedSoFar # <<>>
    BY <1>2, <2>1
  <2>3. \A i \in 1 .. index - 1 : buffer'[i - 1] = LineTypedSoFar[i]
    <3> SUFFICES ASSUME NEW i \in 1 .. index - 1 PROVE buffer'[i - 1] = LineTypedSoFar[i]
      OBVIOUS
    <3>1. i - 1 \in 0 .. BufferSize - 1 /\ i - 1 # index - 1 /\ i \in 1 .. index
      BY <1>2
    <3> QED
      BY <1>2, <1>3, <2>1, <3>1
  <2>4. LineTypedSoFar' = [i \in 1 .. index - 1 |-> LineTypedSoFar[i]]
    BY <1>4, <2>1, <2>3
  <2>5. LineTypedSoFar' = SubSeq(LineTypedSoFar, 1, Len(LineTypedSoFar) - 1)
    <3> DEFINE s == LineTypedSoFar
    <3>1. SubSeq(s, 1, index - 1) = [i \in 1 .. index - 1 |-> s[i]]
      <4> HIDE DEF s
      <4>1. s \in Seq(Symbols) /\ Len(s) = index /\ index \in Nat
        BY <1>2 DEF s
      <4> QED
        BY <4>1
    <3> QED
      BY <1>2, <2>4, <3>1
  <2> QED
    BY <2>1, <2>2, <2>5 DEF Editor!Erase, LineTypedSoFar
<1>7. ASSUME NEW c \in Symbols, Type(c) PROVE Editor!Type(c)
  <2>1. /\ index < BufferSize - 1 /\ index' = index + 1 /\ ran' = ran
        /\ buffer' = [buffer EXCEPT ![index] = c]
    BY <1>7 DEF Type
  <2>2. /\ \A i \in 1 .. index : buffer'[i - 1] = LineTypedSoFar[i]
        /\ buffer'[index] = c
    <3>1. \A i \in 1 .. index : i - 1 \in 0 .. BufferSize - 1 /\ i - 1 # index
      BY <1>2
    <3> QED
      BY <1>2, <1>3, <2>1, <3>1
  <2>3. \A i \in 1 .. index + 1 :
          buffer'[i - 1] = IF i <= index THEN LineTypedSoFar[i] ELSE c
    <3>1. \A i \in 1 .. index + 1 : i \in 1 .. index \/ i = index + 1
      BY <1>2
    <3> QED
      BY <1>2, <2>2, <3>1
  <2>4. LineTypedSoFar' = Append(LineTypedSoFar, c)
    <3>1. /\ Append(LineTypedSoFar, c) \in Seq(Symbols)
          /\ Len(Append(LineTypedSoFar, c)) = index + 1
          /\ \A i \in 1 .. index : Append(LineTypedSoFar, c)[i] = LineTypedSoFar[i]
          /\ Append(LineTypedSoFar, c)[index + 1] = c
      BY <1>2, AppendProperties
    <3>2. /\ LineTypedSoFar' \in Seq(Symbols) /\ Len(LineTypedSoFar') = index + 1
          /\ \A i \in 1 .. index + 1 : LineTypedSoFar'[i] = buffer'[i - 1]
      <4>1. LineTypedSoFar' = [i \in 1 .. index + 1 |-> buffer'[i - 1]]
        BY <1>4, <2>1
      <4>2. \A i \in 1 .. index + 1 : buffer'[i - 1] \in Symbols
        <5>1. \A i \in 1 .. index : LineTypedSoFar[i] \in Symbols
          BY <1>2
        <5> QED
          BY <2>3, <5>1
      <4> QED
        BY <1>2, <4>1, <4>2
    <3>3. \A i \in 1 .. index + 1 : LineTypedSoFar'[i] = Append(LineTypedSoFar, c)[i]
      <4>1. ASSUME NEW i \in 1 .. index PROVE LineTypedSoFar'[i] = LineTypedSoFar[i]
        <5>1. i \in 1 .. index + 1
          BY <1>2
        <5>2. LineTypedSoFar'[i] = buffer'[i - 1]
          BY <3>2, <5>1
        <5> QED
          BY <2>2, <5>2
      <4>2. PICK n \in 1 .. index + 1 : n = index + 1 /\ n - 1 = index
        BY <1>2
      <4>3. LineTypedSoFar'[index + 1] = c
        <5>1. LineTypedSoFar'[n] = buffer'[n - 1]
          BY <3>2
        <5> QED
          BY <2>2, <4>2, <5>1
      <4>4. \A i \in 1 .. index + 1 : i \in 1 .. index \/ i = index + 1
        BY <1>2
      <4> QED
        BY <3>1, <4>1, <4>3, <4>4
    <3> QED
      BY <3>1, <3>2, <3>3, SeqEqual
  <2> QED
    BY <1>2, <2>1, <2>4 DEF Editor!Type, LineTypedSoFar
<1>8. ASSUME UNCHANGED vars PROVE UNCHANGED Editor!vars
  BY <1>8 DEF vars, Editor!vars
<1> QED
  BY <1>5, <1>6, <1>7, <1>8 DEF Next, Editor!Next

(* shell_programm and execute: the command is what was typed and not       *)
(* erased, whatever older lines have left in the buffer.                   *)
THEOREM ReadsWhatWasTyped == Spec => ReadsLines
<1>1. Init => Editor!Init
  BY EditorInit
<1>2. IInv /\ [Next]_vars => [Editor!Next]_(Editor!vars)
  BY EditorStep
<1> QED
  BY <1>1, <1>2, TerminalInvariant, PTL DEF Spec, ReadsLines, Editor!Spec
=============================================================================
