---------------------------- MODULE PackerProofs ----------------------------
(***************************************************************************)
(* The image packer makes the image that FluidFS takes for granted, and    *)
(* files copied into it stay where they are: for any image of one bitmap   *)
(* block, any number of records and pointers, and any files, while no      *)
(* record gets outside of its directory.                                   *)
(***************************************************************************)
EXTENDS Packer, FiniteSetTheorems, WellFoundedInduction, TLAPS

(* A walk that ends at the first of something ends.                        *)
LEMMA FirstOf ==
  ASSUME NEW T, T \subseteq Nat, T # {}
  PROVE  \E x \in T : \A y \in T : x <= y
<1> DEFINE R == OpToRel(<, Nat)
<1>1. IsWellFoundedOn(R, Nat)
  BY NatLessThanWellFounded
<1>2. \A x, y \in Nat : y < x => <<y, x>> \in R
  BY DEF OpToRel
<1> HIDE DEF R
<1>3. PICK x \in T : \A y \in T : ~ (<<y, x>> \in R)
  BY <1>1, WFMin
<1>4. \A y \in T : ~(y < x)
  BY <1>2, <1>3
<1>5. \A y \in T : x <= y
  BY <1>4
<1> QED
  BY <1>5

(* free_block_get finds free blocks, and each once: between two neighbours *)
(* the number of free blocks grows by one or not at all.                   *)
LEMMA FreeBlocksAreFree ==
  ASSUME bitmap \subseteq Blocks, NEW n \in Nat
  PROVE  /\ \A i \in 0 .. n - 1 : FreeBlocks(n)[i] \in Nat \ bitmap
         /\ \A i, j \in 0 .. n - 1 : FreeBlocks(n)[i] = FreeBlocks(n)[j] => i = j
<1> DEFINE Free(b) == {c \in 0 .. b : c \notin bitmap}
           F(b) == Cardinality(Free(b))
           N == TotalBlock + Cardinality(bitmap) + n
           Is(i, b) == b \notin bitmap /\ F(b) = i + 1
<1>1. TotalBlock \in Nat /\ Cardinality(bitmap) \in Nat /\ N \in Nat
  <2>1. TotalBlock \in Nat
    BY PackerAssumption
  <2>2. IsFiniteSet(Blocks)
    BY <2>1, FS_Interval DEF Blocks
  <2>3. Cardinality(bitmap) \in Nat
    BY <2>2, FS_Subset, FS_CardinalityType
  <2> QED
    BY <2>1, <2>3
<1>2. \A b \in Int : IsFiniteSet(Free(b)) /\ F(b) \in Nat
  <2> SUFFICES ASSUME NEW b \in Int PROVE IsFiniteSet(Free(b)) /\ F(b) \in Nat
    OBVIOUS
  <2>1. IsFiniteSet(0 .. b)
    <3>1. 0 \in Int
      OBVIOUS
    <3> QED
      BY <3>1, FS_Interval, Zenon
  <2>2. Free(b) \in SUBSET (0 .. b)
    OBVIOUS
  <2> HIDE DEF Free
  <2> QED
    BY <2>1, <2>2, FS_Subset, FS_CardinalityType
<1>3. \A b \in Nat : Free(b) = IF b \in bitmap THEN Free(b - 1) ELSE Free(b - 1) \cup {b}
  <2> SUFFICES ASSUME NEW b \in Nat, NEW c
               PROVE  c \in Free(b) <=>
                        c \in IF b \in bitmap THEN Free(b - 1) ELSE Free(b - 1) \cup {b}
    OBVIOUS
  <2>1. c \in 0 .. b <=> c \in 0 .. b - 1 \/ c = b
    OBVIOUS
  <2> QED
    BY <2>1
<1>4. \A b \in Nat : b \notin Free(b - 1)
  OBVIOUS
<1>5. F(N) >= n + 1
  <2>1. TotalBlock .. N \in SUBSET Free(N)
    BY <1>1 DEF Blocks
  <2>2. N - TotalBlock + 1 >= n + 1 /\ ~(TotalBlock > N) /\ TotalBlock \in Int /\ N \in Int
    BY <1>1
  <2> HIDE DEF Free, N
  <2>3. Cardinality(TotalBlock .. N) = N - TotalBlock + 1
    BY <2>2, FS_Interval
  <2>4. Cardinality(TotalBlock .. N) <= F(N) /\ F(N) \in Nat
    <3>1. IsFiniteSet(Free(N)) /\ F(N) \in Nat
      BY <1>2, <2>2
    <3>2. Cardinality(TotalBlock .. N) <= Cardinality(Free(N))
      BY <2>1, <3>1, FS_Subset
    <3> QED
      BY <3>1, <3>2
  <2> HIDE DEF F
  <2> QED
    BY <2>2, <2>3, <2>4
<1>6. \A b \in Nat : F(b) = IF b \in bitmap THEN F(b - 1) ELSE F(b - 1) + 1
  <2> SUFFICES ASSUME NEW b \in Nat
               PROVE  F(b) = IF b \in bitmap THEN F(b - 1) ELSE F(b - 1) + 1
    OBVIOUS
  <2>1. IsFiniteSet(Free(b - 1)) /\ b \notin Free(b - 1)
    BY <1>2, <1>4
  <2>2. Free(b) = IF b \in bitmap THEN Free(b - 1) ELSE Free(b - 1) \cup {b}
    BY <1>3
  <2> HIDE DEF Free
  <2> QED
    BY <2>1, <2>2, FS_AddElement
<1>7. Free(-1) = {}
  OBVIOUS
<1>8. F(-1) = 0
  <2> HIDE DEF Free
  <2> QED
    BY <1>7, FS_EmptySet
<1>9. FreeBlocks(n) = [i \in 0 .. n - 1 |-> CHOOSE b \in 0 .. N : Is(i, b)]
  BY DEF FreeBlocks
<1> HIDE DEF F, N, Free
<1>10. ASSUME NEW i \in 0 .. n - 1
       PROVE  \E b \in 0 .. N : Is(i, b)
  <2> DEFINE T == {b \in 0 .. N : F(b) >= i + 1}
  <2>1. N \in T
    BY <1>1, <1>2, <1>5
  <2>2. T \subseteq Nat
    BY <1>1
  <2>3. PICK m \in T : \A b \in T : m <= b
    <3> HIDE DEF T
    <3> QED
      BY <2>1, <2>2, FirstOf
  <2>4. m \in 0 .. N /\ F(m) >= i + 1 /\ F(m) \in Nat /\ F(m - 1) \in Nat
    BY <1>1, <1>2, <2>3
  <2>5. F(m - 1) < i + 1
    <3>1. CASE m = 0
      BY <1>8, <3>1
    <3>2. CASE m # 0
      <4>1. m - 1 \in 0 .. N /\ m - 1 \notin T
        BY <1>1, <2>3, <2>4, <3>2
      <4> QED
        BY <2>4, <4>1
    <3> QED
      BY <3>1, <3>2
  <2>6. m \notin bitmap /\ F(m) = i + 1
    BY <1>1, <1>6, <2>4, <2>5
  <2> QED
    BY <2>4, <2>6
<1>11. \A i \in 0 .. n - 1 : FreeBlocks(n)[i] \in 0 .. N /\ Is(i, FreeBlocks(n)[i])
  <2> HIDE DEF Is
  <2> QED
    BY <1>9, <1>10
<1> QED
  BY <1>1, <1>11

-----------------------------------------------------------------------------
(* The blocks of the four tables.                                          *)
TableBlocks == RootStart .. RootStart + 3

LEMMA Numbers ==
  /\ NodePBlock \in Nat /\ NodePBlock > 3 /\ MaxPtr \in Nat \ {0} /\ TotalBlock \in Nat
  /\ RootStart \in Nat /\ RootStart >= 3 /\ TotalBlock > RootStart + 3
  /\ 0 .. 2 \subseteq Slots /\ 0 \in Ptrs /\ TableBlocks \subseteq Blocks
<1>1. /\ NodePBlock \in Nat /\ NodePBlock > 3 /\ MaxPtr \in Nat \ {0}
      /\ BitsPerBlock \in Nat \ {0} /\ TotalBlock \in Nat \ {0} /\ TotalBlock > RootStart + 3
  BY PackerAssumption
<1> DEFINE q == BitmapBlocks
<1>2. q \in Int /\ TotalBlock + BitsPerBlock - 1 < BitsPerBlock * q + BitsPerBlock
  BY <1>1 DEF BitmapBlocks
<1>3. q >= 1
  <2> HIDE DEF q
  <2> SUFFICES ASSUME q <= 0 PROVE FALSE
    BY <1>2
  <2>1. BitsPerBlock * q <= 0
    BY <1>1, <1>2
  <2> QED
    BY <1>1, <1>2, <2>1
<1>4. RootStart \in Nat /\ RootStart >= 3
  BY <1>2, <1>3 DEF RootStart, RsvBlock
<1> QED
  BY <1>1, <1>4 DEF Slots, Ptrs, TableBlocks, Blocks

LEMMA OneBitmapBlock ==
  ASSUME TotalBlock <= BitsPerBlock
  PROVE  RootStart = 3
<1>1. BitsPerBlock \in Nat \ {0} /\ TotalBlock \in Nat \ {0}
  BY PackerAssumption
<1> DEFINE q == BitmapBlocks
<1>2. q \in Int /\ BitsPerBlock * q <= TotalBlock + BitsPerBlock - 1
  BY <1>1 DEF BitmapBlocks
<1>3. q <= 1
  <2> HIDE DEF q
  <2> SUFFICES ASSUME q >= 2 PROVE FALSE
    BY <1>2
  <2>1. BitsPerBlock * 2 <= BitsPerBlock * q
    BY <1>1, <1>2
  <2> QED
    BY <1>1, <1>2, <2>1
<1>4. RootStart = 2 + q
  BY DEF RootStart, RsvBlock
<1> HIDE DEF q
<1> QED
  BY <1>2, <1>3, <1>4, Numbers

LEMMA Records ==
  /\ EmptyNode = [name |-> Empty, dir |-> FALSE, size |-> 0, ptr |-> [i \in Ptrs |-> 0]]
  /\ EmptyNode \in Node /\ Zero \in Table /\ \A s \in Slots : Zero[s] = EmptyNode
  /\ \A d, b : DirNode(d, b) = [name |-> d, dir |-> TRUE, size |-> 0,
                               ptr |-> [i \in Ptrs |-> IF i = 0 THEN b ELSE 0]]
  /\ \A d \in Dirs, b \in Blocks : DirNode(d, b) \in Node
<1>1. 0 \in Blocks /\ 0 \in 0 .. MaxPtr /\ 0 \in Ptrs
  BY Numbers DEF Blocks, Ptrs
<1>2. EmptyNode \in Node
  BY <1>1 DEF EmptyNode, Node
<1>3. Zero \in Table /\ \A s \in Slots : Zero[s] = EmptyNode
  BY <1>2 DEF Zero, Table
<1>4. ASSUME NEW d \in Dirs, NEW b \in Blocks PROVE DirNode(d, b) \in Node
  BY <1>1 DEF Node, DirNode
<1> QED
  BY <1>2, <1>3, <1>4 DEF EmptyNode, DirNode

LEMMA TablesFixed == DirsFixed => Tables = TableBlocks
<1> SUFFICES ASSUME DirsFixed PROVE Tables = TableBlocks
  OBVIOUS
<1>1. RootStart \in Blocks /\ 0 .. 2 \subseteq Slots /\ 0 \in Ptrs /\ RootStart \in Nat
  BY Numbers DEF TableBlocks, Blocks
<1>2. /\ rec[RootStart][0].dir /\ rec[RootStart][0].ptr[0] = RootStart + 1
      /\ rec[RootStart][1].dir /\ rec[RootStart][1].ptr[0] = RootStart + 2
      /\ rec[RootStart][2].dir /\ rec[RootStart][2].ptr[0] = RootStart + 3
  BY <1>1, Records DEF DirsFixed
<1>3. {r \in Slots : rec[RootStart][r].dir} = {0, 1, 2}
  BY <1>1, <1>2 DEF DirsFixed
<1>4. Tables = {RootStart} \cup {RootStart + 1, RootStart + 2, RootStart + 3}
  BY <1>2, <1>3 DEF Tables
<1> QED
  BY <1>1, <1>4 DEF TableBlocks

(* Where a path leads.                                                     *)
At(path) ==
  RootStart + (IF path = Boot THEN 1 ELSE IF path = System THEN 2 ELSE IF path = Home THEN 3 ELSE 0)

Leads == \A path : /\ IsDir(path) <=> path \in Dirs
                   /\ IsDir(path) => TableOf(path) = At(path)
                   /\ Named(path) = At(path)

LEMMA PathsLead == DirsFixed => Leads
<1> SUFFICES ASSUME DirsFixed PROVE Leads
  OBVIOUS
<1>1. RootStart \in Blocks /\ 0 .. 2 \subseteq Slots /\ 0 \in Ptrs /\ RootStart \in Nat
  BY Numbers DEF TableBlocks, Blocks
<1>2. /\ rec[RootStart][0].dir /\ rec[RootStart][0].ptr[0] = RootStart + 1
      /\ rec[RootStart][1].dir /\ rec[RootStart][1].ptr[0] = RootStart + 2
      /\ rec[RootStart][2].dir /\ rec[RootStart][2].ptr[0] = RootStart + 3
      /\ rec[RootStart][0].name = Boot /\ rec[RootStart][1].name = System
      /\ rec[RootStart][2].name = Home
  BY <1>1, Records DEF DirsFixed
<1>3. \A s \in Slots : rec[RootStart][s].dir => s = 0 \/ s = 1 \/ s = 2
  BY <1>1 DEF DirsFixed
<1>4. Boot # System /\ Boot # Home /\ System # Home
  BY PackerAssumption
<1> SUFFICES ASSUME NEW path
             PROVE  /\ IsDir(path) <=> path \in Dirs
                    /\ IsDir(path) => TableOf(path) = At(path)
                    /\ Named(path) = At(path)
  BY DEF Leads
<1>5. IsDir(path) <=> path \in Dirs
  BY <1>1, <1>2, <1>3 DEF IsDir, Dirs
<1>6. ASSUME IsDir(path) PROVE TableOf(path) = At(path)
  <2> DEFINE S == CHOOSE s \in Slots : rec[RootStart][s].dir /\ rec[RootStart][s].name = path
  <2>1. S \in Slots /\ rec[RootStart][S].dir /\ rec[RootStart][S].name = path
    BY <1>6 DEF IsDir
  <2>2. TableOf(path) = rec[RootStart][S].ptr[0]
    BY <1>6 DEF TableOf
  <2> HIDE DEF S
  <2> QED
    BY <1>2, <1>3, <1>4, <2>1, <2>2 DEF At
<1>7. Named(path) = At(path)
  BY <1>1, <1>5, <1>6 DEF Named, At, Dirs
<1> QED
  BY <1>5, <1>6, <1>7

-----------------------------------------------------------------------------
(* A file is added to a table.                                             *)
Sound == /\ 0 .. RootStart \subseteq bitmap
         /\ TablesClear /\ InOrder /\ Sized /\ Marked /\ OneOwner /\ FreeBlank
         /\ DirsFixed

(* What the boot loader and a copied file have in common: n fresh blocks b *)
(* and the first unused record s of table t, for a file f.                 *)
Adds(t, s, f, n, b) ==
  LET taken == {b[i] : i \in 0 .. n - 1} IN
  /\ t \in TableBlocks /\ s \in Slots /\ ~Used(t, s) /\ \A r \in 0 .. s - 1 : Used(t, r)
  /\ f \in Files \cup {Stage2} /\ n \in 0 .. MaxPtr
  /\ \A i \in 0 .. n - 1 : b[i] \in Blocks \ bitmap
  /\ \A i, j \in 0 .. n - 1 : b[i] = b[j] => i = j
  /\ \A c \in Blocks : rec'[c] = IF c = t THEN [rec[c] EXCEPT ![s] = FileNode(f, n, b)]
                                ELSE IF c \in taken THEN Zero ELSE rec[c]
  /\ \A c \in Blocks \ taken : data'[c] = data[c]
  /\ bitmap' = bitmap \cup taken

LEMMA TablesAreMarked ==
  ASSUME Sound
  PROVE  TableBlocks \subseteq bitmap
<1>1. /\ 0 .. RootStart \subseteq bitmap /\ Marked /\ DirsFixed /\ Tables = TableBlocks
  BY TablesFixed DEF Sound
<1>2. /\ RootStart \in Nat /\ RootStart \in TableBlocks /\ 0 .. 2 \subseteq Slots /\ 0 \in Ptrs
  BY Numbers DEF TableBlocks
<1>3. /\ rec[RootStart][0].name # Empty /\ rec[RootStart][0].ptr[0] = RootStart + 1
      /\ rec[RootStart][1].name # Empty /\ rec[RootStart][1].ptr[0] = RootStart + 2
      /\ rec[RootStart][2].name # Empty /\ rec[RootStart][2].ptr[0] = RootStart + 3
  BY <1>1, <1>2, Records, PackerAssumption DEF DirsFixed, Dirs
<1>4. Points(RootStart, 0, 0) /\ Points(RootStart, 1, 0) /\ Points(RootStart, 2, 0)
  BY <1>2, <1>3 DEF Points
<1>5. RootStart + 1 \in bitmap /\ RootStart + 2 \in bitmap /\ RootStart + 3 \in bitmap
  BY <1>1, <1>2, <1>3, <1>4 DEF Marked
<1> QED
  BY <1>1, <1>2, <1>5 DEF TableBlocks

(* What such a step does to the records of the tables.                     *)
LEMMA AddedRecord ==
  ASSUME TypeOK, Sound, NEW t, NEW s, NEW f, NEW n, NEW b, Adds(t, s, f, n, b)
  PROVE  /\ \A u \in TableBlocks, r \in Slots :
              rec'[u][r] = IF u = t /\ r = s THEN FileNode(f, n, b) ELSE rec[u][r]
         /\ \A u \in TableBlocks : data'[u] = data[u]
         /\ rec[t][s].name = Empty /\ \A r \in 0 .. s - 1 : rec[t][r].name # Empty
         /\ DirsFixed'
<1> DEFINE taken == {b[i] : i \in 0 .. n - 1}
<1>1. /\ t \in TableBlocks /\ s \in Slots /\ ~Used(t, s) /\ \A r \in 0 .. s - 1 : Used(t, r)
      /\ f \in Files \cup {Stage2}
      /\ taken \subseteq Blocks \ bitmap
      /\ \A c \in Blocks : rec'[c] = IF c = t THEN [rec[c] EXCEPT ![s] = FileNode(f, n, b)]
                                    ELSE IF c \in taken THEN Zero ELSE rec[c]
      /\ \A c \in Blocks \ taken : data'[c] = data[c]
  BY DEF Adds
<1>2. /\ TableBlocks \subseteq bitmap /\ TableBlocks \subseteq Blocks
      /\ TablesClear /\ DirsFixed /\ Tables = TableBlocks
      /\ rec \in [Blocks -> [Slots -> Node]]
  BY TablesAreMarked, TablesFixed, Numbers DEF Sound, TypeOK, Table
<1> HIDE DEF taken
<1>3. \A u \in TableBlocks, r \in Slots :
        rec'[u][r] = IF u = t /\ r = s THEN FileNode(f, n, b) ELSE rec[u][r]
  <2> SUFFICES ASSUME NEW u \in TableBlocks, NEW r \in Slots
               PROVE  rec'[u][r] = IF u = t /\ r = s THEN FileNode(f, n, b) ELSE rec[u][r]
    OBVIOUS
  <2>1. u \in Blocks /\ u \notin taken /\ rec[u] \in [Slots -> Node]
    BY <1>1, <1>2
  <2>2. CASE u = t
    <3>1. rec'[u] = [rec[u] EXCEPT ![s] = FileNode(f, n, b)]
      BY <1>1, <2>1, <2>2
    <3> QED
      BY <1>1, <2>1, <2>2, <3>1
  <2>3. CASE u # t
    BY <1>1, <2>1, <2>3
  <2> QED
    BY <2>2, <2>3
<1>4. \A u \in TableBlocks : data'[u] = data[u]
  BY <1>1, <1>2
<1>5. rec[t][s].name = Empty /\ \A r \in 0 .. s - 1 : rec[t][r].name # Empty
  <2>1. data[t] = Nothing
    BY <1>1, <1>2 DEF TablesClear
  <2> QED
    BY <1>1, <2>1 DEF Used
<1>6. DirsFixed'
  <2>1. /\ RootStart \in TableBlocks /\ 0 .. 2 \subseteq Slots
    BY Numbers DEF TableBlocks
  <2>2. /\ rec[RootStart][0].name # Empty /\ rec[RootStart][1].name # Empty
        /\ rec[RootStart][2].name # Empty
    BY <1>2, Records, PackerAssumption DEF DirsFixed, Dirs
  <2>3. /\ rec'[RootStart][0] = rec[RootStart][0] /\ rec'[RootStart][1] = rec[RootStart][1]
        /\ rec'[RootStart][2] = rec[RootStart][2]
    <3>1. \A r \in 0 .. 2 : rec[RootStart][r].name # Empty => rec'[RootStart][r] = rec[RootStart][r]
      BY <1>3, <1>5, <2>1
    <3> QED
      BY <2>2, <3>1
  <2>4. ASSUME NEW c \in Blocks, NEW r \in Slots, rec'[c][r].dir
        PROVE  c = RootStart /\ r \in 0 .. 2
    <3>1. CASE c = t
      <4>1. rec'[c][r] = IF r = s THEN FileNode(f, n, b) ELSE rec[c][r]
        BY <1>1, <1>3, <3>1
      <4>2. ~FileNode(f, n, b).dir
        BY DEF FileNode
      <4> QED
        BY <1>2, <2>4, <4>1, <4>2 DEF DirsFixed
    <3>2. CASE c # t /\ c \in taken
      <4>1. rec'[c][r] = EmptyNode
        BY <1>1, <3>2, Records
      <4>2. ~EmptyNode.dir
        BY Records
      <4> QED
        BY <2>4, <4>1, <4>2
    <3>3. CASE c # t /\ c \notin taken
      BY <1>1, <1>2, <2>4, <3>3 DEF DirsFixed
    <3> QED
      BY <3>1, <3>2, <3>3
  <2> QED
    BY <1>2, <2>3, <2>4 DEF DirsFixed
<1> QED
  BY <1>3, <1>4, <1>5, <1>6

LEMMA AddingIsSound ==
  ASSUME TypeOK, Sound, NEW t, NEW s, NEW f, NEW n, NEW b, Adds(t, s, f, n, b)
  PROVE  Sound'
<1> DEFINE taken == {b[i] : i \in 0 .. n - 1}
           node == FileNode(f, n, b)
<1>1. /\ t \in TableBlocks /\ s \in Slots /\ f \in Files \cup {Stage2} /\ n \in 0 .. MaxPtr
      /\ \A i \in 0 .. n - 1 : b[i] \in taken
      /\ \A i, j \in 0 .. n - 1 : b[i] = b[j] => i = j
      /\ taken \subseteq Blocks \ bitmap /\ bitmap' = bitmap \cup taken
      /\ \A c \in Blocks : c # t /\ c \notin taken => rec'[c] = rec[c]
      /\ \A c \in Blocks \ taken : data'[c] = data[c]
  <2>1. /\ t \in TableBlocks /\ s \in Slots /\ f \in Files \cup {Stage2} /\ n \in 0 .. MaxPtr
        /\ \A i \in 0 .. n - 1 : b[i] \in Blocks \ bitmap
        /\ \A i, j \in 0 .. n - 1 : b[i] = b[j] => i = j
        /\ bitmap' = bitmap \cup taken
        /\ \A c \in Blocks \ taken : data'[c] = data[c]
    BY DEF Adds
  <2>2. \A c \in Blocks : rec'[c] = IF c = t THEN [rec[c] EXCEPT ![s] = node]
                                     ELSE IF c \in taken THEN Zero ELSE rec[c]
    BY DEF Adds
  <2>3. taken \subseteq Blocks \ bitmap /\ \A i \in 0 .. n - 1 : b[i] \in taken
    BY <2>1
  <2> HIDE DEF taken, node
  <2> QED
    BY <2>1, <2>2, <2>3
<1>2. /\ TableBlocks \subseteq bitmap /\ TableBlocks \subseteq Blocks
      /\ 0 .. RootStart \subseteq bitmap
      /\ TablesClear /\ InOrder /\ Sized /\ Marked /\ OneOwner /\ FreeBlank
      /\ DirsFixed /\ Tables = TableBlocks /\ RootStart \in Nat
  BY TablesAreMarked, TablesFixed, Numbers DEF Sound
<1>3. /\ \A u \in TableBlocks, r \in Slots :
           rec'[u][r] = IF u = t /\ r = s THEN node ELSE rec[u][r]
      /\ \A u \in TableBlocks : data'[u] = data[u]
      /\ rec[t][s].name = Empty /\ \A r \in 0 .. s - 1 : rec[t][r].name # Empty
      /\ DirsFixed'
  BY AddedRecord
<1>4. Tables' = TableBlocks
  <2>1. DirsFixed' => (Tables = TableBlocks)'
    BY TablesFixed, PTL
  <2> QED
    BY <1>3, <2>1 DEF TableBlocks
<1>5. /\ node.name # Empty /\ ~node.dir /\ node.size = n
      /\ \A i \in Ptrs : node.ptr[i] = IF i < n THEN b[i] ELSE 0
  BY <1>1, PackerAssumption DEF FileNode
<1>6. \A c \in taken : c \in Blocks /\ c \notin bitmap /\ c > RootStart
  BY <1>1, <1>2 DEF Blocks
<1>7. \A i \in Ptrs : /\ i < n => node.ptr[i] \in taken /\ node.ptr[i] # 0
                      /\ ~(i < n) => node.ptr[i] = 0
  BY <1>1, <1>2, <1>5, <1>6 DEF Ptrs
<1> HIDE DEF taken, node
<1>8. TablesClear'
  BY <1>2, <1>3, <1>4 DEF TablesClear
<1>9. InOrder'
  <2> SUFFICES ASSUME NEW u \in TableBlocks, NEW r \in Slots, NEW q \in Slots,
                      r < q, rec'[u][q].name # Empty
               PROVE  rec'[u][r].name # Empty
    BY <1>4 DEF InOrder
  <2>1. CASE u = t /\ q = s
    <3>1. r \in 0 .. s - 1
      BY <2>1 DEF Slots
    <3> QED
      BY <1>3, <1>5, <2>1, <3>1
  <2>2. CASE ~(u = t /\ q = s)
    <3>1. rec[u][r].name # Empty
      BY <1>2, <1>3, <2>2 DEF InOrder
    <3> QED
      BY <1>3, <1>5, <3>1
  <2> QED
    BY <2>1, <2>2
<1>10. Sized'
  <2> SUFFICES ASSUME NEW u \in TableBlocks, NEW r \in Slots, NEW i \in Ptrs,
                      rec'[u][r].name # Empty, ~rec'[u][r].dir
               PROVE  i < rec'[u][r].size <=> rec'[u][r].ptr[i] # 0
    BY <1>4 DEF Sized
  <2>1. CASE u = t /\ r = s
    BY <1>3, <1>5, <1>7, <2>1
  <2>2. CASE ~(u = t /\ r = s)
    BY <1>2, <1>3, <2>2 DEF Sized
  <2> QED
    BY <2>1, <2>2
<1>11. ASSUME NEW u \in TableBlocks, NEW r \in Slots, NEW i \in Ptrs, Points(u, r, i)'
       PROVE  \/ u = t /\ r = s /\ i < n /\ i \in 0 .. n - 1
                 /\ rec'[u][r].ptr[i] = b[i] /\ b[i] \in taken
              \/ ~(u = t /\ r = s) /\ Points(u, r, i) /\ rec'[u][r].ptr[i] = rec[u][r].ptr[i]
                 /\ rec[u][r].ptr[i] \in bitmap /\ rec[u][r].ptr[i] > RootStart
  <2>1. CASE u = t /\ r = s
    <3>1. node.ptr[i] # 0
      BY <1>3, <1>11, <2>1 DEF Points
    <3>2. i < n /\ i \in 0 .. n - 1
      BY <1>1, <1>7, <3>1 DEF Ptrs
    <3> QED
      BY <1>1, <1>3, <1>5, <2>1, <3>2
  <2>2. CASE ~(u = t /\ r = s)
    <3>1. rec'[u][r] = rec[u][r]
      BY <1>3, <2>2
    <3>2. Points(u, r, i)
      BY <1>11, <3>1 DEF Points
    <3> QED
      BY <1>2, <2>2, <3>1, <3>2 DEF Marked
  <2> QED
    BY <2>1, <2>2
<1>12. Marked'
  <2> SUFFICES ASSUME NEW u \in TableBlocks, NEW r \in Slots, NEW i \in Ptrs, Points(u, r, i)'
               PROVE  rec'[u][r].ptr[i] \in bitmap' /\ rec'[u][r].ptr[i] > RootStart
    BY <1>4 DEF Marked, RootStart, BitmapBlocks
  <2> QED
    BY <1>1, <1>6, <1>11
<1>13. OneOwner'
  <2> SUFFICES ASSUME NEW u \in TableBlocks, NEW r \in Slots, NEW i \in Ptrs, Points(u, r, i)',
                      NEW v \in TableBlocks, NEW q \in Slots, NEW j \in Ptrs, Points(v, q, j)',
                      rec'[v][q].ptr[j] = rec'[u][r].ptr[i]
               PROVE  v = u /\ q = r /\ j = i
    BY <1>4 DEF OneOwner
  <2>1. CASE u = t /\ r = s /\ v = t /\ q = s
    BY <1>1, <1>11, <2>1
  <2>2. CASE u = t /\ r = s /\ ~(v = t /\ q = s)
    BY <1>6, <1>11, <2>2
  <2>3. CASE ~(u = t /\ r = s) /\ v = t /\ q = s
    BY <1>6, <1>11, <2>3
  <2>4. CASE ~(u = t /\ r = s) /\ ~(v = t /\ q = s)
    <3>1. Points(u, r, i) /\ Points(v, q, j) /\ rec[v][q].ptr[j] = rec[u][r].ptr[i]
      BY <1>11, <2>4
    <3> QED
      BY <1>2, <3>1 DEF OneOwner
  <2> QED
    BY <2>1, <2>2, <2>3, <2>4
<1>14. FreeBlank'
  <2> SUFFICES ASSUME NEW c \in Blocks, c \notin bitmap'
               PROVE  rec'[c] = Zero /\ data'[c] = Nothing
    BY DEF FreeBlank, Blocks
  <2>1. c \notin bitmap /\ c \notin taken /\ c # t
    BY <1>1, <1>2
  <2> QED
    BY <1>1, <1>2, <2>1 DEF FreeBlank
<1>15. (0 .. RootStart \subseteq bitmap)'
  BY <1>1, <1>2 DEF RootStart, BitmapBlocks
<1> QED
  BY <1>3, <1>8, <1>9, <1>10, <1>12, <1>13, <1>14, <1>15 DEF Sound

-----------------------------------------------------------------------------
(* Copied files.                                                           *)
Copies == [path : Dirs \cup {Root, Elsewhere}, file : Files, size : Counts]

LEMMA NamedAt ==
  ASSUME DirsFixed, DirsFixed'
  PROVE  \A path : /\ Named(path) = At(path) /\ Named(path)' = At(path)
                   /\ At(path) \in TableBlocks
<1>1. DirsFixed' => Leads'
  BY PathsLead, PTL
<1>2. \A path : At(path) \in TableBlocks
  BY Numbers DEF At, TableBlocks
<1>3. Leads
  BY PathsLead
<1>4. ASSUME NEW path PROVE Named(path)' = At(path)
  <2>1. Named(path)' = At(path)'
    BY <1>1 DEF Leads
  <2> QED
    BY <2>1 DEF At, RootStart, BitmapBlocks
<1>5. \A path : Named(path) = At(path)
  BY <1>3 DEF Leads
<1> QED
  BY <1>2, <1>4, <1>5

(* They stay.                                                              *)
LEMMA AddingKeepsFiles ==
  ASSUME TypeOK, Sound, NEW t, NEW s, NEW f, NEW n, NEW b, Adds(t, s, f, n, b),
         NEW p \in Copies, IsThere(p)
  PROVE  IsThere(p)'
<1> DEFINE taken == {b[i] : i \in 0 .. n - 1}
<1>1. /\ taken \cap bitmap = {} /\ \A c \in Blocks \ taken : data'[c] = data[c]
  BY DEF Adds
<1> HIDE DEF taken
<1>2. /\ \A u \in TableBlocks, r \in Slots :
           rec'[u][r] = IF u = t /\ r = s THEN FileNode(f, n, b) ELSE rec[u][r]
      /\ rec[t][s].name = Empty /\ DirsFixed'
  BY AddedRecord
<1>3. /\ DirsFixed /\ Tables = TableBlocks /\ Sized /\ Marked /\ TableBlocks \subseteq Blocks
      /\ rec \in [Blocks -> [Slots -> Node]]
  BY TablesFixed, Numbers DEF Sound, TypeOK, Table
<1> DEFINE u == At(p.path)
<1>4. Named(p.path) = u /\ Named(p.path)' = u /\ u \in TableBlocks
  BY <1>2, <1>3, NamedAt
<1> HIDE DEF u
<1>5. PICK r \in Slots :
        /\ rec[u][r].name = p.file /\ ~rec[u][r].dir /\ rec[u][r].size = p.size
        /\ \A i \in 0 .. p.size - 1 : data[rec[u][r].ptr[i]] = [file |-> p.file, part |-> i]
  BY <1>4 DEF IsThere
<1>6. p.file # Empty
  BY PackerAssumption DEF Copies
<1>7. rec'[u][r] = rec[u][r]
  BY <1>2, <1>4, <1>5, <1>6
<1>8. ASSUME NEW i \in 0 .. p.size - 1
      PROVE  data'[rec'[u][r].ptr[i]] = [file |-> p.file, part |-> i]
  <2>1. rec[u][r] \in Node
    BY <1>3, <1>4
  <2>2. p.size \in 0 .. MaxPtr
    BY <1>5, <2>1 DEF Node
  <2>3. i \in Ptrs /\ i < rec[u][r].size
    BY <1>5, <2>2, Numbers DEF Ptrs
  <2>4. rec[u][r].ptr[i] # 0
    BY <1>3, <1>4, <1>5, <1>6, <2>3 DEF Sized
  <2>5. rec[u][r].ptr[i] \in bitmap
    BY <1>3, <1>4, <1>5, <1>6, <2>3, <2>4 DEF Marked, Points
  <2>6. rec[u][r].ptr[i] \in Blocks
    BY <2>1, <2>3 DEF Node
  <2>7. data'[rec[u][r].ptr[i]] = data[rec[u][r].ptr[i]]
    BY <1>1, <2>5, <2>6
  <2> QED
    BY <1>5, <1>7, <2>7
<1>9. \E q \in Slots :
        /\ rec'[u][q].name = p.file /\ ~rec'[u][q].dir /\ rec'[u][q].size = p.size
        /\ \A i \in 0 .. p.size - 1 : data'[rec'[u][q].ptr[i]] = [file |-> p.file, part |-> i]
  BY <1>5, <1>7, <1>8
<1> QED
  BY <1>4, <1>9 DEF IsThere

(* The new one is there.                                                   *)
LEMMA AddedIsThere ==
  ASSUME TypeOK, Sound, NEW t, NEW s, NEW f, NEW n, NEW b, Adds(t, s, f, n, b),
         \A i \in 0 .. n - 1 : data'[b[i]] = [file |-> f, part |-> i],
         NEW path, t = At(path)
  PROVE  IsThere([path |-> path, file |-> f, size |-> n])'
<1>1. /\ rec'[t][s] = FileNode(f, n, b) /\ s \in Slots /\ n \in 0 .. MaxPtr /\ DirsFixed'
  <2>1. t \in TableBlocks /\ s \in Slots /\ n \in 0 .. MaxPtr
    BY DEF Adds
  <2> QED
    BY <2>1, AddedRecord
<1>2. DirsFixed
  BY DEF Sound
<1>3. Named(path)' = t
  BY <1>1, <1>2, NamedAt
<1>4. /\ rec'[t][s].name = f /\ ~rec'[t][s].dir /\ rec'[t][s].size = n
      /\ \A i \in 0 .. n - 1 : rec'[t][s].ptr[i] = b[i]
  BY <1>1, Numbers DEF FileNode, Ptrs
<1>5. \A i \in 0 .. n - 1 : data'[rec'[t][s].ptr[i]] = [file |-> f, part |-> i]
  BY <1>4
<1>6. \E q \in Slots :
        /\ rec'[t][q].name = f /\ ~rec'[t][q].dir /\ rec'[t][q].size = n
        /\ \A i \in 0 .. n - 1 : data'[rec'[t][q].ptr[i]] = [file |-> f, part |-> i]
  BY <1>1, <1>4, <1>5
<1> QED
  BY <1>3, <1>6 DEF IsThere

-----------------------------------------------------------------------------
(* The operations.                                                         *)
LEMMA PlaceFound ==
  ASSUME NEW t
  PROVE  /\ Place(t)[1] \in {t, t + 1} /\ Place(t)[2] \in Slots
         /\ Place(t)[1] = t /\ t \in Nat =>
              ~Used(t, Place(t)[2]) /\ \A r \in 0 .. Place(t)[2] - 1 : Used(t, r)
<1>1. CASE \A s \in Slots : Used(t, s)
  <2>1. Place(t) = <<t + 1, 0>>
    BY <1>1 DEF Place
  <2>2. 0 \in Slots
    BY Numbers
  <2> QED
    BY <2>1, <2>2
<1>2. CASE ~ \A s \in Slots : Used(t, s)
  <2> DEFINE T == {s \in Slots : ~Used(t, s)}
             First(s) == ~Used(t, s) /\ \A r \in 0 .. s - 1 : Used(t, r)
             S == CHOOSE s \in Slots : First(s)
  <2>1. T # {} /\ T \subseteq Nat
    BY <1>2 DEF Slots
  <2>2. PICK m \in T : \A s \in T : m <= s
    <3> HIDE DEF T
    <3> QED
      BY <2>1, FirstOf
  <2>3. m \in Slots /\ First(m)
    <3>1. \A r \in 0 .. m - 1 : r \in Slots /\ r \notin T
      BY <2>2, Numbers DEF Slots
    <3> QED
      BY <2>2, <3>1
  <2>4. Place(t) = <<t, S>>
    BY <1>2 DEF Place
  <2> HIDE DEF First
  <2>5. S \in Slots /\ First(S)
    BY <2>3
  <2> HIDE DEF S
  <2> QED
    BY <2>4, <2>5 DEF First
<1> QED
  BY <1>1, <1>2

LEMMA FileNodeTyped ==
  ASSUME NEW f \in Files \cup {Stage2}, NEW n \in 0 .. MaxPtr, NEW b,
         \A i \in 0 .. n - 1 : b[i] \in Blocks
  PROVE  FileNode(f, n, b) \in Node
<1>1. 0 \in Blocks
  BY Numbers DEF Blocks
<1>2. \A i \in Ptrs : (IF i < n THEN b[i] ELSE 0) \in Blocks
  BY <1>1 DEF Ptrs
<1> QED
  BY <1>2 DEF FileNode, Node

(* main_boot_set                                                           *)
LEMMA InstallBootHolds ==
  ASSUME IInv, InstallBoot, TotalBlock <= BitsPerBlock
  PROVE  IInv'
<1> DEFINE b == FreeBlocks(1)
<1>1. TypeOK /\ pushed' = pushed /\ status \in {"ok", "spilled"}
  BY DEF IInv, ImageOK, InstallBoot
<1>2. b[0] \in Nat \ bitmap
  BY <1>1, FreeBlocksAreFree DEF TypeOK
<1>0. PICK k \in 0 .. NodePBlock :
        /\ LoaderGoes(k)
        /\ IF {LoaderPlace(k), b[0]} \subseteq Blocks
           THEN /\ rec' = [rec EXCEPT ![LoaderPlace(k)][0] = FileNode(Stage2, 1, b), ![b[0]] = Zero]
                /\ data' = [data EXCEPT ![LoaderPlace(k)] = Nothing,
                                       ![b[0]] = [file |-> Stage2, part |-> 0]]
                /\ bitmap' = bitmap \cup {b[0]}
                /\ status' = IF k = 0 THEN status ELSE "spilled"
           ELSE /\ status' = "overrun"
                /\ UNCHANGED <<rec, data, bitmap>>
  BY DEF InstallBoot
<1>3. CASE ~({LoaderPlace(k), b[0]} \subseteq Blocks)
  <2>1. status' = "overrun" /\ UNCHANGED <<rec, data, bitmap>>
    BY <1>0, <1>3
  <2> QED
    BY <1>1, <2>1 DEF IInv, ImageOK, TypeOK, PushedIsFound, Blocks
<1>4. CASE {LoaderPlace(k), b[0]} \subseteq Blocks
  <2> DEFINE t == LoaderPlace(k)
  <2>1. /\ rec' = [rec EXCEPT ![t][0] = FileNode(Stage2, 1, b), ![b[0]] = Zero]
        /\ data' = [data EXCEPT ![t] = Nothing, ![b[0]] = [file |-> Stage2, part |-> 0]]
        /\ bitmap' = bitmap \cup {b[0]} /\ status' = IF k = 0 THEN status ELSE "spilled"
    BY <1>0, <1>4
  <2>0. t \in Blocks /\ b[0] \in Blocks
    BY <1>4
  <2> HIDE DEF b, t
  <2>2. FileNode(Stage2, 1, b) \in Node
    <3>1. 1 \in 0 .. MaxPtr /\ \A i \in 0 .. 0 : i = 0
      BY Numbers
    <3> QED
      BY <2>0, <3>1, FileNodeTyped
  <2>3. t \in Blocks /\ 0 \in Slots /\ 0 \in Ptrs
    BY <2>0, Numbers
  <2>4. /\ rec \in [Blocks -> [Slots -> Node]] /\ data \in [Blocks -> Part \cup {Nothing}]
        /\ bitmap \subseteq Blocks
    BY <1>1 DEF TypeOK, Table
  <2> DEFINE table == [rec[t] EXCEPT ![0] = FileNode(Stage2, 1, b)]
             mid == [rec EXCEPT ![t] = table]
  <2>5. table \in [Slots -> Node]
    BY <2>2, <2>3, <2>4
  <2>6. rec' = [mid EXCEPT ![b[0]] = Zero]
    BY <2>1
  <2>7. mid \in [Blocks -> [Slots -> Node]]
    <3> HIDE DEF table
    <3> QED
      BY <2>4, <2>5
  <2>8. \A c \in Blocks : mid[c] = IF c = t THEN table ELSE rec[c]
    <3> HIDE DEF table
    <3> QED
      BY <2>4
  <2> HIDE DEF mid, table
  <2>9. \A c \in Blocks : rec'[c] = IF c = b[0] THEN Zero ELSE IF c = t THEN table ELSE rec[c]
    BY <2>0, <2>6, <2>7, <2>8
  <2>10. TypeOK'
    <3>1. rec' \in [Blocks -> [Slots -> Node]]
      BY <2>0, <2>6, <2>7, Records DEF Table
    <3>2. data' \in [Blocks -> Part \cup {Nothing}]
      BY <2>0, <2>1, <2>3, <2>4 DEF Part
    <3>3. bitmap' \subseteq Blocks
      BY <2>0, <2>1, <2>4
    <3> QED
      BY <1>1, <2>1, <3>1, <3>2, <3>3 DEF TypeOK, Table, Blocks, Slots, Ptrs, Node, Part, Dirs, Counts
  <2>11. CASE status = "ok" /\ k = 0
    <3>1. Sound
      BY <2>11 DEF IInv, ImageOK, Sound
    <3>0. t = RootStart + 1 /\ t \in TableBlocks
      <4>1. 0 * Stride = 0 /\ RootStart \in Nat
        BY PackerAssumption, Numbers
      <4>2. t = RootStart + 1
        BY <2>11, <4>1 DEF LoaderPlace, t
      <4> QED
        BY <4>1, <4>2 DEF TableBlocks
    <3>2. t # b[0]
      BY <1>2, <3>0, <3>1, TablesAreMarked
    <3>7. data[t] = Nothing /\ ~Used(t, 0)
      <4>1. data[t] = Nothing
        BY <3>0, <3>1, TablesFixed DEF Sound, TablesClear
      <4>2. data[t] # Nothing \/ ~Used(t, 0)
        <5>1. LoaderGoes(0) /\ t = LoaderPlace(0) /\ 0 < NodePBlock
          BY <1>0, <2>11, Numbers DEF t
        <5> QED
          BY <2>0, <5>1 DEF LoaderGoes
      <4> QED
        BY <4>1, <4>2
    <3>3. Adds(t, 0, Stage2, 1, b)
      <4>1. {b[i] : i \in 0 .. 1 - 1} = {b[0]} /\ \A i \in 0 .. 1 - 1 : i = 0
        OBVIOUS
      <4>2. \A c \in Blocks : rec'[c] = IF c = t THEN [rec[c] EXCEPT ![0] = FileNode(Stage2, 1, b)]
                                      ELSE IF c \in {b[0]} THEN Zero ELSE rec[c]
        BY <2>9, <3>2 DEF table
      <4>3. \A c \in Blocks \ {b[0]} : data'[c] = data[c]
        BY <2>1, <2>4, <3>7
      <4>4. 1 \in 0 .. MaxPtr
        BY Numbers
      <4>5. \A r \in 0 .. 0 - 1 : Used(t, r)
        OBVIOUS
      <4>6. /\ \A i \in 0 .. 1 - 1 : b[i] \in Blocks \ bitmap
            /\ \A i, j \in 0 .. 1 - 1 : b[i] = b[j] => i = j
        BY <1>2, <2>0, <4>1
      <4> QED
        BY <2>1, <2>3, <3>0, <3>7, <4>1, <4>2, <4>3, <4>4, <4>5, <4>6 DEF Adds
    <3>4. Sound'
      BY <1>1, <3>1, <3>3, AddingIsSound
    <3>5. \A p \in Copies : IsThere(p) => IsThere(p)'
      BY <1>1, <3>1, <3>3, AddingKeepsFiles
    <3>6. PushedIsFound'
      BY <1>1, <2>11, <3>5 DEF IInv, PushedIsFound, TypeOK, Copies
    <3> QED
      BY <2>1, <2>10, <2>11, <3>4, <3>6 DEF IInv, ImageOK, Sound
  <2>12. CASE ~(status = "ok" /\ k = 0)
    BY <1>1, <2>1, <2>10, <2>12 DEF IInv, ImageOK, PushedIsFound
  <2> QED
    BY <2>11, <2>12
<1> QED
  BY <1>3, <1>4

(* file_push: a file overruns the image or is copied whole.                *)
LEMMA PushTyped ==
  ASSUME TypeOK, NEW path \in Dirs \cup {Root, Elsewhere}, NEW f \in Files, NEW n \in Counts,
         Push(path, f, n)
  PROVE  /\ TypeOK'
         /\ n \in 0 .. MaxPtr
         /\ \A i \in 0 .. n - 1 : /\ FreeBlocks(n)[i] \in Blocks \ bitmap
                                 /\ data'[FreeBlocks(n)[i]] = [file |-> f, part |-> i]
         /\ \A i, j \in 0 .. n - 1 : FreeBlocks(n)[i] = FreeBlocks(n)[j] => i = j
<1> DEFINE place == Place(TableOf(path))
           b == FreeBlocks(n)
           taken == {b[i] : i \in 0 .. n - 1}
           node == FileNode(f, n, b)
<1>1. /\ status \in {"ok", "spilled"} /\ ~Overruns(n, place)
      /\ rec' = [c \in Blocks |->
           CASE c = place[1] -> [rec[c] EXCEPT ![place[2]] = node]
             [] c \in taken -> Zero
             [] OTHER -> rec[c]]
      /\ data' = [c \in Blocks |->
           IF c \in taken
           THEN [file |-> f, part |-> CHOOSE i \in 0 .. n - 1 : b[i] = c]
           ELSE data[c]]
      /\ bitmap' = bitmap \cup taken
      /\ status' = IF place[1] = TableOf(path) THEN status ELSE "spilled"
      /\ pushed' = pushed \cup {[path |-> path, file |-> f, size |-> n]}
  BY DEF Push
<1>2. /\ rec \in [Blocks -> [Slots -> Node]] /\ data \in [Blocks -> Part \cup {Nothing}]
      /\ bitmap \subseteq Blocks
  BY DEF TypeOK, Table
<1>3. n \in 0 .. MaxPtr /\ n \in Nat /\ \A i \in 0 .. n - 1 : b[i] \in Blocks
  BY <1>1, Numbers DEF Overruns, Counts
<1>4. /\ \A i \in 0 .. n - 1 : b[i] \in Nat \ bitmap
      /\ \A i, j \in 0 .. n - 1 : b[i] = b[j] => i = j
  BY <1>2, <1>3, FreeBlocksAreFree
<1> HIDE DEF b
<1>5. node \in Node
  BY <1>3, FileNodeTyped
<1>6. place[2] \in Slots
  BY PlaceFound
<1>7. taken \subseteq Blocks
  BY <1>3
<1>8. \A c \in taken : /\ (CHOOSE i \in 0 .. n - 1 : b[i] = c) \in 0 .. n - 1
                      /\ b[CHOOSE i \in 0 .. n - 1 : b[i] = c] = c
  OBVIOUS
<1>9. \A i \in 0 .. n - 1 : data'[b[i]] = [file |-> f, part |-> i]
  <2> SUFFICES ASSUME NEW i \in 0 .. n - 1 PROVE data'[b[i]] = [file |-> f, part |-> i]
    OBVIOUS
  <2> DEFINE k == CHOOSE j \in 0 .. n - 1 : b[j] = b[i]
  <2>1. b[i] \in taken /\ b[i] \in Blocks
    BY <1>3
  <2>2. data'[b[i]] = [file |-> f, part |-> k]
    BY <1>1, <2>1
  <2>3. k \in 0 .. n - 1 /\ b[k] = b[i]
    OBVIOUS
  <2> HIDE DEF k
  <2> QED
    BY <1>4, <2>2, <2>3
<1> HIDE DEF taken, node, place
<1>10. rec' \in [Blocks -> [Slots -> Node]]
  <2> SUFFICES ASSUME NEW c \in Blocks
               PROVE  (CASE c = place[1] -> [rec[c] EXCEPT ![place[2]] = node]
                         [] c \in taken -> Zero
                         [] OTHER -> rec[c]) \in [Slots -> Node]
    BY <1>1
  <2>1. rec[c] \in [Slots -> Node] /\ Zero \in [Slots -> Node]
    BY <1>2, Records DEF Table
  <2>2. [rec[c] EXCEPT ![place[2]] = node] \in [Slots -> Node]
    BY <1>5, <1>6, <2>1
  <2> QED
    BY <2>1, <2>2
<1>11. data' \in [Blocks -> Part \cup {Nothing}]
  <2> SUFFICES ASSUME NEW c \in Blocks, c \in taken
               PROVE  [file |-> f, part |-> CHOOSE i \in 0 .. n - 1 : b[i] = c] \in Part
    BY <1>1, <1>2
  <2> DEFINE k == CHOOSE i \in 0 .. n - 1 : b[i] = c
  <2>1. k \in Ptrs
    BY <1>3, <1>8, Numbers DEF Ptrs
  <2>2. [file |-> f, part |-> k] \in Part
    <3> HIDE DEF k
    <3> QED
      BY <2>1 DEF Part
  <2> QED
    BY <2>2
<1>12. status' \in {"none", "ok", "spilled", "overrun"}
  BY <1>1
<1>13. pushed' \subseteq [path : Dirs \cup {Root, Elsewhere}, file : Files, size : Counts]
  BY <1>1 DEF TypeOK
<1>14. bitmap' \subseteq Blocks
  BY <1>1, <1>2, <1>7
<1>15. TypeOK'
  BY <1>10, <1>11, <1>12, <1>13, <1>14 DEF TypeOK, Table, Blocks, Slots, Ptrs, Node, Part, Dirs, Counts
<1> QED
  BY <1>3, <1>4, <1>9, <1>15 DEF b

LEMMA PushHolds ==
  ASSUME IInv, NEW path \in Dirs \cup {Root, Elsewhere}, NEW f \in Files, NEW n \in Counts,
         Push(path, f, n)
  PROVE  IInv'
<1> DEFINE t == TableOf(path)
           place == Place(t)
           b == FreeBlocks(n)
           taken == {b[i] : i \in 0 .. n - 1}
<1>1. TypeOK /\ TypeOK'
  BY PushTyped DEF IInv, ImageOK
<1>2. /\ n \in 0 .. MaxPtr
      /\ \A i \in 0 .. n - 1 : b[i] \in Blocks \ bitmap /\ data'[b[i]] = [file |-> f, part |-> i]
      /\ \A i, j \in 0 .. n - 1 : b[i] = b[j] => i = j
  BY <1>1, PushTyped
<1>3. /\ status \in {"ok", "spilled"}
      /\ rec' = [c \in Blocks |->
           CASE c = place[1] -> [rec[c] EXCEPT ![place[2]] = FileNode(f, n, b)]
             [] c \in taken -> Zero
             [] OTHER -> rec[c]]
      /\ data' = [c \in Blocks |->
           IF c \in taken
           THEN [file |-> f, part |-> CHOOSE i \in 0 .. n - 1 : b[i] = c]
           ELSE data[c]]
      /\ bitmap' = bitmap \cup taken
      /\ status' = IF place[1] = t THEN status ELSE "spilled"
      /\ pushed' = pushed \cup {[path |-> path, file |-> f, size |-> n]}
  BY DEF Push
<1> HIDE DEF b
<1>4. CASE status = "ok" /\ place[1] = t
  <2>1. Sound
    BY <1>4 DEF IInv, ImageOK, Sound
  <2>2. Leads
    BY <2>1, PathsLead DEF Sound
  <2>3. t \in TableBlocks /\ (path # Elsewhere => t = At(path))
    <3>1. CASE path \in Dirs
      BY <2>2, <3>1, Numbers DEF Leads, At, TableBlocks
    <3>2. CASE path \notin Dirs
      <4>1. t = RootStart \/ (path # Root /\ t = RootStart + 1)
        BY <2>2, <3>2 DEF Leads, TableOf
      <4>2. At(path) = RootStart
        BY <3>2, Numbers DEF At, Dirs
      <4> QED
        BY <3>2, <4>1, <4>2, Numbers DEF TableBlocks
    <3> QED
      BY <3>1, <3>2
  <2>4. /\ place[2] \in Slots /\ ~Used(t, place[2])
        /\ \A r \in 0 .. place[2] - 1 : Used(t, r)
    <3>1. t \in Nat
      BY <2>3, Numbers DEF TableBlocks
    <3> HIDE DEF t
    <3> QED
      BY <1>4, <3>1, PlaceFound
  <2> DEFINE s == place[2]
  <2>5. Adds(t, s, f, n, b)
    <3>1. \A c \in Blocks : rec'[c] = IF c = t THEN [rec[c] EXCEPT ![s] = FileNode(f, n, b)]
                                    ELSE IF c \in taken THEN Zero ELSE rec[c]
      <4> SUFFICES ASSUME NEW c \in Blocks
                   PROVE  rec'[c] = IF c = t THEN [rec[c] EXCEPT ![s] = FileNode(f, n, b)]
                                    ELSE IF c \in taken THEN Zero ELSE rec[c]
        OBVIOUS
      <4> DEFINE node == FileNode(f, n, b)
      <4>1. rec'[c] = CASE c = place[1] -> [rec[c] EXCEPT ![s] = node]
                        [] c \in taken -> Zero
                        [] OTHER -> rec[c]
        BY <1>3
      <4>2. place[1] = t
        BY <1>4
      <4>3. t \in Blocks /\ (c \in taken => c # t)
        <5>1. TableBlocks \subseteq bitmap /\ TableBlocks \subseteq Blocks
          BY <1>1, <2>1, TablesAreMarked, Numbers DEF Sound
        <5>2. t \in TableBlocks
          BY <2>3
        <5>3. c \in taken => c \notin bitmap
          <6>1. \A i \in 0 .. n - 1 : b[i] \notin bitmap
            BY <1>2
          <6>2. ASSUME NEW i \in 0 .. n - 1, c = b[i] PROVE c \notin bitmap
            BY <6>1, <6>2
          <6> QED
            BY <6>2
        <5> HIDE DEF t, taken
        <5> QED
          BY <5>1, <5>2, <5>3
      <4> HIDE DEF node, s, taken, t, place
      <4>4. CASE c = t
        BY <4>1, <4>2, <4>3, <4>4 DEF node
      <4>5. CASE c # t /\ c \in taken
        BY <4>1, <4>2, <4>5
      <4>6. CASE c # t /\ c \notin taken
        BY <4>1, <4>2, <4>6
      <4> QED
        BY <4>4, <4>5, <4>6
    <3>2. \A c \in Blocks \ taken : data'[c] = data[c]
      BY <1>3
    <3> HIDE DEF t, s
    <3> QED
      BY <1>2, <1>3, <2>3, <2>4, <3>1, <3>2 DEF Adds, s
  <2> HIDE DEF t, s, taken
  <2>6. Sound'
    BY <1>1, <2>1, <2>5, AddingIsSound
  <2>7. \A p \in Copies : IsThere(p) => IsThere(p)'
    BY <1>1, <2>1, <2>5, AddingKeepsFiles
  <2>8. path # Elsewhere => IsThere([path |-> path, file |-> f, size |-> n])'
    BY <1>1, <1>2, <2>1, <2>3, <2>5, AddedIsThere
  <2>9. PushedIsFound'
    <3> SUFFICES ASSUME NEW p \in pushed', p.path # Elsewhere PROVE IsThere(p)'
      BY DEF PushedIsFound
    <3>1. CASE p \in pushed
      BY <1>1, <1>4, <2>7, <3>1 DEF IInv, PushedIsFound, TypeOK, Copies
    <3>2. CASE p = [path |-> path, file |-> f, size |-> n]
      BY <2>8, <3>2
    <3> QED
      BY <1>3, <3>1, <3>2
  <2>10. status' = "ok"
    BY <1>3, <1>4
  <2> QED
    BY <1>1, <2>6, <2>9, <2>10 DEF IInv, ImageOK, Sound
<1>5. CASE ~(status = "ok" /\ place[1] = t)
  <2>1. status' = "spilled"
    BY <1>3, <1>5
  <2> QED
    BY <1>1, <2>1 DEF IInv, ImageOK, PushedIsFound
<1> QED
  BY <1>4, <1>5

(* disk_img_create                                                         *)
LEMMA CreateImageHolds ==
  ASSUME IInv, CreateImage, TotalBlock <= BitsPerBlock
  PROVE  IInv'
<1>1. RootStart = 3
  BY OneBitmapBlock
<1>2. /\ status = "none" /\ status' = "ok" /\ pushed' = pushed
      /\ rec' = [c \in Blocks |->
           IF c = RootStart
           THEN [Zero EXCEPT ![0] = DirNode(Boot, RootStart + 1),
                             ![1] = DirNode(System, RootStart + 2),
                             ![2] = DirNode(Home, RootStart + 3)]
           ELSE Zero]
      /\ data' = [c \in Blocks |-> Nothing]
      /\ bitmap' = 0 .. 6
  BY DEF CreateImage, MarkedAtCreation, RsvBlock
<1>3. /\ RootStart \in Blocks /\ RootStart \in TableBlocks /\ TableBlocks \subseteq Blocks
      /\ TableBlocks = 3 .. 6 /\ 0 .. 6 \subseteq Blocks /\ 0 .. 2 \subseteq Slots /\ 0 \in Ptrs
  BY <1>1, Numbers DEF TableBlocks, Blocks
<1> DEFINE root == rec'[RootStart]
<1>4. /\ root \in [Slots -> Node]
      /\ root[0] = DirNode(Boot, RootStart + 1) /\ root[1] = DirNode(System, RootStart + 2)
      /\ root[2] = DirNode(Home, RootStart + 3)
      /\ \A s \in Slots : s \notin 0 .. 2 => root[s] = EmptyNode
  <2>1. root = [Zero EXCEPT ![0] = DirNode(Boot, RootStart + 1),
                            ![1] = DirNode(System, RootStart + 2),
                            ![2] = DirNode(Home, RootStart + 3)]
    BY <1>2, <1>3
  <2>2. /\ DirNode(Boot, RootStart + 1) \in Node /\ DirNode(System, RootStart + 2) \in Node
        /\ DirNode(Home, RootStart + 3) \in Node
    BY <1>1, <1>3, Records DEF Dirs
  <2>3. Zero \in [Slots -> Node] /\ \A s \in Slots : Zero[s] = EmptyNode
    BY Records DEF Table
  <2> HIDE DEF root
  <2> QED
    BY <1>3, <2>1, <2>2, <2>3
<1>5. \A c \in Blocks, s \in Slots : c # RootStart => rec'[c] = Zero /\ rec'[c][s] = EmptyNode
  BY <1>2, Records
<1> HIDE DEF root
<1>6. \A s \in Slots, i \in Ptrs :
        /\ EmptyNode.name = Empty /\ ~EmptyNode.dir
        /\ s \in 0 .. 2 => /\ root[s].name # Empty /\ root[s].dir
                           /\ root[s].ptr[i] = IF i = 0 THEN RootStart + 1 + s ELSE 0
  <2>1. EmptyNode.name = Empty /\ ~EmptyNode.dir
    BY Records
  <2>2. ASSUME NEW s \in 0 .. 2, NEW i \in Ptrs
        PROVE  /\ root[s].name # Empty /\ root[s].dir
               /\ root[s].ptr[i] = IF i = 0 THEN RootStart + 1 + s ELSE 0
    <3>1. s = 0 \/ s = 1 \/ s = 2
      OBVIOUS
    <3> QED
      BY <1>1, <1>4, <3>1, Records, PackerAssumption DEF Dirs
  <2> QED
    BY <2>1, <2>2
<1>7. TypeOK'
  <2>1. rec' \in [Blocks -> [Slots -> Node]]
    <3>1. ASSUME NEW c \in Blocks PROVE rec'[c] \in [Slots -> Node]
      <4>1. CASE c = RootStart
        BY <1>4, <4>1 DEF root
      <4>2. CASE c # RootStart
        <5>1. Zero \in [Slots -> Node]
          BY Records DEF Table
        <5>2. rec'[c] = Zero
          BY <1>2, <4>2
        <5> QED
          BY <5>1, <5>2
      <4> QED
        BY <4>1, <4>2
    <3> QED
      BY <1>2, <3>1
  <2>2. data' \in [Blocks -> Part \cup {Nothing}]
    BY <1>2
  <2>3. bitmap' \subseteq Blocks
    BY <1>2, <1>3
  <2>4. pushed' \subseteq [path : Dirs \cup {Root, Elsewhere}, file : Files, size : Counts]
    BY <1>2 DEF IInv, ImageOK, TypeOK
  <2> QED
    BY <1>2, <2>1, <2>2, <2>3, <2>4 DEF TypeOK, Table, Blocks, Slots, Ptrs, Node, Part, Dirs, Counts
<1>8. DirsFixed'
  <2>1. \A c \in Blocks, s \in Slots : rec'[c][s].dir => c = RootStart /\ s \in 0 .. 2
    BY <1>4, <1>5, <1>6, <1>3 DEF root
  <2> QED
    BY <1>4, <2>1 DEF DirsFixed, root, DirNode, RootStart, BitmapBlocks, Blocks, Slots, Ptrs
<1>9. Tables' = TableBlocks
  <2>1. DirsFixed' => (Tables = TableBlocks)'
    BY TablesFixed, PTL
  <2> QED
    BY <1>8, <2>1 DEF TableBlocks, RootStart, BitmapBlocks
<1>10. \A u \in TableBlocks, s \in Slots :
         /\ rec'[u][s].name # Empty => u = RootStart /\ s \in 0 .. 2
         /\ u = RootStart => rec'[u][s] = root[s]
  BY <1>3, <1>4, <1>5, <1>6 DEF root
<1>11. \A u \in TableBlocks, s \in Slots, i \in Ptrs :
         Points(u, s, i)' => /\ u = RootStart /\ s \in 0 .. 2 /\ i = 0
                            /\ rec'[u][s].ptr[i] = RootStart + 1 + s
  BY <1>6, <1>10 DEF Points
<1>12. TablesClear'
  BY <1>2, <1>3, <1>9 DEF TablesClear
<1>13. InOrder'
  <2> SUFFICES ASSUME NEW u \in TableBlocks, NEW r \in Slots, NEW s \in Slots,
                      r < s, rec'[u][s].name # Empty
               PROVE  rec'[u][r].name # Empty
    BY <1>9 DEF InOrder
  <2>1. u = RootStart /\ s \in 0 .. 2
    BY <1>10
  <2>2. r \in 0 .. 2 /\ rec'[u][r] = root[r]
    BY <1>10, <2>1 DEF Slots
  <2> QED
    BY <1>3, <1>6, <2>2
<1>14. Sized'
  <2> SUFFICES ASSUME NEW u \in TableBlocks, NEW s \in Slots,
                      rec'[u][s].name # Empty, ~rec'[u][s].dir
               PROVE  FALSE
    BY <1>9 DEF Sized
  <2>1. u = RootStart /\ s \in 0 .. 2 /\ rec'[u][s] = root[s]
    BY <1>10
  <2> QED
    BY <1>3, <1>6, <2>1
<1>15. Marked'
  <2> SUFFICES ASSUME NEW u \in TableBlocks, NEW s \in Slots, NEW i \in Ptrs, Points(u, s, i)'
               PROVE  rec'[u][s].ptr[i] \in bitmap' /\ rec'[u][s].ptr[i] > RootStart
    BY <1>9 DEF Marked, RootStart, BitmapBlocks
  <2>1. s \in 0 .. 2 /\ rec'[u][s].ptr[i] = RootStart + 1 + s
    BY <1>11
  <2> QED
    BY <1>1, <1>2, <2>1
<1>16. OneOwner'
  <2> SUFFICES ASSUME NEW u \in TableBlocks, NEW r \in Slots, NEW i \in Ptrs, Points(u, r, i)',
                      NEW v \in TableBlocks, NEW q \in Slots, NEW j \in Ptrs, Points(v, q, j)',
                      rec'[v][q].ptr[j] = rec'[u][r].ptr[i]
               PROVE  v = u /\ q = r /\ j = i
    BY <1>9 DEF OneOwner
  <2>1. /\ u = RootStart /\ r \in 0 .. 2 /\ i = 0 /\ rec'[u][r].ptr[i] = RootStart + 1 + r
        /\ v = RootStart /\ q \in 0 .. 2 /\ j = 0 /\ rec'[v][q].ptr[j] = RootStart + 1 + q
    BY <1>11
  <2> QED
    BY <1>1, <2>1
<1>17. FreeBlank'
  <2>1. \A c \in Blocks : c \notin 0 .. 6 => c # RootStart /\ rec'[c] = Zero /\ data'[c] = Nothing
    BY <1>1, <1>2
  <2> QED
    BY <1>2, <2>1 DEF FreeBlank, Blocks, Zero, EmptyNode, Slots, Ptrs
<1>18. (0 .. RootStart \subseteq bitmap)'
  <2>1. 0 .. RootStart \subseteq bitmap'
    BY <1>1, <1>2
  <2> QED
    BY <2>1 DEF RootStart, BitmapBlocks
<1>19. PushedIsFound'
  BY <1>2 DEF IInv, PushedIsFound
<1> QED
  BY <1>2, <1>7, <1>8, <1>12, <1>13, <1>14, <1>15, <1>16, <1>17, <1>18, <1>19 DEF IInv, ImageOK

-----------------------------------------------------------------------------
(* The invariant, for images of one bitmap block (up to 32768 blocks).     *)
THEOREM PackerInvariant ==
  ASSUME TotalBlock <= BitsPerBlock
  PROVE  Spec => []IInv
<1>1. Init => IInv
  <2> SUFFICES ASSUME Init PROVE IInv
    OBVIOUS
  <2>1. Zero \in Table
    BY Records
  <2>2. TypeOK
    BY <2>1 DEF Init, TypeOK
  <2> QED
    BY <2>2 DEF Init, IInv, ImageOK, PushedIsFound
<1>2. IInv /\ [Next]_vars => IInv'
  <2> SUFFICES ASSUME IInv, [Next]_vars PROVE IInv'
    OBVIOUS
  <2>1. CASE CreateImage
    BY <2>1, CreateImageHolds
  <2>2. CASE InstallBoot
    BY <2>2, InstallBootHolds
  <2>3. ASSUME NEW path \in Dirs \cup {Root, Elsewhere}, NEW f \in Files, NEW n \in Counts,
               Push(path, f, n)
        PROVE  IInv'
    BY <2>3, PushHolds
  <2>4. ASSUME NEW path \in Dirs \cup {Root, Elsewhere}, NEW n \in Counts,
               PushOverrun(path, n)
        PROVE  IInv'
    <3>1. status' = "overrun" /\ UNCHANGED <<rec, data, bitmap, pushed>>
      BY <2>4 DEF PushOverrun
    <3>2. TypeOK'
      BY <3>1 DEF IInv, ImageOK, TypeOK, Table, Blocks, Slots, Ptrs, Node, Part, Dirs, Counts
    <3> QED
      BY <3>1, <3>2 DEF IInv, ImageOK, PushedIsFound
  <2>5. CASE UNCHANGED vars
    <3>1. UNCHANGED <<rec, data, bitmap, status, pushed>>
      BY <2>5 DEF vars
    <3>2. TypeOK'
      BY <3>1 DEF IInv, ImageOK, TypeOK, Table, Blocks, Slots, Ptrs, Node, Part, Dirs, Counts
    <3>3. Tables' = Tables /\ \A t, s, i : Points(t, s, i)' <=> Points(t, s, i)
      BY <3>1 DEF Tables, Points, Slots, RootStart, BitmapBlocks
    <3>4. /\ TablesClear => TablesClear'
          /\ InOrder => InOrder'
          /\ Sized => Sized'
      BY <3>1, <3>3 DEF TablesClear, InOrder, Sized, Slots, Ptrs
    <3>5. /\ Marked => Marked'
          /\ OneOwner => OneOwner'
      BY <3>1, <3>3 DEF Marked, OneOwner, Slots, Ptrs, RootStart, BitmapBlocks
    <3>6. FreeBlank => FreeBlank'
      BY <3>1 DEF FreeBlank, Blocks, Zero, EmptyNode, Slots, Ptrs
    <3>7. DirsFixed => DirsFixed'
      BY <3>1 DEF DirsFixed, Blocks, Slots, RootStart, BitmapBlocks, DirNode, Ptrs
    <3>8. ASSUME NEW p, IsThere(p) PROVE IsThere(p)'
      <4>1. Named(p.path)' = Named(p.path)
        BY <3>1 DEF Named, IsDir, TableOf, Used, Slots, RootStart, BitmapBlocks
      <4> QED
        BY <3>1, <3>8, <4>1 DEF IsThere, Slots
    <3>9. PushedIsFound => PushedIsFound'
      BY <3>1, <3>8 DEF PushedIsFound
    <3> QED
      BY <3>1, <3>2, <3>4, <3>5, <3>6, <3>7, <3>9 DEF IInv, ImageOK, RootStart, BitmapBlocks
  <2> QED
    BY <2>1, <2>2, <2>3, <2>4, <2>5 DEF Next
<1> QED
  BY <1>1, <1>2, PTL DEF Spec

(* disk_img_create, main_boot_set and file_push: the image FluidFS starts  *)
(* from is sound, whatever is copied into it, while no directory is full   *)
(* and the loader has not been installed into a /boot/ that is in use.     *)
THEOREM ImageStaysSound ==
  ASSUME TotalBlock <= BitsPerBlock
  PROVE  Spec => []ImageOK
<1>1. IInv => ImageOK
  BY DEF IInv
<1> QED
  BY <1>1, PackerInvariant, PTL

(* file_push: so long, a file that was copied is where its path says,      *)
(* whole, after later copies and the loader's installation.                *)
THEOREM CopiesStay ==
  ASSUME TotalBlock <= BitsPerBlock
  PROVE  Spec => []PushedIsFound
<1>1. IInv => PushedIsFound
  BY DEF IInv
<1> QED
  BY <1>1, PackerInvariant, PTL
=============================================================================
