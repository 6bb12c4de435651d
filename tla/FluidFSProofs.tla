--------------------------- MODULE FluidFSProofs ---------------------------
(***************************************************************************)
(* For every disk size, table size and image: FluidFS never gives one      *)
(* block to two owners, the pointers of its records fit their sizes, the   *)
(* scans find all of them, and no block is lost between them but in the    *)
(* two known ways.  The inductive invariant IInv adds to the properties    *)
(* what a running call holds in g_fcheck_buffer: the pointers of the       *)
(* record it works on (InFlight) and how that buffer relates to the block  *)
(* it was read from (Writing).  At the end: what power cuts and lost       *)
(* writes cannot do.                                                       *)
(***************************************************************************)
EXTENDS FluidFSFaults, WellFoundedInduction, TLAPS

(* ceil(n / block_size) never exceeds the pointers of a record.            *)
LEMMA BlocksForBound ==
  ASSUME NEW n \in Sizes
  PROVE  /\ BlocksFor(n) \in 0 .. MaxPtr
         /\ n # 0 => BlocksFor(n) > 0
<1> DEFINE q == BlocksFor(n)
<1>1. BlockSize \in Nat \ {0} /\ MaxPtr \in Nat \ {0} /\ n \in Nat
  BY FluidFSAssumption DEF Sizes
<1>2. q \in Int /\ BlockSize * q <= n + BlockSize - 1 /\ n + BlockSize - 1 < BlockSize * q + BlockSize
  BY <1>1 DEF BlocksFor
<1>3. n <= MaxPtr * BlockSize
  BY <1>1 DEF Sizes
<1>4. q <= MaxPtr
  BY <1>1, <1>2, <1>3
<1>5. q >= 0 /\ (n # 0 => q > 0)
  BY <1>1, <1>2
<1> QED
  BY <1>1, <1>2, <1>4, <1>5

-----------------------------------------------------------------------------
(* Records and tables.                                                     *)

(* Setting one pointer of one record leaves the rest of the table alone.   *)
LEMMA SetPointer ==
  ASSUME NEW T \in Table, NEW s \in Slots, NEW i \in Ptrs, NEW b \in Bits
  PROVE  LET U == WithPtr(T, s, i, b)
         IN /\ U \in Table
            /\ \A r \in Slots \ {s} : U[r] = T[r]
            /\ U[s].name = T[s].name /\ U[s].dir = T[s].dir /\ U[s].size = T[s].size
            /\ \A j \in Ptrs : U[s].ptr[j] = IF j = i THEN b ELSE T[s].ptr[j]
<1> DEFINE p == [T[s].ptr EXCEPT ![i] = b]
           N == [T[s] EXCEPT !.ptr = p]
<1>1. T[s] \in Node /\ T[s].ptr \in [Ptrs -> Bits]
  BY DEF Table, Node
<1>2. WithPtr(T, s, i, b) = [T EXCEPT ![s] = N]
  BY <1>1 DEF Table, Node, WithPtr
<1>3. p \in [Ptrs -> Bits] /\ \A j \in Ptrs : p[j] = IF j = i THEN b ELSE T[s].ptr[j]
  BY <1>1
<1>4. N \in Node /\ N.ptr = p /\ N.name = T[s].name /\ N.dir = T[s].dir /\ N.size = T[s].size
  <2> HIDE DEF p
  <2> QED BY <1>1, <1>3 DEF Node
<1> HIDE DEF p, N
<1> QED
  BY <1>2, <1>3, <1>4 DEF Table

(* The empty record is a record, and a zeroed block a table.               *)
LEMMA EmptyTyped ==
  /\ EmptyNode \in Node /\ Zero \in Table /\ Gone \in Node
  /\ \A s \in Slots : Zero[s] = EmptyNode
  /\ Gone.name = Deleted /\ ~Gone.dir
<1>1. 0 \in Bits /\ 0 \in Sizes
  BY FluidFSAssumption DEF Bits, Sizes
<1>2. EmptyNode \in Node
  BY <1>1 DEF EmptyNode, Node
<1>3. Gone \in Node /\ Gone.name = Deleted /\ ~Gone.dir
  BY <1>1 DEF EmptyNode, Gone, Node
<1> QED
  BY <1>2, <1>3 DEF Zero, Table

(* What cnode makes is a record.                                           *)
LEMMA NewNodeTyped ==
  ASSUME NEW f \in Names, NEW b \in Bits
  PROVE  /\ NewNode(f, b) \in Node
         /\ NewNode(f, b).name = f /\ ~NewNode(f, b).dir
         /\ \A i \in Ptrs : NewNode(f, b).ptr[i] = IF i = 0 THEN b ELSE 0
<1>1. 0 \in Bits /\ 0 \in Sizes
  BY FluidFSAssumption DEF Bits, Sizes
<1> QED
  BY <1>1 DEF EmptyNode, NewNode, Node

(* Directories are found where the tables are.                             *)
LEMMA LookupInTables ==
  ASSUME NEW d \in Directories, NEW p \in DirPtrs(d), NEW i \in Ptrs
  PROVE  p[i] \in Tables(disk)
<1>1. CASE d = Root
  BY <1>1 DEF DirPtrs, RootPtr, Tables
<1>2. CASE d # Root
  <2>1. PICK s \in Slots : p = disk[RootBlock][s].ptr /\ DirRecord(disk, s)
    BY <1>2 DEF DirPtrs, DirRecord, Directories
  <2> QED
    BY <2>1 DEF Tables
<1> QED
  BY <1>1, <1>2

(* A place fcheck returns is in a table and holds the name.                *)
LEMMA HitPlace ==
  ASSUME NEW d \in Directories, NEW p \in DirPtrs(d), NEW f \in Names, NEW a \in Hits(p, f)
  PROVE  /\ p[a[1]] \in Tables(disk) /\ a[2] \in Slots
         /\ disk[p[a[1]]][a[2]].name = f
BY LookupInTables DEF Hits, Places, NameAt

(* A place cnode fills is in a table and holds no file.                    *)
LEMMA FreePlace ==
  ASSUME NEW d \in Directories, NEW p \in DirPtrs(d), NEW a \in FreePlaces(p)
  PROVE  /\ p[a[1]] \in Tables(disk) /\ a[2] \in Slots
         /\ disk[p[a[1]]][a[2]].name \in {Empty, Deleted}
BY LookupInTables DEF FreePlaces, Places, NameAt

-----------------------------------------------------------------------------
(* Disk images.                                                            *)

(* A table is block 0, the root table or a block of a directory.           *)
LEMMA TableCases ==
  ASSUME NEW D, NEW b
  PROVE  b \in Tables(D) <=>
           \/ b = 0 \/ b = RootBlock
           \/ \E s \in Slots, i \in Ptrs : DirRecord(D, s) /\ b = D[RootBlock][s].ptr[i]
BY DEF Tables

(* The root table is always in reach.                                      *)
LEMMA RootIsTable == ASSUME NEW D PROVE RootBlock \in Tables(D)
BY DEF Tables

(* An image that agrees with D on the tables of D has the same tables and  *)
(* the same records.                                                       *)
LEMMA SameTables ==
  ASSUME NEW D, NEW E, \A t \in Tables(D) : E[t] = D[t]
  PROVE  /\ Tables(E) = Tables(D)
         /\ TablesReadable(D) => TablesReadable(E)
         /\ ExclusiveBlocks(D) => ExclusiveBlocks(E)
<1>1. RootBlock \in Tables(D)
  BY DEF Tables
<1>2. E[RootBlock] = D[RootBlock]
  BY <1>1
<1>3. Tables(E) = Tables(D)
  BY <1>2 DEF Tables, DirRecord
<1>4. TablesReadable(D) => TablesReadable(E)
  BY <1>3 DEF TablesReadable
<1>5. ExclusiveBlocks(D) => ExclusiveBlocks(E)
  BY <1>3 DEF ExclusiveBlocks, Holds
<1> QED
  BY <1>3, <1>4, <1>5

(* A block no record owns can be written without touching a table.         *)
LEMMA OutsideTables ==
  ASSUME NEW b \in Bits, b > RootBlock,
         \A s \in Slots, i \in Ptrs :
           DirRecord(disk, s) /\ Holds(disk, RootBlock, s, i) =>
             disk[RootBlock][s].ptr[i] # b
  PROVE  b \notin Tables(disk)
<1>1. RootBlock \in Nat /\ b \in Nat
  BY FluidFSAssumption DEF Bits
<1> QED
  BY <1>1 DEF Tables, DirRecord, Holds, Names

(* Replacing a record by one that is no directory takes tables away at     *)
(* most, and none if it was no directory before.                           *)
LEMMA ReplaceRecord ==
  ASSUME NEW D, TablesReadable(D),
         NEW t \in Tables(D), NEW s \in Slots, NEW T \in Table,
         ~T[s].dir, \A r \in Slots \ {s} : T[r] = D[t][r],
         NEW E, E[t] = T, \A b \in Blocks \ {t} : E[b] = D[b]
  PROVE  /\ Tables(E) \subseteq Tables(D)
         /\ ~D[t][s].dir \/ D[t][s].name \notin Dirs => Tables(E) = Tables(D)
         /\ TablesReadable(E)
<1>1. t \in Blocks /\ RootBlock \in Blocks /\ Tables(D) \subseteq Blocks
  BY DEF TablesReadable, Tables
<1>3. \A r \in Slots : DirRecord(E, r) => DirRecord(D, r) /\ E[RootBlock][r] = D[RootBlock][r]
  BY <1>1 DEF DirRecord
<1>4. ASSUME NEW b \in Tables(E) PROVE b \in Tables(D)
  <2>1. CASE b = 0 \/ b = RootBlock
    BY <2>1, TableCases
  <2>2. CASE \E r \in Slots, i \in Ptrs : DirRecord(E, r) /\ b = E[RootBlock][r].ptr[i]
    <3>1. PICK r \in Slots, i \in Ptrs : DirRecord(E, r) /\ b = E[RootBlock][r].ptr[i]
      BY <2>2
    <3>2. DirRecord(D, r) /\ b = D[RootBlock][r].ptr[i]
      BY <3>1, <1>3
    <3> QED
      BY <3>2, TableCases
  <2>3. \/ b = 0 \/ b = RootBlock
        \/ \E r \in Slots, i \in Ptrs : DirRecord(E, r) /\ b = E[RootBlock][r].ptr[i]
    BY DEF Tables
  <2> QED
    BY <2>1, <2>2, <2>3
<1>5. ~D[t][s].dir \/ D[t][s].name \notin Dirs =>
        \A r \in Slots : DirRecord(D, r) => DirRecord(E, r) /\ E[RootBlock][r] = D[RootBlock][r]
  BY <1>1 DEF DirRecord
<1>6. ASSUME ~D[t][s].dir \/ D[t][s].name \notin Dirs, NEW b \in Tables(D) PROVE b \in Tables(E)
  <2>1. CASE b = 0 \/ b = RootBlock
    BY <2>1, TableCases
  <2>2. CASE \E r \in Slots, i \in Ptrs : DirRecord(D, r) /\ b = D[RootBlock][r].ptr[i]
    <3>1. PICK r \in Slots, i \in Ptrs : DirRecord(D, r) /\ b = D[RootBlock][r].ptr[i]
      BY <2>2
    <3>2. DirRecord(E, r) /\ b = E[RootBlock][r].ptr[i]
      BY <3>1, <1>5, <1>6
    <3> QED
      BY <3>2, TableCases
  <2> QED
    BY <2>1, <2>2, TableCases
<1>7. TablesReadable(E)
  BY <1>1, <1>4 DEF TablesReadable
<1> QED
  BY <1>4, <1>6, <1>7

-----------------------------------------------------------------------------
(* fluidfs_init starts from an image on which the invariant holds.         *)
LEMMA InitInv == Init => IInv
<1> SUFFICES ASSUME Init PROVE IInv
  OBVIOUS
<1> USE DEF Init
<1>1. TypeOK
  <2>1. 0 \in Blocks /\ 0 \in Slots /\ 0 \in 0 .. MaxPtr /\ 0 \in Sizes
    BY FluidFSAssumption DEF Blocks, Slots, Sizes
  <2>2. ImageMap \subseteq Bits /\ ImageMap \subseteq 0 .. MapBits - 1
    BY FluidFSAssumption, ImageAssumption DEF Bits
  <2>3. NoReq \in Reqs
    BY <2>1 DEF NoReq, Reqs, Directories
  <2> QED
    BY <2>1, <2>2, <2>3, EmptyTyped, ImageAssumption DEF TypeOK
<1>2. NoCrossLink /\ FreedBlocksErased /\ UsedBlocksMarked /\ FixedMarked /\ TablesReadable(disk)
  BY ImageAssumption
     DEF NoCrossLink, FreedBlocksErased, UsedBlocksMarked, FixedMarked, MarkedBlocks
<1>3. InFlight /\ Writing /\ Deleting
  BY DEF InFlight, Writing, Deleting
<1> QED
  BY <1>1, <1>2, <1>3 DEF IInv, Owned

-----------------------------------------------------------------------------
(* One lemma per action, which says that it keeps Owned, that free blocks  *)
(* stay blank, which records are new on the disk (none but the one that    *)
(* the bitmap is flushed for next), and which block is written (the        *)
(* record's, or one that is no other file's).                              *)

RecordsKept ==
  /\ Tables(disk') \subseteq Tables(disk)
  /\ \A t \in Tables(disk'), s \in Slots :
       \/ disk'[t][s] = disk[t][s]
       \/ /\ t = cblk' /\ s = cslot'
          /\ \/ pc = "idle" /\ pc' = "d_trim" /\ disk'[t][s].name \notin Names
             \/ pc' \in {"w_map", "c_map"} /\ disk'[t][s] = buf'[s]

OneWritten ==
  \/ disk' = disk
  \/ \E b \in Bits :
       /\ \A e \in Blocks \ {b} : disk'[e] = disk[e]
       /\ \/ b \in Tables(disk) /\ b = cblk' /\ \A r \in Slots \ {cslot'} : disk'[b][r] = disk[b][r]
          \/ /\ b \notin Tables(disk)
             /\ \A t \in Tables(disk), s \in Slots, i \in Ptrs :
                  Holds(disk, t, s, i) /\ disk[t][s].ptr[i] = b => t = cblk /\ s = cslot

Kept ==
  /\ Owned'
  /\ FreedBlocksErased => FreedBlocksErased'
  /\ RecordsKept
  /\ OneWritten

(* Erasing or filling a block that holds no table.                         *)
LEMMA WriteOutside ==
  ASSUME disk \in [Blocks -> Table \cup Data], TablesReadable(disk), NoCrossLink,
         NEW b \in Bits, b \notin Tables(disk), NEW c \in Table \cup Data,
         disk' = Written(b, c)
  PROVE  /\ disk' \in [Blocks -> Table \cup Data]
         /\ \A e \in Blocks \ {b} : disk'[e] = disk[e]
         /\ b \in Blocks => disk'[b] = c
         /\ \A t \in Tables(disk) : disk'[t] = disk[t]
         /\ Tables(disk') = Tables(disk)
         /\ TablesReadable(disk)'
         /\ NoCrossLink'
<1>1. /\ disk' \in [Blocks -> Table \cup Data]
      /\ \A e \in Blocks \ {b} : disk'[e] = disk[e]
      /\ b \in Blocks => disk'[b] = c
  BY DEF Written
<1>2. \A t \in Tables(disk) : disk'[t] = disk[t]
  BY <1>1 DEF TablesReadable
<1> QED
  BY <1>1, <1>2, SameTables DEF NoCrossLink

(* A data block is written: it is the file's own, or it was free.          *)
LEMMA WriteBlockInv ==
  ASSUME Owned, WriteBlock
  PROVE  Kept
<1> USE DEF Owned, Current
<1>1. pc = "w_data"
  BY DEF WriteBlock
<1>2. k \in Ptrs /\ k + 1 \in 0 .. MaxPtr /\ req.n \in Sizes
      /\ (k + 1 < BlocksFor(req.n) => k + 1 < MaxPtr)
  BY <1>1, BlocksForBound, FluidFSAssumption DEF TypeOK, Reqs, Ptrs
<1>3. PICK b \in Bits \ {0} :
        /\ IF Current.ptr[k] # 0
           THEN b = Current.ptr[k] /\ bitmap' = bitmap
           ELSE NextFree(b) /\ bitmap' = bitmap \cup {b}
        /\ buf' = WithPtr(buf, cslot, k, b)
        /\ disk' = Written(b, req.data)
  BY DEF WriteBlock
<1>4. /\ b > RootBlock
      /\ bitmap \subseteq bitmap' /\ bitmap' \subseteq Bits /\ b \in bitmap'
      /\ \A t \in Tables(disk), s \in Slots, i \in Ptrs :
           Holds(disk, t, s, i) /\ disk[t][s].ptr[i] = b => t = cblk /\ s = cslot /\ i = k
      /\ \A i \in Ptrs : i # k /\ Current.ptr[i] # 0 => Current.ptr[i] # b
  <2>1. CASE Current.ptr[k] # 0
    BY <1>1, <1>2, <1>3, <2>1 DEF InFlight, TypeOK
  <2>2. CASE Current.ptr[k] = 0
    <3>1. b \in Bits \ bitmap /\ bitmap' = bitmap \cup {b}
      BY <1>3, <2>2 DEF NextFree
    <3>2. b > RootBlock
      BY <3>1, FluidFSAssumption DEF FixedMarked, Bits
    <3>3. \A t \in Tables(disk), s \in Slots, i \in Ptrs :
            Holds(disk, t, s, i) => disk[t][s].ptr[i] \in bitmap
      BY <1>1 DEF UsedBlocksMarked
    <3> QED
      BY <1>1, <3>1, <3>2, <3>3 DEF InFlight, TypeOK
  <2> QED
    BY <2>1, <2>2
<1>5. b \notin Tables(disk)
  <2>1. \A s \in Slots, i \in Ptrs :
          DirRecord(disk, s) /\ Holds(disk, RootBlock, s, i) => disk[RootBlock][s].ptr[i] # b
    BY <1>1, <1>4, RootIsTable DEF Writing, DirRecord
  <2> QED
    BY <1>4, <2>1, OutsideTables
<1>6. req.data \in Data
  BY <1>1 DEF TypeOK
<1>7. /\ disk' \in [Blocks -> Table \cup Data]
      /\ \A e \in Blocks \ {b} : disk'[e] = disk[e]
      /\ \A t \in Tables(disk) : disk'[t] = disk[t]
      /\ Tables(disk') = Tables(disk)
      /\ TablesReadable(disk)' /\ NoCrossLink'
  BY <1>3, <1>5, <1>6, WriteOutside DEF TypeOK
<1>8. /\ buf' \in Table
      /\ \A r \in Slots \ {cslot} : buf'[r] = buf[r]
      /\ buf'[cslot].name = buf[cslot].name /\ buf'[cslot].dir = buf[cslot].dir
      /\ \A j \in Ptrs : buf'[cslot].ptr[j] = IF j = k THEN b ELSE buf[cslot].ptr[j]
  <2>1. buf \in Table /\ cslot \in Slots
    BY DEF TypeOK
  <2> QED
    BY <1>2, <1>3, <2>1, SetPointer
<1>9. /\ dmap' = dmap /\ req' = req /\ cblk' = cblk /\ cslot' = cslot /\ k' = k + 1
      /\ left' = IF left >= BlockSize THEN left - BlockSize ELSE left
      /\ pc' = IF k + 1 < BlocksFor(req.n) THEN "w_data" ELSE "w_trim"
  BY DEF WriteBlock
<1>10. TypeOK'
  <2>1. left' \in Sizes
    BY <1>9, FluidFSAssumption DEF TypeOK, Sizes
  <2> QED
    BY <1>2, <1>4, <1>7, <1>8, <1>9, <1>6, <2>1 DEF TypeOK
<1>11. UsedBlocksMarked'
  BY <1>1, <1>4, <1>7 DEF UsedBlocksMarked, Holds
<1>12. FreedBlocksErased => FreedBlocksErased'
  BY <1>4, <1>7 DEF FreedBlocksErased, ErasedOutside
<1>13. FixedMarked'
  BY <1>4 DEF FixedMarked
<1>14. InFlight'
  <2>1. \A i \in Ptrs : buf'[cslot].ptr[i] # 0 =>
          buf'[cslot].ptr[i] > RootBlock /\ buf'[cslot].ptr[i] \in bitmap'
    BY <1>1, <1>4, <1>8 DEF InFlight
  <2>2. \A i, j \in Ptrs :
          buf'[cslot].ptr[i] # 0 /\ buf'[cslot].ptr[i] = buf'[cslot].ptr[j] => i = j
    BY <1>1, <1>4, <1>8 DEF InFlight
  <2>3. \A t \in Tables(disk), s \in Slots, i, j \in Ptrs :
          Holds(disk, t, s, i) /\ disk[t][s].ptr[i] = buf'[cslot].ptr[j] =>
            t = cblk /\ s = cslot /\ i = j
    BY <1>1, <1>4, <1>8 DEF InFlight
  <2> QED
    BY <1>7, <1>9, <2>1, <2>2, <2>3 DEF InFlight, Holds
<1>15. Writing' /\ Deleting'
  BY <1>1, <1>7, <1>8, <1>9 DEF Writing, Deleting, TypeOK
<1>16. RecordsKept
  BY <1>7 DEF RecordsKept
<1>17. OneWritten
  BY <1>4, <1>5, <1>7 DEF OneWritten
<1> QED
  BY <1>7, <1>10, <1>11, <1>12, <1>13, <1>14, <1>15, <1>16, <1>17 DEF Kept

(* Trimming and deleting erase and free the next block of the record.      *)
LEMMA EraseInv ==
  ASSUME Owned, TrimBlock \/ DeleteBlock
  PROVE  Kept
<1> DEFINE b == buf[cslot].ptr[k]
<1> USE DEF Owned, Current
<1>1. /\ pc \in {"w_trim", "d_trim"} /\ k < MaxPtr /\ b # 0
      /\ disk' = Written(b, Zero) /\ bitmap' = Freed(b)
      /\ buf' = WithPtr(buf, cslot, k, 0)
      /\ k' = k + 1 /\ dmap' = dmap /\ pc' = pc /\ req' = req
      /\ cblk' = cblk /\ cslot' = cslot /\ left' = left
  BY DEF TrimBlock, DeleteBlock
<1>2. k \in Ptrs /\ k + 1 \in 0 .. MaxPtr /\ buf \in Table /\ cslot \in Slots /\ b \in Bits /\ 0 \in Bits
  <2>1. k \in Ptrs /\ k + 1 \in 0 .. MaxPtr /\ buf \in Table /\ cslot \in Slots /\ 0 \in Bits
    BY <1>1, FluidFSAssumption DEF TypeOK, Ptrs, Bits
  <2>2. buf[cslot].ptr \in [Ptrs -> Bits]
    BY <2>1 DEF Table, Node
  <2> QED
    BY <2>1, <2>2
<1>3. /\ b > RootBlock /\ b \in bitmap
      /\ \A i \in Ptrs : i # k /\ buf[cslot].ptr[i] # 0 => buf[cslot].ptr[i] # b
      /\ \A t \in Tables(disk), s \in Slots, i \in Ptrs :
           Holds(disk, t, s, i) /\ disk[t][s].ptr[i] = b =>
             t = cblk /\ s = cslot /\ i = k
  BY <1>1, <1>2 DEF InFlight
<1>4. b \notin Tables(disk)
  <2>1. \A s \in Slots, i \in Ptrs :
          DirRecord(disk, s) /\ Holds(disk, RootBlock, s, i) => disk[RootBlock][s].ptr[i] # b
    <3>1. CASE pc = "w_trim"
      BY <3>1, <1>3, RootIsTable DEF Writing, DirRecord
    <3>2. CASE pc = "d_trim"
      BY <3>2, <1>3, RootIsTable DEF Deleting, Holds
    <3> QED
      BY <3>1, <3>2, <1>1
  <2> QED
    BY <1>2, <1>3, <2>1, OutsideTables
<1>5. /\ disk' \in [Blocks -> Table \cup Data]
      /\ \A e \in Blocks \ {b} : disk'[e] = disk[e]
      /\ b \in Blocks => disk'[b] = Zero
      /\ \A t \in Tables(disk) : disk'[t] = disk[t]
      /\ Tables(disk') = Tables(disk)
      /\ TablesReadable(disk)' /\ NoCrossLink'
  BY <1>1, <1>2, <1>4, EmptyTyped, WriteOutside DEF TypeOK
<1>6. /\ buf' \in Table
      /\ \A r \in Slots \ {cslot} : buf'[r] = buf[r]
      /\ buf'[cslot].name = buf[cslot].name /\ buf'[cslot].dir = buf[cslot].dir
      /\ \A j \in Ptrs : buf'[cslot].ptr[j] = IF j = k THEN 0 ELSE buf[cslot].ptr[j]
  BY <1>1, <1>2, SetPointer
<1>7. bitmap' = bitmap \ {b}
  BY <1>1 DEF Freed
<1> HIDE DEF b
<1>8. TypeOK'
  BY <1>1, <1>2, <1>5, <1>6, <1>7 DEF TypeOK
<1>9. UsedBlocksMarked'
  <2> SUFFICES ASSUME NEW t \in Tables(disk), NEW s \in Slots, NEW i \in Ptrs,
                      Holds(disk, t, s, i), disk[t][s].ptr[i] \notin bitmap'
               PROVE  /\ t = cblk /\ s = cslot /\ pc = "w_trim"
                      /\ i < k + 1 /\ buf'[s].ptr[i] = 0
    BY <1>1, <1>5 DEF UsedBlocksMarked, Holds, Changing
  <2>1. CASE disk[t][s].ptr[i] = b
    <3>1. t = cblk /\ s = cslot /\ i = k
      BY <1>3, <2>1
    <3>2. pc = "w_trim"
      BY <1>1, <3>1 DEF Deleting, Holds
    <3> QED
      BY <1>2, <1>6, <3>1, <3>2 DEF Ptrs
  <2>2. CASE disk[t][s].ptr[i] # b
    <3>1. <<t, s>> \in Changing /\ pc = "w_trim" /\ i < k /\ buf[s].ptr[i] = 0
      BY <1>7, <2>2 DEF UsedBlocksMarked
    <3> QED
      BY <1>2, <1>6, <3>1 DEF Changing, Ptrs
  <2> QED
    BY <2>1, <2>2
<1>10. FreedBlocksErased => FreedBlocksErased'
  BY <1>5, <1>7 DEF FreedBlocksErased, ErasedOutside
<1>11. FixedMarked'
  BY <1>2, <1>3, <1>7, FluidFSAssumption DEF FixedMarked, Bits
<1>12. InFlight'
  <2>1. \A i \in Ptrs : buf'[cslot].ptr[i] # 0 =>
          buf'[cslot].ptr[i] > RootBlock /\ buf'[cslot].ptr[i] \in bitmap'
    BY <1>1, <1>3, <1>6, <1>7 DEF InFlight
  <2>2. \A i, j \in Ptrs :
          buf'[cslot].ptr[i] # 0 /\ buf'[cslot].ptr[i] = buf'[cslot].ptr[j] => i = j
    BY <1>1, <1>6 DEF InFlight
  <2>3. \A t \in Tables(disk), s \in Slots, i, j \in Ptrs :
          Holds(disk, t, s, i) /\ disk[t][s].ptr[i] = buf'[cslot].ptr[j] =>
            t = cblk /\ s = cslot /\ i = j
    BY <1>1, <1>6 DEF InFlight, Holds
  <2> QED
    BY <1>1, <1>5, <2>1, <2>2, <2>3 DEF InFlight, Holds
<1>13. Writing' /\ Deleting'
  BY <1>1, <1>5, <1>6 DEF Writing, Deleting
<1>14. RecordsKept
  BY <1>5 DEF RecordsKept
<1>15. OneWritten
  BY <1>2, <1>3, <1>4, <1>5 DEF OneWritten
<1> QED
  BY <1>5, <1>8, <1>9, <1>10, <1>11, <1>12, <1>13, <1>14, <1>15 DEF Kept

(* The blocks read as tables are marked: they are never handed out.        *)
LEMMA TablesMarked ==
  ASSUME Owned
  PROVE  Tables(disk) \subseteq bitmap
<1> USE DEF Owned
<1> SUFFICES ASSUME NEW b \in Tables(disk) PROVE b \in bitmap
  OBVIOUS
<1>1. 0 \in bitmap /\ RootBlock \in bitmap
  BY FluidFSAssumption DEF FixedMarked
<1>2. ASSUME NEW s \in Slots, NEW i \in Ptrs, DirRecord(disk, s), b # 0,
             b = disk[RootBlock][s].ptr[i]
      PROVE  b \in bitmap
  <2>1. Holds(disk, RootBlock, s, i)
    BY <1>2 DEF DirRecord, Holds, Names
  <2>2. <<RootBlock, s>> \notin Changing
    BY <1>2 DEF Changing, Writing, DirRecord
  <2> QED
    BY <1>2, <2>1, <2>2, RootIsTable DEF UsedBlocksMarked
<1>3. \/ b = 0 \/ b = RootBlock
      \/ \E s \in Slots, i \in Ptrs : DirRecord(disk, s) /\ b = disk[RootBlock][s].ptr[i]
  BY TableCases
<1> QED
  BY <1>1, <1>2, <1>3

(* The last step of a call changes neither disk nor bitmap.                *)
LEMMA ReturnKeeps ==
  ASSUME Owned, Return, disk' = disk, bitmap' = bitmap,
         dmap' = dmap \/ dmap' = Flushed, pc # "w_trim"
  PROVE  Kept
<1> USE DEF Owned
<1>1. /\ disk' = disk /\ bitmap' = bitmap /\ Return
      /\ dmap' = dmap \/ dmap' = Flushed
      /\ pc # "w_trim"
  OBVIOUS
<1>2. TypeOK'
  <2>1. 0 \in Blocks /\ 0 \in Slots /\ 0 \in 0 .. MaxPtr /\ 0 \in Sizes
    BY FluidFSAssumption DEF Blocks, Slots, Sizes
  <2>2. NoReq \in Reqs
    BY <2>1 DEF NoReq, Reqs, Directories
  <2>3. dmap' \subseteq 0 .. MapBits - 1
    BY <1>1 DEF TypeOK, Flushed
  <2> QED
    BY <1>1, <2>1, <2>2, <2>3, EmptyTyped DEF TypeOK, Return
<1>3. UsedBlocksMarked'
  BY <1>1 DEF UsedBlocksMarked, Holds
<1>4. (FreedBlocksErased => FreedBlocksErased') /\ FixedMarked' /\ NoCrossLink' /\ TablesReadable(disk)'
  BY <1>1 DEF FreedBlocksErased, FixedMarked, NoCrossLink
<1>5. InFlight' /\ Writing' /\ Deleting'
  BY <1>1 DEF InFlight, Writing, Deleting, Return
<1>6. RecordsKept
  BY <1>1 DEF RecordsKept
<1>7. OneWritten
  BY <1>1 DEF OneWritten
<1> QED
  BY <1>2, <1>3, <1>4, <1>5, <1>6, <1>7 DEF Kept

(* A write begins: the buffer holds the block of the record found.         *)
LEMMA BeginWriteInv ==
  ASSUME Owned, NEW d \in Directories, NEW f \in Names, NEW n \in Counts, NEW data \in Data,
         NoDirectory(d, f), BeginWrite(d, f, n, data)
  PROVE  Kept
<1> USE DEF Owned, Current
<1>0. PICK p \in DirPtrs(d) : \E a \in Hits(p, f) :
        buf' = disk[p[a[1]]] /\ cblk' = p[a[1]] /\ cslot' = a[2]
  BY DEF BeginWrite
<1>1. PICK a \in Hits(p, f) :
        buf' = disk[p[a[1]]] /\ cblk' = p[a[1]] /\ cslot' = a[2]
  BY <1>0
<1> DEFINE t == p[a[1]]
           s == a[2]
<1>2. t \in Tables(disk) /\ s \in Slots /\ disk[t][s].name = f
  BY HitPlace
<1>3. /\ pc = "idle" /\ disk' = disk /\ dmap' = dmap /\ bitmap' = bitmap
      /\ k' = 0 /\ left' = n /\ req' = [d |-> d, f |-> f, n |-> n, data |-> data]
      /\ pc' = IF n = 0 THEN "w_trim" ELSE "w_data"
  BY DEF BeginWrite
<1>4. ~disk[t][s].dir /\ buf' = disk[t] /\ cblk' = t /\ cslot' = s
  BY <1>1 DEF NoDirectory
<1> HIDE DEF t, s
<1>5. TypeOK'
  <2>1. n \in Sizes
    BY FluidFSAssumption
  <2>2. req' \in Reqs
    BY <1>3, <2>1 DEF Reqs
  <2>3. t \in Blocks /\ disk[t] \in Table
    BY <1>2 DEF TablesReadable
  <2>4. 0 \in 0 .. MaxPtr /\ (n # 0 => 0 < BlocksFor(n))
    BY <2>1, BlocksForBound, FluidFSAssumption
  <2> QED
    BY <1>2, <1>3, <1>4, <2>1, <2>2, <2>3, <2>4 DEF TypeOK
<1>6. (FreedBlocksErased => FreedBlocksErased') /\ FixedMarked' /\ NoCrossLink' /\ TablesReadable(disk)'
  BY <1>3 DEF FreedBlocksErased, FixedMarked, NoCrossLink
<1>7. \A u \in Tables(disk), r \in Slots, i \in Ptrs :
        Holds(disk, u, r, i) => disk[u][r].ptr[i] \in bitmap
  BY <1>3 DEF UsedBlocksMarked
<1>8. UsedBlocksMarked'
  BY <1>3, <1>7 DEF UsedBlocksMarked, Holds
<1>9. InFlight'
  <2>1. \A i \in Ptrs : disk[t][s].ptr[i] # 0 => Holds(disk, t, s, i)
    BY <1>2 DEF Holds
  <2>2. \A i \in Ptrs : disk[t][s].ptr[i] # 0 =>
          disk[t][s].ptr[i] > RootBlock /\ disk[t][s].ptr[i] \in bitmap
    BY <1>2, <1>7, <2>1 DEF NoCrossLink, ExclusiveBlocks
  <2>3. \A u \in Tables(disk), r \in Slots, i, j \in Ptrs :
          Holds(disk, u, r, i) /\ disk[u][r].ptr[i] = disk[t][s].ptr[j] =>
            u = t /\ r = s /\ i = j
    BY <1>2, <2>1 DEF NoCrossLink, ExclusiveBlocks, Holds
  <2> QED
    BY <1>2, <1>3, <1>4, <2>1, <2>2, <2>3 DEF InFlight, Holds
<1>10. Writing' /\ Deleting'
  BY <1>2, <1>3, <1>4 DEF Writing, Deleting
<1>11. RecordsKept
  BY <1>3 DEF RecordsKept
<1>12. OneWritten
  BY <1>3 DEF OneWritten
<1> QED
  BY <1>5, <1>6, <1>8, <1>9, <1>10, <1>11, <1>12 DEF Kept

(* The record goes to the disk: its pointers are the ones of the buffer.   *)
LEMMA WriteRecordInv ==
  ASSUME Owned, WriteRecord
  PROVE  Kept
<1> USE DEF Owned, Current
<1>1. /\ pc = "w_trim" /\ pc' = "w_map" /\ bitmap' = bitmap
      /\ buf' = [buf EXCEPT ![cslot].size = left] /\ disk' = Written(cblk, buf')
      /\ dmap' = dmap /\ req' = req /\ cblk' = cblk /\ cslot' = cslot /\ k' = k /\ left' = left
  BY DEF WriteRecord
<1>2. /\ buf \in Table /\ cslot \in Slots /\ left \in Sizes /\ cblk \in Tables(disk)
      /\ cblk \in Blocks /\ cblk \in bitmap
  BY <1>1, TablesMarked DEF TypeOK, Writing
<1> DEFINE N == [buf[cslot] EXCEPT !.size = left]
<1>3. N \in Node /\ N.name = buf[cslot].name /\ N.dir = buf[cslot].dir /\ N.ptr = buf[cslot].ptr
  BY <1>2 DEF Table, Node
<1>4. buf' = [buf EXCEPT ![cslot] = N]
  BY <1>1
<1> HIDE DEF N
<1>5. buf' \in Table /\ buf'[cslot] = N /\ \A r \in Slots \ {cslot} : buf'[r] = disk[cblk][r]
  BY <1>1, <1>2, <1>3, <1>4 DEF Writing, Table
<1>6. /\ disk' \in [Blocks -> Table \cup Data]
      /\ disk'[cblk] = buf' /\ \A e \in Blocks \ {cblk} : disk'[e] = disk[e]
  BY <1>1, <1>2, <1>5 DEF Written, TypeOK
<1>7. ~buf'[cslot].dir /\ ~disk[cblk][cslot].dir /\ disk[cblk][cslot].name \in Names
  BY <1>1, <1>3, <1>5 DEF Writing
<1>8. Tables(disk') = Tables(disk) /\ TablesReadable(disk)'
  BY <1>2, <1>5, <1>6, <1>7, ReplaceRecord
<1>9. \A t \in Tables(disk), s \in Slots : <<t, s>> # <<cblk, cslot>> => disk'[t][s] = disk[t][s]
  BY <1>2, <1>5, <1>6 DEF TablesReadable
<1>10. \A i \in Ptrs : disk'[cblk][cslot].ptr[i] = buf[cslot].ptr[i]
  BY <1>3, <1>5, <1>6
<1>11. TypeOK'
  BY <1>1, <1>5, <1>6 DEF TypeOK
<1>12. /\ \A i \in Ptrs : buf[cslot].ptr[i] # 0 => buf[cslot].ptr[i] > RootBlock
       /\ \A i, j \in Ptrs :
            buf[cslot].ptr[i] # 0 /\ buf[cslot].ptr[i] = buf[cslot].ptr[j] => i = j
       /\ \A t \in Tables(disk), s \in Slots, i, j \in Ptrs :
            Holds(disk, t, s, i) /\ disk[t][s].ptr[i] = buf[cslot].ptr[j] =>
              <<t, s>> = <<cblk, cslot>>
  BY <1>1 DEF InFlight
<1>13. NoCrossLink'
  <2> SUFFICES ASSUME NEW t \in Tables(disk), NEW u \in Tables(disk),
                      NEW r \in Slots, NEW s \in Slots, NEW i \in Ptrs, NEW j \in Ptrs,
                      Holds(disk', t, r, i)
               PROVE  /\ disk'[t][r].ptr[i] > RootBlock
                      /\ Holds(disk', u, s, j) /\ disk'[t][r].ptr[i] = disk'[u][s].ptr[j]
                           => t = u /\ r = s /\ i = j
    BY <1>8 DEF NoCrossLink, ExclusiveBlocks
  <2>1. CASE <<t, r>> = <<cblk, cslot>>
    <3>1. t = cblk /\ r = cslot /\ disk'[t][r].ptr[i] = buf[cslot].ptr[i] /\ buf[cslot].ptr[i] # 0
      BY <1>10, <2>1 DEF Holds
    <3>2. ASSUME Holds(disk', u, s, j), disk'[u][s].ptr[j] = buf[cslot].ptr[i]
          PROVE  u = cblk /\ s = cslot
      <4>1. CASE <<u, s>> # <<cblk, cslot>>
        <5>1. Holds(disk, u, s, j) /\ disk[u][s].ptr[j] = buf[cslot].ptr[i]
          BY <1>9, <3>2, <4>1 DEF Holds
        <5> QED
          BY <1>12, <4>1, <5>1
      <4> QED
        BY <4>1
    <3>3. ASSUME Holds(disk', u, s, j), disk'[u][s].ptr[j] = buf[cslot].ptr[i]
          PROVE  i = j
      BY <1>10, <1>12, <3>1, <3>2, <3>3
    <3> QED
      BY <1>12, <3>1, <3>2, <3>3
  <2>2. CASE <<t, r>> # <<cblk, cslot>>
    <3>1. Holds(disk, t, r, i) /\ disk'[t][r] = disk[t][r]
      BY <1>9, <2>2 DEF Holds
    <3>2. disk'[t][r].ptr[i] > RootBlock
      BY <3>1 DEF NoCrossLink, ExclusiveBlocks
    <3>3. CASE <<u, s>> = <<cblk, cslot>>
      BY <1>10, <1>12, <2>2, <3>1, <3>2, <3>3
    <3>4. CASE <<u, s>> # <<cblk, cslot>>
      <4>1. disk'[u][s] = disk[u][s]
        BY <1>9, <3>4
      <4>2. ASSUME Holds(disk, u, s, j), disk[t][r].ptr[i] = disk[u][s].ptr[j]
            PROVE  t = u /\ r = s /\ i = j
        BY <3>1, <4>2 DEF NoCrossLink, ExclusiveBlocks
      <4> QED
        BY <3>1, <3>2, <4>1, <4>2 DEF Holds
    <3> QED
      BY <3>3, <3>4
  <2> QED
    BY <2>1, <2>2
<1>14. UsedBlocksMarked'
  <2> SUFFICES ASSUME NEW t \in Tables(disk), NEW s \in Slots, NEW i \in Ptrs,
                      Holds(disk', t, s, i)
               PROVE  disk'[t][s].ptr[i] \in bitmap
    BY <1>1, <1>8 DEF UsedBlocksMarked
  <2>1. CASE <<t, s>> = <<cblk, cslot>>
    BY <1>1, <1>10, <2>1 DEF InFlight, Holds
  <2>2. CASE <<t, s>> # <<cblk, cslot>>
    BY <1>9, <2>2 DEF UsedBlocksMarked, Changing, Holds
  <2> QED
    BY <2>1, <2>2
<1>15. (FreedBlocksErased => FreedBlocksErased') /\ FixedMarked'
  BY <1>1, <1>2, <1>6 DEF FreedBlocksErased, ErasedOutside, FixedMarked
<1>16. InFlight' /\ Writing' /\ Deleting'
  BY <1>1 DEF InFlight, Writing, Deleting
<1>17. RecordsKept
  <2>1. pc' = "w_map" /\ cblk' = cblk /\ cslot' = cslot /\ Tables(disk') = Tables(disk)
    BY <1>1, <1>8
  <2>2. disk'[cblk][cslot] = buf'[cslot]
    BY <1>6
  <2> QED
    BY <1>9, <2>1, <2>2 DEF RecordsKept
<1>18. OneWritten
  <2>1. Blocks \subseteq Bits
    BY FluidFSAssumption DEF Blocks, Bits
  <2>2. cblk \in Bits /\ cblk' = cblk
    BY <1>1, <1>2, <2>1
  <2>3. \A r \in Slots \ {cslot'} : disk'[cblk][r] = disk[cblk][r]
    BY <1>1, <1>5, <1>6
  <2> QED
    BY <1>2, <1>6, <2>2, <2>3 DEF OneWritten
<1> QED
  BY <1>8, <1>11, <1>13, <1>14, <1>15, <1>16, <1>17, <1>18 DEF Kept

(* A delete begins: the record is gone from the disk, its pointers are in  *)
(* the buffer.                                                             *)
LEMMA BeginDeleteInv ==
  ASSUME Owned, NEW d \in Directories, NEW f \in Names, BeginDelete(d, f)
  PROVE  Kept
<1> USE DEF Owned, Current
<1>1. PICK p \in DirPtrs(d) : \E a \in Hits(p, f) :
        /\ buf' = [disk[p[a[1]]] EXCEPT ![a[2]].name = Deleted]
        /\ disk' = Written(p[a[1]], [buf' EXCEPT ![a[2]] = Gone])
        /\ cblk' = p[a[1]] /\ cslot' = a[2]
  BY DEF BeginDelete
<1>2. PICK a \in Hits(p, f) :
        /\ buf' = [disk[p[a[1]]] EXCEPT ![a[2]].name = Deleted]
        /\ disk' = Written(p[a[1]], [buf' EXCEPT ![a[2]] = Gone])
        /\ cblk' = p[a[1]] /\ cslot' = a[2]
  BY <1>1
<1> DEFINE t == p[a[1]]
           s == a[2]
<1>3. t \in Tables(disk) /\ s \in Slots /\ disk[t][s].name = f
  BY HitPlace
<1>4. /\ buf' = [disk[t] EXCEPT ![s].name = Deleted]
      /\ disk' = Written(t, [buf' EXCEPT ![s] = Gone])
      /\ cblk' = t /\ cslot' = s
  BY <1>2
<1> HIDE DEF t, s
<1>5. /\ pc = "idle" /\ pc' = "d_trim" /\ dmap' = dmap /\ bitmap' = bitmap
      /\ k' = 0 /\ left' = left /\ req' = [d |-> d, f |-> f, n |-> 0, data |-> Empty]
  BY DEF BeginDelete
<1>6. t \in Blocks /\ t \in bitmap /\ disk[t] \in Table
  BY <1>3, TablesMarked DEF TablesReadable
<1> DEFINE N == [disk[t][s] EXCEPT !.name = Deleted]
           T == [buf' EXCEPT ![s] = Gone]
<1>7. N \in Node /\ N.ptr = disk[t][s].ptr
  BY <1>3, <1>6 DEF Table, Node
<1>8. buf' = [disk[t] EXCEPT ![s] = N]
  BY <1>4
<1> HIDE DEF N
<1>9. buf' \in Table /\ buf'[s] = N /\ \A r \in Slots \ {s} : buf'[r] = disk[t][r]
  BY <1>3, <1>6, <1>7, <1>8 DEF Table
<1>10. T \in Table /\ T[s] = Gone /\ \A r \in Slots \ {s} : T[r] = disk[t][r]
  BY <1>3, <1>9, EmptyTyped DEF Table
<1>11. disk' = Written(t, T)
  BY <1>4
<1> HIDE DEF T
<1>12. /\ disk' \in [Blocks -> Table \cup Data]
       /\ disk'[t] = T /\ \A e \in Blocks \ {t} : disk'[e] = disk[e]
  BY <1>6, <1>10, <1>11 DEF Written, TypeOK
<1>13. Tables(disk') \subseteq Tables(disk) /\ TablesReadable(disk)'
       /\ (~disk[t][s].dir => Tables(disk') = Tables(disk))
  BY <1>3, <1>10, <1>12, EmptyTyped, ReplaceRecord
<1>14. t \in Tables(disk')
  <2>1. CASE disk[t][s].dir
    BY <1>3, <2>1, RootIsTable DEF TablesReadable
  <2>2. CASE ~disk[t][s].dir
    BY <1>3, <1>13, <2>2
  <2> QED
    BY <2>1, <2>2
<1>15. disk'[t][s].name \notin Names
  BY <1>10, <1>12, EmptyTyped, FluidFSAssumption
<1>15a. \A u \in Tables(disk'), r \in Slots :
         <<u, r>> # <<t, s>> => disk'[u][r] = disk[u][r]
  <2> SUFFICES ASSUME NEW u \in Tables(disk'), NEW r \in Slots, <<u, r>> # <<t, s>>
               PROVE  disk'[u][r] = disk[u][r]
    OBVIOUS
  <2>1. u \in Blocks
    BY <1>13 DEF TablesReadable
  <2> QED
    BY <1>10, <1>12, <2>1
<1>16. \A u \in Tables(disk'), r \in Slots, i \in Ptrs :
         Holds(disk', u, r, i) =>
           /\ Holds(disk, u, r, i) /\ disk'[u][r].ptr[i] = disk[u][r].ptr[i]
           /\ <<u, r>> # <<t, s>>
  BY <1>15, <1>15a DEF Holds
<1>17. TypeOK'
  <2>1. req' \in Reqs
    BY <1>5, FluidFSAssumption DEF Reqs, Sizes
  <2>2. 0 \in 0 .. MaxPtr
    BY FluidFSAssumption
  <2> QED
    BY <1>3, <1>4, <1>5, <1>6, <1>9, <1>12, <2>1, <2>2 DEF TypeOK
<1>18. NoCrossLink'
  BY <1>13, <1>16 DEF NoCrossLink, ExclusiveBlocks
<1>19. UsedBlocksMarked' /\ FixedMarked'
  BY <1>5, <1>13, <1>16 DEF UsedBlocksMarked, FixedMarked
<1>20. FreedBlocksErased => FreedBlocksErased'
  BY <1>5, <1>6, <1>12 DEF FreedBlocksErased, ErasedOutside
<1>21. InFlight'
  <2>1. \A i \in Ptrs : buf'[s].ptr[i] = disk[t][s].ptr[i]
    BY <1>7, <1>9
  <2>2. \A i \in Ptrs : disk[t][s].ptr[i] # 0 => Holds(disk, t, s, i)
    BY <1>3 DEF Holds
  <2>3. \A i \in Ptrs : disk[t][s].ptr[i] # 0 =>
          disk[t][s].ptr[i] > RootBlock /\ disk[t][s].ptr[i] \in bitmap
    BY <1>3, <1>5, <2>2 DEF NoCrossLink, ExclusiveBlocks, UsedBlocksMarked
  <2>4. \A u \in Tables(disk), r \in Slots, i, j \in Ptrs :
          Holds(disk, u, r, i) /\ disk[u][r].ptr[i] = disk[t][s].ptr[j] =>
            u = t /\ r = s /\ i = j
    BY <1>3, <2>2 DEF NoCrossLink, ExclusiveBlocks, Holds
  <2>5. \A u \in Tables(disk'), r \in Slots, i, j \in Ptrs :
          Holds(disk', u, r, i) /\ disk'[u][r].ptr[i] = buf'[s].ptr[j] => FALSE
    BY <1>13, <1>16, <2>1, <2>4
  <2>6. \A i, j \in Ptrs : disk[t][s].ptr[i] # 0 /\ disk[t][s].ptr[i] = disk[t][s].ptr[j] => i = j
    BY <1>3, <2>2, <2>4
  <2> QED
    BY <1>3, <1>4, <1>5, <2>1, <2>3, <2>5, <2>6 DEF InFlight
<1>22. Writing' /\ Deleting'
  BY <1>4, <1>5, <1>14, <1>15 DEF Writing, Deleting
<1>23. RecordsKept
  BY <1>4, <1>5, <1>13, <1>15, <1>15a DEF RecordsKept
<1>24. OneWritten
  <2>1. Blocks \subseteq Bits
    BY FluidFSAssumption DEF Blocks, Bits
  <2> QED
    BY <1>3, <1>4, <1>6, <1>10, <1>12, <2>1 DEF OneWritten
<1> QED
  BY <1>13, <1>17, <1>18, <1>19, <1>20, <1>21, <1>22, <1>23, <1>24 DEF Kept

(* A record is made: its block, if any, was free a moment before.          *)
LEMMA BeginCreateInv ==
  ASSUME Owned, NEW d \in Directories, NEW f \in Names, BeginCreate(d, f)
  PROVE  Kept
<1> USE DEF Owned, Current
<1>1. PICK p \in DirPtrs(d) : \E a \in FreePlaces(p) : \E b \in Bits :
        /\ NextFree(b) /\ bitmap' = bitmap \cup {b}
        /\ buf' = [disk[p[a[1]]] EXCEPT ![a[2]] = NewNode(f, b)]
        /\ disk' = Written(p[a[1]], buf')
        /\ cblk' = p[a[1]] /\ cslot' = a[2]
  BY DEF BeginCreate
<1>2. PICK a \in FreePlaces(p) : \E b \in Bits :
        /\ NextFree(b) /\ bitmap' = bitmap \cup {b}
        /\ buf' = [disk[p[a[1]]] EXCEPT ![a[2]] = NewNode(f, b)]
        /\ disk' = Written(p[a[1]], buf')
        /\ cblk' = p[a[1]] /\ cslot' = a[2]
  BY <1>1
<1> DEFINE t == p[a[1]]
           s == a[2]
<1>3. t \in Tables(disk) /\ s \in Slots /\ disk[t][s].name \in {Empty, Deleted}
  BY FreePlace
<1>4. PICK b \in Bits :
        /\ NextFree(b) /\ bitmap' = bitmap \cup {b}
        /\ buf' = [disk[t] EXCEPT ![s] = NewNode(f, b)]
        /\ disk' = Written(t, buf')
        /\ cblk' = t /\ cslot' = s
  BY <1>2
<1> HIDE DEF t, s
<1> DEFINE N == NewNode(f, b)
<1>5. /\ pc = "idle" /\ pc' = "c_map" /\ dmap' = dmap
      /\ k' = k /\ left' = left /\ req' = [d |-> d, f |-> f, n |-> 0, data |-> Empty]
  BY DEF BeginCreate
<1>6. t \in Blocks /\ t \in bitmap /\ disk[t] \in Table
  BY <1>3, TablesMarked DEF TablesReadable
<1>7. N \in Node /\ N.name = f /\ ~N.dir /\ \A i \in Ptrs : N.ptr[i] = IF i = 0 THEN b ELSE 0
  BY NewNodeTyped
<1>8. bitmap' \subseteq Bits /\ bitmap \subseteq bitmap' /\ b \in bitmap'
  BY <1>4 DEF TypeOK
<1>9. b # 0 => b \notin bitmap /\ b > RootBlock
  BY <1>4, FluidFSAssumption DEF NextFree, FixedMarked, Bits
<1>10. buf' = [disk[t] EXCEPT ![s] = N] /\ disk' = Written(t, buf')
  BY <1>4
<1> HIDE DEF N
<1>11. buf' \in Table /\ buf'[s] = N /\ \A r \in Slots \ {s} : buf'[r] = disk[t][r]
  BY <1>3, <1>6, <1>7, <1>10 DEF Table
<1>12. /\ disk' \in [Blocks -> Table \cup Data]
       /\ disk'[t] = buf' /\ \A e \in Blocks \ {t} : disk'[e] = disk[e]
  BY <1>6, <1>10, <1>11 DEF Written, TypeOK
<1>13. Tables(disk') \subseteq Tables(disk) /\ TablesReadable(disk)'
  BY <1>3, <1>7, <1>11, <1>12, ReplaceRecord
<1>14. \A u \in Tables(disk'), r \in Slots :
         <<u, r>> # <<t, s>> => disk'[u][r] = disk[u][r]
  BY <1>11, <1>12, <1>13 DEF TablesReadable
<1>15. \A i \in Ptrs : disk'[t][s].ptr[i] = IF i = 0 THEN b ELSE 0
  BY <1>7, <1>11, <1>12
<1>16. \A u \in Tables(disk), r \in Slots, i \in Ptrs :
         Holds(disk, u, r, i) => disk[u][r].ptr[i] \in bitmap
  BY <1>5 DEF UsedBlocksMarked
<1>17. TypeOK'
  <2>1. req' \in Reqs
    BY <1>5, FluidFSAssumption DEF Reqs, Sizes
  <2> QED
    BY <1>3, <1>4, <1>5, <1>6, <1>8, <1>11, <1>12, <2>1 DEF TypeOK
<1>18. NoCrossLink'
  <2> SUFFICES ASSUME NEW u \in Tables(disk'), NEW v \in Tables(disk'),
                      NEW r \in Slots, NEW q \in Slots, NEW i \in Ptrs, NEW j \in Ptrs,
                      Holds(disk', u, r, i)
               PROVE  /\ disk'[u][r].ptr[i] > RootBlock
                      /\ Holds(disk', v, q, j) /\ disk'[u][r].ptr[i] = disk'[v][q].ptr[j]
                           => u = v /\ r = q /\ i = j
    BY DEF NoCrossLink, ExclusiveBlocks
  <2>1. ASSUME NEW x \in Tables(disk'), NEW y \in Slots, NEW z \in Ptrs, Holds(disk', x, y, z)
        PROVE  \/ x = t /\ y = s /\ z = 0 /\ disk'[x][y].ptr[z] = b /\ b # 0
               \/ /\ <<x, y>> # <<t, s>> /\ disk'[x][y] = disk[x][y] /\ Holds(disk, x, y, z)
                  /\ x \in Tables(disk) /\ disk[x][y].ptr[z] # b
    <3>1. CASE <<x, y>> = <<t, s>>
      BY <1>15, <2>1, <3>1 DEF Holds
    <3>2. CASE <<x, y>> # <<t, s>>
      <4>1. disk'[x][y] = disk[x][y] /\ Holds(disk, x, y, z) /\ x \in Tables(disk)
        BY <1>13, <1>14, <2>1, <3>2 DEF Holds
      <4>2. disk[x][y].ptr[z] \in bitmap /\ disk[x][y].ptr[z] # 0
        BY <1>16, <4>1 DEF Holds
      <4> QED
        BY <1>9, <3>2, <4>1, <4>2
    <3> QED
      BY <3>1, <3>2
  <2>2. CASE <<u, r>> = <<t, s>>
    BY <1>9, <2>1, <2>2
  <2>3. CASE <<u, r>> # <<t, s>>
    <3>1. Holds(disk, u, r, i) /\ u \in Tables(disk) /\ disk'[u][r] = disk[u][r] /\ disk[u][r].ptr[i] # b
      BY <2>1, <2>3
    <3>2. ASSUME Holds(disk', v, q, j), disk'[u][r].ptr[i] = disk'[v][q].ptr[j]
          PROVE  u = v /\ r = q /\ i = j
      <4>1. Holds(disk, v, q, j) /\ v \in Tables(disk) /\ disk'[v][q] = disk[v][q]
        BY <2>1, <3>1, <3>2
      <4> QED
        BY <3>1, <3>2, <4>1 DEF NoCrossLink, ExclusiveBlocks
    <3> QED
      BY <3>1, <3>2 DEF NoCrossLink, ExclusiveBlocks
  <2> QED
    BY <2>2, <2>3
<1>19. UsedBlocksMarked'
  <2> SUFFICES ASSUME NEW u \in Tables(disk'), NEW r \in Slots, NEW i \in Ptrs,
                      Holds(disk', u, r, i)
               PROVE  disk'[u][r].ptr[i] \in bitmap'
    BY DEF UsedBlocksMarked
  <2>1. CASE <<u, r>> = <<t, s>>
    BY <1>8, <1>15, <2>1 DEF Holds
  <2>2. CASE <<u, r>> # <<t, s>>
    BY <1>8, <1>13, <1>14, <1>16, <2>2 DEF Holds
  <2> QED
    BY <2>1, <2>2
<1>20. (FreedBlocksErased => FreedBlocksErased') /\ FixedMarked'
  BY <1>6, <1>8, <1>12 DEF FreedBlocksErased, ErasedOutside, FixedMarked
<1>21. InFlight' /\ Writing' /\ Deleting'
  BY <1>5 DEF InFlight, Writing, Deleting
<1>22. RecordsKept
  <2>1. disk'[t][s] = buf'[s]
    BY <1>12
  <2> QED
    BY <1>4, <1>5, <1>13, <1>14, <2>1 DEF RecordsKept
<1>23. OneWritten
  <2>1. Blocks \subseteq Bits
    BY FluidFSAssumption DEF Blocks, Bits
  <2>2. t \in Bits /\ cblk' = t
    BY <1>4, <1>6, <2>1
  <2>3. \A r \in Slots \ {cslot'} : disk'[t][r] = disk[t][r]
    BY <1>4, <1>11, <1>12
  <2> QED
    BY <1>3, <1>12, <2>2, <2>3 DEF OneWritten
<1> QED
  BY <1>13, <1>17, <1>18, <1>19, <1>20, <1>21, <1>22, <1>23 DEF Kept

-----------------------------------------------------------------------------
(* All steps.                                                              *)

(* Every step keeps what the lemmas say.                                    *)
LEMMA NextKeeps ==
  ASSUME Owned, Next
  PROVE  Kept
<1>1. ASSUME NEW d \in Directories, NEW f \in Names, NEW n \in Counts, NEW data \in Data,
             NoDirectory(d, f), BeginWrite(d, f, n, data)
      PROVE  Kept
  BY <1>1, BeginWriteInv
<1>2. ASSUME NEW d \in Directories, NEW f \in Names, BeginDelete(d, f)
      PROVE  Kept
  BY <1>2, BeginDeleteInv
<1>3. ASSUME NEW d \in Directories, NEW f \in Names, BeginCreate(d, f)
      PROVE  Kept
  BY <1>3, BeginCreateInv
<1>4. CASE WriteBlock
  BY <1>4, WriteBlockInv
<1>5. CASE TrimBlock \/ DeleteBlock
  BY <1>5, EraseInv
<1>6. CASE WriteRecord
  BY <1>6, WriteRecordInv
<1>7. CASE WriteOverflow \/ WriteMap \/ DeleteMap \/ CreateMap
  BY <1>7, ReturnKeeps DEF WriteOverflow, WriteMap, DeleteMap, CreateMap
<1> QED
  BY <1>1, <1>2, <1>3, <1>4, <1>5, <1>6, <1>7 DEF Next, Continue

(* A step that changes nothing keeps everything.                           *)
LEMMA StutterKeeps ==
  ASSUME UNCHANGED vars
  PROVE  /\ Owned => Owned'
         /\ FreedBlocksErased => FreedBlocksErased'
         /\ TornOnlyAtFlush => TornOnlyAtFlush'
BY DEF vars, Owned, TypeOK, NoCrossLink, UsedBlocksMarked, FreedBlocksErased,
   FixedMarked, InFlight, Writing, Deleting, Changing, Current, TornOnlyAtFlush

(* A flush covers every block in use that the bitmap sector has a bit for. *)
LEMMA FlushCovers ==
  ASSUME Owned, WriteMap \/ DeleteMap \/ CreateMap
  PROVE  TornOnlyAtFlush'
<1>1. dmap' = Flushed /\ disk' = disk /\ pc # "w_trim"
  BY DEF WriteMap, DeleteMap, CreateMap
<1>2. \A t \in Tables(disk), s \in Slots, i \in Ptrs :
        Holds(disk, t, s, i) => disk[t][s].ptr[i] \in bitmap
  BY <1>1 DEF Owned, UsedBlocksMarked
<1>3. \A b \in bitmap : b \in Flushed \cup (MapBits .. ScanBits - 1)
  BY FluidFSAssumption DEF Owned, TypeOK, Bits, Flushed
<1> QED
  BY <1>1, <1>2, <1>3 DEF TornOnlyAtFlush, Holds

(* Between flushes only the record about to be covered may be uncovered.   *)
LEMMA TornKept ==
  ASSUME Owned, TornOnlyAtFlush, Next
  PROVE  TornOnlyAtFlush'
<1>1. CASE WriteMap \/ DeleteMap \/ CreateMap
  BY <1>1, FlushCovers
<1>2. CASE ~(WriteMap \/ DeleteMap \/ CreateMap)
  <2>1. dmap' = dmap /\ pc \notin {"w_map", "c_map"}
    BY <1>2 DEF Next, Continue, BeginWrite, BeginDelete, BeginCreate, WriteBlock,
       WriteOverflow, TrimBlock, WriteRecord, DeleteBlock
  <2>2. \A t \in Tables(disk), s \in Slots, i \in Ptrs :
          Holds(disk, t, s, i) => disk[t][s].ptr[i] \in dmap \cup (MapBits .. ScanBits - 1)
    BY <2>1 DEF TornOnlyAtFlush
  <2>3. RecordsKept
    BY NextKeeps DEF Kept
  <2> QED
    BY <2>1, <2>2, <2>3 DEF RecordsKept, TornOnlyAtFlush, Holds
<1> QED
  BY <1>1, <1>2

(* The loops over the pointers leave none out.                             *)
LEMMA FilledKept ==
  ASSUME Owned, Filled, Next
  PROVE  Filled'
<1> USE DEF Filled, Current
<1>1. k \in 0 .. MaxPtr /\ cslot \in Slots /\ buf \in Table /\ MaxPtr \in Nat /\ req.n \in Sizes
  BY FluidFSAssumption DEF Owned, TypeOK, Reqs
<1>2. BlocksFor(req.n) \in 0 .. MaxPtr
  BY <1>1, BlocksForBound
<1>3. CASE WriteBlock
  <2>1. PICK b \in Bits \ {0} : buf' = WithPtr(buf, cslot, k, b)
    BY <1>3 DEF WriteBlock
  <2>2. /\ pc = "w_data" /\ k' = k + 1 /\ req' = req /\ cslot' = cslot
        /\ pc' = IF k + 1 < BlocksFor(req.n) THEN "w_data" ELSE "w_trim"
    BY <1>3 DEF WriteBlock
  <2>3. k \in Ptrs
    BY <1>1, <1>2, <2>2 DEF Owned, TypeOK, Ptrs
  <2>4. \A j \in Ptrs : buf'[cslot].ptr[j] = IF j = k THEN b ELSE buf[cslot].ptr[j]
    BY <1>1, <2>1, <2>3, SetPointer
  <2>5. \A i \in Ptrs : i < k + 1 => buf'[cslot].ptr[i] # 0
    BY <2>2, <2>3, <2>4 DEF Ptrs
  <2>6. CASE k + 1 < BlocksFor(req.n)
    BY <2>2, <2>5, <2>6
  <2>7. CASE ~(k + 1 < BlocksFor(req.n))
    <3>1. k + 1 >= BlocksFor(req.n)
      BY <1>1, <1>2, <2>7
    <3>2. \A i \in Ptrs : i < BlocksFor(req.n) => i < k + 1
      BY <1>1, <1>2, <3>1 DEF Ptrs
    <3>3. pc' = "w_trim" /\ BlocksFor(req.n)' = BlocksFor(req.n)
      BY <2>2, <2>7 DEF BlocksFor
    <3> QED
      BY <2>2, <2>5, <3>1, <3>2, <3>3
  <2> QED
    BY <2>6, <2>7
<1>4. CASE TrimBlock
  <2>1. /\ pc = "w_trim" /\ pc' = pc /\ req' = req /\ cslot' = cslot /\ k < MaxPtr
        /\ k' = k + 1 /\ buf' = WithPtr(buf, cslot, k, 0)
    BY <1>4 DEF TrimBlock
  <2>2. k \in Ptrs /\ 0 \in Bits
    BY <1>1, <2>1, FluidFSAssumption DEF Ptrs, Bits
  <2>3. \A j \in Ptrs : buf'[cslot].ptr[j] = IF j = k THEN 0 ELSE buf[cslot].ptr[j]
    <3>1. buf \in Table /\ cslot \in Slots /\ buf' = WithPtr(buf, cslot, k, 0)
      BY <1>1, <2>1
    <3> HIDE DEF Filled, Current
    <3> QED
      BY <2>2, <3>1, SetPointer
  <2>4. k >= BlocksFor(req.n) /\ BlocksFor(req.n)' = BlocksFor(req.n)
    BY <2>1 DEF BlocksFor
  <2>5. k + 1 >= BlocksFor(req.n) /\ \A i \in Ptrs : i < BlocksFor(req.n) => i # k
    BY <1>1, <1>2, <2>4 DEF Ptrs
  <2> QED
    BY <2>1, <2>3, <2>4, <2>5
<1>5. ASSUME NEW d \in Directories, NEW f \in Names, NEW n \in Counts, NEW data \in Data,
             BeginWrite(d, f, n, data)
      PROVE  Filled'
  <2>1. k' = 0 /\ req'.n = n /\ pc' = IF n = 0 THEN "w_trim" ELSE "w_data"
    BY <1>5 DEF BeginWrite
  <2>2. \A i \in Ptrs : ~(i < 0)
    BY DEF Ptrs
  <2>3. CASE n = 0
    <3>1. BlocksFor(req.n)' = 0
      BY <2>1, <2>3, FluidFSAssumption DEF BlocksFor
    <3> QED
      BY <2>1, <2>2, <2>3, <3>1
  <2>4. CASE n # 0
    BY <2>1, <2>2, <2>4
  <2> QED
    BY <2>3, <2>4
<1>6. CASE pc' \notin {"w_data", "w_trim"}
  BY <1>6
<1> QED
  BY <1>3, <1>4, <1>5, <1>6
     DEF Next, Continue, BeginDelete, BeginCreate, WriteOverflow, WriteRecord, WriteMap,
         DeleteBlock, DeleteMap, CreateMap, Return

(* No file's block is read as a table.                                     *)
LEMMA FilesOutsideTables ==
  ASSUME Owned, NEW t \in Tables(disk), NEW s \in Slots, NEW i \in Ptrs,
         disk[t][s].name \in Files, disk[t][s].ptr[i] # 0
  PROVE  disk[t][s].ptr[i] \notin Tables(disk)
<1> DEFINE b == disk[t][s].ptr[i]
<1>1. Holds(disk, t, s, i)
  BY DEF Holds, Names
<1>2. b > RootBlock
  BY <1>1 DEF Owned, NoCrossLink, ExclusiveBlocks
<1>3. ASSUME NEW r \in Slots, NEW j \in Ptrs, DirRecord(disk, r), b = disk[RootBlock][r].ptr[j]
      PROVE  FALSE
  <2>1. Holds(disk, RootBlock, r, j)
    BY <1>3 DEF DirRecord, Holds, Names
  <2>2. t = RootBlock /\ s = r
    BY <1>1, <1>3, <2>1, RootIsTable DEF Owned, NoCrossLink, ExclusiveBlocks
  <2> QED
    BY <1>3, <2>2, FluidFSAssumption DEF DirRecord
<1>4. b # 0 /\ b # RootBlock
  BY <1>2, FluidFSAssumption
<1> QED
  BY <1>3, <1>4, TableCases

(* One written block is at most one file's.                                *)
LEMMA OthersKept ==
  ASSUME Owned, OneWritten, NEW t \in Tables(disk), NEW s \in Slots,
         disk[t][s].name \in Files,
         <<t, s>> # <<cblk, cslot>>, <<t, s>> # <<cblk', cslot'>>
  PROVE  disk'[t][s] = disk[t][s] /\ Contents(disk, t, s)' = Contents(disk, t, s)
<1>1. CASE disk' = disk
  BY <1>1 DEF Contents
<1>2. ASSUME NEW b \in Bits, \A e \in Blocks \ {b} : disk'[e] = disk[e],
             disk'[t][s] = disk[t][s],
             \A i \in Ptrs : disk[t][s].ptr[i] # 0 => disk[t][s].ptr[i] # b
      PROVE  Contents(disk, t, s)' = Contents(disk, t, s)
  BY <1>2 DEF Contents
<1>3. t \in Blocks
  BY DEF Owned, TablesReadable
<1>4. ASSUME NEW b \in Bits, \A e \in Blocks \ {b} : disk'[e] = disk[e],
             b \in Tables(disk), b = cblk', \A r \in Slots \ {cslot'} : disk'[b][r] = disk[b][r]
      PROVE  disk'[t][s] = disk[t][s] /\ Contents(disk, t, s)' = Contents(disk, t, s)
  <2>1. disk'[t][s] = disk[t][s]
    BY <1>3, <1>4
  <2>2. \A i \in Ptrs : disk[t][s].ptr[i] # 0 => disk[t][s].ptr[i] # b
    BY <1>4, FilesOutsideTables
  <2> QED
    BY <1>2, <1>4, <2>1, <2>2
<1>5. ASSUME NEW b \in Bits, \A e \in Blocks \ {b} : disk'[e] = disk[e],
             b \notin Tables(disk),
             \A u \in Tables(disk), r \in Slots, i \in Ptrs :
               Holds(disk, u, r, i) /\ disk[u][r].ptr[i] = b => u = cblk /\ r = cslot
      PROVE  disk'[t][s] = disk[t][s] /\ Contents(disk, t, s)' = Contents(disk, t, s)
  <2>1. disk'[t][s] = disk[t][s]
    BY <1>3, <1>5
  <2>2. \A i \in Ptrs : disk[t][s].ptr[i] # 0 => disk[t][s].ptr[i] # b
    BY <1>5 DEF Holds, Names
  <2> QED
    BY <1>2, <1>5, <2>1, <2>2
<1> QED
  BY <1>1, <1>4, <1>5 DEF OneWritten

-----------------------------------------------------------------------------
(* The theorems.                                                           *)

\* What IInv says holds between any two disk writes of any sequence of calls.
THEOREM InductiveInvariant == Spec => []IInv
<1>1. IInv /\ [Next]_vars => IInv'
  BY NextKeeps, StutterKeeps DEF IInv, Kept
<1> QED
  BY InitInv, <1>1, PTL DEF Spec

\* Every variable keeps its type: block numbers stay in the scan range, the
\* pointer index below 16 while a block is written.
THEOREM TypeCorrect == Spec => []TypeOK
<1>1. IInv => TypeOK
  BY DEF IInv, Owned
<1> QED
  BY InductiveInvariant, <1>1, PTL

\* No call sequence gives one block to two pointers.
THEOREM NoBlockShared == Spec => []NoCrossLink
<1>1. IInv => NoCrossLink
  BY DEF IInv, Owned
<1> QED
  BY InductiveInvariant, <1>1, PTL

\* get_block never finds a block in use.
THEOREM UsedBlocksStayMarked == Spec => []UsedBlocksMarked
<1>1. IInv => UsedBlocksMarked
  BY DEF IInv, Owned
<1> QED
  BY InductiveInvariant, <1>1, PTL

\* What a freed block held cannot be read through a new file.
THEOREM FreedBlocksHoldZeroes == Spec => []FreedBlocksErased
<1>1. IInv => FreedBlocksErased
  BY DEF IInv
<1> QED
  BY InductiveInvariant, <1>1, PTL

\* A power cut finds every block in use covered by the bitmap on the disk, but
\* for those of a record that is about to be covered.
THEOREM TornAtFlushOnly == Spec => []TornOnlyAtFlush
<1>1. Init => TornOnlyAtFlush
  BY ImageAssumption DEF Init, TornOnlyAtFlush, MarkedBlocks
<1>2. IInv /\ TornOnlyAtFlush /\ [Next]_vars => TornOnlyAtFlush'
  BY TornKept, StutterKeeps DEF IInv
<1> QED
  BY InductiveInvariant, <1>1, <1>2, PTL DEF Spec

\* No step of a call changes a file the call is not about, its record or its
\* data.
THEOREM OtherFilesKept == Spec => OthersUntouched
<1>1. IInv /\ [Next]_vars => [OthersStep]_vars
  <2> SUFFICES ASSUME IInv, Next PROVE OthersStep
    OBVIOUS
  <2>1. Owned /\ OneWritten
    BY NextKeeps DEF IInv, Kept
  <2> QED
    BY <2>1, OthersKept DEF OthersStep
<1> QED
  BY InductiveInvariant, <1>1, PTL DEF Spec, OthersUntouched

-----------------------------------------------------------------------------
(* Records: their sizes, their order, and the blocks they lose.            *)

(* The scans end at the first record that fits: there is one.              *)
LEMMA LeastOf ==
  ASSUME NEW T, T \subseteq Nat, T # {}
  PROVE  \E x \in T : \A y \in T : x <= y
<1> DEFINE R == OpToRel(<, Nat)
<1>1. IsWellFoundedOn(R, Nat)
  BY NatLessThanWellFounded
<1>2. \A x, y \in Nat : y < x => <<y, x>> \in R
  BY DEF OpToRel
<1> HIDE DEF R
<1>3. PICK x \in T : \A y \in T : ~ (<<y, x>> \in R)
  BY <1>1, WFMin
<1>4. \A y \in T : ~(y < x)
  BY <1>2, <1>3
<1>5. \A y \in T : x <= y
  BY <1>4
<1> QED
  BY <1>5

(* More bytes need no fewer blocks.                                        *)
LEMMA BlocksForMonotone ==
  ASSUME NEW m \in Sizes, NEW n \in Sizes, m <= n
  PROVE  BlocksFor(m) <= BlocksFor(n)
<1> DEFINE p == BlocksFor(m)
           q == BlocksFor(n)
<1>1. BlockSize \in Nat \ {0} /\ m \in Nat /\ n \in Nat
  BY FluidFSAssumption DEF Sizes
<1>2. /\ p \in Int /\ BlockSize * p <= m + BlockSize - 1
      /\ q \in Int /\ n + BlockSize - 1 < BlockSize * q + BlockSize
  BY <1>1 DEF BlocksFor
<1> HIDE DEF p, q
<1>3. BlockSize * p < BlockSize * (q + 1)
  BY <1>1, <1>2
<1>4. p < q + 1
  BY <1>1, <1>2, <1>3
<1> QED
  BY <1>2, <1>4 DEF p, q

-----------------------------------------------------------------------------
(* SizeCovered.                                                            *)

(* The loops of fwrite and fdel keep gaps out of the record.               *)
LEMMA TrimmedKept ==
  ASSUME Owned, Filled, Trimmed, WholeRecords(disk), Next
  PROVE  Trimmed'
<1> USE DEF Current
<1>1. /\ k \in 0 .. MaxPtr /\ cslot \in Slots /\ buf \in Table /\ MaxPtr \in Nat
      /\ req.n \in Sizes /\ left \in Sizes
  BY FluidFSAssumption DEF Owned, TypeOK, Reqs
<1>2. BlocksFor(req.n) \in 0 .. MaxPtr
  BY <1>1, BlocksForBound
<1>3. CASE WriteBlock
  <2>1. PICK b \in Bits \ {0} : buf' = WithPtr(buf, cslot, k, b)
    BY <1>3 DEF WriteBlock
  <2>2. /\ pc = "w_data" /\ k' = k + 1 /\ req' = req /\ cslot' = cslot
        /\ pc' = IF k + 1 < BlocksFor(req.n) THEN "w_data" ELSE "w_trim"
        /\ left' = IF left >= BlockSize THEN left - BlockSize ELSE left
    BY <1>3 DEF WriteBlock
  <2>3. k \in Ptrs /\ k < BlocksFor(req.n)
    BY <1>1, <1>2, <2>2 DEF Owned, TypeOK, Ptrs
  <2>4. \A j \in Ptrs : buf'[cslot].ptr[j] = IF j = k THEN b ELSE buf[cslot].ptr[j]
    BY <1>1, <2>1, <2>3, SetPointer
  <2>5. \A i \in Ptrs : i <= k => buf'[cslot].ptr[i] # 0
    BY <2>2, <2>3, <2>4 DEF Filled, Ptrs
  <2>6. GapFree(buf'[cslot].ptr, 0)
    <3>1. GapFree(buf[cslot].ptr, 0)
      BY <2>2 DEF Trimmed
    <3> QED
      BY <2>3, <2>4, <2>5, <3>1 DEF GapFree, Ptrs
  <2>7. left' <= req.n
    BY <1>1, <2>2, FluidFSAssumption DEF Trimmed, Sizes
  <2>8. CASE k + 1 < BlocksFor(req.n)
    BY <2>2, <2>6, <2>7, <2>8 DEF Trimmed
  <2>9. CASE ~(k + 1 < BlocksFor(req.n))
    <3>1. k + 1 = BlocksFor(req.n)
      BY <1>1, <1>2, <2>3, <2>9
    <3>2. GapFree(buf'[cslot].ptr, k + 1)
      BY <1>1, <2>6 DEF GapFree, Ptrs
    <3>3. \A i \in Ptrs : i < k + 1 => ~(i >= BlocksFor(req.n))
      BY <1>1, <3>1 DEF Ptrs
    <3>4. pc' = "w_trim" /\ BlocksFor(req.n)' = BlocksFor(req.n)
      BY <2>2, <2>9 DEF BlocksFor
    <3> QED
      BY <2>2, <2>7, <3>2, <3>3, <3>4 DEF Trimmed
  <2> QED
    BY <2>8, <2>9
<1>4. CASE TrimBlock \/ DeleteBlock
  <2>1. /\ pc \in {"w_trim", "d_trim"} /\ pc' = pc /\ req' = req /\ cslot' = cslot
        /\ k < MaxPtr /\ k' = k + 1 /\ buf' = WithPtr(buf, cslot, k, 0) /\ left' = left
    BY <1>4 DEF TrimBlock, DeleteBlock
  <2>2. k \in Ptrs /\ 0 \in Bits
    BY <1>1, <2>1, FluidFSAssumption DEF Ptrs, Bits
  <2>3. \A j \in Ptrs : buf'[cslot].ptr[j] = IF j = k THEN 0 ELSE buf[cslot].ptr[j]
    BY <1>1, <2>1, <2>2, SetPointer
  <2>4. GapFree(buf'[cslot].ptr, k + 1)
    BY <2>1, <2>2, <2>3 DEF Trimmed, GapFree, Ptrs
  <2>5. \A i \in Ptrs : i < k + 1 => i < k \/ i = k
    BY <2>2 DEF Ptrs
  <2>6. BlocksFor(req.n)' = BlocksFor(req.n)
    BY <2>1 DEF BlocksFor
  <2> QED
    BY <2>1, <2>3, <2>4, <2>5, <2>6 DEF Trimmed
<1>5. ASSUME NEW d \in Directories, NEW f \in Names, NEW n \in Counts, NEW data \in Data,
             BeginWrite(d, f, n, data)
      PROVE  Trimmed'
  <2>1. k' = 0 /\ left' = n /\ req'.n = n /\ pc' \in {"w_data", "w_trim"}
    BY <1>5 DEF BeginWrite
  <2>2. PICK p \in DirPtrs(d) : \E a \in Hits(p, f) : buf' = disk[p[a[1]]] /\ cslot' = a[2]
    BY <1>5 DEF BeginWrite
  <2>3. PICK a \in Hits(p, f) : buf' = disk[p[a[1]]] /\ cslot' = a[2]
    BY <2>2
  <2>4. GapFree(buf'[cslot'].ptr, 0)
    BY <2>3, HitPlace DEF WholeRecords
  <2>5. \A i \in Ptrs : ~(i < 0)
    BY DEF Ptrs
  <2>6. n <= n
    BY FluidFSAssumption DEF Sizes
  <2> QED
    BY <2>1, <2>4, <2>5, <2>6 DEF Trimmed
<1>6. ASSUME NEW d \in Directories, NEW f \in Names, BeginDelete(d, f)
      PROVE  Trimmed'
  <2>1. k' = 0 /\ pc' = "d_trim"
    BY <1>6 DEF BeginDelete
  <2>2. PICK p \in DirPtrs(d) : \E a \in Hits(p, f) :
          buf' = [disk[p[a[1]]] EXCEPT ![a[2]].name = Deleted] /\ cslot' = a[2]
    BY <1>6 DEF BeginDelete
  <2>3. PICK a \in Hits(p, f) :
          buf' = [disk[p[a[1]]] EXCEPT ![a[2]].name = Deleted] /\ cslot' = a[2]
    BY <2>2
  <2>4. p[a[1]] \in Tables(disk) /\ a[2] \in Slots /\ disk[p[a[1]]][a[2]].name = f
    BY HitPlace
  <2>5. disk[p[a[1]]] \in Table
    BY <2>4 DEF Owned, TablesReadable
  <2>6. buf'[cslot'].ptr = disk[p[a[1]]][a[2]].ptr
    BY <2>3, <2>4, <2>5 DEF Table, Node
  <2>7. GapFree(buf'[cslot'].ptr, 0)
    BY <2>4, <2>6 DEF WholeRecords
  <2>8. \A i \in Ptrs : ~(i < 0)
    BY DEF Ptrs
  <2> QED
    BY <2>1, <2>7, <2>8 DEF Trimmed
<1>7. CASE pc' \notin {"w_data", "w_trim", "d_trim"}
  BY <1>7 DEF Trimmed
<1> QED
  BY <1>3, <1>4, <1>5, <1>6, <1>7
     DEF Next, Continue, BeginCreate, WriteOverflow, WriteRecord, WriteMap, DeleteMap,
         CreateMap, Return

(* The record that WriteRecord puts on the disk fits its size.             *)
LEMMA WrittenWhole ==
  ASSUME Owned, Filled, Trimmed, WriteRecord
  PROVE  /\ GapFree(buf'[cslot'].ptr, 0)
         /\ \A i \in Ptrs : i < BlocksFor(buf'[cslot'].size) => buf'[cslot'].ptr[i] # 0
<1> USE DEF Current
<1>1. /\ pc = "w_trim" /\ cslot' = cslot /\ buf' = [buf EXCEPT ![cslot].size = left]
      /\ k < MaxPtr => buf[cslot].ptr[k] = 0
  BY DEF WriteRecord
<1>2. /\ k \in 0 .. MaxPtr /\ cslot \in Slots /\ buf \in Table /\ MaxPtr \in Nat
      /\ req.n \in Sizes /\ left \in Sizes
  BY FluidFSAssumption DEF Owned, TypeOK, Reqs
<1>3. BlocksFor(req.n) \in 0 .. MaxPtr /\ BlocksFor(left) \in 0 .. MaxPtr
  BY <1>2, BlocksForBound
<1>4. buf'[cslot].ptr = buf[cslot].ptr /\ buf'[cslot].size = left
  BY <1>1, <1>2 DEF Table, Node
<1>5. \A i \in Ptrs : i >= BlocksFor(req.n) => buf[cslot].ptr[i] = 0
  <2> SUFFICES ASSUME NEW i \in Ptrs, i >= BlocksFor(req.n) PROVE buf[cslot].ptr[i] = 0
    OBVIOUS
  <2>1. CASE i < k
    BY <1>1, <2>1 DEF Trimmed
  <2>2. CASE i = k
    BY <1>1, <1>2, <2>2 DEF Ptrs
  <2>3. CASE i > k
    <3>1. k \in Ptrs /\ buf[cslot].ptr[k] = 0
      BY <1>1, <1>2, <2>3 DEF Ptrs
    <3> QED
      BY <1>1, <1>2, <2>3, <3>1 DEF Trimmed, GapFree, Ptrs
  <2> QED
    BY <1>2, <2>1, <2>2, <2>3 DEF Ptrs
<1>6. \A i \in Ptrs : i < BlocksFor(req.n) => buf[cslot].ptr[i] # 0
  BY <1>1 DEF Filled
<1>7. GapFree(buf[cslot].ptr, 0)
  BY <1>3, <1>5, <1>6 DEF GapFree, Ptrs
<1>8. BlocksFor(left) <= BlocksFor(req.n)
  BY <1>1, <1>2, BlocksForMonotone DEF Trimmed
<1>9. \A i \in Ptrs : i < BlocksFor(left) => buf[cslot].ptr[i] # 0
  BY <1>3, <1>6, <1>8 DEF Ptrs
<1> QED
  BY <1>1, <1>4, <1>7, <1>9

(* So does the one that BeginCreate makes.                                 *)
LEMMA CreatedWhole ==
  ASSUME NEW f \in Names, NEW b \in Bits
  PROVE  /\ GapFree(NewNode(f, b).ptr, 0)
         /\ \A i \in Ptrs : i < BlocksFor(NewNode(f, b).size) => NewNode(f, b).ptr[i] # 0
<1>1. \A i \in Ptrs : NewNode(f, b).ptr[i] = IF i = 0 THEN b ELSE 0
  BY NewNodeTyped
<1>2. GapFree(NewNode(f, b).ptr, 0)
  BY <1>1 DEF GapFree, Ptrs
<1>3. NewNode(f, b).size = 0
  BY DEF NewNode, EmptyNode
<1>4. BlocksFor(0) = 0
  BY FluidFSAssumption DEF BlocksFor
<1> QED
  BY <1>2, <1>3, <1>4 DEF Ptrs

(* A record is in the buffer before it is on the disk.                     *)
LEMMA NewOnDisk ==
  ASSUME Owned, Next, pc' \in {"w_map", "c_map"}
  PROVE  \/ WriteRecord
         \/ \E d \in Directories, f \in Names : BeginCreate(d, f)
BY DEF Next, Continue, BeginWrite, BeginDelete, WriteBlock, WriteOverflow, TrimBlock,
   WriteMap, DeleteBlock, DeleteMap, CreateMap, Return, Owned, TypeOK

(* What cnode has put into the buffer.                                     *)
LEMMA CreatedRecord ==
  ASSUME Owned, NEW d \in Directories, NEW f \in Names, BeginCreate(d, f)
  PROVE  \E p \in DirPtrs(d) : \E a \in FreePlaces(p) : \E b \in Bits :
           /\ NextFree(b) /\ bitmap' = bitmap \cup {b}
           /\ p[a[1]] \in Tables(disk) /\ a[2] \in Slots
           /\ cblk' = p[a[1]] /\ cslot' = a[2] /\ buf'[cslot'] = NewNode(f, b)
<1>1. PICK p \in DirPtrs(d) : \E a \in FreePlaces(p) : \E b \in Bits :
        /\ NextFree(b) /\ bitmap' = bitmap \cup {b}
        /\ buf' = [disk[p[a[1]]] EXCEPT ![a[2]] = NewNode(f, b)]
        /\ cblk' = p[a[1]] /\ cslot' = a[2]
  BY DEF BeginCreate
<1>2. PICK a \in FreePlaces(p) : \E b \in Bits :
        /\ NextFree(b) /\ bitmap' = bitmap \cup {b}
        /\ buf' = [disk[p[a[1]]] EXCEPT ![a[2]] = NewNode(f, b)]
        /\ cblk' = p[a[1]] /\ cslot' = a[2]
  BY <1>1
<1>3. p[a[1]] \in Tables(disk) /\ a[2] \in Slots
  BY FreePlace
<1>4. disk[p[a[1]]] \in Table
  BY <1>3 DEF Owned, TablesReadable
<1>5. PICK b \in Bits :
        /\ NextFree(b) /\ bitmap' = bitmap \cup {b}
        /\ buf' = [disk[p[a[1]]] EXCEPT ![a[2]] = NewNode(f, b)]
        /\ cblk' = p[a[1]] /\ cslot' = a[2]
  BY <1>2
<1>6. buf'[cslot'] = NewNode(f, b)
  BY <1>3, <1>4, <1>5 DEF Table
<1> QED
  BY <1>3, <1>5, <1>6

LEMMA WholeKept ==
  ASSUME Owned, Filled, Trimmed, WholeRecords(disk), Next
  PROVE  WholeRecords(disk')
<1> SUFFICES ASSUME NEW t \in Tables(disk'), NEW s \in Slots, disk'[t][s].name \in Names
             PROVE  /\ GapFree(disk'[t][s].ptr, 0)
                    /\ \A i \in Ptrs : i < BlocksFor(disk'[t][s].size) => disk'[t][s].ptr[i] # 0
  BY DEF WholeRecords
<1>1. RecordsKept
  BY NextKeeps DEF Kept
<1>2. CASE disk'[t][s] = disk[t][s]
  BY <1>1, <1>2 DEF RecordsKept, WholeRecords
<1>3. CASE s = cslot' /\ pc' \in {"w_map", "c_map"} /\ disk'[t][s] = buf'[s]
  <2>1. CASE WriteRecord
    BY <1>3, <2>1, WrittenWhole
  <2>2. ASSUME NEW d \in Directories, NEW f \in Names, BeginCreate(d, f)
        PROVE  /\ GapFree(disk'[t][s].ptr, 0)
               /\ \A i \in Ptrs : i < BlocksFor(disk'[t][s].size) => disk'[t][s].ptr[i] # 0
    <3>1. PICK b \in Bits : buf'[cslot'] = NewNode(f, b)
      BY <2>2, CreatedRecord
    <3> QED
      BY <1>3, <3>1, CreatedWhole
  <2> QED
    BY <1>3, <2>1, <2>2, NewOnDisk
<1> QED
  BY <1>1, <1>2, <1>3 DEF RecordsKept

\* The pointers of every record have no gap and are as many as its size needs.
THEOREM SizesCovered == Spec => []SizeCovered
<1> DEFINE Inv == IInv /\ Filled /\ Trimmed /\ WholeRecords(disk)
<1>1. Init => Inv
  BY InitInv, ImageAssumption DEF Init, Filled, Trimmed
<1>2. Inv /\ [Next]_vars => Inv'
  <2> SUFFICES ASSUME Inv, [Next]_vars PROVE Inv'
    OBVIOUS
  <2>1. CASE Next
    BY <2>1, NextKeeps, FilledKept, TrimmedKept, WholeKept DEF IInv, Kept
  <2>2. CASE UNCHANGED vars
    <3>1. Filled' /\ Trimmed' /\ WholeRecords(disk)'
      BY <2>2 DEF vars, Filled, Trimmed, Current, WholeRecords
    <3> QED
      BY <2>2, <3>1, StutterKeeps DEF IInv
  <2> QED
    BY <2>1, <2>2
<1>3. Inv => SizeCovered
  BY DEF SizeCovered
<1> QED
  BY <1>1, <1>2, <1>3, PTL DEF Spec

-----------------------------------------------------------------------------
(* NoLostRecord.                                                           *)

(* cnode fills the first place that is free, and fdel leaves no empty one. *)
LEMMA OrderKept ==
  ASSUME Owned, NoneBehindEmpty(disk), Next
  PROVE  NoneBehindEmpty(disk')
<1> SUFFICES ASSUME NEW t \in Tables(disk'), NEW r \in Slots, NEW s \in Slots,
                    r < s, disk'[t][s].name \in Names, disk'[t][r].name = Empty
             PROVE  FALSE
  BY DEF NoneBehindEmpty
<1>1. RecordsKept /\ t \in Tables(disk)
  BY NextKeeps DEF Kept, RecordsKept
<1>2. r # s
  BY DEF Slots
<1>3. CASE disk'[t][s] = disk[t][s] /\ disk'[t][r] = disk[t][r]
  BY <1>1, <1>3 DEF NoneBehindEmpty
<1>4. CASE WriteRecord
  <2>1. /\ disk'[t][s].name = disk[t][s].name
        /\ disk'[t][r].name = disk[t][r].name
    <3>1. /\ pc = "w_trim" /\ cblk' = cblk /\ cslot' = cslot /\ pc' = "w_map"
          /\ buf' = [buf EXCEPT ![cslot].size = left]
      BY <1>4 DEF WriteRecord
    <3>2. buf'[cslot].name = buf[cslot].name
      BY <3>1 DEF Owned, TypeOK, Table, Node
    <3>3. buf[cslot].name = disk[cblk][cslot].name
      BY <3>1 DEF Owned, Writing, Current
    <3> QED
      BY <1>1, <3>1, <3>2, <3>3 DEF RecordsKept
  <2> QED
    BY <1>1, <2>1 DEF NoneBehindEmpty
<1>5. ASSUME NEW d \in Directories, NEW f \in Names, BeginDelete(d, f)
      PROVE  FALSE
  <2>1. pc' = "d_trim"
    BY <1>5 DEF BeginDelete
  <2>2. disk'[t][s] = disk[t][s]
    BY <1>1, <2>1 DEF RecordsKept
  <2>3. PICK p \in DirPtrs(d) : \E a \in Hits(p, f) :
          /\ disk' = Written(p[a[1]], [buf' EXCEPT ![a[2]] = Gone])
          /\ buf' = [disk[p[a[1]]] EXCEPT ![a[2]].name = Deleted]
          /\ cblk' = p[a[1]] /\ cslot' = a[2]
    BY <1>5 DEF BeginDelete
  <2>4. PICK a \in Hits(p, f) :
          /\ disk' = Written(p[a[1]], [buf' EXCEPT ![a[2]] = Gone])
          /\ buf' = [disk[p[a[1]]] EXCEPT ![a[2]].name = Deleted]
          /\ cblk' = p[a[1]] /\ cslot' = a[2]
    BY <2>3
  <2>5. cblk' \in Tables(disk) /\ cslot' \in Slots
    BY <2>4, HitPlace
  <2>6. cblk' \in Blocks /\ disk[cblk'] \in Table
    BY <2>5 DEF Owned, TablesReadable
  <2>7. disk'[cblk'][cslot'].name = Deleted
    <3>1. buf' = [disk[cblk'] EXCEPT ![cslot'].name = Deleted]
      BY <2>4
    <3>2. DOMAIN buf' = Slots
      BY <2>6, <3>1 DEF Table
    <3>3. disk' = [disk EXCEPT ![cblk'] = [buf' EXCEPT ![cslot'] = Gone]]
      BY <2>4, <2>6 DEF Written
    <3>4. disk'[cblk'] = [buf' EXCEPT ![cslot'] = Gone]
      BY <2>6, <3>3 DEF Owned, TypeOK
    <3> QED
      BY <2>5, <3>2, <3>4, EmptyTyped
  <2>8. disk'[t][r] = disk[t][r]
    BY <1>1, <2>1, <2>7, FluidFSAssumption DEF RecordsKept
  <2> QED
    BY <1>3, <2>2, <2>8
<1>6. ASSUME NEW d \in Directories, NEW f \in Names, BeginCreate(d, f)
      PROVE  FALSE
  <2>1. pc' = "c_map"
    BY <1>6 DEF BeginCreate
  <2>2. PICK p \in DirPtrs(d) : \E a \in FreePlaces(p) : \E b \in Bits :
          cblk' = p[a[1]] /\ cslot' = a[2] /\ buf'[cslot'] = NewNode(f, b)
    BY <1>6, CreatedRecord
  <2>3. PICK a \in FreePlaces(p) : \E b \in Bits :
          cblk' = p[a[1]] /\ cslot' = a[2] /\ buf'[cslot'] = NewNode(f, b)
    BY <2>2
  <2>4. PICK b \in Bits : cblk' = p[a[1]] /\ cslot' = a[2] /\ buf'[cslot'] = NewNode(f, b)
    BY <2>3
  <2>5. buf'[cslot'].name = f
    BY <2>4, NewNodeTyped
  <2>6. CASE <<t, s>> = <<cblk', cslot'>>
    <3>1. disk'[t][r] = disk[t][r]
      BY <1>1, <1>2, <2>6 DEF RecordsKept
    <3>2. <<a[1], r>> \in Places /\ Before(<<a[1], r>>, a)
      BY <2>4, <2>6 DEF FreePlaces, Places, Before
    <3>3. NameAt(p, <<a[1], r>>) \notin {Empty, Deleted}
      BY <3>2 DEF FreePlaces
    <3> QED
      BY <2>4, <2>6, <3>1, <3>3 DEF NameAt
  <2>7. CASE <<t, s>> # <<cblk', cslot'>>
    <3>1. disk'[t][s] = disk[t][s]
      BY <1>1, <2>7 DEF RecordsKept
    <3>2. <<t, r>> # <<cblk', cslot'>>
      <4>1. ASSUME t = cblk', r = cslot', disk'[t][r] = buf'[r] PROVE FALSE
        BY <2>5, <4>1, FluidFSAssumption
      <4> QED
        BY <1>1, <1>3, <2>1, <3>1, <4>1 DEF RecordsKept
    <3>3. disk'[t][r] = disk[t][r]
      BY <1>1, <3>2 DEF RecordsKept
    <3> QED
      BY <1>3, <3>1, <3>3
  <2> QED
    BY <2>6, <2>7
<1>7. CASE pc' \notin {"w_map", "c_map"} /\ ~(pc = "idle" /\ pc' = "d_trim")
  BY <1>1, <1>3, <1>7 DEF RecordsKept
<1>8. CASE pc = "idle" /\ pc' = "d_trim"
  <2>1. \E d \in Directories, f \in Names : BeginDelete(d, f)
    BY <1>8 DEF Next, Continue, BeginWrite, BeginCreate, WriteBlock, WriteOverflow, TrimBlock,
       WriteRecord, WriteMap, DeleteBlock, DeleteMap, CreateMap
  <2> QED
    BY <1>5, <2>1
<1>9. CASE pc' \in {"w_map", "c_map"}
  BY <1>4, <1>6, <1>9, NewOnDisk
<1> QED
  BY <1>7, <1>8, <1>9

(* Among the places with the name f there is a first one.                  *)
LEMMA FirstPlace ==
  ASSUME NEW p, NEW f, NEW b \in Places, NameAt(p, b) = f
  PROVE  \E a \in Places :
           /\ NameAt(p, a) = f
           /\ a = b \/ Before(a, b)
           /\ \A c \in Places : Before(c, a) => NameAt(p, c) # f
<1> DEFINE Named(i, s) == NameAt(p, <<i, s>>) = f
           I == {i \in Ptrs : \E s \in Slots : Named(i, s)}
<1>1. b = <<b[1], b[2]>> /\ b[1] \in Ptrs /\ b[2] \in Slots
  BY DEF Places
<1>2. I \subseteq Nat /\ I # {}
  <2>1. Named(b[1], b[2])
    BY <1>1
  <2> HIDE DEF Named
  <2>2. b[1] \in I
    BY <1>1, <2>1
  <2> QED
    BY <2>2, FluidFSAssumption DEF Ptrs
<1>3. PICK i \in I : \A j \in I : i <= j
  BY <1>2, LeastOf
<1> DEFINE S == {s \in Slots : Named(i, s)}
<1>4. S \subseteq Nat /\ S # {}
  BY <1>3, FluidFSAssumption DEF Slots
<1>5. PICK s \in S : \A r \in S : s <= r
  BY <1>4, LeastOf
<1>6. i \in Ptrs /\ s \in Slots /\ NameAt(p, <<i, s>>) = f /\ <<i, s>> \in Places
  BY <1>3, <1>5 DEF Places
<1>7. ASSUME NEW c \in Places, NameAt(p, c) = f
      PROVE  i < c[1] \/ (i = c[1] /\ s <= c[2])
  <2>1. c = <<c[1], c[2]>> /\ c[1] \in Ptrs /\ c[2] \in Slots
    BY DEF Places
  <2>2. Named(c[1], c[2])
    BY <1>7, <2>1
  <2> HIDE DEF Named
  <2>3. c[1] \in I
    BY <2>1, <2>2
  <2>4. i <= c[1]
    BY <1>3, <2>3
  <2>5. CASE i = c[1]
    <3>1. c[2] \in S
      BY <2>1, <2>2, <2>5
    <3> QED
      BY <1>5, <2>5, <3>1
  <2>6. CASE i # c[1]
    BY <1>6, <2>1, <2>4, <2>6 DEF Ptrs
  <2> QED
    BY <2>5, <2>6
<1> HIDE DEF I, S, Named
<1> DEFINE a == <<i, s>>
<1>8. a[1] = i /\ a[2] = s
  OBVIOUS
<1>9. a = b \/ Before(a, b)
  BY <1>1, <1>6, <1>7, <1>8, FluidFSAssumption DEF Before, Ptrs, Slots
<1>10. ASSUME NEW c \in Places, Before(c, a) PROVE NameAt(p, c) # f
  <2>1. c[1] \in Ptrs /\ c[2] \in Slots
    BY DEF Places
  <2>2. c[1] < i \/ (c[1] = i /\ c[2] < s)
    BY <1>8, <1>10 DEF Before
  <2>3. ~(i < c[1] \/ (i = c[1] /\ s <= c[2]))
    BY <1>6, <2>1, <2>2, FluidFSAssumption DEF Ptrs, Slots
  <2> QED
    BY <1>7, <2>3
<1> QED
  BY <1>6, <1>9, <1>10

(* A name with nothing empty in front of it is found.                      *)
LEMMA FoundInOrder ==
  ASSUME NEW p, NEW f \in Names, NEW b \in Places, NameAt(p, b) = f,
         \A c \in Places : Before(c, b) => NameAt(p, c) # Empty
  PROVE  Hits(p, f) # {}
<1>1. PICK a \in Places :
        /\ NameAt(p, a) = f
        /\ a = b \/ Before(a, b)
        /\ \A c \in Places : Before(c, a) => NameAt(p, c) # f
  BY FirstPlace
<1>2. ASSUME NEW c \in Places, Before(c, a) PROVE Before(c, b)
  <2>1. /\ a[1] \in Int /\ a[2] \in Int /\ b[1] \in Int /\ b[2] \in Int
        /\ c[1] \in Int /\ c[2] \in Int
    BY FluidFSAssumption DEF Places, Ptrs, Slots
  <2> QED
    BY <1>1, <1>2, <2>1 DEF Before
<1>3. a \in Hits(p, f)
  BY <1>1, <1>2 DEF Hits
<1> QED
  BY <1>3

LEMMA OrderMeansFound ==
  ASSUME NoneBehindEmpty(disk)
  PROVE  NoLostRecord
<1> SUFFICES ASSUME NEW d \in Directories, NEW p \in DirPtrs(d)
             PROVE  /\ {disk[p[0]][s].name : s \in Slots} \cap Names
                         \subseteq {f \in Names : Hits(p, f) # {}}
                    /\ Listing(p) = {f \in Names : Hits(p, f) # {}}
  BY DEF NoLostRecord
<1>1. ASSUME NEW s \in Slots, disk[p[0]][s].name \in Names
      PROVE  Hits(p, disk[p[0]][s].name) # {}
  <2>1. 0 \in Ptrs
    BY FluidFSAssumption DEF Ptrs
  <2>2. p[0] \in Tables(disk)
    BY <2>1, LookupInTables
  <2> DEFINE b == <<0, s>>
  <2>3. b \in Places /\ NameAt(p, b) = disk[p[0]][s].name
    BY <2>1 DEF Places, NameAt
  <2>4. ASSUME NEW c \in Places, Before(c, b) PROVE NameAt(p, c) # Empty
    <3>1. c[1] \in Ptrs /\ c[2] \in Slots
      BY DEF Places
    <3>2. c[1] = 0 /\ c[2] < s
      BY <2>4, <3>1 DEF Before, Ptrs
    <3> QED
      BY <1>1, <2>2, <3>1, <3>2 DEF NoneBehindEmpty, NameAt
  <2> QED
    BY <1>1, <2>3, <2>4, FoundInOrder
<1>2. ASSUME NEW f \in Names, Hits(p, f) # {} PROVE f \in Listing(p)
  <2>1. PICK a \in Hits(p, f) : TRUE
    BY <1>2
  <2>2. /\ a \in Places /\ NameAt(p, a) = f
        /\ \A b \in Places : Before(b, a) => NameAt(p, b) # Empty
    BY <2>1 DEF Hits
  <2>3. f # Empty
    BY FluidFSAssumption
  <2>4. a \in {b \in Places : \A c \in Places : c = b \/ Before(c, b) => NameAt(p, c) # Empty}
    BY <2>2, <2>3
  <2> QED
    BY <2>2, <2>4 DEF Listing
<1>3. ASSUME NEW f \in Listing(p) PROVE f \in Names /\ Hits(p, f) # {}
  <2>1. PICK b \in Places : /\ f = NameAt(p, b)
                            /\ \A c \in Places : c = b \/ Before(c, b) => NameAt(p, c) # Empty
    BY <1>3 DEF Listing
  <2>2. f \in Names
    BY <1>3 DEF Listing
  <2> QED
    BY <2>1, <2>2, FoundInOrder
<1> QED
  BY <1>1, <1>2, <1>3

\* The scans find every record of a directory's own block, and write_dir shows
\* exactly what fcheck finds.
THEOREM RecordsAreFound == Spec => []NoLostRecord
<1> DEFINE Inv == IInv /\ NoneBehindEmpty(disk)
<1>1. Init => Inv
  BY InitInv, ImageAssumption DEF Init
<1>2. Inv /\ [Next]_vars => Inv'
  <2> SUFFICES ASSUME Inv, [Next]_vars PROVE Inv'
    OBVIOUS
  <2>1. CASE Next
    BY <2>1, NextKeeps, OrderKept DEF IInv, Kept
  <2>2. CASE UNCHANGED vars
    BY <2>2, StutterKeeps DEF IInv, vars, NoneBehindEmpty
  <2> QED
    BY <2>1, <2>2
<1>3. Inv => NoLostRecord
  BY OrderMeansFound
<1> QED
  BY <1>1, <1>2, <1>3, PTL DEF Spec

-----------------------------------------------------------------------------
(* LeaksOnlyKnown.                                                         *)

(* A record in the buffer differs from the one on the disk in what has     *)
(* been added to it and in what has been freed.                            *)
LEMMA GivenUpKept ==
  ASSUME Owned, GivenUp, Next
  PROVE  GivenUp'
<1> USE DEF Current
<1>1. /\ k \in 0 .. MaxPtr /\ cslot \in Slots /\ buf \in Table /\ MaxPtr \in Nat
      /\ req.n \in Sizes /\ BlocksFor(req.n) \in 0 .. MaxPtr
  BY BlocksForBound, FluidFSAssumption DEF Owned, TypeOK, Reqs
<1>2. RecordsKept
  BY NextKeeps DEF Kept
<1>3. CASE WriteBlock
  <2>1. PICK b \in Bits \ {0} :
          /\ IF Current.ptr[k] # 0 THEN b = Current.ptr[k] ELSE NextFree(b)
          /\ buf' = WithPtr(buf, cslot, k, b)
          /\ disk' = Written(b, req.data)
    BY <1>3 DEF WriteBlock
  <2>2. /\ pc = "w_data" /\ cslot' = cslot /\ cblk' = cblk /\ pc' \in {"w_data", "w_trim"}
    BY <1>3 DEF WriteBlock
  <2>3. k \in Ptrs
    BY <1>1, <2>2 DEF Owned, TypeOK, Ptrs
  <2>4. \A j \in Ptrs : buf'[cslot].ptr[j] = IF j = k THEN b ELSE buf[cslot].ptr[j]
    BY <1>1, <2>1, <2>3, SetPointer
  <2>5. \A i \in Ptrs : disk[cblk][cslot].ptr[i] # 0 =>
          buf'[cslot].ptr[i] = disk[cblk][cslot].ptr[i]
    BY <2>1, <2>2, <2>4 DEF GivenUp
  <2>6. disk'[cblk][cslot] = disk[cblk][cslot]
    BY <1>1, <1>2, <2>2, NextKeeps DEF RecordsKept, Kept, Owned, Writing
  <2> QED
    BY <2>2, <2>5, <2>6 DEF GivenUp
<1>4. CASE TrimBlock
  <2>1. /\ pc = "w_trim" /\ pc' = pc /\ cslot' = cslot /\ cblk' = cblk
        /\ k < MaxPtr /\ buf' = WithPtr(buf, cslot, k, 0)
        /\ bitmap' = Freed(buf[cslot].ptr[k]) /\ buf[cslot].ptr[k] # 0
    BY <1>4 DEF TrimBlock
  <2>2. k \in Ptrs /\ 0 \in Bits
    BY <1>1, <2>1, FluidFSAssumption DEF Ptrs, Bits
  <2>3. \A j \in Ptrs : buf'[cslot].ptr[j] = IF j = k THEN 0 ELSE buf[cslot].ptr[j]
    BY <1>1, <2>1, <2>2, SetPointer
  <2>4. bitmap' = bitmap \ {buf[cslot].ptr[k]}
    BY <2>1 DEF Freed
  <2>5. disk'[cblk][cslot] = disk[cblk][cslot]
    BY <1>1, <1>2, <2>1, NextKeeps DEF RecordsKept, Kept, Owned, Writing
  <2>6. \A i \in Ptrs : disk[cblk][cslot].ptr[i] # 0 =>
          \/ buf'[cslot].ptr[i] = disk[cblk][cslot].ptr[i]
          \/ disk[cblk][cslot].ptr[i] \notin bitmap'
    BY <2>1, <2>3, <2>4 DEF GivenUp
  <2> QED
    BY <2>1, <2>5, <2>6 DEF GivenUp
<1>5. ASSUME NEW d \in Directories, NEW f \in Names, NEW n \in Counts, NEW data \in Data,
             BeginWrite(d, f, n, data)
      PROVE  GivenUp'
  <2>1. disk' = disk /\ \E p \in DirPtrs(d) : \E a \in Hits(p, f) :
          buf' = disk[p[a[1]]] /\ cslot' = a[2] /\ cblk' = p[a[1]]
    BY <1>5 DEF BeginWrite
  <2>2. buf' = disk[cblk']
    BY <2>1
  <2> QED
    BY <2>1, <2>2 DEF GivenUp
<1>6. CASE pc' \notin {"w_data", "w_trim"}
  BY <1>6 DEF GivenUp
<1> QED
  BY <1>3, <1>4, <1>5, <1>6
     DEF Next, Continue, BeginDelete, BeginCreate, WriteOverflow, WriteRecord, WriteMap,
         DeleteBlock, DeleteMap, CreateMap, Return

(* Some record on the disk D points to block b.                            *)
HasOwner(D, b) ==
  \E t \in Tables(D), s \in Slots, i \in Ptrs : Holds(D, t, s, i) /\ D[t][s].ptr[i] = b

(* A block leaks when it is marked and nothing points to it.               *)
LEMMA LeakedMeans ==
  /\ \A b : b \in Leaked <=>
       /\ b \in bitmap \ ImageMap /\ ~HasOwner(disk, b)
       /\ pc \in {"w_data", "w_trim", "d_trim"} => \A i \in Ptrs : Current.ptr[i] # b
  /\ \A b : b \in Leaked' <=>
       /\ b \in bitmap' \ ImageMap /\ ~HasOwner(disk', b)
       /\ pc' \in {"w_data", "w_trim", "d_trim"} => \A i \in Ptrs : buf'[cslot'].ptr[i] # b
BY DEF Leaked, HasOwner, Current

(* Where no record changes, none loses a block.                            *)
LEMMA SameOwners ==
  ASSUME NEW b, Tables(disk') = Tables(disk),
         \A t \in Tables(disk), s \in Slots : disk'[t][s] = disk[t][s]
  PROVE  HasOwner(disk, b) <=> HasOwner(disk', b)
BY DEF HasOwner, Holds

(* The steps of a call that change no record.                              *)
LEMMA QuietLeaks ==
  ASSUME Owned, GivenUp, Trimmed, Next, ~WriteOverflow,
         pc' \notin {"w_map", "c_map"}, ~(pc = "idle" /\ pc' = "d_trim")
  PROVE  Leaked' \subseteq Leaked
<1> SUFFICES ASSUME NEW b \in Leaked' PROVE b \in Leaked
  OBVIOUS
<1> USE DEF Current
<1>1. RecordsKept /\ Owned'
  BY NextKeeps DEF Kept
<1>2. \A t \in Tables(disk'), s \in Slots : disk'[t][s] = disk[t][s]
  BY <1>1 DEF RecordsKept
<1>3. Tables(disk') = Tables(disk)
  <2>1. RootBlock \in Tables(disk') /\ RootBlock \in Tables(disk)
    BY RootIsTable
  <2>2. \A s \in Slots : disk'[RootBlock][s] = disk[RootBlock][s]
    BY <1>2, <2>1
  <2> QED
    BY <2>2 DEF Tables, DirRecord
<1>4. /\ b \in bitmap' \ ImageMap /\ ~HasOwner(disk, b)
      /\ pc' \in {"w_data", "w_trim", "d_trim"} => \A i \in Ptrs : buf'[cslot'].ptr[i] # b
  BY <1>2, <1>3, LeakedMeans, SameOwners
<1>5. b # 0
  BY <1>4, ImageAssumption, FluidFSAssumption
<1>6. /\ k \in 0 .. MaxPtr /\ cslot \in Slots /\ buf \in Table /\ MaxPtr \in Nat
      /\ BlocksFor(req.n) \in 0 .. MaxPtr
  BY BlocksForBound, FluidFSAssumption DEF Owned, TypeOK, Reqs
<1>7. CASE WriteBlock
  <2>1. PICK c \in Bits \ {0} :
          /\ IF Current.ptr[k] # 0
             THEN c = Current.ptr[k] /\ bitmap' = bitmap
             ELSE NextFree(c) /\ bitmap' = bitmap \cup {c}
          /\ buf' = WithPtr(buf, cslot, k, c)
    BY <1>7 DEF WriteBlock
  <2>2. pc = "w_data" /\ cslot' = cslot /\ pc' \in {"w_data", "w_trim"}
    BY <1>7 DEF WriteBlock
  <2>3. k \in Ptrs
    BY <1>6, <2>2 DEF Owned, TypeOK, Ptrs
  <2>4. \A j \in Ptrs : buf'[cslot].ptr[j] = IF j = k THEN c ELSE buf[cslot].ptr[j]
    BY <1>6, <2>1, <2>3, SetPointer
  <2>5. b # c /\ b \in bitmap
    BY <1>4, <2>1, <2>2, <2>3, <2>4
  <2>6. \A i \in Ptrs : buf[cslot].ptr[i] # b
    BY <1>4, <1>5, <2>1, <2>2, <2>4, <2>5
  <2> QED
    BY <1>4, <2>5, <2>6, LeakedMeans
<1>8. CASE TrimBlock \/ DeleteBlock
  <2>1. /\ pc \in {"w_trim", "d_trim"} /\ pc' = pc /\ cslot' = cslot
        /\ k < MaxPtr /\ buf' = WithPtr(buf, cslot, k, 0)
        /\ bitmap' = Freed(buf[cslot].ptr[k]) /\ buf[cslot].ptr[k] # 0
    BY <1>8 DEF TrimBlock, DeleteBlock
  <2>2. k \in Ptrs /\ 0 \in Bits
    BY <1>6, <2>1, FluidFSAssumption DEF Ptrs, Bits
  <2>3. \A j \in Ptrs : buf'[cslot].ptr[j] = IF j = k THEN 0 ELSE buf[cslot].ptr[j]
    BY <1>6, <2>1, <2>2, SetPointer
  <2>4. b \in bitmap /\ b # buf[cslot].ptr[k]
    BY <1>4, <2>1 DEF Freed
  <2>5. \A i \in Ptrs : buf[cslot].ptr[i] # b
    BY <1>4, <2>1, <2>3, <2>4
  <2> QED
    BY <1>4, <2>4, <2>5, LeakedMeans
<1>9. CASE DeleteMap
  <2>1. /\ pc = "d_trim" /\ bitmap' = bitmap /\ (k < MaxPtr => buf[cslot].ptr[k] = 0)
    BY <1>9 DEF DeleteMap
  <2>2. \A i \in Ptrs : buf[cslot].ptr[i] = 0
    <3> SUFFICES ASSUME NEW i \in Ptrs PROVE buf[cslot].ptr[i] = 0
      OBVIOUS
    <3>1. CASE i < k
      BY <2>1, <3>1 DEF Trimmed
    <3>2. CASE i >= k
      <4>1. k \in Ptrs /\ buf[cslot].ptr[k] = 0
        BY <1>6, <2>1, <3>2 DEF Ptrs
      <4> QED
        BY <1>6, <2>1, <3>2, <4>1 DEF Trimmed, GapFree, Ptrs
    <3> QED
      BY <1>6, <3>1, <3>2 DEF Ptrs
  <2> QED
    BY <1>4, <1>5, <2>1, <2>2, LeakedMeans
<1>10. CASE WriteMap \/ CreateMap
  <2>1. pc \in {"w_map", "c_map"} /\ bitmap' = bitmap
    BY <1>10 DEF WriteMap, CreateMap
  <2> QED
    BY <1>4, <2>1, LeakedMeans
<1>11. ASSUME NEW d \in Directories, NEW f \in Names, NEW n \in Counts, NEW data \in Data,
              BeginWrite(d, f, n, data)
       PROVE  b \in Leaked
  <2>1. pc = "idle" /\ bitmap' = bitmap
    BY <1>11 DEF BeginWrite
  <2> QED
    BY <1>4, <2>1, LeakedMeans
<1> QED
  BY <1>7, <1>8, <1>9, <1>10, <1>11
     DEF Next, Continue, BeginDelete, BeginCreate, WriteRecord

(* The record of a write goes to the disk.                                 *)
LEMMA RecordLeaks ==
  ASSUME Owned, GivenUp, WriteRecord
  PROVE  Leaked' \subseteq Leaked
<1> SUFFICES ASSUME NEW b \in Leaked' PROVE b \in Leaked
  OBVIOUS
<1> USE DEF Current
<1>1. /\ pc = "w_trim" /\ pc' = "w_map" /\ bitmap' = bitmap
      /\ cblk' = cblk /\ cslot' = cslot
      /\ buf' = [buf EXCEPT ![cslot].size = left] /\ disk' = Written(cblk, buf')
  BY DEF WriteRecord
<1>2. /\ cslot \in Slots /\ buf \in Table /\ cblk \in Tables(disk) /\ cblk \in Blocks
      /\ disk[cblk][cslot].name \in Names /\ buf[cslot].name \in Names
      /\ ~disk[cblk][cslot].dir /\ ~buf[cslot].dir
  BY <1>1 DEF Owned, TypeOK, Writing
<1>3. /\ buf'[cslot].ptr = buf[cslot].ptr /\ buf'[cslot].name = buf[cslot].name
      /\ buf'[cslot].dir = buf[cslot].dir
  BY <1>1, <1>2 DEF Table, Node
<1>4. disk'[cblk] = buf'
  BY <1>1, <1>2 DEF Written, Owned, TypeOK
<1>5. RecordsKept
  BY WriteRecordInv DEF Kept
<1>6. Tables(disk') = Tables(disk)
  <2>1. \A s \in Slots : DirRecord(disk', s) <=> DirRecord(disk, s)
    <3> SUFFICES ASSUME NEW s \in Slots PROVE DirRecord(disk', s) <=> DirRecord(disk, s)
      OBVIOUS
    <3>1. CASE <<RootBlock, s>> = <<cblk, cslot>>
      <4>1. ~disk'[cblk][cslot].dir
        BY <1>2, <1>3, <1>4
      <4> QED
        BY <1>2, <3>1, <4>1 DEF DirRecord
    <3>2. CASE <<RootBlock, s>> # <<cblk, cslot>>
      <4>1. disk'[RootBlock][s] = disk[RootBlock][s]
        BY <1>1, <1>5, <3>2, RootIsTable DEF RecordsKept
      <4> QED
        BY <4>1 DEF DirRecord
    <3> QED
      BY <3>1, <3>2
  <2>2. \A s \in Slots : DirRecord(disk, s) => disk'[RootBlock][s] = disk[RootBlock][s]
    BY <1>1, <1>2, <1>5, RootIsTable DEF RecordsKept, DirRecord
  <2> QED
    BY <2>1, <2>2 DEF Tables
<1>7. b \in bitmap \ ImageMap /\ ~HasOwner(disk', b)
  BY <1>1, LeakedMeans
<1>8. b # 0
  BY <1>7, ImageAssumption, FluidFSAssumption
<1>9. \A i \in Ptrs : buf[cslot].ptr[i] # b
  BY <1>2, <1>3, <1>4, <1>6, <1>7, <1>8 DEF HasOwner, Holds
<1>10. ~HasOwner(disk, b)
  <2> SUFFICES ASSUME NEW t \in Tables(disk), NEW s \in Slots, NEW i \in Ptrs,
                      Holds(disk, t, s, i), disk[t][s].ptr[i] = b
               PROVE  FALSE
    BY DEF HasOwner
  <2>1. CASE <<t, s>> = <<cblk, cslot>>
    BY <1>1, <1>7, <1>8, <1>9, <2>1 DEF GivenUp
  <2>2. CASE <<t, s>> # <<cblk, cslot>>
    <3>1. disk'[t][s] = disk[t][s]
      BY <1>1, <1>5, <1>6, <2>2 DEF RecordsKept
    <3> QED
      BY <1>6, <1>7, <3>1 DEF HasOwner, Holds
  <2> QED
    BY <2>1, <2>2
<1> QED
  BY <1>7, <1>9, <1>10, LeakedMeans

(* A record is marked as deleted: its blocks are in the buffer now.        *)
LEMMA DeleteLeaks ==
  ASSUME Owned, NEW d \in Directories, NEW f \in Names, BeginDelete(d, f),
         Tables(disk') = Tables(disk)
  PROVE  Leaked' \subseteq Leaked
<1> SUFFICES ASSUME NEW b \in Leaked' PROVE b \in Leaked
  OBVIOUS
<1>1. PICK p \in DirPtrs(d) : \E a \in Hits(p, f) :
        /\ buf' = [disk[p[a[1]]] EXCEPT ![a[2]].name = Deleted]
        /\ cblk' = p[a[1]] /\ cslot' = a[2]
  BY DEF BeginDelete
<1>2. PICK a \in Hits(p, f) :
        /\ buf' = [disk[p[a[1]]] EXCEPT ![a[2]].name = Deleted]
        /\ cblk' = p[a[1]] /\ cslot' = a[2]
  BY <1>1
<1>3. cblk' \in Tables(disk) /\ cslot' \in Slots
  BY <1>2, HitPlace
<1>4. disk[cblk'] \in Table
  BY <1>3 DEF Owned, TablesReadable
<1>5. buf'[cslot'].ptr = disk[cblk'][cslot'].ptr
  BY <1>2, <1>3, <1>4 DEF Table, Node
<1>6. pc = "idle" /\ pc' = "d_trim" /\ bitmap' = bitmap
  BY DEF BeginDelete
<1>7. RecordsKept
  BY BeginDeleteInv DEF Kept
<1>8. b \in bitmap \ ImageMap /\ ~HasOwner(disk', b) /\ \A i \in Ptrs : buf'[cslot'].ptr[i] # b
  BY <1>6, LeakedMeans
<1>9. ~HasOwner(disk, b)
  <2> SUFFICES ASSUME NEW t \in Tables(disk), NEW s \in Slots, NEW i \in Ptrs,
                      Holds(disk, t, s, i), disk[t][s].ptr[i] = b
               PROVE  FALSE
    BY DEF HasOwner
  <2>1. CASE <<t, s>> = <<cblk', cslot'>>
    BY <1>5, <1>8, <2>1
  <2>2. CASE <<t, s>> # <<cblk', cslot'>>
    <3>1. disk'[t][s] = disk[t][s]
      BY <1>7, <2>2 DEF RecordsKept
    <3> QED
      BY <1>8, <3>1 DEF HasOwner, Holds
  <2> QED
    BY <2>1, <2>2
<1> QED
  BY <1>6, <1>8, <1>9, LeakedMeans

(* A record is made: it points to the block that get_block has marked.     *)
LEMMA CreateLeaks ==
  ASSUME Owned, NEW d \in Directories, NEW f \in Names, BeginCreate(d, f)
  PROVE  Leaked' \subseteq Leaked
<1> SUFFICES ASSUME NEW b \in Leaked' PROVE b \in Leaked
  OBVIOUS
<1>1. PICK p \in DirPtrs(d) : \E a \in FreePlaces(p) : \E c \in Bits :
        /\ bitmap' = bitmap \cup {c} /\ p[a[1]] \in Tables(disk) /\ a[2] \in Slots
        /\ cblk' = p[a[1]] /\ cslot' = a[2] /\ buf'[cslot'] = NewNode(f, c)
  BY CreatedRecord
<1>2. PICK a \in FreePlaces(p) : \E c \in Bits :
        /\ bitmap' = bitmap \cup {c} /\ p[a[1]] \in Tables(disk) /\ a[2] \in Slots
        /\ cblk' = p[a[1]] /\ cslot' = a[2] /\ buf'[cslot'] = NewNode(f, c)
  BY <1>1
<1>3. PICK c \in Bits :
        /\ bitmap' = bitmap \cup {c} /\ cblk' \in Tables(disk) /\ cslot' \in Slots
        /\ cblk' = p[a[1]] /\ cslot' = a[2] /\ buf'[cslot'] = NewNode(f, c)
  BY <1>2
<1>4. disk[cblk'][cslot'].name \in {Empty, Deleted}
  BY <1>3, FreePlace
<1>5. pc = "idle" /\ pc' = "c_map"
  BY DEF BeginCreate
<1>6. RecordsKept
  BY BeginCreateInv DEF Kept
<1>7. \A t \in Tables(disk'), s \in Slots :
        <<t, s>> # <<cblk', cslot'>> => disk'[t][s] = disk[t][s]
  BY <1>6 DEF RecordsKept
<1>8. Tables(disk) \subseteq Tables(disk')
  <2>1. ASSUME NEW s \in Slots, DirRecord(disk, s)
        PROVE  DirRecord(disk', s) /\ disk'[RootBlock][s] = disk[RootBlock][s]
    <3>1. <<RootBlock, s>> # <<cblk', cslot'>>
      BY <1>4, <2>1, FluidFSAssumption DEF DirRecord, Names
    <3>2. disk'[RootBlock][s] = disk[RootBlock][s]
      BY <1>7, <3>1, RootIsTable
    <3> QED
      BY <2>1, <3>2 DEF DirRecord
  <2> QED
    BY <2>1 DEF Tables
<1>9. b \in bitmap' \ ImageMap /\ ~HasOwner(disk', b)
  BY LeakedMeans
<1>10. b # 0
  BY <1>9, ImageAssumption, FluidFSAssumption
<1>11. disk'[cblk'][cslot'] = NewNode(f, c)
  <2>1. disk' = Written(cblk', buf')
    BY DEF BeginCreate
  <2>2. cblk' \in Blocks
    BY <1>3 DEF Owned, TablesReadable
  <2> QED
    BY <1>3, <2>1, <2>2 DEF Written, Owned, TypeOK
<1>12. b # c
  <2>1. 0 \in Ptrs
    BY FluidFSAssumption DEF Ptrs
  <2>2. NewNode(f, c).name \in Names /\ NewNode(f, c).ptr[0] = c
    BY <2>1, NewNodeTyped
  <2>3. cblk' \in Tables(disk')
    BY <1>3, <1>8
  <2> QED
    BY <1>3, <1>9, <1>10, <1>11, <2>1, <2>2, <2>3 DEF HasOwner, Holds
<1>13. ~HasOwner(disk, b)
  <2> SUFFICES ASSUME NEW t \in Tables(disk), NEW s \in Slots, NEW i \in Ptrs,
                      Holds(disk, t, s, i), disk[t][s].ptr[i] = b
               PROVE  FALSE
    BY DEF HasOwner
  <2>1. <<t, s>> # <<cblk', cslot'>>
    BY <1>4, FluidFSAssumption DEF Holds
  <2>2. t \in Tables(disk') /\ disk'[t][s] = disk[t][s]
    BY <1>7, <1>8, <2>1
  <2> QED
    BY <1>9, <2>2 DEF HasOwner, Holds
<1> QED
  BY <1>3, <1>5, <1>9, <1>12, <1>13, LeakedMeans

\* A block is lost only when the disk overflows under a write or when a
\* directory is deleted.
THEOREM OnlyKnownLeaks == Spec => LeaksOnlyKnown
<1> DEFINE Inv == IInv /\ Filled /\ Trimmed /\ WholeRecords(disk) /\ GivenUp
<1>1. Init => Inv
  BY InitInv, ImageAssumption DEF Init, Filled, Trimmed, GivenUp
<1>2. Inv /\ [Next]_vars => Inv'
  <2> SUFFICES ASSUME Inv, [Next]_vars PROVE Inv'
    OBVIOUS
  <2>1. CASE Next
    BY <2>1, NextKeeps, FilledKept, TrimmedKept, WholeKept, GivenUpKept DEF IInv, Kept
  <2>2. CASE UNCHANGED vars
    <3>1. Filled' /\ Trimmed' /\ WholeRecords(disk)' /\ GivenUp'
      BY <2>2 DEF vars, Filled, Trimmed, Current, WholeRecords, GivenUp
    <3> QED
      BY <2>2, <3>1, StutterKeeps DEF IInv
  <2> QED
    BY <2>1, <2>2
<1>3. Inv /\ [Next]_vars => [LeakStep]_vars
  <2> SUFFICES ASSUME Inv, Next PROVE LeakStep
    OBVIOUS
  <2>1. Owned
    BY DEF IInv
  <2>2. CASE pc' \in {"w_map", "c_map"}
    BY <2>1, <2>2, NewOnDisk, RecordLeaks, CreateLeaks DEF LeakStep
  <2>3. CASE pc = "idle" /\ pc' = "d_trim"
    <3>1. PICK d \in Directories, f \in Names : BeginDelete(d, f)
      BY <2>3 DEF Next, Continue, BeginWrite, BeginCreate, WriteBlock, WriteOverflow, TrimBlock,
         WriteRecord, WriteMap, DeleteBlock, DeleteMap, CreateMap
    <3> QED
      BY <2>1, <2>3, <3>1, DeleteLeaks DEF LeakStep
  <2>4. CASE pc' \notin {"w_map", "c_map"} /\ ~(pc = "idle" /\ pc' = "d_trim")
    BY <2>1, <2>4, QuietLeaks DEF LeakStep
  <2> QED
    BY <2>2, <2>3, <2>4
<1> QED
  BY <1>1, <1>2, <1>3, PTL DEF Spec, LeaksOnlyKnown

-----------------------------------------------------------------------------
(* Power cuts and lost writes.  A sound step keeps the invariant by the    *)
(* lemmas above; below are the cut and the lost writes.                    *)

(* The start.                                                              *)
LEMMA FInitInv == FInit => FIInv
<1> SUFFICES ASSUME FInit PROVE FIInv
  OBVIOUS
<1>1. Owned /\ FreedBlocksErased
  BY InitInv DEF FInit, IInv
<1>2. Filled /\ TornOnlyAtFlush /\ 0 .. RootBlock \subseteq dmap
  BY ImageAssumption DEF FInit, Init, Filled, TornOnlyAtFlush, MarkedBlocks
<1>3. Durable
  BY ImageAssumption DEF FInit, Init, Durable, Flushed
<1> QED
  BY <1>1, <1>2, <1>3 DEF FIInv, Owned

-----------------------------------------------------------------------------
(* Steps that leave disk and its bitmap alone.                             *)

(* They cannot uncover a block.                                            *)
LEMMA NothingUncovered ==
  ASSUME TornOnlyAtFlush, disk' = disk, dmap' = dmap, pc \notin {"w_map", "c_map"}
  PROVE  TornOnlyAtFlush'
BY DEF TornOnlyAtFlush, Holds

(* The end of a call needs nothing of the buffer.                          *)
LEMMA FilledAtReturn == ASSUME Return PROVE Filled'
BY DEF Return, Filled

-----------------------------------------------------------------------------
(* A cut outside the window finds every block in use in the platter's      *)
(* bitmap.                                                                 *)
LEMMA CutTyped ==
  ASSUME TypeOK, Cut
  PROVE  TypeOK' /\ Durable'
<1>1. /\ bitmap' = dmap /\ disk' = disk /\ dmap' = dmap /\ Return
      /\ dmap \subseteq 0 .. MapBits - 1
  BY DEF Cut, TypeOK
<1>2. dmap \subseteq Bits
  BY <1>1, FluidFSAssumption DEF Bits
<1>3. TypeOK'
  <2>1. 0 \in Blocks /\ 0 \in Slots /\ 0 \in 0 .. MaxPtr /\ 0 \in Sizes
    BY FluidFSAssumption DEF Blocks, Slots, Sizes
  <2>2. NoReq \in Reqs
    BY <2>1 DEF NoReq, Reqs, Directories
  <2> QED
    BY <1>1, <1>2, <2>1, <2>2, EmptyTyped DEF TypeOK, Return
<1>4. Durable'
  BY <1>1 DEF Durable, Flushed, Return
<1> QED
  BY <1>3, <1>4

LEMMA CutKeeps ==
  ASSUME FIInv, ~torn, Cut, ~torn'
  PROVE  FIInv'
<1>1. /\ bitmap' = dmap /\ disk' = disk /\ dmap' = dmap /\ Return
      /\ ~Window /\ (~stale' => ~stale /\ ~Unrecorded)
  BY DEF Cut
<1>2. /\ pc \notin {"w_map", "c_map"} /\ ~behind
      /\ \A t \in Tables(disk), s \in Slots, i \in Ptrs :
           Holds(disk, t, s, i) => ~(disk[t][s].ptr[i] >= MapBits)
  BY <1>1 DEF Window
<1>3. /\ Owned /\ TornOnlyAtFlush /\ 0 .. RootBlock \subseteq dmap
      /\ (~stale => FreedBlocksErased) /\ Durable /\ TypeOK
  BY <1>2 DEF FIInv
<1>4. TypeOK' /\ Durable'
  BY <1>3, CutTyped
<1>5. Owned'
  <2>1. TablesReadable(disk)' /\ NoCrossLink' /\ FixedMarked'
    BY <1>1, <1>3 DEF Owned, NoCrossLink, FixedMarked
  <2>2. UsedBlocksMarked'
    <3>1. \A b \in MapBits .. ScanBits - 1 : b >= MapBits
      BY FluidFSAssumption
    <3>2. \A t \in Tables(disk), s \in Slots, i \in Ptrs :
            Holds(disk, t, s, i) => disk[t][s].ptr[i] \in dmap
      BY <1>2, <1>3, <3>1 DEF TornOnlyAtFlush
    <3> QED
      BY <1>1, <3>2 DEF UsedBlocksMarked, Holds
  <2>3. InFlight' /\ Writing' /\ Deleting'
    BY <1>1 DEF Return, InFlight, Writing, Deleting
  <2> QED
    BY <1>4, <2>1, <2>2, <2>3 DEF Owned
<1>6. TornOnlyAtFlush' /\ Filled'
  BY <1>1, <1>2, <1>3, NothingUncovered, FilledAtReturn
<1>7. ASSUME ~stale' PROVE FreedBlocksErased'
  <2>1. ~stale /\ ~spilled /\ pc \notin {"w_data", "w_trim"}
    BY <1>1, <1>7 DEF Unrecorded
  <2>2. pc \in {"idle", "d_trim"}
    BY <1>2, <1>3, <2>1 DEF TypeOK
  <2>3. Flushed \subseteq dmap
    BY <1>2, <1>3, <2>1, <2>2 DEF Durable
  <2>4. \A b \in Blocks : b \in bitmap => b \in dmap
    BY <2>3, FluidFSAssumption DEF Flushed, Blocks
  <2> QED
    BY <1>1, <1>3, <2>1, <2>4 DEF FreedBlocksErased, ErasedOutside
<1> QED
  BY <1>1, <1>3, <1>4, <1>5, <1>6, <1>7 DEF FIInv

-----------------------------------------------------------------------------
(* A block of data is lost: the record in the buffer has its block as if   *)
(* the write had been carried out.                                         *)
LEMMA LostDataKeeps ==
  ASSUME Owned, Filled, LostData
  PROVE  /\ Owned' /\ Filled'
         /\ FreedBlocksErased => FreedBlocksErased'
<1> USE DEF Owned, Current
<1>1. /\ pc = "w_data" /\ disk' = disk /\ dmap' = dmap /\ req' = req
      /\ cblk' = cblk /\ cslot' = cslot /\ k' = k + 1
      /\ left' = IF left >= BlockSize THEN left - BlockSize ELSE left
      /\ pc' = IF k + 1 < BlocksFor(req.n) THEN "w_data" ELSE "w_trim"
  BY DEF LostData
<1>2. BlocksFor(req.n) \in 0 .. MaxPtr /\ MaxPtr \in Nat
  BY BlocksForBound, FluidFSAssumption DEF TypeOK, Reqs
<1>3. k \in Ptrs /\ k + 1 \in 0 .. MaxPtr
  BY <1>1, <1>2 DEF TypeOK, Ptrs
<1>4. PICK b \in Bits \ {0} :
        /\ IF Current.ptr[k] # 0
           THEN b = Current.ptr[k] /\ bitmap' = bitmap
           ELSE NextFree(b) /\ bitmap' = bitmap \cup {b}
        /\ buf' = WithPtr(buf, cslot, k, b)
  BY DEF LostData
<1>5. /\ b > RootBlock
      /\ bitmap \subseteq bitmap' /\ bitmap' \subseteq Bits /\ b \in bitmap'
      /\ \A t \in Tables(disk), s \in Slots, i \in Ptrs :
           Holds(disk, t, s, i) /\ disk[t][s].ptr[i] = b => t = cblk /\ s = cslot /\ i = k
      /\ \A i \in Ptrs : i # k /\ Current.ptr[i] # 0 => Current.ptr[i] # b
  <2>1. CASE Current.ptr[k] # 0
    BY <1>1, <1>3, <1>4, <2>1 DEF InFlight, TypeOK
  <2>2. CASE Current.ptr[k] = 0
    <3>1. b \in Bits \ bitmap /\ bitmap' = bitmap \cup {b}
      BY <1>4, <2>2 DEF NextFree
    <3>2. b > RootBlock
      BY <3>1, FluidFSAssumption DEF FixedMarked, Bits
    <3>3. \A t \in Tables(disk), s \in Slots, i \in Ptrs :
            Holds(disk, t, s, i) => disk[t][s].ptr[i] \in bitmap
      BY <1>1 DEF UsedBlocksMarked
    <3> QED
      BY <1>1, <3>1, <3>2, <3>3 DEF InFlight, TypeOK
  <2> QED
    BY <2>1, <2>2
<1>6. /\ buf' \in Table
      /\ \A r \in Slots \ {cslot} : buf'[r] = buf[r]
      /\ buf'[cslot].name = buf[cslot].name /\ buf'[cslot].dir = buf[cslot].dir
      /\ \A j \in Ptrs : buf'[cslot].ptr[j] = IF j = k THEN b ELSE buf[cslot].ptr[j]
  <2>1. buf \in Table /\ cslot \in Slots
    BY DEF TypeOK
  <2> QED
    BY <1>3, <1>4, <2>1, SetPointer
<1>7. TypeOK'
  <2>1. left' \in Sizes
    BY <1>1, FluidFSAssumption DEF TypeOK, Sizes
  <2> QED
    BY <1>1, <1>3, <1>5, <1>6, <2>1 DEF TypeOK
<1>8. /\ UsedBlocksMarked' /\ FixedMarked' /\ NoCrossLink' /\ TablesReadable(disk)'
      /\ FreedBlocksErased => FreedBlocksErased'
  BY <1>1, <1>5
     DEF UsedBlocksMarked, Holds, FixedMarked, NoCrossLink, FreedBlocksErased, ErasedOutside
<1>9. InFlight'
  <2>1. \A i \in Ptrs : buf'[cslot].ptr[i] # 0 =>
          buf'[cslot].ptr[i] > RootBlock /\ buf'[cslot].ptr[i] \in bitmap'
    BY <1>1, <1>5, <1>6 DEF InFlight
  <2>2. \A i, j \in Ptrs :
          buf'[cslot].ptr[i] # 0 /\ buf'[cslot].ptr[i] = buf'[cslot].ptr[j] => i = j
    BY <1>1, <1>5, <1>6 DEF InFlight
  <2>3. \A t \in Tables(disk), s \in Slots, i, j \in Ptrs :
          Holds(disk, t, s, i) /\ disk[t][s].ptr[i] = buf'[cslot].ptr[j] =>
            t = cblk /\ s = cslot /\ i = j
    BY <1>1, <1>5, <1>6 DEF InFlight
  <2> QED
    BY <1>1, <2>1, <2>2, <2>3 DEF InFlight, Holds
<1>10. Writing' /\ Deleting'
  BY <1>1, <1>6 DEF Writing, Deleting, TypeOK
<1>11. Filled'
  <2>1. \A i \in Ptrs : i < k + 1 => buf'[cslot].ptr[i] # 0
    BY <1>1, <1>3, <1>6 DEF Filled, Ptrs
  <2>2. CASE k + 1 < BlocksFor(req.n)
    BY <1>1, <2>1, <2>2 DEF Filled
  <2>3. CASE ~(k + 1 < BlocksFor(req.n))
    <3>1. k + 1 >= BlocksFor(req.n) /\ \A i \in Ptrs : i < BlocksFor(req.n) => i < k + 1
      BY <1>2, <1>3, <2>3 DEF Ptrs
    <3>2. BlocksFor(req.n)' = BlocksFor(req.n)
      BY <1>1 DEF BlocksFor
    <3> QED
      BY <1>1, <2>1, <2>3, <3>1, <3>2 DEF Filled
  <2> QED
    BY <2>2, <2>3
<1> QED
  BY <1>7, <1>8, <1>9, <1>10, <1>11

(* An erasure is lost: the block is freed with what it holds.              *)
LEMMA LostEraseKeeps ==
  ASSUME Owned, Filled, LostErase
  PROVE  Owned' /\ Filled'
<1> DEFINE b == buf[cslot].ptr[k]
<1> USE DEF Owned, Current
<1>1. /\ pc \in {"w_trim", "d_trim"} /\ k < MaxPtr /\ b # 0
      /\ disk' = disk /\ bitmap' = Freed(b)
      /\ buf' = WithPtr(buf, cslot, k, 0)
      /\ k' = k + 1 /\ dmap' = dmap /\ pc' = pc /\ req' = req
      /\ cblk' = cblk /\ cslot' = cslot /\ left' = left
  BY DEF LostErase
<1>2. k \in Ptrs /\ k + 1 \in 0 .. MaxPtr /\ buf \in Table /\ cslot \in Slots /\ 0 \in Bits
  BY <1>1, FluidFSAssumption DEF TypeOK, Ptrs, Bits
<1>3. /\ b > RootBlock /\ b \in bitmap
      /\ \A i \in Ptrs : i # k /\ buf[cslot].ptr[i] # 0 => buf[cslot].ptr[i] # b
      /\ \A t \in Tables(disk), s \in Slots, i \in Ptrs :
           Holds(disk, t, s, i) /\ disk[t][s].ptr[i] = b =>
             t = cblk /\ s = cslot /\ i = k
  BY <1>1, <1>2 DEF InFlight
<1>4. /\ buf' \in Table
      /\ \A r \in Slots \ {cslot} : buf'[r] = buf[r]
      /\ buf'[cslot].name = buf[cslot].name /\ buf'[cslot].dir = buf[cslot].dir
      /\ \A j \in Ptrs : buf'[cslot].ptr[j] = IF j = k THEN 0 ELSE buf[cslot].ptr[j]
  BY <1>1, <1>2, SetPointer
<1>5. bitmap' = bitmap \ {b}
  BY <1>1 DEF Freed
<1> HIDE DEF b
<1>6. TypeOK' /\ NoCrossLink' /\ TablesReadable(disk)'
  BY <1>1, <1>2, <1>4, <1>5 DEF TypeOK, NoCrossLink
<1>7. UsedBlocksMarked'
  <2> SUFFICES ASSUME NEW t \in Tables(disk), NEW s \in Slots, NEW i \in Ptrs,
                      Holds(disk, t, s, i), disk[t][s].ptr[i] \notin bitmap'
               PROVE  /\ t = cblk /\ s = cslot /\ pc = "w_trim"
                      /\ i < k + 1 /\ buf'[s].ptr[i] = 0
    BY <1>1 DEF UsedBlocksMarked, Holds, Changing
  <2>1. CASE disk[t][s].ptr[i] = b
    <3>1. t = cblk /\ s = cslot /\ i = k
      BY <1>3, <2>1
    <3>2. pc = "w_trim"
      BY <1>1, <3>1 DEF Deleting, Holds
    <3> QED
      BY <1>2, <1>4, <3>1, <3>2 DEF Ptrs
  <2>2. CASE disk[t][s].ptr[i] # b
    <3>1. <<t, s>> \in Changing /\ pc = "w_trim" /\ i < k /\ buf[s].ptr[i] = 0
      BY <1>5, <2>2 DEF UsedBlocksMarked
    <3> QED
      BY <1>2, <1>4, <3>1 DEF Changing, Ptrs
  <2> QED
    BY <2>1, <2>2
<1>8. FixedMarked'
  BY <1>3, <1>5, FluidFSAssumption DEF FixedMarked, TypeOK, Bits
<1>9. InFlight'
  <2>1. \A i \in Ptrs : buf'[cslot].ptr[i] # 0 =>
          buf'[cslot].ptr[i] > RootBlock /\ buf'[cslot].ptr[i] \in bitmap'
    BY <1>1, <1>3, <1>4, <1>5 DEF InFlight
  <2>2. \A i, j \in Ptrs :
          buf'[cslot].ptr[i] # 0 /\ buf'[cslot].ptr[i] = buf'[cslot].ptr[j] => i = j
    BY <1>1, <1>4 DEF InFlight
  <2>3. \A t \in Tables(disk), s \in Slots, i, j \in Ptrs :
          Holds(disk, t, s, i) /\ disk[t][s].ptr[i] = buf'[cslot].ptr[j] =>
            t = cblk /\ s = cslot /\ i = j
    BY <1>1, <1>4 DEF InFlight, Holds
  <2> QED
    BY <1>1, <2>1, <2>2, <2>3 DEF InFlight, Holds
<1>10. Writing' /\ Deleting'
  BY <1>1, <1>4 DEF Writing, Deleting
<1>11. Filled'
  <2>1. BlocksFor(req.n) \in 0 .. MaxPtr /\ BlocksFor(req.n)' = BlocksFor(req.n)
    BY <1>1, BlocksForBound DEF TypeOK, Reqs, BlocksFor
  <2>2. CASE pc = "w_trim"
    <3>1. k >= BlocksFor(req.n) /\ \A i \in Ptrs : i < BlocksFor(req.n) => buf[cslot].ptr[i] # 0
      BY <2>2 DEF Filled
    <3>2. k + 1 >= BlocksFor(req.n) /\ \A i \in Ptrs : i < BlocksFor(req.n) => i # k
      BY <1>2, <2>1, <3>1, FluidFSAssumption DEF Ptrs
    <3> QED
      BY <1>1, <1>4, <2>1, <2>2, <3>1, <3>2 DEF Filled
  <2> QED
    BY <1>1, <2>2 DEF Filled
<1> QED
  BY <1>6, <1>7, <1>8, <1>9, <1>10, <1>11

(* The record of a write is lost: unless it gives blocks up, the one on    *)
(* the disk names none but what is marked.                                 *)
LEMMA LostRecordKeeps ==
  ASSUME TypeOK, LostRecord
  PROVE  /\ TypeOK' /\ Durable'
         /\ Owned /\ Filled /\ ~torn' => Owned' /\ Filled'
<1> USE DEF Current
<1>1. /\ pc = "w_trim" /\ pc' = "w_map" /\ disk' = disk /\ dmap' = dmap /\ bitmap' = bitmap
      /\ buf' = [buf EXCEPT ![cslot].size = left]
      /\ req' = req /\ cblk' = cblk /\ cslot' = cslot /\ k' = k /\ left' = left
      /\ torn' = (torn \/ k > BlocksFor(req.n))
  BY DEF LostRecord
<1>2. TypeOK'
  <2>1. [buf[cslot] EXCEPT !.size = left] \in Node
    BY DEF TypeOK, Table, Node
  <2>2. buf' \in Table
    BY <1>1, <2>1 DEF TypeOK, Table
  <2> QED
    BY <1>1, <2>2 DEF TypeOK
<1>3. Durable'
  BY <1>1 DEF Durable
<1>4. ASSUME Owned, Filled, ~torn' PROVE Owned' /\ Filled'
  <2>1. BlocksFor(req.n) \in 0 .. MaxPtr /\ k \in 0 .. MaxPtr /\ MaxPtr \in Nat
    BY BlocksForBound, FluidFSAssumption DEF TypeOK, Reqs
  <2>2. k <= BlocksFor(req.n)
    <3>1. ~(k > BlocksFor(req.n))
      <4>1. torn' = (torn \/ k > BlocksFor(req.n)) /\ ~torn'
        BY <1>1, <1>4
      <4> QED
        BY <4>1, Zenon
    <3> QED
      BY <2>1, <3>1
  <2>3. \A i \in Ptrs : i < k => buf[cslot].ptr[i] # 0
    BY <1>1, <1>4, <2>1, <2>2 DEF Filled, Ptrs
  <2>4. \A t \in Tables(disk), s \in Slots, i \in Ptrs :
          Holds(disk, t, s, i) => disk[t][s].ptr[i] \in bitmap
    BY <1>4, <2>3 DEF Owned, UsedBlocksMarked, Changing
  <2>5. UsedBlocksMarked'
    BY <1>1, <2>4 DEF UsedBlocksMarked, Holds
  <2>6. FixedMarked' /\ NoCrossLink' /\ TablesReadable(disk)'
    BY <1>1, <1>4 DEF Owned, FixedMarked, NoCrossLink
  <2>7. InFlight' /\ Writing' /\ Deleting' /\ Filled'
    BY <1>1 DEF InFlight, Writing, Deleting, Filled
  <2> QED
    BY <1>2, <2>5, <2>6, <2>7 DEF Owned
<1> QED
  BY <1>2, <1>3, <1>4

(* The mark of a delete is lost: only the types are left to say.           *)
LEMMA LostMarkTyped ==
  ASSUME Owned, Durable, NEW d \in Directories, NEW f \in Names, LostMark(d, f)
  PROVE  TypeOK' /\ Durable'
<1>1. PICK p \in DirPtrs(d) : \E a \in Hits(p, f) :
        /\ buf' = [disk[p[a[1]]] EXCEPT ![a[2]].name = Deleted]
        /\ cblk' = p[a[1]] /\ cslot' = a[2]
  BY DEF LostMark
<1>2. PICK a \in Hits(p, f) :
        /\ buf' = [disk[p[a[1]]] EXCEPT ![a[2]].name = Deleted]
        /\ cblk' = p[a[1]] /\ cslot' = a[2]
  BY <1>1
<1> DEFINE t == p[a[1]]
           s == a[2]
<1>3. t \in Tables(disk) /\ s \in Slots
  BY HitPlace
<1>4. /\ buf' = [disk[t] EXCEPT ![s].name = Deleted]
      /\ cblk' = t /\ cslot' = s
  BY <1>2
<1> HIDE DEF t, s
<1>5. /\ pc = "idle" /\ pc' = "d_trim" /\ disk' = disk /\ dmap' = dmap /\ bitmap' = bitmap
      /\ k' = 0 /\ left' = left /\ req' = [d |-> d, f |-> f, n |-> 0, data |-> Empty]
      /\ behind' = behind /\ spilled' = spilled
  BY DEF LostMark
<1>6. t \in Blocks /\ disk[t] \in Table
  BY <1>3 DEF Owned, TablesReadable
<1>7. [disk[t][s] EXCEPT !.name = Deleted] \in Node
  BY <1>3, <1>6 DEF Table, Node
<1>8. buf' \in Table
  BY <1>3, <1>4, <1>6, <1>7 DEF Table
<1>9. TypeOK'
  <2>1. req' \in Reqs /\ 0 \in 0 .. MaxPtr
    BY <1>5, FluidFSAssumption DEF Reqs, Sizes
  <2> QED
    BY <1>3, <1>4, <1>5, <1>6, <1>8, <2>1 DEF Owned, TypeOK
<1>10. Durable'
  BY <1>5 DEF Durable, Flushed
<1> QED
  BY <1>9, <1>10

(* The record of a create is lost: its block stays marked.                 *)
LEMMA LostNodeKeeps ==
  ASSUME Owned, NEW d \in Directories, NEW f \in Names, LostNode(d, f)
  PROVE  /\ Owned' /\ Filled' /\ Durable'
         /\ FreedBlocksErased => FreedBlocksErased'
<1>1. PICK p \in DirPtrs(d) : \E a \in FreePlaces(p) : \E b \in Bits :
        /\ bitmap' = bitmap \cup {b}
        /\ buf' = [disk[p[a[1]]] EXCEPT ![a[2]] = NewNode(f, b)]
        /\ cblk' = p[a[1]] /\ cslot' = a[2]
  BY DEF LostNode
<1>2. PICK a \in FreePlaces(p) : \E b \in Bits :
        /\ bitmap' = bitmap \cup {b}
        /\ buf' = [disk[p[a[1]]] EXCEPT ![a[2]] = NewNode(f, b)]
        /\ cblk' = p[a[1]] /\ cslot' = a[2]
  BY <1>1
<1> DEFINE t == p[a[1]]
           s == a[2]
<1>3. t \in Tables(disk) /\ s \in Slots
  BY FreePlace
<1>4. PICK b \in Bits :
        /\ bitmap' = bitmap \cup {b}
        /\ buf' = [disk[t] EXCEPT ![s] = NewNode(f, b)]
        /\ cblk' = t /\ cslot' = s
  BY <1>2
<1> HIDE DEF t, s
<1>5. /\ pc = "idle" /\ pc' = "c_map" /\ disk' = disk /\ dmap' = dmap
      /\ k' = k /\ left' = left /\ req' = [d |-> d, f |-> f, n |-> 0, data |-> Empty]
  BY DEF LostNode
<1>6. t \in Blocks /\ disk[t] \in Table
  BY <1>3 DEF Owned, TablesReadable
<1>7. NewNode(f, b) \in Node
  BY NewNodeTyped
<1>8. buf' \in Table /\ bitmap' \subseteq Bits /\ bitmap \subseteq bitmap'
  BY <1>3, <1>4, <1>6, <1>7 DEF Table, Owned, TypeOK
<1>9. TypeOK'
  <2>1. req' \in Reqs
    BY <1>5, FluidFSAssumption DEF Reqs, Sizes
  <2> QED
    BY <1>3, <1>4, <1>5, <1>6, <1>8, <2>1 DEF Owned, TypeOK
<1>10. UsedBlocksMarked'
  BY <1>5, <1>8 DEF Owned, UsedBlocksMarked, Holds
<1>11. /\ FixedMarked' /\ NoCrossLink' /\ TablesReadable(disk)'
       /\ FreedBlocksErased => FreedBlocksErased'
  BY <1>5, <1>8 DEF Owned, FixedMarked, NoCrossLink, FreedBlocksErased, ErasedOutside
<1>12. InFlight' /\ Writing' /\ Deleting' /\ Filled' /\ Durable'
  BY <1>5 DEF InFlight, Writing, Deleting, Filled, Durable
<1> QED
  BY <1>9, <1>10, <1>11, <1>12 DEF Owned

-----------------------------------------------------------------------------
(* A step without a fault keeps what the platter's bitmap covers.          *)
LEMMA SoundDurable ==
  ASSUME TypeOK, Durable, Sound
  PROVE  Durable'
<1>1. CASE WriteMap \/ DeleteMap \/ CreateMap
  BY <1>1 DEF WriteMap, DeleteMap, CreateMap, Return, Durable, Flushed
<1>2. CASE ~(WriteMap \/ DeleteMap \/ CreateMap)
  <2> SUFFICES ASSUME ~behind', ~spilled' PROVE (pc' = "idle" => dmap' = Flushed')
                                                /\ (pc' = "d_trim" => Flushed' \subseteq dmap')
    BY DEF Durable
  <2>1. Next /\ behind' = behind /\ spilled' = (spilled \/ WriteOverflow)
    BY <1>2 DEF Sound
  <2>2. ~behind /\ ~spilled /\ ~WriteOverflow
    BY <2>1
  <2>3. ASSUME NEW d \in Directories, NEW f \in Names, BeginDelete(d, f)
        PROVE  pc' = "d_trim" /\ dmap' = dmap /\ Flushed' = Flushed /\ pc = "idle"
    BY <2>3 DEF BeginDelete, Flushed
  <2>4. ASSUME DeleteBlock
        PROVE  pc' = "d_trim" /\ dmap' = dmap /\ Flushed' \subseteq Flushed /\ pc = "d_trim"
    BY <2>4 DEF DeleteBlock, Freed, Flushed
  <2>5. CASE pc' \notin {"idle", "d_trim"}
    BY <2>5
  <2>6. CASE pc' \in {"idle", "d_trim"}
    <3>1. DeleteBlock \/ \E d \in Directories, f \in Names : BeginDelete(d, f)
      BY <1>2, <2>1, <2>2, <2>6
         DEF Next, Continue, BeginWrite, BeginCreate, WriteBlock, TrimBlock, WriteRecord
    <3> QED
      BY <2>2, <2>3, <2>4, <3>1 DEF Durable
  <2> QED
    BY <2>5, <2>6
<1> QED
  BY <1>1, <1>2

(* A flush brings the fixed blocks to the platter's bitmap again.          *)
LEMMA FixedStayDurable ==
  ASSUME Owned, 0 .. RootBlock \subseteq dmap, dmap' = dmap \/ dmap' = Flushed
  PROVE  0 .. RootBlock \subseteq dmap'
BY FluidFSAssumption DEF Owned, FixedMarked, Flushed

LEMMA SoundKeeps ==
  ASSUME FIInv, ~torn, Sound
  PROVE  FIInv'
<1>1. /\ Next /\ torn' = torn /\ stale' = stale
      /\ IF WriteMap \/ DeleteMap \/ CreateMap
         THEN behind' = FALSE /\ spilled' = FALSE
         ELSE behind' = behind /\ spilled' = (spilled \/ WriteOverflow)
  BY DEF Sound
<1>2. /\ Owned /\ Filled /\ 0 .. RootBlock \subseteq dmap
      /\ behind \/ TornOnlyAtFlush
      /\ (~stale => FreedBlocksErased) /\ Durable /\ TypeOK
  BY DEF FIInv
<1>3. Owned' /\ (FreedBlocksErased => FreedBlocksErased')
  BY <1>1, <1>2, NextKeeps DEF Kept
<1>4. Filled' /\ Durable'
  BY <1>1, <1>2, FilledKept, SoundDurable
<1>5. behind' \/ TornOnlyAtFlush'
  <2>1. CASE WriteMap \/ DeleteMap \/ CreateMap
    BY <1>2, <2>1, FlushCovers
  <2>2. CASE ~(WriteMap \/ DeleteMap \/ CreateMap)
    BY <1>1, <1>2, <2>2, TornKept
  <2> QED
    BY <2>1, <2>2
<1>6. 0 .. RootBlock \subseteq dmap'
  <2>1. dmap' = dmap \/ dmap' = Flushed
    BY <1>1 DEF Next, Continue, BeginWrite, BeginDelete, BeginCreate, WriteBlock,
       WriteOverflow, TrimBlock, WriteRecord, DeleteBlock, WriteMap, DeleteMap, CreateMap
  <2> QED
    BY <1>2, <2>1, FixedStayDurable
<1> QED
  BY <1>1, <1>2, <1>3, <1>4, <1>5, <1>6 DEF FIInv, Owned

LEMMA FaultKeeps ==
  ASSUME FIInv, ~torn, Fault
  PROVE  FIInv'
<1>1. /\ Owned /\ Filled /\ 0 .. RootBlock \subseteq dmap
      /\ behind \/ TornOnlyAtFlush
      /\ (~stale => FreedBlocksErased) /\ Durable /\ TypeOK
  BY DEF FIInv
<1>2. CASE Cut
  BY <1>1, <1>2, CutTyped, CutKeeps DEF FIInv
<1>3. CASE LostData
  <2>1. /\ disk' = disk /\ dmap' = dmap /\ pc = "w_data" /\ pc' \in {"w_data", "w_trim"}
        /\ behind' = behind /\ torn' = torn /\ stale' = stale
    BY <1>3 DEF LostData, history
  <2>2. TornOnlyAtFlush => TornOnlyAtFlush'
    BY <2>1, NothingUncovered
  <2>3. Durable'
    BY <2>1 DEF Durable
  <2> QED
    BY <1>1, <1>3, <2>1, <2>2, <2>3, LostDataKeeps DEF FIInv, Owned
<1>4. CASE LostErase
  <2>1. /\ disk' = disk /\ dmap' = dmap /\ pc \in {"w_trim", "d_trim"} /\ pc' = pc
        /\ behind' = behind /\ spilled' = spilled /\ torn' = torn /\ stale' = TRUE
        /\ bitmap' \subseteq bitmap
    BY <1>4 DEF LostErase, Freed
  <2>2. TornOnlyAtFlush => TornOnlyAtFlush'
    BY <2>1, NothingUncovered
  <2>3. Durable'
    BY <1>1, <2>1 DEF Durable, Flushed
  <2> QED
    BY <1>1, <1>4, <2>1, <2>2, <2>3, LostEraseKeeps DEF FIInv, Owned
<1>5. CASE LostRecord
  <2>1. /\ disk' = disk /\ dmap' = dmap /\ bitmap' = bitmap /\ pc = "w_trim"
        /\ behind' = behind /\ stale' = stale
    BY <1>5 DEF LostRecord
  <2>2. TornOnlyAtFlush => TornOnlyAtFlush'
    BY <2>1, NothingUncovered
  <2>3. FreedBlocksErased => FreedBlocksErased'
    BY <2>1 DEF FreedBlocksErased
  <2> QED
    BY <1>1, <1>5, <2>1, <2>2, <2>3, LostRecordKeeps DEF FIInv
<1>6. CASE LostMap
  <2>1. /\ disk' = disk /\ dmap' = dmap /\ bitmap' = bitmap /\ pc # "w_trim" /\ Return
        /\ behind' = TRUE /\ torn' = torn /\ stale' = stale
    BY <1>6 DEF LostMap
  <2>2. Kept
    BY <1>1, <2>1, ReturnKeeps
  <2>3. Filled' /\ Durable'
    BY <2>1, FilledAtReturn DEF Durable
  <2> QED
    BY <1>1, <2>1, <2>2, <2>3 DEF FIInv, Kept, Owned
<1>7. ASSUME NEW d \in Directories, NEW f \in Names, LostMark(d, f)
      PROVE  FIInv'
  <2>1. torn'
    BY <1>7 DEF LostMark
  <2> QED
    BY <1>1, <1>7, <2>1, LostMarkTyped DEF FIInv
<1>8. ASSUME NEW d \in Directories, NEW f \in Names, LostNode(d, f)
      PROVE  FIInv'
  <2>1. /\ disk' = disk /\ dmap' = dmap /\ pc = "idle"
        /\ behind' = behind /\ torn' = torn /\ stale' = stale
    BY <1>8 DEF LostNode, history
  <2>2. TornOnlyAtFlush => TornOnlyAtFlush'
    BY <2>1, NothingUncovered
  <2> QED
    BY <1>1, <1>8, <2>1, <2>2, LostNodeKeeps DEF FIInv, Owned
<1> QED
  BY <1>2, <1>3, <1>4, <1>5, <1>6, <1>7, <1>8 DEF Fault

-----------------------------------------------------------------------------
(* The theorems.                                                           *)

\* FIInv holds through every sequence of calls, cuts and lost writes.
THEOREM FaultInvariant == FSpec => []FIInv
<1>1. FIInv /\ [FNext]_fvars => FIInv'
  <2> SUFFICES ASSUME FIInv, [FNext]_fvars PROVE FIInv'
    OBVIOUS
  <2>1. CASE FNext
    BY <2>1, SoundKeeps, FaultKeeps DEF FNext
  <2>2. CASE UNCHANGED fvars
    <3>1. UNCHANGED vars /\ UNCHANGED history
      BY <2>2 DEF fvars
    <3>2. TypeOK' /\ (Filled => Filled') /\ (Durable => Durable')
      BY <3>1 DEF FIInv, vars, history, TypeOK, Filled, Current, Durable, Flushed
    <3> QED
      BY <3>1, <3>2, StutterKeeps DEF FIInv, vars, history
  <2> QED
    BY <2>1, <2>2
<1> QED
  BY FInitInv, <1>1, PTL DEF FSpec

\* No block gets two owners and none in use is taken for free, but for the
\* causes that Cut, LostRecord and LostMark name.
THEOREM OwnersSurviveFaults == FSpec => []OwnersNeedCause
<1>1. FIInv => OwnersNeedCause
  BY DEF FIInv, Owned, OwnersNeedCause
<1> QED
  BY FaultInvariant, <1>1, PTL

\* Free blocks hold zeroes but for the causes that Cut and LostErase name.
THEOREM BlankSurvivesFaults == FSpec => []StaleNeedsCause
<1>1. FIInv => StaleNeedsCause
  BY DEF FIInv, StaleNeedsCause
<1> QED
  BY FaultInvariant, <1>1, PTL

\* Between calls a cut changes nothing, unless a flush has been lost or a call
\* has overflowed since the last one.
THEOREM CutBetweenCallsIsHarmless == FSpec => []IdleIsDurable
<1>1. FIInv => IdleIsDurable
  BY DEF FIInv, Durable, IdleIsDurable
<1> QED
  BY FaultInvariant, <1>1, PTL

=============================================================================
