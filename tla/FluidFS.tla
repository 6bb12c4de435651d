------------------------------ MODULE FluidFS ------------------------------
(***************************************************************************)
(* FluidFS, the file system of the kernel (src/src/fs/fluidfs.c), at the   *)
(* granularity of single disk writes.  The kernel runs one file system     *)
(* call at a time (int 0x80 from the only program), so a call is a chain   *)
(* of actions linked by pc; between two of them the platter is what a      *)
(* power cut would leave behind.                                           *)
(*                                                                         *)
(* A block is a table of directory records or a block of file data; a      *)
(* zeroed block is the table of empty records.  Names and data are model   *)
(* values.  Calls that fail before they touch anything (file not found,    *)
(* no free record, no such directory) change no state and are stuttering   *)
(* steps; fcheck, fread, fopen and write_dir only read and are operators.  *)
(***************************************************************************)
EXTENDS Integers, FiniteSets

CONSTANTS
  Dirs,       \* names of the directories made by the packer
  Files,      \* names of files
  Root,       \* the directory part of a path that has none
  Data,       \* what a write puts into a block
  Counts,     \* the byte counts callers pass to a write
  Empty,      \* the name of a record whose first byte is 0
  Deleted,    \* the name of a record whose first byte is 0xFF
  Junk,       \* a name no path matches (boot code read as a record)
  MaxPtr,     \* block pointers per record in use (16)
  NodePBlock, \* records per block (node_p_block, 32)
  BlockSize,  \* bytes per block (4096), scaled
  RootBlock,  \* the block of the root table (3)
  TotalBlock, \* blocks on the disk
  MapBits,    \* bits in the one bitmap sector (4096)
  ScanBits,   \* bits get_block looks at: one byte more (4104)
  Image,      \* the blocks as the packer leaves them
  ImageMap    \* the blocks the packer marks

VARIABLES
  disk,    \* the platter, block by block
  dmap,    \* the bitmap sector on the platter
  bitmap,  \* block_bitmap: the marked bits in memory
  pc,      \* where the running call is, "idle" between calls
  req,     \* its arguments: directory, name, byte count, data
  buf,     \* g_fcheck_buffer
  cblk,    \* g_cur_block
  cslot,   \* index of g_cur_node in the buffer
  k,       \* the loop counter over p_block
  left     \* n, counted down by the write loop

vars == <<disk, dmap, bitmap, pc, req, buf, cblk, cslot, k, left>>

Blocks == 0 .. TotalBlock - 1
Bits   == 0 .. ScanBits - 1
Ptrs   == 0 .. MaxPtr - 1
Slots  == 0 .. NodePBlock - 1
Names  == Dirs \cup Files
Sizes  == 0 .. MaxPtr * BlockSize

Node == [name : Names \cup {Empty, Deleted, Junk}, dir : BOOLEAN,
         size : Sizes, ptr : [Ptrs -> Bits]]
Table == [Slots -> Node]

EmptyNode == [name |-> Empty, dir |-> FALSE, size |-> 0, ptr |-> [i \in Ptrs |-> 0]]
Zero == [s \in Slots |-> EmptyNode]

-----------------------------------------------------------------------------
(* What a disk image D says.                                               *)

DirRecord(D, s) == D[RootBlock][s].dir /\ D[RootBlock][s].name \in Dirs

\* The blocks read as tables.  Block 0 is one of them: the scans of a
\* directory go on over its unused block pointers, which are 0.
Tables(D) == {0, RootBlock} \cup
  {D[RootBlock][s].ptr[i] : s \in {r \in Slots : DirRecord(D, r)}, i \in Ptrs}

\* The record at t, s is in use and its pointer i names a block.
Holds(D, t, s, i) == D[t][s].name \in Names /\ D[t][s].ptr[i] # 0

\* Every block a record points to belongs to that pointer alone and lies
\* behind the fixed blocks.
ExclusiveBlocks(D) ==
  \A t, u \in Tables(D), r, s \in Slots, i, j \in Ptrs :
    Holds(D, t, r, i) =>
      /\ D[t][r].ptr[i] > RootBlock
      /\ Holds(D, u, s, j) /\ D[t][r].ptr[i] = D[u][s].ptr[j]
           => t = u /\ r = s /\ i = j

\* Every block a record points to is in the set of marked blocks M.
MarkedBlocks(D, M) ==
  \A t \in Tables(D), s \in Slots, i \in Ptrs :
    Holds(D, t, s, i) => D[t][s].ptr[i] \in M

\* Blocks outside M hold zeroes only.
ErasedOutside(D, M) == \A b \in Blocks \ M : D[b] = Zero

\* ceil(n / block_size)
BlocksFor(n) == (n + BlockSize - 1) \div BlockSize

\* The pointers p have no gap from index a on.
GapFree(p, a) == \A i, j \in Ptrs : a <= i /\ i < j /\ p[j] # 0 => p[i] # 0

\* The pointers of the records in use have no gap and are as many as the sizes
\* need.
WholeRecords(D) ==
  \A t \in Tables(D), s \in Slots :
    D[t][s].name \in Names =>
      /\ GapFree(D[t][s].ptr, 0)
      /\ \A i \in Ptrs : i < BlocksFor(D[t][s].size) => D[t][s].ptr[i] # 0

\* No record in use comes behind an empty one of its block.
NoneBehindEmpty(D) ==
  \A t \in Tables(D), r, s \in Slots :
    r < s /\ D[t][s].name \in Names => D[t][r].name # Empty

\* Only the root table holds directories, and they have their own block.
TablesReadable(D) ==
  /\ Tables(D) \subseteq Blocks
  /\ \A t \in Tables(D) : D[t] \in Table
  /\ \A t \in Tables(D), s \in Slots :
       D[t][s].dir => t = RootBlock

ASSUME FluidFSAssumption ==
  /\ {MaxPtr, NodePBlock, BlockSize, RootBlock, TotalBlock, MapBits, ScanBits}
       \subseteq Nat \ {0}
  /\ RootBlock < TotalBlock /\ TotalBlock <= MapBits /\ MapBits <= ScanBits
  /\ Dirs \cap Files = {}
  /\ Root \notin Dirs
  /\ Names \cap {Empty, Deleted, Junk} = {}
  /\ Empty # Deleted /\ Empty # Junk /\ Deleted # Junk
  /\ Data \cap Table = {}
  /\ Counts \subseteq Sizes

ASSUME ImageAssumption ==
  /\ Image \in [Blocks -> Table \cup Data]
  /\ ImageMap \subseteq 0 .. MapBits - 1
  /\ 0 .. RootBlock \subseteq ImageMap
  /\ TablesReadable(Image)
  /\ ExclusiveBlocks(Image)
  /\ MarkedBlocks(Image, ImageMap)
  /\ WholeRecords(Image)
  /\ NoneBehindEmpty(Image)
  /\ ErasedOutside(Image, ImageMap)

-----------------------------------------------------------------------------
(* Looking a path up.                                                      *)

\* The name part of a path and the directory part: callers use "/name" and
\* "/dir/name".
Directories == Dirs \cup {Root}

\* root_node, kept in the super block: only its first pointer is in use.
RootPtr == [i \in Ptrs |-> IF i = 0 THEN RootBlock ELSE 0]

\* The walk over the root table: the first record with the name of d and the
\* directory flag, unless an empty record comes first.  The result is the
\* set of the pointer arrays found, with one member or none.
DirPtrs(d) ==
  IF d = Root THEN {RootPtr}
  ELSE LET root == disk[RootBlock]
           match(s) == root[s].dir /\ root[s].name = d
       IN {root[s].ptr : s \in {r \in Slots :
             /\ match(r)
             /\ \A e \in 0 .. r - 1 : root[e].name # Empty /\ ~match(e)}}

\* A place is a pointer of the directory and a record of the block it names;
\* the scans visit places in this order and do not stop at pointer 0.
Places == Ptrs \X Slots
Before(a, b) == a[1] < b[1] \/ (a[1] = b[1] /\ a[2] < b[2])
NameAt(p, a) == disk[p[a[1]]][a[2]].name

\* The places fcheck returns for the name f (at most one): it stops at the
\* first match and at the first empty record.
Hits(p, f) ==
  {a \in Places : /\ NameAt(p, a) = f
                  /\ \A b \in Places : Before(b, a) => NameAt(p, b) \notin {Empty, f}}

\* The places where cnode puts a new record (at most one).
FreePlaces(p) ==
  {a \in Places : /\ NameAt(p, a) \in {Empty, Deleted}
                  /\ \A b \in Places : Before(b, a) => NameAt(p, b) \notin {Empty, Deleted}}

\* The names write_dir prints for the directory with pointers p.
Listing(p) ==
  {NameAt(p, a) : a \in {b \in Places :
     \A c \in Places : c = b \/ Before(c, b) => NameAt(p, c) # Empty}} \cap Names

-----------------------------------------------------------------------------
(* The bitmap and the disk.                                                *)

\* get_block: the lowest clear bit, or 0 when the scan finds none.
NextFree(b) ==
  LET free == Bits \ bitmap
  IN IF free = {} THEN b = 0 ELSE b \in free /\ \A c \in free : b <= c

\* A write to a block the disk does not have is refused by the drive.
Written(b, content) == IF b \in Blocks THEN [disk EXCEPT ![b] = content] ELSE disk

\* free_block; block 0 is never freed.
Freed(b) == bitmap \ ({b} \ {0})

\* The bitmap sector as it is flushed: the bits beyond it stay in memory.
Flushed == bitmap \cap (0 .. MapBits - 1)

NoReq == [d |-> Root, f |-> Empty, n |-> 0, data |-> Empty]
Reqs == [d : Directories, f : Names \cup {Empty}, n : Sizes, data : Data \cup {Empty}]

\* The locals of a call end with it; g_fcheck_buffer is read anew by the next.
Return ==
  /\ pc' = "idle"
  /\ req' = NoReq
  /\ buf' = Zero
  /\ cblk' = 0 /\ cslot' = 0
  /\ k' = 0
  /\ left' = 0

Current == buf[cslot]   \* *g_cur_node

\* The table T with pointer i of record s set to b.
WithPtr(T, s, i, b) == [T EXCEPT ![s].ptr[i] = b]

-----------------------------------------------------------------------------
(* fluidfs_fwrite                                                          *)

\* The file is found.
BeginWrite(d, f, n, data) ==
  /\ pc = "idle"
  /\ \E p \in DirPtrs(d) : \E a \in Hits(p, f) :
       /\ buf' = disk[p[a[1]]]
       /\ cblk' = p[a[1]]
       /\ cslot' = a[2]
  /\ req' = [d |-> d, f |-> f, n |-> n, data |-> data]
  /\ k' = 0
  /\ left' = n
  /\ pc' = IF n = 0 THEN "w_trim" ELSE "w_data"
  /\ UNCHANGED <<disk, dmap, bitmap>>

\* Defect: get_block does not mark the block it returns.
WriteBlockUnmarked ==
  /\ pc = "w_data"
  /\ \E b \in Bits \ {0} :
       /\ IF Current.ptr[k] # 0 THEN b = Current.ptr[k] ELSE NextFree(b)
       /\ buf' = WithPtr(buf, cslot, k, b)
       /\ disk' = Written(b, req.data)
  /\ left' = IF left >= BlockSize THEN left - BlockSize ELSE left
  /\ k' = k + 1
  /\ pc' = IF k + 1 < BlocksFor(req.n) THEN "w_data" ELSE "w_trim"
  /\ UNCHANGED <<dmap, bitmap, req, cblk, cslot>>

\* One round of the write loop with a block at hand, its own or a new one.
WriteBlock ==
  /\ pc = "w_data"
  /\ \E b \in Bits \ {0} :
       /\ IF Current.ptr[k] # 0
          THEN b = Current.ptr[k] /\ bitmap' = bitmap
          ELSE NextFree(b) /\ bitmap' = bitmap \cup {b}
       /\ buf' = WithPtr(buf, cslot, k, b)
       /\ disk' = Written(b, req.data)
  /\ left' = IF left >= BlockSize THEN left - BlockSize ELSE left
  /\ k' = k + 1
  /\ pc' = IF k + 1 < BlocksFor(req.n) THEN "w_data" ELSE "w_trim"
  /\ UNCHANGED <<dmap, req, cblk, cslot>>

\* No block is left: the call returns at once (DISK_OWERFLOW).  The blocks it
\* took so far stay marked in memory, and the record is not written.
WriteOverflow ==
  /\ pc = "w_data"
  /\ Current.ptr[k] = 0
  /\ NextFree(0)
  /\ Return
  /\ UNCHANGED <<disk, dmap, bitmap>>

\* Defect: the trim loop does not advance.
TrimBlockStuck ==
  /\ pc = "w_trim"
  /\ k < MaxPtr
  /\ Current.ptr[k] # 0
  /\ disk' = Written(Current.ptr[k], Zero)
  /\ bitmap' = Freed(Current.ptr[k])
  /\ UNCHANGED <<dmap, pc, req, buf, cblk, cslot, k, left>>

\* The blocks behind the new end are erased and freed, one by one.
TrimBlock ==
  /\ pc = "w_trim"
  /\ k < MaxPtr
  /\ Current.ptr[k] # 0
  /\ disk' = Written(Current.ptr[k], Zero)
  /\ bitmap' = Freed(Current.ptr[k])
  /\ buf' = WithPtr(buf, cslot, k, 0)
  /\ k' = k + 1
  /\ UNCHANGED <<dmap, pc, req, cblk, cslot, left>>

\* Defect: an empty file keeps its old size.
WriteRecordKeepsSize ==
  /\ pc = "w_trim"
  /\ k < MaxPtr => Current.ptr[k] = 0
  /\ buf' = [buf EXCEPT ![cslot].size = IF left = 0 THEN @ ELSE left]
  /\ disk' = Written(cblk, buf')
  /\ pc' = "w_map"
  /\ UNCHANGED <<dmap, bitmap, req, cblk, cslot, k, left>>

\* The record's block is written, with what is left of n as the size.
WriteRecord ==
  /\ pc = "w_trim"
  /\ k < MaxPtr => Current.ptr[k] = 0
  /\ buf' = [buf EXCEPT ![cslot].size = left]
  /\ disk' = Written(cblk, buf')
  /\ pc' = "w_map"
  /\ UNCHANGED <<dmap, bitmap, req, cblk, cslot, k, left>>

\* Defect: fwrite leaves the bitmap on the disk as it was.
WriteMapSkipped ==
  /\ pc = "w_map"
  /\ Return
  /\ UNCHANGED <<disk, dmap, bitmap>>

\* The bitmap sector is written and the call returns (FILE_OVERWRITE).
WriteMap ==
  /\ pc = "w_map"
  /\ dmap' = Flushed
  /\ Return
  /\ UNCHANGED <<disk, bitmap>>

-----------------------------------------------------------------------------
(* fluidfs_fdel                                                            *)

\* Defect: fdel clears the first byte of the name.
GoneToEmpty == EmptyNode

\* What fdel leaves of a record.  On the disk only the first byte of the name
\* changes; nothing reads the rest again (cnode overwrites a whole record), and
\* the model drops it.
Gone == [EmptyNode EXCEPT !.name = Deleted]

\* The record, of a file or a directory, is marked and its block written.
BeginDelete(d, f) ==
  /\ pc = "idle"
  /\ \E p \in DirPtrs(d) : \E a \in Hits(p, f) :
       /\ buf' = [disk[p[a[1]]] EXCEPT ![a[2]].name = Deleted]
       /\ disk' = Written(p[a[1]], [buf' EXCEPT ![a[2]] = Gone])
       /\ cblk' = p[a[1]]
       /\ cslot' = a[2]
  /\ req' = [d |-> d, f |-> f, n |-> 0, data |-> Empty]
  /\ k' = 0
  /\ pc' = "d_trim"
  /\ UNCHANGED <<dmap, bitmap, left>>

\* Defect: fdel frees without erasing.
DeleteBlockKeeps ==
  /\ pc = "d_trim"
  /\ k < MaxPtr
  /\ Current.ptr[k] # 0
  /\ bitmap' = Freed(Current.ptr[k])
  /\ buf' = WithPtr(buf, cslot, k, 0)
  /\ k' = k + 1
  /\ UNCHANGED <<disk, dmap, pc, req, cblk, cslot, left>>

\* Its blocks are erased and freed, one by one.
DeleteBlock ==
  /\ pc = "d_trim"
  /\ k < MaxPtr
  /\ Current.ptr[k] # 0
  /\ disk' = Written(Current.ptr[k], Zero)
  /\ bitmap' = Freed(Current.ptr[k])
  /\ buf' = WithPtr(buf, cslot, k, 0)
  /\ k' = k + 1
  /\ UNCHANGED <<dmap, pc, req, cblk, cslot, left>>

\* Defect: the loop over the pointers may stop early.
DeleteMapEarly ==
  /\ pc = "d_trim"
  /\ dmap' = Flushed
  /\ Return
  /\ UNCHANGED <<disk, bitmap>>

\* The bitmap sector is written and the call ends.
DeleteMap ==
  /\ pc = "d_trim"
  /\ k < MaxPtr => Current.ptr[k] = 0
  /\ dmap' = Flushed
  /\ Return
  /\ UNCHANGED <<disk, bitmap>>

-----------------------------------------------------------------------------
(* fluidfs_cnode                                                           *)

\* The system calls pass a flag whose low byte is 0: a file.
NewNode(f, b) ==
  [EmptyNode EXCEPT !.name = f, !.ptr = [i \in Ptrs |-> IF i = 0 THEN b ELSE 0]]

\* Defect: the first block of a new record is not marked.
BeginCreateUnmarked(d, f) ==
  /\ pc = "idle"
  /\ \E p \in DirPtrs(d) : \E a \in FreePlaces(p) : \E b \in Bits :
       /\ NextFree(b)
       /\ buf' = [disk[p[a[1]]] EXCEPT ![a[2]] = NewNode(f, b)]
       /\ disk' = Written(p[a[1]], buf')
       /\ cblk' = p[a[1]]
       /\ cslot' = a[2]
  /\ req' = [d |-> d, f |-> f, n |-> 0, data |-> Empty]
  /\ pc' = "c_map"
  /\ UNCHANGED <<dmap, bitmap, k, left>>

\* A record is made in the first free place and its block written.  It gets
\* the first free block, or none (0) when get_block finds none.  Nothing
\* looks for a record with the same name.
BeginCreate(d, f) ==
  /\ pc = "idle"
  /\ \E p \in DirPtrs(d) : \E a \in FreePlaces(p) : \E b \in Bits :
       /\ NextFree(b)
       /\ bitmap' = bitmap \cup {b}
       /\ buf' = [disk[p[a[1]]] EXCEPT ![a[2]] = NewNode(f, b)]
       /\ disk' = Written(p[a[1]], buf')
       /\ cblk' = p[a[1]]
       /\ cslot' = a[2]
  /\ req' = [d |-> d, f |-> f, n |-> 0, data |-> Empty]
  /\ pc' = "c_map"
  /\ UNCHANGED <<dmap, k, left>>

CreateMap ==
  /\ pc = "c_map"
  /\ dmap' = Flushed
  /\ Return
  /\ UNCHANGED <<disk, bitmap>>

-----------------------------------------------------------------------------
\* fluidfs_init after the loader: the super block and the bitmap are read.
Init ==
  /\ disk = Image
  /\ dmap = ImageMap
  /\ bitmap = ImageMap
  /\ pc = "idle"
  /\ req = NoReq
  /\ buf = Zero
  /\ cblk = 0 /\ cslot = 0
  /\ k = 0
  /\ left = 0

\* The rest of a call that has begun.
Continue ==
  \/ WriteBlock \/ WriteOverflow \/ TrimBlock \/ WriteRecord \/ WriteMap
  \/ DeleteBlock \/ DeleteMap
  \/ CreateMap

\* What the callers keep to: the kernel looks at no directory flag, and a
\* write to a directory would put data where its records are.
NoDirectory(d, f) ==
  \A p \in DirPtrs(d) : \A a \in Hits(p, f) : ~disk[p[a[1]]][a[2]].dir

Next ==
  \/ \E d \in Directories, f \in Names :
       \/ \E n \in Counts, data \in Data : NoDirectory(d, f) /\ BeginWrite(d, f, n, data)
       \/ BeginDelete(d, f)
       \/ BeginCreate(d, f)
  \/ Continue

\* The kernel finishes a call it has begun; nobody has to make one.
Spec == Init /\ [][Next]_vars /\ WF_vars(Continue)

-----------------------------------------------------------------------------
(* Properties                                                              *)

TypeOK ==
  /\ disk \in [Blocks -> Table \cup Data]
  /\ bitmap \subseteq Bits
  /\ dmap \subseteq 0 .. MapBits - 1
  /\ pc \in {"idle", "w_data", "w_trim", "w_map", "d_trim", "c_map"}
  /\ req \in Reqs
  /\ buf \in Table
  /\ cblk \in Blocks
  /\ cslot \in Slots
  /\ k \in 0 .. MaxPtr
  /\ left \in Sizes
  /\ pc = "w_data" => req.data \in Data /\ k < BlocksFor(req.n)

\* No two block pointers in reach name the same block, and none names a fixed
\* block: a write to one file cannot land in another, in a directory or in
\* the boot area (get_block, free_block and the orders of their callers).
NoCrossLink == ExclusiveBlocks(disk)

\* The record a running write has changed in memory and not yet on the disk.
Changing == IF pc \in {"w_data", "w_trim"} THEN {<<cblk, cslot>>} ELSE {}

\* get_block cannot hand out a block that is in use: every block a record on
\* the disk points to is marked in memory, but for the blocks that a running
\* write has already trimmed from its own record.
UsedBlocksMarked ==
  \A t \in Tables(disk), s \in Slots, i \in Ptrs :
    Holds(disk, t, s, i) =>
      \/ disk[t][s].ptr[i] \in bitmap
      \/ <<t, s>> \in Changing /\ pc = "w_trim" /\ i < k /\ buf[s].ptr[i] = 0

\* A power cut costs no block of another file: a pointer on the disk that the
\* bitmap on the disk does not cover can exist only between the write of a
\* record and the flush of the bitmap behind it, and only in that record.
\* (Blocks beyond the bitmap sector are never covered.)
TornOnlyAtFlush ==
  \A t \in Tables(disk), s \in Slots, i \in Ptrs :
    Holds(disk, t, s, i) =>
      \/ disk[t][s].ptr[i] \in dmap \cup (MapBits .. ScanBits - 1)
      \/ pc \in {"w_map", "c_map"} /\ t = cblk /\ s = cslot

\* A freed block holds zeroes: cnode relies on it, since it gives a new file
\* a block without writing to it (trim and delete erase before they free).
FreedBlocksErased == ErasedOutside(disk, bitmap)

\* A record's pointers are what the loops over them take them for: no gap,
\* since fdel, fopen and the trim loop stop at the first 0 and would miss what
\* lies behind it; and as many as its size needs, since fread would take block
\* 0 for the file's data.
SizeCovered == WholeRecords(disk)

\* Every record in a block of its directory can be found, since no empty
\* record comes before it whatever was deleted (fdel writes 0xFF and not 0);
\* and write_dir shows exactly the names fcheck finds.
NoLostRecord ==
  \A d \in Directories : \A p \in DirPtrs(d) :
    LET found == {f \in Names : Hits(p, f) # {}} IN
    /\ {disk[p[0]][s].name : s \in Slots} \cap Names \subseteq found
    /\ Listing(p) = found

\* Blocks that are marked and belong to no record, on the disk or in the
\* buffer of a running call.
Leaked ==
  {b \in bitmap \ ImageMap :
     /\ ~\E t \in Tables(disk), s \in Slots, i \in Ptrs :
           Holds(disk, t, s, i) /\ disk[t][s].ptr[i] = b
     /\ pc \in {"w_data", "w_trim", "d_trim"} => \A i \in Ptrs : Current.ptr[i] # b}

LeakStep ==
  \/ Leaked' \subseteq Leaked
  \/ WriteOverflow
  \/ pc = "idle" /\ pc' = "d_trim" /\ Tables(disk)' # Tables(disk)

\* A call leaks blocks only when the disk overflows under it or when it
\* deletes a directory with files in it.
LeaksOnlyKnown == [][LeakStep]_vars

\* The data of a record.
Contents(D, t, s) ==
  [i \in Ptrs |-> IF D[t][s].ptr[i] \in Blocks \ {0} THEN D[D[t][s].ptr[i]] ELSE Empty]

OthersStep ==
  \A t \in Tables(disk) \cap Tables(disk)', s \in Slots :
    /\ disk[t][s].name \in Files
    /\ <<t, s>> # <<cblk, cslot>>
    /\ <<t, s>> # <<cblk', cslot'>>
    => /\ disk'[t][s] = disk[t][s]
       /\ Contents(disk, t, s)' = Contents(disk, t, s)

\* A step changes no file but the one its call is about.
OthersUntouched == [][OthersStep]_vars

\* Every call comes to its end.
CallsReturn == pc # "idle" ~> pc = "idle"

-----------------------------------------------------------------------------
(* The inductive invariant behind NoCrossLink, UsedBlocksMarked and        *)
(* FreedBlocksErased (proved in FluidFSProofs).                            *)

(* Pointers in the record that a running write or delete works on are      *)
(* marked, distinct, and nobody else's.                                    *)
InFlight ==
  pc \in {"w_data", "w_trim", "d_trim"} =>
    /\ \A i \in Ptrs : Current.ptr[i] # 0 =>
         Current.ptr[i] > RootBlock /\ Current.ptr[i] \in bitmap
    /\ \A i, j \in Ptrs :
         Current.ptr[i] # 0 /\ Current.ptr[i] = Current.ptr[j] => i = j
    /\ \A t \in Tables(disk), s \in Slots, i, j \in Ptrs :
         Holds(disk, t, s, i) /\ disk[t][s].ptr[i] = Current.ptr[j] =>
           t = cblk /\ s = cslot /\ i = j

(* A running write has changed its own record in the buffer and no other.  *)
Writing ==
  pc \in {"w_data", "w_trim"} =>
    /\ cblk \in Tables(disk)
    /\ disk[cblk][cslot].name \in Names
    /\ ~disk[cblk][cslot].dir
    /\ Current.name = disk[cblk][cslot].name
    /\ ~Current.dir
    /\ \A s \in Slots \ {cslot} : buf[s] = disk[cblk][s]

(* The record a running delete works on is no longer one.                  *)
Deleting ==
  pc = "d_trim" => cblk \in Tables(disk) /\ disk[cblk][cslot].name \notin Names

FixedMarked == 0 .. RootBlock \subseteq bitmap

\* What holds of the owners of blocks between any two disk writes: the
\* properties above, and how the record in g_fcheck_buffer relates to the disk
\* and to the bitmap.
Owned ==
  /\ TypeOK
  /\ TablesReadable(disk)
  /\ NoCrossLink
  /\ UsedBlocksMarked
  /\ FixedMarked
  /\ InFlight
  /\ Writing
  /\ Deleting

IInv == Owned /\ FreedBlocksErased

\* What the write loop has been through has a block.
Filled ==
  /\ pc = "w_data" => \A i \in Ptrs : i < k => Current.ptr[i] # 0
  /\ pc = "w_trim" =>
       /\ k >= BlocksFor(req.n)
       /\ \A i \in Ptrs : i < BlocksFor(req.n) => Current.ptr[i] # 0

\* What a trim loop has been through has none, and no gap is in front of it.
Trimmed ==
  /\ pc \in {"w_data", "w_trim"} => left <= req.n
  /\ pc = "w_data" => GapFree(Current.ptr, 0)
  /\ pc \in {"w_trim", "d_trim"} =>
       /\ GapFree(Current.ptr, k)
       /\ \A i \in Ptrs :
            i < k /\ (pc = "w_trim" => i >= BlocksFor(req.n)) => Current.ptr[i] = 0

\* A block that a running write has taken from its record in the buffer, but
\* not yet from the one on the disk, is free.
GivenUp ==
  pc \in {"w_data", "w_trim"} =>
    \A i \in Ptrs :
      LET b == disk[cblk][cslot].ptr[i] IN
      b # 0 => Current.ptr[i] = b \/ (pc = "w_trim" /\ b \notin bitmap)

-----------------------------------------------------------------------------
(* What a comment of the source says and the code does not do.             *)

\* "Writes n bytes from src to file": when fwrite is done, the size is n.
WrittenSize ==
  [][pc = "w_map" => disk[cblk][cslot].size = req.n]_vars

=============================================================================
