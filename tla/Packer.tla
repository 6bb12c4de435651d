------------------------------- MODULE Packer -------------------------------
(***************************************************************************)
(* The image packer (src/utilities/FluidFSPacker/pack.c): it makes the     *)
(* disk image that the kernel's FluidFS starts from, and copies files into *)
(* it.  One action per image made, boot loader installed or file copied.   *)
(*                                                                         *)
(* Names and contents are model values; a size is a number of blocks.  A   *)
(* path is "/" or "/dir/" (the packer goes no deeper).                     *)
(***************************************************************************)
EXTENDS Integers, FiniteSets

CONSTANTS
  Boot, System, Home,  \* the directories disk_img_create makes
  Elsewhere,   \* a directory that does not exist
  Root,        \* the path "/"
  Files,       \* names of files
  Stage2,      \* the file name of the boot loader
  Empty,       \* the name of a record whose first byte is 0
  Nothing,     \* the content of a block that holds no file's data
  NodePBlock,  \* records per block (32)
  Stride,      \* blocks that 128 records fill (4)
  MaxPtr,      \* block pointers per record (18)
  BitsPerBlock,  \* bits in a bitmap block (32768)
  TotalBlock,  \* blocks of the image
  MaxPushes    \* bound on the files copied

VARIABLES
  rec,     \* the image, read as tables of records
  data,    \* the parts of files in it
  bitmap,  \* the bits set at 0x2000
  status,  \* "none": no image yet; "overrun": something was written outside of
           \* it or of the record; "spilled": a record outside of its directory
  pushed   \* history: the copies reported successful

vars == <<rec, data, bitmap, status, pushed>>

RsvBlock == 2
BitmapBlocks == (TotalBlock + BitsPerBlock - 1) \div BitsPerBlock
RootStart == RsvBlock + BitmapBlocks

Blocks == 0 .. TotalBlock - 1
Slots == 0 .. NodePBlock - 1
Ptrs == 0 .. MaxPtr - 1
Dirs == {Boot, System, Home}

\* Sizes of files: one block more than a record can point to is too many.
Counts == 0 .. MaxPtr + 1

\* file_node_t and a block full of them.
Node == [name : Dirs \cup Files \cup {Stage2, Empty}, dir : BOOLEAN,
         size : 0 .. MaxPtr, ptr : [Ptrs -> Blocks]]
Table == [Slots -> Node]
Part == [file : Files \cup {Stage2}, part : Ptrs]

EmptyNode == [name |-> Empty, dir |-> FALSE, size |-> 0, ptr |-> [i \in Ptrs |-> 0]]
Zero == [s \in Slots |-> EmptyNode]
DirNode(d, b) == [name |-> d, dir |-> TRUE, size |-> 0,
                  ptr |-> [i \in Ptrs |-> IF i = 0 THEN b ELSE 0]]
FileNode(f, n, b) == [name |-> f, dir |-> FALSE, size |-> n,
                      ptr |-> [i \in Ptrs |-> IF i < n THEN b[i] ELSE 0]]

ASSUME PackerAssumption ==
  /\ {NodePBlock, Stride, MaxPtr, BitsPerBlock, TotalBlock, MaxPushes} \subseteq Nat \ {0}
  /\ NodePBlock > 3
  /\ TotalBlock > RootStart + 3
  /\ Boot # System /\ Boot # Home /\ System # Home
  /\ Dirs \cap Files = {} /\ Stage2 \notin Dirs \cup Files
  /\ Empty \notin Dirs \cup Files \cup {Stage2}
  /\ {Root, Elsewhere} \cap Dirs = {}

\* The first byte of the record is not 0 (nor does a file's data begin so).
Used(b, s) == data[b] # Nothing \/ rec[b][s].name # Empty

-----------------------------------------------------------------------------
\* Defect: the bits behind the reserved blocks are marked from the next one.
MarkedLate == 0 .. RsvBlock \cup RsvBlock + 2 .. RsvBlock + 5

\* The bits disk_img_create sets: the reserved blocks, the next bit once per
\* bitmap block (bit is not moved on), and five from there.
MarkedAtCreation == 0 .. RsvBlock - 1 \cup {RsvBlock} \cup RsvBlock .. RsvBlock + 4

\* disk_img_create
CreateImage ==
  /\ status = "none"
  /\ status' = "ok"
  /\ rec' = [b \in Blocks |->
       IF b = RootStart
       THEN [Zero EXCEPT ![0] = DirNode(Boot, RootStart + 1),
                         ![1] = DirNode(System, RootStart + 2),
                         ![2] = DirNode(Home, RootStart + 3)]
       ELSE Zero]
  /\ data' = [b \in Blocks |-> Nothing]
  /\ bitmap' = MarkedAtCreation
  /\ UNCHANGED pushed

\* What n calls of free_block_get return: the first free bits, in order.  It
\* does not stop at the end of the image.
FreeBlocks(n) ==
  [i \in 0 .. n - 1 |->
     CHOOSE b \in 0 .. TotalBlock + Cardinality(bitmap) + n :
       b \notin bitmap /\ Cardinality({c \in 0 .. b : c \notin bitmap}) = i + 1]

\* Where main_boot_set looks for room, the k-th time.  Defect: it begins with
\* the table of Boot, the root's first record, and if its first record is in
\* use it moves on by 128 records, not by one.
LoaderPlace(k) == RootStart + 1 + k * Stride

\* It takes the block before for full, and this one for free, or gives up (a
\* file's data may begin with a 0 or not).
LoaderGoes(k) ==
  /\ \A j \in 0 .. k - 1 : LoaderPlace(j) \in Blocks /\ Used(LoaderPlace(j), 0)
  /\ LoaderPlace(k) \in Blocks /\ k < NodePBlock =>
       data[LoaderPlace(k)] # Nothing \/ ~Used(LoaderPlace(k), 0)

\* main_boot_set: the loader's record, and then its one block (it is shorter
\* than that, being read to the place between boot sector and super block).
InstallBoot ==
  LET b == FreeBlocks(1)[0]
      node == FileNode(Stage2, 1, FreeBlocks(1))
  IN
  /\ status \in {"ok", "spilled"}
  /\ \E k \in 0 .. NodePBlock :
       LET place == LoaderPlace(k) IN
       /\ LoaderGoes(k)
       /\ IF {place, b} \subseteq Blocks
          THEN /\ rec' = [rec EXCEPT ![place][0] = node, ![b] = Zero]
               /\ data' = [data EXCEPT ![place] = Nothing, ![b] = [file |-> Stage2, part |-> 0]]
               /\ bitmap' = bitmap \cup {b}
               /\ status' = IF k = 0 THEN status ELSE "spilled"
          ELSE /\ status' = "overrun"
               /\ UNCHANGED <<rec, data, bitmap>>
  /\ UNCHANGED pushed

\* The name is that of a directory in the root table.
IsDir(path) == \E s \in Slots : rec[RootStart][s].dir /\ rec[RootStart][s].name = path

\* Where a path leads: the walk over the root table finds the directory, or
\* ends at a record not in use; then the file goes there, into the root.
\* When all are in use it ends in the block behind, the first directory's.
TableOf(path) ==
  IF IsDir(path)
  THEN rec[RootStart][CHOOSE s \in Slots :
         rec[RootStart][s].dir /\ rec[RootStart][s].name = path].ptr[0]
  ELSE IF path # Root /\ \A s \in Slots : Used(RootStart, s)
       THEN RootStart + 1
       ELSE RootStart

\* Defect: the walk ends one record early.
PlaceEarly(t) ==
  IF \E s \in Slots : Used(t, s) /\ (s < NodePBlock - 1 => ~Used(t, s + 1))
  THEN <<t, CHOOSE s \in Slots : Used(t, s) /\ (s < NodePBlock - 1 => ~Used(t, s + 1))>>
  ELSE <<t, 0>>

\* Block and record where the new record goes: the first one of table t that
\* is not in use, and the one behind the table if all are.
Place(t) ==
  IF \A s \in Slots : Used(t, s)
  THEN <<t + 1, 0>>
  ELSE <<t, CHOOSE s \in Slots : ~Used(t, s) /\ \A r \in 0 .. s - 1 : Used(t, r)>>

\* The copy writes behind the image, or behind the pointers of the record.
Overruns(n, place) ==
  \/ n > MaxPtr
  \/ \E i \in 0 .. n - 1 : FreeBlocks(n)[i] \notin Blocks
  \/ place[1] \notin Blocks

\* One file of file_push: its blocks, then its record.
Push(path, f, n) ==
  LET place == Place(TableOf(path))
      b == FreeBlocks(n)
      taken == {b[i] : i \in 0 .. n - 1}
  IN
  /\ status \in {"ok", "spilled"}
  /\ Cardinality(pushed) < MaxPushes
  /\ ~Overruns(n, place)
  /\ rec' = [c \in Blocks |->
       CASE c = place[1] -> [rec[c] EXCEPT ![place[2]] = FileNode(f, n, b)]
         [] c \in taken -> Zero
         [] OTHER -> rec[c]]
  /\ data' = [c \in Blocks |->
       IF c \in taken
       THEN [file |-> f, part |-> CHOOSE i \in 0 .. n - 1 : b[i] = c]
       ELSE data[c]]
  /\ bitmap' = bitmap \cup taken
  /\ status' = IF place[1] = TableOf(path) THEN status ELSE "spilled"
  /\ pushed' = pushed \cup {[path |-> path, file |-> f, size |-> n]}

\* What is left of image and packer then is not defined.
PushOverrun(path, n) ==
  /\ status \in {"ok", "spilled"}
  /\ Overruns(n, Place(TableOf(path)))
  /\ status' = "overrun"
  /\ UNCHANGED <<rec, data, bitmap, pushed>>

-----------------------------------------------------------------------------
Init ==
  /\ rec = [b \in Blocks |-> Zero] /\ data = [b \in Blocks |-> Nothing]
  /\ bitmap = {} /\ status = "none" /\ pushed = {}

Next ==
  \/ CreateImage
  \/ InstallBoot
  \/ \E path \in Dirs \cup {Root, Elsewhere}, n \in Counts :
       PushOverrun(path, n) \/ \E f \in Files : Push(path, f, n)

Spec == Init /\ [][Next]_vars

-----------------------------------------------------------------------------
(* Properties                                                              *)

TypeOK ==
  /\ rec \in [Blocks -> Table]
  /\ data \in [Blocks -> Part \cup {Nothing}]
  /\ bitmap \subseteq Blocks
  /\ status \in {"none", "ok", "spilled", "overrun"}
  /\ pushed \subseteq [path : Dirs \cup {Root, Elsewhere}, file : Files, size : Counts]

Tables == {RootStart} \cup
  {rec[RootStart][s].ptr[0] : s \in {r \in Slots : rec[RootStart][r].dir}}

\* Record s of table t uses its pointer i.
Points(t, s, i) == rec[t][s].name # Empty /\ rec[t][s].ptr[i] # 0

\* The parts of ImageOK.
TablesClear == \A t \in Tables : data[t] = Nothing

InOrder == \A t \in Tables, r, s \in Slots :
             r < s /\ rec[t][s].name # Empty => rec[t][r].name # Empty

Sized == \A t \in Tables, s \in Slots, i \in Ptrs :
           rec[t][s].name # Empty /\ ~rec[t][s].dir =>
             (i < rec[t][s].size <=> rec[t][s].ptr[i] # 0)

Marked == \A t \in Tables, s \in Slots, i \in Ptrs :
            Points(t, s, i) => rec[t][s].ptr[i] \in bitmap /\ rec[t][s].ptr[i] > RootStart

OneOwner == \A t, u \in Tables, s, r \in Slots, i, j \in Ptrs :
              /\ Points(t, s, i) /\ Points(u, r, j)
              /\ rec[u][r].ptr[j] = rec[t][s].ptr[i]
              => u = t /\ r = s /\ j = i

FreeBlank == \A b \in Blocks \ bitmap : rec[b] = Zero /\ data[b] = Nothing

\* As long as no directory is full when a file is copied into it, and no file
\* or loader is in Boot's when the loader is installed, the image is what
\* FluidFS takes for granted (its ImageAssumption): every block in use has one
\* pointer, is marked and lies behind the root table; every table is a block
\* of records, none of them behind an empty one; the pointers of a file are as
\* many as its blocks, without a gap; every block not marked holds zeroes.
ImageOK ==
  /\ TypeOK
  /\ status = "ok" =>
       /\ 0 .. RootStart \subseteq bitmap
       /\ TablesClear /\ InOrder /\ Sized /\ Marked /\ OneOwner /\ FreeBlank

\* The directory a path names, as the kernel's fcheck would look it up.
Named(path) == IF IsDir(path) THEN TableOf(path) ELSE RootStart

\* A copied file is where its path says, with all its parts.
IsThere(p) ==
  \E s \in Slots :
    LET r == rec[Named(p.path)][s] IN
      /\ r.name = p.file /\ ~r.dir /\ r.size = p.size
      /\ \A i \in 0 .. p.size - 1 : data[r.ptr[i]] = [file |-> p.file, part |-> i]

\* So long, too, later copies and the boot loader leave every file that was
\* copied in its place.
PushedIsFound == status = "ok" => \A p \in pushed : p.path # Elsewhere => IsThere(p)

-----------------------------------------------------------------------------
(* The inductive invariant behind both (proved in PackerProofs).           *)

\* The directories are those that disk_img_create makes.
DirsFixed ==
  /\ rec[RootStart][0] = DirNode(Boot, RootStart + 1)
  /\ rec[RootStart][1] = DirNode(System, RootStart + 2)
  /\ rec[RootStart][2] = DirNode(Home, RootStart + 3)
  /\ \A b \in Blocks, s \in Slots : rec[b][s].dir => b = RootStart /\ s \in 0 .. 2

IInv ==
  /\ ImageOK /\ PushedIsFound
  /\ status = "ok" => DirsFixed
  /\ status = "none" => pushed = {}
=============================================================================
