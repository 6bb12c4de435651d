-------------------------------- MODULE Heap --------------------------------
(***************************************************************************)
(* The kernel heap (src/src/kernel/services/memory/memory.c): a list of    *)
(* blocks, each with a header in front, that malloc splits and free merges *)
(* with the free blocks behind it.  One action per round of the loops of   *)
(* malloc and free; the kernel runs one call at a time.                    *)
(*                                                                         *)
(* malloc keeps two views of where it is, a pointer into the list and an   *)
(* address it adds up from the sizes, and writes a header at the address.  *)
(***************************************************************************)
EXTENDS Integers

CONSTANTS
  HeapBase,  \* HEAP_BASE
  HeapSize,  \* HEAP_SIZE
  Header,    \* sizeof(Heap) (12)
  Sizes      \* the sizes callers ask for

VARIABLES
  hdr,      \* the headers of the blocks in the list, by address
  owned,    \* what callers hold: the size of each piece, by its address
  pc,       \* which call is running
  size,     \* its argument, for malloc
  current,  \* malloc: current; free: heap
  address,  \* malloc: current_address; free: next
  result    \* what malloc returned last, 0 for none

vars == <<hdr, owned, pc, size, current, address, result>>

Null == 0
HeapEnd == HeapBase + HeapSize
\* create_heap counts the first header into the size of the first block: the
\* last block claims a header's length more than there is.
Claimed == HeapEnd + Header
Addresses == HeapBase .. Claimed

\* struct Heap
HeaderRecord == [size : 0 .. HeapSize, free : BOOLEAN, next : Addresses \cup {Null}]

ASSUME HeapAssumption ==
  /\ HeapBase \in Nat \ {0} /\ HeapSize \in Nat /\ Header \in Nat \ {0}
  /\ Header < HeapSize
  /\ Sizes \subseteq 0 .. HeapSize

\* Where the block at b ends, by its size.
EndOf(b) == b + Header + hdr[b].size

Return(r) ==
  /\ pc' = "idle"
  /\ size' = 0 /\ current' = Null /\ address' = 0
  /\ result' = r

-----------------------------------------------------------------------------
(* malloc                                                                  *)

CallMalloc(n) ==
  /\ pc = "idle"
  /\ pc' = "malloc"
  /\ size' = n
  /\ current' = HeapBase
  /\ address' = HeapBase + Header + n
  /\ UNCHANGED <<hdr, owned, result>>

\* The header behind the new block would not end before the heap does.
NoRoom == address + Header >= HeapEnd

MallocNoRoom ==
  /\ pc = "malloc"
  /\ NoRoom
  /\ Return(Null)
  /\ UNCHANGED <<hdr, owned>>

\* Defect: the block must hold the piece, not the header behind it too.
FitsTight(b) == hdr[b].free /\ hdr[b].size >= size

\* The block can be split into the piece and a block behind it.
Fits(b) == hdr[b].free /\ hdr[b].size >= size + Header

\* Defect: the new block becomes the last one of the list.
MallocTakeLast ==
  /\ pc = "malloc"
  /\ ~NoRoom
  /\ Fits(current)
  /\ hdr' = [b \in DOMAIN hdr \cup {address} |->
       CASE b = address -> [size |-> hdr[current].size - size - Header, free |-> TRUE, next |-> Null]
         [] b = current -> [size |-> size, free |-> FALSE, next |-> address]
         [] OTHER -> hdr[b]]
  /\ owned' = [p \in DOMAIN owned \cup {address - size} |->
       IF p = address - size THEN size ELSE owned[p]]
  /\ Return(address - size)

\* Defect: the piece is not marked as in use.
MallocTakeUnmarked ==
  /\ pc = "malloc"
  /\ ~NoRoom
  /\ Fits(current)
  /\ hdr' = [b \in DOMAIN hdr \cup {address} |->
       CASE b = address -> [size |-> hdr[current].size - size - Header,
                            free |-> TRUE, next |-> hdr[current].next]
         [] b = current -> [size |-> size, free |-> TRUE, next |-> address]
         [] OTHER -> hdr[b]]
  /\ owned' = [p \in DOMAIN owned \cup {address - size} |->
       IF p = address - size THEN size ELSE owned[p]]
  /\ Return(address - size)

\* The block is split: the header of the rest goes behind the piece.
MallocTake ==
  /\ pc = "malloc"
  /\ ~NoRoom
  /\ Fits(current)
  /\ hdr' = [b \in DOMAIN hdr \cup {address} |->
       CASE b = address -> [size |-> hdr[current].size - size - Header,
                            free |-> TRUE, next |-> hdr[current].next]
         [] b = current -> [size |-> size, free |-> FALSE, next |-> address]
         [] OTHER -> hdr[b]]
  /\ owned' = [p \in DOMAIN owned \cup {address - size} |->
       IF p = address - size THEN size ELSE owned[p]]
  /\ Return(address - size)

\* Defect: the address is not moved on by the header.
MallocNextShort ==
  /\ pc = "malloc"
  /\ ~NoRoom
  /\ ~Fits(current)
  /\ IF hdr[current].next = Null
     THEN Return(Null)
     ELSE /\ current' = hdr[current].next
          /\ address' = address + hdr[current].size
          /\ UNCHANGED <<pc, size, result>>
  /\ UNCHANGED <<hdr, owned>>

\* The block is in use or too small: on to the next.
MallocNext ==
  /\ pc = "malloc"
  /\ ~NoRoom
  /\ ~Fits(current)
  /\ IF hdr[current].next = Null
     THEN Return(Null)
     ELSE /\ current' = hdr[current].next
          /\ address' = address + hdr[current].size + Header
          /\ UNCHANGED <<pc, size, result>>
  /\ UNCHANGED <<hdr, owned>>

-----------------------------------------------------------------------------
(* free                                                                    *)

\* The caller gives back what it holds.
CallFree(p) ==
  /\ pc = "idle"
  /\ p \in DOMAIN owned
  /\ owned' = [q \in DOMAIN owned \ {p} |-> owned[q]]
  /\ hdr' = [hdr EXCEPT ![p - Header].free = TRUE]
  /\ pc' = "free"
  /\ current' = p - Header
  /\ address' = EndOf(p - Header)
  /\ UNCHANGED <<size, result>>

\* The byte at next + 4 reads as FREE.  Behind the last block that byte is
\* not a header's: it belongs to the program loaded at 0x300000, and the
\* model takes it not to be 1.
FreeAt(a) == a \in DOMAIN hdr /\ hdr[a].free

\* Defect: next stays where it was.
FreeMergeStays ==
  /\ pc = "free"
  /\ FreeAt(address)
  /\ hdr' = [hdr EXCEPT ![current].next = hdr[address].next]
  /\ UNCHANGED <<owned, pc, size, current, address, result>>

\* The block behind is free too: it is taken into this one.
FreeMerge ==
  /\ pc = "free"
  /\ FreeAt(address)
  /\ hdr' = [b \in DOMAIN hdr \ {address} |->
       IF b = current
       THEN [hdr[b] EXCEPT !.size = @ + hdr[address].size + Header, !.next = hdr[address].next]
       ELSE hdr[b]]
  /\ address' = EndOf(address)
  /\ UNCHANGED <<owned, pc, size, current, result>>

FreeEnd ==
  /\ pc = "free"
  /\ ~FreeAt(address)
  /\ Return(result)
  /\ UNCHANGED <<hdr, owned>>

-----------------------------------------------------------------------------
\* create_heap
Init ==
  /\ hdr = [b \in {HeapBase} |-> [size |-> HeapSize, free |-> TRUE, next |-> Null]]
  /\ owned = [p \in {} |-> 0]
  /\ pc = "idle"
  /\ size = 0 /\ current = Null /\ address = 0 /\ result = Null

Continue ==
  \/ MallocNoRoom \/ MallocTake \/ MallocNext
  \/ FreeMerge \/ FreeEnd

Next ==
  \/ \E n \in Sizes : CallMalloc(n)
  \/ \E p \in DOMAIN owned : CallFree(p)
  \/ Continue

\* A call runs to its end; nobody has to make one.
Spec == Init /\ [][Next]_vars /\ WF_vars(Continue)

-----------------------------------------------------------------------------
(* Properties                                                              *)

TypeOK ==
  /\ DOMAIN hdr \subseteq Addresses
  /\ hdr \in [DOMAIN hdr -> HeaderRecord]
  /\ DOMAIN owned \subseteq Addresses
  /\ \A p \in DOMAIN owned : owned[p] \in 0 .. HeapSize
  /\ pc \in {"idle", "malloc", "free"}
  /\ size \in 0 .. HeapSize
  /\ current \in DOMAIN hdr \cup {Null}
  /\ address \in Nat
  /\ result \in Addresses \cup {Null}

\* The blocks tile the heap: each ends where the next in the list begins, and
\* the last one is free and ends at the claimed end.  (While free merges, the
\* same holds for its block.)
Tiled ==
  \A b \in DOMAIN hdr :
    IF hdr[b].next = Null
    THEN hdr[b].free /\ EndOf(b) = Claimed
    ELSE hdr[b].next \in DOMAIN hdr /\ EndOf(b) = hdr[b].next

\* What callers hold is what the list says is in use, with the same sizes.
OwnedIsBusy ==
  /\ \A p \in DOMAIN owned :
       /\ p - Header \in DOMAIN hdr
       /\ ~hdr[p - Header].free
       /\ hdr[p - Header].size = owned[p]
  /\ \A b \in DOMAIN hdr : ~hdr[b].free => b + Header \in DOMAIN owned

\* malloc writes its new header into the free block it splits: the address
\* it has added up is where the pointer into the list says.
WalkAgrees == pc = "malloc" => address = current + Header + size

\* The callers' memory is theirs alone (see Allocator); no byte of it is a
\* header, and none lies outside the heap.
Promise == INSTANCE Allocator WITH First <- HeapBase + Header, Last <- HeapEnd - Header - 1
KeepsPromise == Promise!Spec

\* malloc fails only when no free block can be split with the header behind
\* the piece still ending before the heap: its early return misses nothing.
FailsOnlyFull ==
  [][pc = "malloc" /\ pc' = "idle" /\ result' = Null =>
       \A b \in DOMAIN hdr : Fits(b) => b + 2 * Header + size >= HeapEnd]_vars

\* The loops over the list end.
CallsReturn == pc # "idle" ~> pc = "idle"

-----------------------------------------------------------------------------
(* The inductive invariant behind OwnedIsBusy, WalkAgrees and KeepsPromise *)
(* (proved in HeapProofs).                                                 *)

\* Blocks share no byte, and every header ends before the heap does.
Disjoint ==
  /\ \A b, c \in DOMAIN hdr : b < c => EndOf(b) <= c
  /\ \A b \in DOMAIN hdr : b + Header < HeapEnd

\* Where a running call is in the list.
InList ==
  /\ HeapBase \in DOMAIN hdr
  /\ pc # "idle" => current \in DOMAIN hdr
  /\ pc = "free" => hdr[current].free /\ address = EndOf(current)

\* malloc has passed by no block it could have split.
Passed == pc = "malloc" => \A b \in DOMAIN hdr : b < current => ~Fits(b)

IInv == TypeOK /\ Tiled /\ OwnedIsBusy /\ WalkAgrees /\ Disjoint /\ InList /\ Passed

=============================================================================
