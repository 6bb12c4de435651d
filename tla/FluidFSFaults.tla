---------------------------- MODULE FluidFSFaults ----------------------------
(***************************************************************************)
(* FluidFS on a machine whose power may go and whose disk may fail to      *)
(* write.  After a power cut fluidfs_init reads the bitmap back from the   *)
(* disk; everything else in memory is gone.  fluidfs.c looks at no result  *)
(* of disk->dispather, so a write the driver could not carry out (error or *)
(* timeout in Ahci) goes by unnoticed: the call runs on with the platter   *)
(* as it was.  A failed read is not modelled.                              *)
(***************************************************************************)
EXTENDS FluidFS

VARIABLES
  behind,  \* history: a flush of the bitmap has failed since the last good one
  spilled, \* history: an overflow has left data in blocks marked in memory only
  torn,    \* history: something has happened that can give a block two owners
  stale    \* history: something has happened that can leave data in free blocks

history == <<behind, spilled, torn, stale>>
fvars == <<vars, history>>

-----------------------------------------------------------------------------
(* The power cut                                                           *)

\* A record is on the platter and the bitmap that covers its blocks is not, or
\* never will be: a block lies beyond the bitmap sector.
Window ==
  \/ pc \in {"w_map", "c_map"} \/ behind
  \/ \E t \in Tables(disk), s \in Slots, i \in Ptrs :
       Holds(disk, t, s, i) /\ disk[t][s].ptr[i] >= MapBits

\* Data are on the platter in blocks that neither it nor its bitmap knows of.
Unrecorded == pc \in {"w_data", "w_trim"} \/ spilled

\* Defect: fluidfs_init keeps what it finds in memory.
CutWarm ==
  /\ Return
  /\ behind' = FALSE
  /\ spilled' = FALSE
  /\ torn' = (torn \/ Window)
  /\ stale' = (stale \/ Unrecorded)
  /\ UNCHANGED <<disk, dmap, bitmap>>

\* The power goes and comes back; fluidfs_init loads the bitmap.
Cut ==
  /\ bitmap' = dmap
  /\ Return
  /\ behind' = FALSE
  /\ spilled' = FALSE
  /\ torn' = (torn \/ Window)
  /\ stale' = (stale \/ Unrecorded)
  /\ UNCHANGED <<disk, dmap>>

-----------------------------------------------------------------------------
(* Writes that fail                                                        *)

\* A block of a file's data.  The file has lost it, the file system nothing.
LostData ==
  /\ pc = "w_data"
  /\ \E b \in Bits \ {0} :
       /\ IF Current.ptr[k] # 0
          THEN b = Current.ptr[k] /\ bitmap' = bitmap
          ELSE NextFree(b) /\ bitmap' = bitmap \cup {b}
       /\ buf' = WithPtr(buf, cslot, k, b)
  /\ left' = IF left >= BlockSize THEN left - BlockSize ELSE left
  /\ k' = k + 1
  /\ pc' = IF k + 1 < BlocksFor(req.n) THEN "w_data" ELSE "w_trim"
  /\ UNCHANGED <<disk, dmap, req, cblk, cslot, history>>

\* The zeroes that trim or delete put over a block before they free it.
LostErase ==
  /\ pc \in {"w_trim", "d_trim"}
  /\ k < MaxPtr
  /\ Current.ptr[k] # 0
  /\ bitmap' = Freed(Current.ptr[k])
  /\ buf' = WithPtr(buf, cslot, k, 0)
  /\ k' = k + 1
  /\ stale' = TRUE
  /\ UNCHANGED <<disk, dmap, pc, req, cblk, cslot, left, behind, spilled, torn>>

\* The record of a write.  On the disk it keeps the blocks that have been
\* trimmed, if any, although they are free now.
LostRecord ==
  /\ pc = "w_trim"
  /\ k < MaxPtr => Current.ptr[k] = 0
  /\ buf' = [buf EXCEPT ![cslot].size = left]
  /\ pc' = "w_map"
  /\ torn' = (torn \/ k > BlocksFor(req.n))
  /\ UNCHANGED <<disk, dmap, bitmap, req, cblk, cslot, k, left, behind, spilled, stale>>

\* The mark of a delete.  The record stays, and its blocks are freed.
LostMark(d, f) ==
  /\ pc = "idle"
  /\ \E p \in DirPtrs(d) : \E a \in Hits(p, f) :
       /\ buf' = [disk[p[a[1]]] EXCEPT ![a[2]].name = Deleted]
       /\ cblk' = p[a[1]]
       /\ cslot' = a[2]
  /\ req' = [d |-> d, f |-> f, n |-> 0, data |-> Empty]
  /\ k' = 0
  /\ pc' = "d_trim"
  /\ torn' = TRUE
  /\ UNCHANGED <<disk, dmap, bitmap, left, behind, spilled, stale>>

\* The record of a create.  Its block is lost with it.
LostNode(d, f) ==
  /\ pc = "idle"
  /\ \E p \in DirPtrs(d) : \E a \in FreePlaces(p) : \E b \in Bits :
       /\ NextFree(b)
       /\ bitmap' = bitmap \cup {b}
       /\ buf' = [disk[p[a[1]]] EXCEPT ![a[2]] = NewNode(f, b)]
       /\ cblk' = p[a[1]]
       /\ cslot' = a[2]
  /\ req' = [d |-> d, f |-> f, n |-> 0, data |-> Empty]
  /\ pc' = "c_map"
  /\ UNCHANGED <<disk, dmap, k, left, history>>

\* The bitmap: the platter is behind until the next flush.
LostMap ==
  /\ \/ pc \in {"w_map", "c_map"}
     \/ pc = "d_trim" /\ (k < MaxPtr => Current.ptr[k] = 0)
  /\ Return
  /\ behind' = TRUE
  /\ UNCHANGED <<disk, dmap, bitmap, spilled, torn, stale>>

-----------------------------------------------------------------------------
FInit ==
  /\ Init
  /\ behind = FALSE /\ spilled = FALSE /\ torn = FALSE /\ stale = FALSE

\* A step without a fault.  A flush brings the whole bitmap to the platter.
Sound ==
  /\ Next
  /\ IF WriteMap \/ DeleteMap \/ CreateMap
     THEN behind' = FALSE /\ spilled' = FALSE
     ELSE behind' = behind /\ spilled' = (spilled \/ WriteOverflow)
  /\ UNCHANGED <<torn, stale>>

Fault ==
  \/ Cut \/ LostData \/ LostErase \/ LostRecord \/ LostMap
  \/ \E d \in Directories, f \in Names : LostMark(d, f) \/ LostNode(d, f)

\* When a block may have two owners nothing is said any more.
FNext == ~torn /\ (Sound \/ Fault)

FSpec == FInit /\ [][FNext]_fvars

-----------------------------------------------------------------------------
(* Properties                                                              *)

\* No block gets two owners, and none that is in use is taken for free, until
\* the power goes in the window between a record and its bitmap, or while a
\* file has a block beyond the bitmap sector, or the write of a record that
\* gives blocks up fails.  Every other cut and every other
\* failed write (data, erasure, new record, bitmap) costs at most the file
\* the call was about, and some free blocks.  (Types first.)
OwnersNeedCause ==
  TypeOK /\ (~torn =>
    /\ NoCrossLink
    /\ UsedBlocksMarked
    /\ behind \/ TornOnlyAtFlush)

\* Free blocks hold zeroes until the power goes while a write has data in new
\* blocks and not yet its record, or after one that has overflowed, or until
\* an erasure fails.
StaleNeedsCause == ~torn /\ ~stale => FreedBlocksErased

\* Between calls the bitmap on the platter is the one in memory, so that a cut
\* there changes nothing: unless a flush has failed, or an overflow has left
\* blocks marked in memory (a cut then gives these back).
IdleIsDurable == pc = "idle" /\ ~behind /\ ~spilled => dmap = Flushed

-----------------------------------------------------------------------------
(* The inductive invariant behind them (proved in FluidFSProofs).          *)

\* What the platter's bitmap covers when a cut does no harm.
Durable ==
  ~behind /\ ~spilled =>
    /\ pc = "idle" => dmap = Flushed
    /\ pc = "d_trim" => Flushed \subseteq dmap

FIInv ==
  /\ TypeOK
  /\ Durable
  /\ ~torn =>
       /\ Owned
       /\ Filled
       /\ 0 .. RootBlock \subseteq dmap
       /\ behind \/ TornOnlyAtFlush
       /\ ~stale => FreedBlocksErased

=============================================================================
