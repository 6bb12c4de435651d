----------------------------- MODULE HeapProofs -----------------------------
(***************************************************************************)
(* The inductive invariant of Heap, and that Heap implements Allocator,    *)
(* for every heap size, header size and set of sizes.                      *)
(***************************************************************************)
EXTENDS Heap, TLAPS

(* create_heap makes a list of one free block.                             *)
LEMMA InitInv == Init => IInv
<1> SUFFICES ASSUME Init PROVE IInv
  OBVIOUS
<1> USE HeapAssumption DEF Init, HeapEnd, Claimed, Addresses, Null
<1>1. /\ DOMAIN hdr = {HeapBase} /\ DOMAIN owned = {}
      /\ hdr[HeapBase].size = HeapSize /\ hdr[HeapBase].free = TRUE
      /\ hdr[HeapBase].next = Null
  OBVIOUS
<1>2. TypeOK
  <2>1. /\ HeapBase \in Addresses /\ 0 \in 0 .. HeapSize /\ 0 \in Nat
        /\ hdr \in [DOMAIN hdr -> HeaderRecord]
    BY DEF HeaderRecord
  <2> QED
    BY <1>1, <2>1 DEF TypeOK
<1>3. Tiled /\ OwnedIsBusy /\ WalkAgrees /\ Disjoint /\ InList /\ Passed
  BY <1>1 DEF Tiled, OwnedIsBusy, WalkAgrees, Disjoint, InList, EndOf, Passed
<1> QED
  BY <1>2, <1>3 DEF IInv

(* Every number in sight is an integer.                                    *)
LEMMA Numbers ==
  ASSUME TypeOK
  PROVE  /\ HeapBase \in Int /\ HeapSize \in Int /\ Header \in Int
         /\ HeapEnd = HeapBase + HeapSize /\ Claimed = HeapEnd + Header
         /\ Header > 0 /\ HeapBase > 0 /\ Header < HeapSize
         /\ size \in Int /\ size >= 0 /\ size <= HeapSize
         /\ address \in Int
         /\ \A b \in DOMAIN hdr :
              /\ b \in Int /\ b >= HeapBase /\ b <= Claimed
              /\ hdr[b].size \in Int /\ hdr[b].size >= 0 /\ hdr[b].size <= HeapSize
              /\ EndOf(b) = b + Header + hdr[b].size
BY HeapAssumption DEF TypeOK, HeaderRecord, Addresses, HeapEnd, Claimed, EndOf

(* malloc splits a block: the two parts end where the block did.           *)
LEMMA TakeInv ==
  ASSUME IInv, MallocTake
  PROVE  IInv'
<1> USE DEF IInv
<1>0. PICK c \in DOMAIN hdr, a \in Int : c = current /\ a = address
  BY Numbers DEF MallocTake, InList
<1>1. /\ pc = "malloc" /\ c \in DOMAIN hdr /\ a = c + Header + size
      /\ a + Header < HeapEnd
      /\ hdr[c].free /\ hdr[c].size >= size + Header
  BY <1>0, Numbers, HeapAssumption
     DEF MallocTake, NoRoom, Fits, InList, WalkAgrees, TypeOK, HeapEnd, Claimed
<1>2. c < a /\ a < EndOf(c) /\ a \notin DOMAIN hdr
  BY <1>1, Numbers DEF Disjoint
<1>3. /\ DOMAIN hdr' = DOMAIN hdr \cup {a}
      /\ hdr'[a].size = hdr[c].size - size - Header /\ hdr'[a].free = TRUE
      /\ hdr'[a].next = hdr[c].next
      /\ hdr'[c].size = size /\ hdr'[c].free = FALSE /\ hdr'[c].next = a
      /\ \A b \in DOMAIN hdr \ {c} : hdr'[b] = hdr[b]
  BY <1>0, <1>1, <1>2 DEF MallocTake
<1>4. /\ DOMAIN owned' = DOMAIN owned \cup {c + Header}
      /\ owned'[c + Header] = size
      /\ \A p \in DOMAIN owned \ {c + Header} : owned'[p] = owned[p]
  <2>1. a - size = c + Header
    BY <1>1, Numbers
  <2> QED
    BY <1>0, <2>1 DEF MallocTake
<1>5. pc' = "idle" /\ size' = 0 /\ current' = Null /\ address' = 0 /\ result' = c + Header
  <2>1. a - size = c + Header
    BY <1>1, Numbers
  <2> QED
    BY <1>0, <2>1 DEF MallocTake, Return
<1>6. /\ EndOf(c)' = a /\ EndOf(a)' = EndOf(c)
      /\ \A b \in DOMAIN hdr \ {c} : EndOf(b)' = EndOf(b)
  BY <1>1, <1>2, <1>3, Numbers DEF EndOf
<1>7. c + Header \notin DOMAIN owned
  BY <1>1, Numbers DEF OwnedIsBusy
<1>8. TypeOK'
  <2>1. a \in Addresses /\ c + Header \in Addresses
    BY <1>1, Numbers, HeapAssumption DEF Addresses, HeapEnd, Claimed
  <2>2. hdr[c].size - size - Header \in 0 .. HeapSize /\ size \in 0 .. HeapSize
    BY <1>1, Numbers DEF TypeOK
  <2>3. hdr' \in [DOMAIN hdr' -> HeaderRecord]
    <3>1. hdr[c].next \in Addresses \cup {Null} /\ \A b \in DOMAIN hdr : hdr[b] \in HeaderRecord
      BY DEF TypeOK, HeaderRecord
    <3>2. /\ [size |-> hdr[c].size - size - Header, free |-> TRUE, next |-> hdr[c].next] \in HeaderRecord
          /\ [size |-> size, free |-> FALSE, next |-> a] \in HeaderRecord
      BY <2>1, <2>2, <3>1 DEF HeaderRecord
    <3> QED
      BY <1>0, <1>2, <3>1, <3>2 DEF MallocTake
  <2>4. \A p \in DOMAIN owned' : owned'[p] \in 0 .. HeapSize
    BY <1>4, <2>2 DEF TypeOK
  <2>5. 0 \in 0 .. HeapSize
    BY HeapAssumption
  <2> QED
    BY <1>3, <1>4, <1>5, <2>1, <2>3, <2>4, <2>5 DEF TypeOK
<1>9. Tiled'
  <2> SUFFICES ASSUME NEW b \in DOMAIN hdr'
               PROVE  IF hdr'[b].next = Null
                      THEN hdr'[b].free /\ EndOf(b)' = Claimed
                      ELSE hdr'[b].next \in DOMAIN hdr' /\ EndOf(b)' = hdr'[b].next
    BY DEF Tiled, Claimed, HeapEnd
  <2>1. CASE b = c
    BY <2>1, <1>1, <1>3, <1>6, Numbers, HeapAssumption DEF Null
  <2>2. CASE b = a
    BY <2>2, <1>1, <1>3, <1>6 DEF Tiled
  <2>3. CASE b # a /\ b # c
    BY <2>3, <1>3, <1>6 DEF Tiled
  <2> QED
    BY <2>1, <2>2, <2>3
<1>10. OwnedIsBusy'
  <2>1. \A p \in DOMAIN owned : p - Header # c
    BY <1>1 DEF OwnedIsBusy
  <2>2. \A p \in DOMAIN owned : p - Header \in DOMAIN hdr \ {c} /\ p # c + Header
    BY <2>1, <1>7 DEF OwnedIsBusy
  <2>3. (c + Header) - Header = c
    BY <1>1, Numbers
  <2> QED
    BY <1>1, <1>3, <1>4, <2>2, <2>3 DEF OwnedIsBusy
<1>11. Disjoint'
  <2>1. \A b \in DOMAIN hdr' : b + Header < HeapEnd
    BY <1>1, <1>3 DEF Disjoint
  <2>2. \A b, e \in DOMAIN hdr' : b < e => EndOf(b)' <= e
    BY <1>1, <1>2, <1>3, <1>6, Numbers DEF Disjoint
  <2> QED
    BY <2>1, <2>2 DEF Disjoint, HeapEnd
<1>12. WalkAgrees' /\ InList' /\ Passed'
  BY <1>3, <1>5 DEF WalkAgrees, InList, Passed
<1> QED
  BY <1>8, <1>9, <1>10, <1>11, <1>12

(* malloc goes on: the address moves with the pointer.                     *)
LEMMA NextInv ==
  ASSUME IInv, MallocNext
  PROVE  IInv'
<1> USE DEF IInv
<1>1. pc = "malloc" /\ current \in DOMAIN hdr /\ hdr' = hdr /\ owned' = owned
  BY DEF MallocNext, InList
<1>2. Tiled' /\ OwnedIsBusy' /\ Disjoint'
  BY <1>1 DEF Tiled, OwnedIsBusy, Disjoint, EndOf, HeapEnd, Claimed
<1>3. CASE hdr[current].next = Null
  <2>1. pc' = "idle" /\ size' = 0 /\ current' = Null /\ address' = 0 /\ result' = Null
    BY <1>3 DEF MallocNext, Return
  <2>2. TypeOK'
    BY <1>1, <2>1, HeapAssumption DEF TypeOK
  <2> QED
    BY <1>1, <1>2, <2>1, <2>2 DEF WalkAgrees, InList, Passed
<1>4. CASE hdr[current].next # Null
  <2>1. /\ pc' = pc /\ size' = size /\ result' = result
        /\ current' = hdr[current].next /\ address' = address + hdr[current].size + Header
    BY <1>4 DEF MallocNext
  <2>2. current' \in DOMAIN hdr /\ EndOf(current) = current'
    BY <1>1, <1>4, <2>1 DEF Tiled
  <2>3. address = current + Header + size
    BY <1>1 DEF WalkAgrees
  <2>4. address' = current' + Header + size
    BY <1>1, <2>1, <2>2, <2>3, Numbers
  <2>5. address' \in Nat
    BY <2>4, <2>2, Numbers
  <2>6. TypeOK'
    BY <1>1, <2>1, <2>2, <2>5 DEF TypeOK
  <2>7. \A b \in DOMAIN hdr : b < current' => b <= current
    BY <1>1, <2>2, Numbers DEF Disjoint
  <2>8. \A b \in DOMAIN hdr : b < current' => ~Fits(b)
    <3>1. ~Fits(current)
      BY DEF MallocNext
    <3> QED
      BY <1>1, <2>7, <3>1, Numbers DEF Passed
  <2>9. Passed'
    BY <1>1, <2>1, <2>8 DEF Passed, Fits
  <2> QED
    BY <1>1, <1>2, <2>1, <2>2, <2>4, <2>6, <2>9 DEF WalkAgrees, InList
<1> QED
  BY <1>3, <1>4

(* malloc begins at the head of the list.                                  *)
LEMMA CallMallocInv ==
  ASSUME IInv, NEW n \in Sizes, CallMalloc(n)
  PROVE  IInv'
<1> USE DEF IInv, CallMalloc
<1>1. n \in 0 .. HeapSize /\ HeapBase \in DOMAIN hdr /\ HeapBase + Header + n \in Nat
  BY HeapAssumption DEF InList
<1>2. TypeOK'
  BY <1>1 DEF TypeOK
<1>3. Tiled' /\ OwnedIsBusy' /\ Disjoint'
  BY DEF Tiled, OwnedIsBusy, Disjoint, EndOf, HeapEnd, Claimed
<1>4. WalkAgrees' /\ InList'
  BY <1>1 DEF WalkAgrees, InList
<1>5. Passed'
  BY Numbers DEF Passed
<1> QED
  BY <1>2, <1>3, <1>4, <1>5

(* The piece given back is a block of the list.                            *)
LEMMA CallFreeInv ==
  ASSUME IInv, NEW p \in DOMAIN owned, CallFree(p)
  PROVE  IInv'
<1> USE DEF IInv
<1>0. PICK c \in DOMAIN hdr : c = p - Header
  BY DEF OwnedIsBusy
<1>1. /\ pc = "idle" /\ pc' = "free" /\ current' = c /\ address' = EndOf(c)
      /\ size' = size /\ result' = result
  BY <1>0 DEF CallFree
<1>2. /\ DOMAIN hdr' = DOMAIN hdr
      /\ \A b \in DOMAIN hdr : /\ hdr'[b].size = hdr[b].size /\ hdr'[b].next = hdr[b].next
                               /\ hdr'[b].free = IF b = c THEN TRUE ELSE hdr[b].free
  BY <1>0 DEF CallFree, TypeOK, HeaderRecord
<1>3. /\ DOMAIN owned' = DOMAIN owned \ {p}
      /\ \A q \in DOMAIN owned' : owned'[q] = owned[q]
  BY DEF CallFree
<1>4. \A b \in DOMAIN hdr : EndOf(b)' = EndOf(b)
  BY <1>2 DEF EndOf
<1>5. TypeOK'
  <2>1. EndOf(c) \in Nat
    BY Numbers
  <2>2. hdr' \in [DOMAIN hdr' -> HeaderRecord]
    BY DEF CallFree, TypeOK, HeaderRecord
  <2> QED
    BY <1>1, <1>2, <1>3, <2>1, <2>2 DEF TypeOK
<1>6. Tiled'
  BY <1>2, <1>4 DEF Tiled, HeapEnd, Claimed
<1>7. OwnedIsBusy'
  <2>1. p \in Int /\ p = c + Header
    BY <1>0, Numbers, HeapAssumption DEF TypeOK, Addresses, HeapEnd, Claimed
  <2>2. \A q \in DOMAIN owned' : q - Header # c
    BY <1>3, <2>1, Numbers, HeapAssumption DEF TypeOK, Addresses, HeapEnd, Claimed
  <2>3. \A q \in DOMAIN owned' :
          /\ q - Header \in DOMAIN hdr'
          /\ ~hdr'[q - Header].free
          /\ hdr'[q - Header].size = owned'[q]
    BY <1>2, <1>3, <2>2 DEF OwnedIsBusy
  <2>4. \A b \in DOMAIN hdr' : ~hdr'[b].free => b + Header \in DOMAIN owned'
    <3> SUFFICES ASSUME NEW b \in DOMAIN hdr', ~hdr'[b].free
                 PROVE  b + Header \in DOMAIN owned /\ b + Header # p
      BY <1>3
    <3>1. b \in DOMAIN hdr /\ b # c /\ ~hdr[b].free
      BY <1>2
    <3> QED
      BY <3>1, <2>1, Numbers DEF OwnedIsBusy
  <2> QED
    BY <2>3, <2>4 DEF OwnedIsBusy
<1>8. Disjoint'
  BY <1>2, <1>4 DEF Disjoint, HeapEnd
<1>9. WalkAgrees' /\ InList' /\ Passed'
  BY <1>1, <1>2, <1>4 DEF WalkAgrees, InList, Passed
<1> QED
  BY <1>5, <1>6, <1>7, <1>8, <1>9

(* free takes the next block in: its own block then ends where that did.   *)
LEMMA MergeInv ==
  ASSUME IInv, FreeMerge
  PROVE  IInv'
<1> USE DEF IInv
<1>0. PICK c \in DOMAIN hdr, a \in DOMAIN hdr : c = current /\ a = address
  BY DEF FreeMerge, FreeAt, InList
<1>1. /\ pc = "free" /\ hdr[a].free /\ hdr[c].free /\ a = EndOf(c)
  BY <1>0 DEF FreeMerge, FreeAt, InList
<1>2. c < a /\ HeapBase # a
  BY <1>1, Numbers
<1>3. /\ DOMAIN hdr' = DOMAIN hdr \ {a}
      /\ hdr'[c].size = hdr[c].size + hdr[a].size + Header
      /\ hdr'[c].free = hdr[c].free /\ hdr'[c].next = hdr[a].next
      /\ \A b \in DOMAIN hdr \ {a, c} : hdr'[b] = hdr[b]
  <2>1. /\ c \in DOMAIN hdr \ {a} /\ \A b \in DOMAIN hdr : hdr[b] \in HeaderRecord
    BY <1>2, Numbers DEF TypeOK
  <2>2. hdr' = [b \in DOMAIN hdr \ {a} |->
          IF b = c
          THEN [hdr[b] EXCEPT !.size = @ + hdr[a].size + Header, !.next = hdr[a].next]
          ELSE hdr[b]]
    BY <1>0 DEF FreeMerge
  <2>3. hdr'[c] = [hdr[c] EXCEPT !.size = @ + hdr[a].size + Header, !.next = hdr[a].next]
    BY <2>1, <2>2
  <2> QED
    BY <2>1, <2>2, <2>3 DEF HeaderRecord
<1>4. /\ pc' = pc /\ owned' = owned /\ size' = size /\ result' = result
      /\ current' = c /\ address' = EndOf(a)
  BY <1>0 DEF FreeMerge
<1>5. /\ EndOf(c)' = EndOf(a)
      /\ \A b \in DOMAIN hdr \ {a, c} : EndOf(b)' = EndOf(b)
  BY <1>1, <1>3, Numbers DEF EndOf
<1>6. hdr[c].next = a
  BY <1>1, Numbers DEF Tiled, Disjoint
<1>7. \A b \in DOMAIN hdr \ {c} : hdr[b].next # a
  BY <1>1, <1>2, Numbers DEF Tiled, Disjoint
<1>8. EndOf(a) <= Claimed
  BY Numbers DEF Tiled, Disjoint
<1>9. TypeOK'
  <2>1. hdr[c].size + hdr[a].size + Header \in 0 .. HeapSize
    BY <1>1, <1>8, Numbers
  <2>2. EndOf(a) \in Nat
    BY Numbers
  <2>3. \A b \in DOMAIN hdr : hdr[b] \in HeaderRecord
    BY DEF TypeOK
  <2>4. [hdr[c] EXCEPT !.size = @ + hdr[a].size + Header, !.next = hdr[a].next] \in HeaderRecord
    BY <2>1, <2>3 DEF HeaderRecord
  <2>5. hdr' \in [DOMAIN hdr' -> HeaderRecord]
    BY <1>0, <2>3, <2>4 DEF FreeMerge
  <2>6. DOMAIN hdr' \subseteq Addresses /\ c \in DOMAIN hdr' /\ owned' = owned
    BY <1>2, <1>3, <1>4, Numbers DEF TypeOK
  <2> QED
    BY <1>4, <2>2, <2>5, <2>6 DEF TypeOK
<1>10. Tiled'
  BY <1>1, <1>2, <1>3, <1>5, <1>7 DEF Tiled, HeapEnd, Claimed
<1>11. OwnedIsBusy'
  <2>1. \A b \in DOMAIN hdr : ~hdr[b].free => b # a /\ b # c
    BY <1>1
  <2> QED
    BY <1>1, <1>3, <1>4, <2>1 DEF OwnedIsBusy
<1>12. Disjoint'
  <2>1. \A b, e \in DOMAIN hdr' : b < e => EndOf(b)' <= e
    BY <1>1, <1>2, <1>3, <1>5, Numbers DEF Disjoint
  <2> QED
    BY <1>3, <2>1 DEF Disjoint, HeapEnd
<1>13. WalkAgrees' /\ InList' /\ Passed'
  <2>1. pc' = "free" /\ current' = c /\ hdr'[c].free /\ address' = EndOf(c)'
    BY <1>1, <1>3, <1>4, <1>5
  <2>2. c \in DOMAIN hdr' /\ HeapBase \in DOMAIN hdr'
    BY <1>2, <1>3, Numbers DEF InList
  <2>3. InList'
    BY <2>1, <2>2 DEF InList, EndOf
  <2> QED
    BY <2>1, <2>3 DEF WalkAgrees, Passed
<1> QED
  BY <1>9, <1>10, <1>11, <1>12, <1>13

(* A call ends.                                                            *)
LEMMA ReturnInv ==
  ASSUME IInv, MallocNoRoom \/ FreeEnd
  PROVE  IInv'
<1> USE DEF IInv
<1>1. /\ hdr' = hdr /\ owned' = owned
      /\ pc' = "idle" /\ size' = 0 /\ current' = Null /\ address' = 0
      /\ result' \in {Null, result}
  BY DEF MallocNoRoom, FreeEnd, Return
<1>2. TypeOK'
  <2>1. 0 \in 0 .. HeapSize /\ 0 \in Nat
    BY HeapAssumption
  <2> QED
    BY <1>1, <2>1 DEF TypeOK
<1>3. Tiled' /\ OwnedIsBusy' /\ Disjoint'
  BY <1>1 DEF Tiled, OwnedIsBusy, Disjoint, EndOf, HeapEnd, Claimed
<1>4. WalkAgrees' /\ InList' /\ Passed'
  BY <1>1 DEF WalkAgrees, InList, Passed
<1> QED
  BY <1>2, <1>3, <1>4

-----------------------------------------------------------------------------
(* The theorems.                                                           *)

\* The list of blocks stays a tiling of the heap through every round of the
\* loops of malloc and free.
THEOREM HeapInvariant == Spec => []IInv
<1>1. IInv /\ [Next]_vars => IInv'
  <2> SUFFICES ASSUME IInv, [Next]_vars PROVE IInv'
    OBVIOUS
  <2>1. CASE UNCHANGED vars
    BY <2>1 DEF vars, IInv, TypeOK, Tiled, OwnedIsBusy, WalkAgrees, Disjoint, InList,
       Passed, Fits, EndOf, HeapEnd, Claimed
  <2>2. CASE Continue
    BY <2>2, TakeInv, NextInv, MergeInv, ReturnInv DEF Continue
  <2> QED
    BY <2>1, <2>2, CallMallocInv, CallFreeInv DEF Next
<1> QED
  BY InitInv, <1>1, PTL DEF Spec

\* The list of blocks tiles the heap between any two rounds.
THEOREM BlocksTile == Spec => []Tiled
<1>1. IInv => Tiled
  BY DEF IInv
<1> QED
  BY HeapInvariant, <1>1, PTL

\* What callers hold stays theirs until they give it back.
THEOREM HeldStaysBusy == Spec => []OwnedIsBusy
<1>1. IInv => OwnedIsBusy
  BY DEF IInv
<1> QED
  BY HeapInvariant, <1>1, PTL

\* malloc says no only when no free block can be split below the heap's end.
THEOREM NoFalseFailure == Spec => FailsOnlyFull
<1>1. IInv /\ [Next]_vars =>
        [pc = "malloc" /\ pc' = "idle" /\ result' = Null =>
           \A b \in DOMAIN hdr : Fits(b) => b + 2 * Header + size >= HeapEnd]_vars
  <2> SUFFICES ASSUME IInv, [Next]_vars, pc = "malloc", pc' = "idle", result' = Null,
                      NEW b \in DOMAIN hdr, Fits(b)
               PROVE  b + 2 * Header + size >= HeapEnd
    OBVIOUS
  <2> USE DEF IInv
  <2>1. current \in DOMAIN hdr /\ address = current + Header + size /\ b >= current
    BY Numbers DEF InList, WalkAgrees, Passed
  <2>2. CASE MallocNoRoom
    BY <2>1, <2>2, Numbers DEF MallocNoRoom, NoRoom
  <2>3. CASE MallocTake
    <3>1. address - size = current + Header /\ current + Header > 0
      BY <2>1, Numbers
    <3> QED
      BY <2>3, <3>1 DEF MallocTake, Return, Null
  <2>4. CASE MallocNext
    <3>1. hdr[current].next = Null /\ EndOf(current) = Claimed
      BY <2>1, <2>4 DEF MallocNext, Tiled
    <3>2. b > current
      BY <2>1, <2>4, Numbers DEF MallocNext
    <3> QED
      BY <2>1, <3>1, <3>2, Numbers DEF Disjoint
  <2>5. ~(\E n \in Sizes : CallMalloc(n)) /\ ~(\E p \in DOMAIN owned : CallFree(p))
        /\ ~FreeMerge /\ ~FreeEnd /\ ~(UNCHANGED vars)
    BY DEF CallMalloc, CallFree, FreeMerge, FreeEnd, vars
  <2> QED
    BY <2>2, <2>3, <2>4, <2>5 DEF Next, Continue
<1> QED
  BY HeapInvariant, <1>1, PTL DEF Spec, FailsOnlyFull

\* malloc and free, round by round, implement Allocator: the pieces callers
\* hold are apart from one another and inside the heap.
THEOREM ImplementsAllocator == Spec => KeepsPromise
<1>1. Init => Promise!Init
  BY DEF Init, Promise!Init
<1>2. IInv /\ [Next]_vars => [Promise!Next]_owned
  <2> SUFFICES ASSUME IInv, [Next]_vars PROVE [Promise!Next]_owned
    OBVIOUS
  <2> USE DEF IInv
  <2>1. CASE MallocTake
    <3>0. PICK c \in DOMAIN hdr, p \in Int : c = current /\ p = c + Header
      BY <2>1, Numbers DEF MallocTake, InList
    <3>1. /\ address = p + size /\ address - size = p
          /\ address + Header < HeapEnd
          /\ hdr[c].free /\ hdr[c].size >= size + Header
      BY <2>1, <3>0, Numbers, HeapAssumption
         DEF MallocTake, NoRoom, Fits, WalkAgrees, HeapEnd
    <3>2. HeapBase + Header <= p /\ p + size <= HeapEnd - Header - 1
      BY <3>0, <3>1, Numbers
    <3>3. ASSUME NEW q \in DOMAIN owned PROVE Promise!Apart(p, size, q, owned[q])
      <4>1. PICK b \in DOMAIN hdr : b = q - Header
        BY DEF OwnedIsBusy
      <4>2. ~hdr[b].free /\ owned[q] = hdr[b].size /\ q \in Int
        BY <4>1, HeapAssumption DEF OwnedIsBusy, TypeOK, Addresses, HeapEnd, Claimed
      <4>3. q = b + Header /\ EndOf(b) = q + owned[q] /\ b # c
        BY <3>1, <4>1, <4>2, Numbers
      <4>4. CASE b < c
        BY <3>0, <4>2, <4>3, <4>4, Numbers DEF Disjoint, Promise!Apart
      <4>5. CASE c < b
        BY <3>0, <3>1, <4>2, <4>3, <4>5, Numbers DEF Disjoint, Promise!Apart
      <4> QED
        BY <4>3, <4>4, <4>5, Numbers
    <3>4. owned' = [q \in DOMAIN owned \cup {p} |-> IF q = p THEN size ELSE owned[q]]
      BY <2>1, <3>1 DEF MallocTake
    <3>5. Promise!Allocate(p, size)
      BY <3>2, <3>3, <3>4 DEF Promise!Allocate
    <3>6. p \in HeapBase + Header .. HeapEnd - Header - 1
          /\ size \in 0 .. (HeapEnd - Header - 1) - (HeapBase + Header)
      BY <3>2, Numbers
    <3> QED
      BY <3>5, <3>6 DEF Promise!Next
  <2>2. ASSUME NEW p \in DOMAIN owned, CallFree(p) PROVE Promise!Next
    BY <2>2 DEF CallFree, Promise!Next, Promise!Release
  <2>3. CASE (\E n \in Sizes : CallMalloc(n)) \/ UNCHANGED vars
             \/ MallocNoRoom \/ MallocNext \/ FreeMerge \/ FreeEnd
    BY <2>3 DEF CallMalloc, MallocNoRoom, MallocNext, FreeMerge, FreeEnd, vars
  <2> QED
    BY <2>1, <2>2, <2>3 DEF Next, Continue
<1> QED
  BY <1>1, <1>2, HeapInvariant, PTL DEF Spec, KeepsPromise, Promise!Spec
=============================================================================
