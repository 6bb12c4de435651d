----------------------------- MODULE Allocator -----------------------------
(***************************************************************************)
(* What a heap promises its callers: the memory it hands out lies inside   *)
(* the heap and belongs to one caller until that caller gives it back.     *)
(***************************************************************************)
EXTENDS Integers

CONSTANTS First, Last  \* the memory to hand out: First .. Last - 1

VARIABLE owned  \* the size of each piece handed out, by its address

\* Two pieces share no byte, and not even their addresses coincide.
Apart(p, m, q, n) == p + m < q \/ q + n < p

Allocate(p, m) ==
  /\ First <= p /\ p + m <= Last
  /\ \A q \in DOMAIN owned : Apart(p, m, q, owned[q])
  /\ owned' = [q \in DOMAIN owned \cup {p} |-> IF q = p THEN m ELSE owned[q]]

Release(p) ==
  /\ p \in DOMAIN owned
  /\ owned' = [q \in DOMAIN owned \ {p} |-> owned[q]]

Init == owned = [q \in {} |-> 0]

Next ==
  \/ \E p \in First .. Last, m \in 0 .. Last - First : Allocate(p, m)
  \/ \E p \in DOMAIN owned : Release(p)

Spec == Init /\ [][Next]_owned
=============================================================================
