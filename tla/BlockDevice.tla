---------------------------- MODULE BlockDevice ----------------------------
(***************************************************************************)
(* What a disk driver promises the file system: a call that succeeds has   *)
(* moved its sector between the disk and its buffer, and nothing else is   *)
(* ever moved, until a call fails; then the device promises nothing more.  *)
(* (The calls of the file system look at no result, so they rely on that   *)
(* never happening.)                                                       *)
(***************************************************************************)
CONSTANTS
  Lbas, Buffers,
  Data,      \* what a sector may hold
  Passport,  \* what the disk says of itself
  None       \* no call

VARIABLES
  store,   \* the sectors
  mem,     \* the buffers
  call,    \* the call in progress
  done,    \* it has been executed
  answer,  \* what the last call returned
  failed   \* some call has failed

vars == <<store, mem, call, done, answer, failed>>

\* Reading and writing a sector, and asking the disk what it is.
Calls == [op : {"read", "write"}, lba : Lbas, buffer : Buffers]
    \cup [op : {"identify"}, buffer : Buffers]

\* What executing c does to the sectors s and the buffers m.
StoreAfter(c, s, m) ==
  IF c.op = "write" THEN [s EXCEPT ![c.lba] = m[c.buffer]] ELSE s
MemAfter(c, s, m) ==
  CASE c.op = "read" -> [m EXCEPT ![c.buffer] = s[c.lba]]
    [] c.op = "identify" -> [m EXCEPT ![c.buffer] = Passport]
    [] OTHER -> m

\* The kernel starts with the identification.
Init ==
  /\ store \in [Lbas -> Data]
  /\ mem \in [Buffers -> Data]
  /\ call \in Calls /\ call.op = "identify"
  /\ done = FALSE /\ answer = "none" /\ failed = FALSE

\* The caller fills the buffer of a write.
Ask ==
  /\ call = None
  /\ call' \in Calls /\ call'.op # "identify"
  /\ \/ mem' = mem
     \/ call'.op = "write" /\ \E d \in Data : mem' = [mem EXCEPT ![call'.buffer] = d]
  /\ UNCHANGED <<store, done, answer, failed>>

Execute ==
  /\ call # None /\ ~done
  /\ store' = StoreAfter(call, store, mem)
  /\ mem' = MemAfter(call, store, mem)
  /\ done' = TRUE
  /\ UNCHANGED <<call, answer, failed>>

Succeed ==
  /\ call # None /\ done
  /\ call' = None /\ done' = FALSE
  /\ answer' = "success"
  /\ UNCHANGED <<store, mem, failed>>

\* A call that fails may have been executed or not.  An identification that
\* fails says so to nobody.
Fail ==
  /\ call # None
  /\ call' = None /\ done' = FALSE
  /\ answer' = "success" => call.op = "identify"
  /\ failed' = TRUE
  /\ UNCHANGED <<store, mem>>

Next ==
  \/ Ask \/ Execute \/ Succeed \/ Fail
  \/ failed /\ failed'

Spec == Init /\ [][Next]_vars
=============================================================================
