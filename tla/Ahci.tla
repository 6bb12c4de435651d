-------------------------------- MODULE Ahci --------------------------------
(***************************************************************************)
(* The AHCI driver's commands (src/src/drivers/disk/sata.c): identify, and *)
(* sector read and write, against a drive that fetches, executes and       *)
(* completes them in its own time.                                         *)
(*                                                                         *)
(* All commands go through slot 0 of port 0 and one command table in       *)
(* memory, which the driver fills in steps.  A call that gives up leaves   *)
(* its command issued, so the drive may fetch the table while a later call *)
(* fills it, and move data into whatever buffer it then names.             *)
(***************************************************************************)
EXTENDS Integers

CONSTANTS
  Lbas, Buffers, Data, Passport, None,
  InfoBuffer,  \* the buffer of kmain's disk_info
  PollLimit    \* how often a call looks for its end (10)

VARIABLES
  pc,      \* where the driver is
  call,    \* the packet it works on
  step,    \* polls of this command so far
  answer,  \* what the last call returned
  table,   \* the command table and header: op, lba, buffer
  ci,      \* port[0].ci: the command is issued
  tfd,     \* port[0].tfd: the error bit
  serr,    \* port[0].serr is not 0
  taken,   \* the command the drive works on
  moved,   \* the drive has moved the data of its last command
  store, mem,  \* the sectors of the disk, the buffers
  trouble,     \* history: a call or the identification has failed
  alone        \* history: slot 0 was free when the last command was issued

driver == <<pc, call, step, answer, trouble>>
drive == <<taken, moved, tfd, serr>>
vars == <<pc, call, step, answer, table, ci, tfd, serr, taken, moved, store, mem, trouble, alone>>

\* The driver has issued its command and has not returned.
Issued == {"poll", "tfd", "serr", "sleep", "halted"}

Device == INSTANCE BlockDevice WITH
  done <- pc \in Issued /\ (moved \/ ~ci), failed <- trouble

ASSUME AhciAssumption ==
  /\ InfoBuffer \in Buffers
  /\ PollLimit \in Nat
  /\ None \notin Device!Calls

IdentifyCall == [op |-> "identify", buffer |-> InfoBuffer]

-----------------------------------------------------------------------------
(* The driver                                                              *)

Return(a) ==
  /\ pc' = "idle" /\ call' = None /\ step' = 0 /\ answer' = a

\* ahci_dispatcher_io, called with a packet.  The caller has filled the
\* buffer of a write.
BeginRead(l, b) ==
  /\ pc = "idle"
  /\ pc' = "header"
  /\ call' = [op |-> "read", lba |-> l, buffer |-> b]
  /\ UNCHANGED <<step, answer, table, ci, drive, store, mem, trouble, alone>>

BeginWrite(l, b, d) ==
  /\ pc = "idle"
  /\ pc' = "header"
  /\ call' = [op |-> "write", lba |-> l, buffer |-> b]
  /\ mem' = [mem EXCEPT ![b] = d]
  /\ UNCHANGED <<step, answer, table, ci, drive, store, trouble, alone>>

\* The header's w0 and the command byte.
SetHeader ==
  /\ pc = "header"
  /\ pc' = "prdt"
  /\ table' = [table EXCEPT !.op = call.op]
  /\ UNCHANGED <<call, step, answer, ci, drive, store, mem, trouble, alone>>

\* Defect: the sector's address is not written.
SetPrdtLast ==
  /\ pc = "prdt"
  /\ pc' = "issue"
  /\ table' = [table EXCEPT !.buffer = call.buffer]
  /\ UNCHANGED <<call, step, answer, ci, drive, store, mem, trouble, alone>>

SetPrdt ==
  /\ pc = "prdt"
  /\ pc' = "fis"
  /\ table' = [table EXCEPT !.buffer = call.buffer]
  /\ UNCHANGED <<call, step, answer, ci, drive, store, mem, trouble, alone>>

SetFis ==
  /\ pc = "fis"
  /\ pc' = "issue"
  /\ table' = [table EXCEPT !.lba = call.lba]
  /\ UNCHANGED <<call, step, answer, ci, drive, store, mem, trouble, alone>>

\* Setting a bit of ci that is set does nothing.
Issue ==
  /\ pc = "issue"
  /\ pc' = "poll"
  /\ ci' = TRUE
  /\ alone' = ~ci
  /\ UNCHANGED <<call, step, answer, table, drive, store, mem, trouble>>

\* Defect: ci is not waited for.
PollDoneHasty ==
  /\ pc = "poll"
  /\ Return("success")
  /\ UNCHANGED <<table, ci, drive, store, mem, trouble, alone>>

\* The loop looks at ci, the task file and serr one after the other.
PollDone ==
  /\ pc = "poll" /\ ~ci
  /\ Return("success")
  /\ UNCHANGED <<table, ci, drive, store, mem, trouble, alone>>

\* The identification halts the machine.
PollTimeout ==
  /\ pc = "poll" /\ ci /\ step = PollLimit
  /\ IF call.op = "identify"
     THEN pc' = "halted" /\ UNCHANGED <<call, step, answer, trouble>>
     ELSE Return("timeout") /\ trouble' = TRUE
  /\ UNCHANGED <<table, ci, drive, store, mem, alone>>

\* Defect: the number of polls is not looked at.
PollBusyPast ==
  /\ pc = "poll" /\ ci
  /\ pc' = "tfd"
  /\ UNCHANGED <<call, step, answer, table, ci, drive, store, mem, trouble, alone>>

PollBusy ==
  /\ pc = "poll" /\ ci /\ step # PollLimit
  /\ pc' = "tfd"
  /\ UNCHANGED <<call, step, answer, table, ci, drive, store, mem, trouble, alone>>

\* Defect: the loop is left, and SUCCES returned, whatever the call.
GiveUpQuiet(a) ==
  /\ Return("success")
  /\ trouble' = TRUE
  /\ UNCHANGED <<table, ci, drive, store, mem, alone>>

\* The identification leaves its loop, and init_sata returns SUCCES.
GiveUp(a) ==
  /\ Return(IF call.op = "identify" THEN "success" ELSE a)
  /\ trouble' = TRUE
  /\ UNCHANGED <<table, ci, drive, store, mem, alone>>

PollTfd ==
  /\ pc = "tfd"
  /\ IF tfd THEN GiveUp("tfd")
     ELSE /\ pc' = "serr"
          /\ UNCHANGED <<call, step, answer, table, ci, drive, store, mem, trouble, alone>>

\* Defect: the polls are not counted.
PollSerrEndless ==
  /\ pc = "serr"
  /\ IF serr THEN GiveUp("serr")
     ELSE /\ pc' = "sleep"
          /\ UNCHANGED <<call, step, answer, table, ci, drive, store, mem, trouble, alone>>

PollSerr ==
  /\ pc = "serr"
  /\ IF serr THEN GiveUp("serr")
     ELSE /\ pc' = "sleep"
          /\ step' = step + 1
          /\ UNCHANGED <<call, answer, table, ci, drive, store, mem, trouble, alone>>

\* ksleep(1) ends with the next tick.
WakeUp ==
  /\ pc = "sleep"
  /\ pc' = "poll"
  /\ UNCHANGED <<call, step, answer, table, ci, drive, store, mem, trouble, alone>>

-----------------------------------------------------------------------------
(* The drive                                                               *)

\* It reads the header and the FIS, unless it has stopped with an error.
Fetch ==
  /\ ci /\ ~tfd /\ taken = None
  /\ taken' = [op |-> table.op, lba |-> table.lba]
  /\ UNCHANGED <<driver, table, ci, moved, tfd, serr, store, mem, alone>>

\* It reads the address of the buffer when it moves the data.
Transfer ==
  /\ taken # None /\ ~moved
  /\ moved' = TRUE
  /\ LET c == [op |-> taken.op, lba |-> taken.lba, buffer |-> table.buffer] IN
     /\ store' = Device!StoreAfter(c, store, mem)
     /\ mem' = Device!MemAfter(c, store, mem)
  /\ UNCHANGED <<driver, table, ci, taken, tfd, serr, alone>>

Complete ==
  /\ taken # None /\ moved
  /\ taken' = None
  /\ ci' = FALSE /\ moved' = FALSE
  /\ UNCHANGED <<driver, table, tfd, serr, store, mem, alone>>

\* It fails the command, before or after the data moved, and stops; the
\* command stays issued.
FailCommand ==
  /\ taken # None
  /\ taken' = None
  /\ tfd' = TRUE
  /\ UNCHANGED <<driver, table, ci, moved, serr, store, mem, alone>>

LinkError ==
  /\ ~serr
  /\ serr' = TRUE
  /\ UNCHANGED <<driver, table, ci, taken, moved, tfd, store, mem, alone>>

-----------------------------------------------------------------------------
\* init_sata has set up port 0, filled the table for anci_identify_device and
\* is about to issue it.
Init ==
  /\ pc = "issue" /\ call = IdentifyCall /\ step = 0 /\ answer = "none"
  /\ \E l \in Lbas : table = [op |-> "identify", lba |-> l, buffer |-> InfoBuffer]
  /\ ci = FALSE /\ tfd = FALSE /\ serr = FALSE /\ taken = None /\ moved = FALSE
  /\ store \in [Lbas -> Data] /\ mem \in [Buffers -> Data]
  /\ trouble = FALSE /\ alone = TRUE

DriverStep ==
  \/ SetHeader \/ SetPrdt \/ SetFis \/ Issue
  \/ PollDone \/ PollTimeout \/ PollBusy \/ PollTfd \/ PollSerr \/ WakeUp

DriveStep == Fetch \/ Transfer \/ Complete \/ FailCommand \/ LinkError

Next ==
  \/ \E l \in Lbas, b \in Buffers : BeginRead(l, b)
  \/ \E l \in Lbas, b \in Buffers, d \in Data : BeginWrite(l, b, d)
  \/ DriverStep
  \/ DriveStep

\* The driver runs on and the timer ticks; the drive need never answer.
Spec == Init /\ [][Next]_vars /\ WF_vars(DriverStep)

-----------------------------------------------------------------------------
(* Properties                                                              *)

Commands == [op : {"read", "write", "identify"}, lba : Lbas]
Contents == Data \cup {Passport}

TypeOK ==
  /\ pc \in {"idle", "header", "prdt", "fis", "issue"} \cup Issued
  /\ call \in Device!Calls \cup {None}
  /\ call = None <=> pc = "idle"
  /\ step \in 0 .. PollLimit
  /\ pc \in {"tfd", "serr"} => step # PollLimit
  /\ answer \in {"none", "success", "timeout", "tfd", "serr"}
  /\ table \in [op : {"read", "write", "identify"}, lba : Lbas, buffer : Buffers]
  /\ ci \in BOOLEAN /\ tfd \in BOOLEAN /\ serr \in BOOLEAN /\ moved \in BOOLEAN
  /\ taken \in Commands \cup {None}
  /\ store \in [Lbas -> Contents] /\ mem \in [Buffers -> Contents]
  /\ trouble \in BOOLEAN /\ alone \in BOOLEAN

\* Until a call fails, the driver and the drive together are the device the
\* file system needs (see BlockDevice): every sector moved is the one of the
\* call in progress, into or out of its buffer, before the call succeeds.
KeepsContract == Device!Spec

\* The call's data is where it should be.
Executed ==
  CASE call.op = "read" -> mem[call.buffer] = store[call.lba]
    [] call.op = "write" -> store[call.lba] = mem[call.buffer]
    [] OTHER -> mem[call.buffer] = Passport

\* Whatever went wrong before, a call that found slot 0 free and returns
\* SUCCES from its loop has been executed: no late answer to another command
\* can be taken for its own.
SuccessIsReal ==
  [][pc = "poll" /\ pc' = "idle" /\ answer' = "success" /\ alone => Executed]_vars

\* After a task file error no read or write ever succeeds, since the driver
\* neither clears it nor starts the port again.
ErrorSticks ==
  [][tfd /\ pc # "idle" /\ pc' = "idle" => answer' # "success" \/ call.op = "identify"]_vars

\* A call returns although the drive may not answer (the identification may
\* halt the machine instead).
CallsReturn == pc # "idle" ~> pc \in {"idle", "halted"}

-----------------------------------------------------------------------------
(* The inductive invariant behind KeepsContract and SuccessIsReal (proved  *)
(* in AhciProofs).                                                         *)

\* The drive works on issued commands only, and not after an error; a
\* command outside the loop that waits for it is one that a call gave up.
DriveFollows ==
  /\ taken # None => ci /\ ~tfd
  /\ moved => ci
  /\ moved /\ taken = None => tfd
  /\ ci /\ pc \notin Issued => trouble
  /\ tfd => ci
  /\ ~alone => trouble

\* The table holds what the call has put there so far.
TableFilled ==
  /\ pc \in {"header", "prdt", "fis"} => call.op # "identify"
  /\ pc \in {"prdt", "fis", "issue"} \cup Issued => table.op = call.op
  /\ pc \in {"fis", "issue"} \cup Issued => table.buffer = call.buffer
  /\ pc \in {"issue"} \cup Issued /\ call.op # "identify" => table.lba = call.lba

\* With the slot to itself, a call's command is what the drive works on, and
\* it has been executed once the data moved.
Exact ==
  pc \in Issued /\ alone =>
    /\ taken # None => taken = [op |-> table.op, lba |-> table.lba]
    /\ moved \/ ~ci => Executed

IInv == TypeOK /\ DriveFollows /\ TableFilled /\ Exact

=============================================================================
