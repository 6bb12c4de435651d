----------------------------- MODULE AhciProofs -----------------------------
(***************************************************************************)
(* The invariant of the AHCI driver and its drive, for any sectors,        *)
(* buffers and patience; that a success is real whatever failed before;    *)
(* and that the two keep the contract of BlockDevice.                      *)
(***************************************************************************)
EXTENDS Ahci, TLAPS

USE AhciAssumption

\* What a call's fields are.
LEMMA CallFields ==
  ASSUME NEW c \in Device!Calls
  PROVE  /\ c.op \in {"read", "write", "identify"}
         /\ c.buffer \in Buffers
         /\ c.op # "identify" => c.lba \in Lbas
         /\ c # None
  BY DEF Device!Calls

\* Executing a command changes contents into contents.
LEMMA EffectTypes ==
  ASSUME NEW s \in [Lbas -> Contents], NEW m \in [Buffers -> Contents], NEW c,
         c.buffer \in Buffers, c.op # "identify" => c.lba \in Lbas,
         c.op \in {"read", "write", "identify"}
  PROVE  /\ Device!StoreAfter(c, s, m) \in [Lbas -> Contents]
         /\ Device!MemAfter(c, s, m) \in [Buffers -> Contents]
<1>0. Passport \in Contents
  BY DEF Contents
<1>1. CASE c.op = "read"
  <2>1. Device!StoreAfter(c, s, m) = s
    BY <1>1 DEF Device!StoreAfter
  <2>2. Device!MemAfter(c, s, m) = [m EXCEPT ![c.buffer] = s[c.lba]]
    BY <1>1 DEF Device!MemAfter
  <2>3. s[c.lba] \in Contents
    BY <1>1
  <2> QED
    BY <2>1, <2>2, <2>3
<1>2. CASE c.op = "write"
  <2>1. Device!StoreAfter(c, s, m) = [s EXCEPT ![c.lba] = m[c.buffer]]
    BY <1>2 DEF Device!StoreAfter
  <2>2. Device!MemAfter(c, s, m) = m
    BY <1>2 DEF Device!MemAfter
  <2>3. m[c.buffer] \in Contents
    OBVIOUS
  <2> QED
    BY <2>1, <2>2, <2>3
<1>3. CASE c.op = "identify"
  <2>1. Device!StoreAfter(c, s, m) = s
    BY <1>3 DEF Device!StoreAfter
  <2>2. Device!MemAfter(c, s, m) = [m EXCEPT ![c.buffer] = Passport]
    BY <1>3 DEF Device!MemAfter
  <2> QED
    BY <2>1, <2>2, <1>0
<1> QED
  BY <1>1, <1>2, <1>3

\* The initial states.
LEMMA InitIInv == Init => IInv
<1> SUFFICES ASSUME Init PROVE IInv
  OBVIOUS
<1>1. call = IdentifyCall /\ call \in Device!Calls /\ call # None
  BY DEF Init, IdentifyCall, Device!Calls
<1>2. PICK l \in Lbas : table = [op |-> "identify", lba |-> l, buffer |-> InfoBuffer]
  BY DEF Init
<1>3. TypeOK
  <2>1. 0 \in 0 .. PollLimit /\ Data \subseteq Contents
    BY DEF Contents
  <2>2. table \in [op : {"read", "write", "identify"}, lba : Lbas, buffer : Buffers]
    BY <1>2
  <2>3. store \in [Lbas -> Contents] /\ mem \in [Buffers -> Contents]
    BY <2>1 DEF Init
  <2> QED
    BY <1>1, <2>1, <2>2, <2>3 DEF Init, TypeOK
<1>4. DriveFollows
  BY DEF Init, DriveFollows
<1>5. TableFilled
  BY <1>1, <1>2 DEF Init, TableFilled, IdentifyCall, Issued
<1>6. Exact
  BY DEF Init, Exact, Issued
<1> QED
  BY <1>3, <1>4, <1>5, <1>6 DEF IInv

\* The steps in which the driver leaves the drive's state alone.
LEMMA DriverFrame ==
  ASSUME DriverStep
  PROVE  UNCHANGED <<taken, moved, tfd, serr, store, mem>>
  BY DEF DriverStep, SetHeader, SetPrdt, SetFis, Issue, PollDone, PollTimeout,
         PollBusy, PollTfd, PollSerr, GiveUp, WakeUp, drive

\* Types: the steps of the driver.
LEMMA DriverTypes ==
  ASSUME TypeOK, TableFilled, DriverStep
  PROVE  TypeOK'
<1>0. UNCHANGED <<taken, moved, tfd, serr, store, mem>> /\ 0 \in 0 .. PollLimit
  BY DriverFrame
<1> USE DEF TypeOK, Issued, drive
<1>1. CASE SetHeader
  <2>1. call \in Device!Calls
    BY <1>1 DEF SetHeader
  <2>2. table' \in [op : {"read", "write", "identify"}, lba : Lbas, buffer : Buffers]
    BY <1>1, <2>1, CallFields DEF SetHeader
  <2> QED
    BY <1>0, <1>1, <2>2 DEF SetHeader
<1>2. CASE SetPrdt
  <2>1. call \in Device!Calls
    BY <1>2 DEF SetPrdt
  <2>2. table' \in [op : {"read", "write", "identify"}, lba : Lbas, buffer : Buffers]
    BY <1>2, <2>1, CallFields DEF SetPrdt
  <2> QED
    BY <1>0, <1>2, <2>2 DEF SetPrdt
<1>3. CASE SetFis
  <2>1. call \in Device!Calls /\ call.op # "identify"
    BY <1>3 DEF SetFis, TableFilled
  <2>2. table' \in [op : {"read", "write", "identify"}, lba : Lbas, buffer : Buffers]
    BY <1>3, <2>1, CallFields DEF SetFis
  <2> QED
    BY <1>0, <1>3, <2>2 DEF SetFis
<1>4. CASE Issue
  BY <1>0, <1>4 DEF Issue
<1>5. CASE PollDone
  BY <1>0, <1>5 DEF PollDone, Return
<1>6. CASE PollTimeout
  BY <1>0, <1>6 DEF PollTimeout, Return
<1>7. CASE PollBusy
  BY <1>0, <1>7 DEF PollBusy
<1>8. CASE PollTfd
  BY <1>0, <1>8 DEF PollTfd, GiveUp, Return
<1>9. CASE PollSerr
  <2>1. CASE serr
    BY <1>0, <1>9, <2>1 DEF PollSerr, GiveUp, Return
  <2>2. CASE ~serr
    <3>1. step + 1 \in 0 .. PollLimit
      BY <1>9 DEF PollSerr
    <3> QED
      BY <1>0, <1>9, <2>2, <3>1 DEF PollSerr
  <2> QED
    BY <2>1, <2>2
<1>10. CASE WakeUp
  BY <1>0, <1>10 DEF WakeUp
<1> QED
  BY <1>1, <1>2, <1>3, <1>4, <1>5, <1>6, <1>7, <1>8, <1>9, <1>10 DEF DriverStep

\* Types: the beginning of a call and the steps of the drive.
LEMMA OtherTypes ==
  ASSUME TypeOK, Next, ~DriverStep
  PROVE  TypeOK'
<1> USE DEF TypeOK, Issued, driver, drive
<1>1. ASSUME NEW l \in Lbas, NEW b \in Buffers, BeginRead(l, b)
      PROVE  TypeOK'
  <2>1. call' \in Device!Calls /\ call' # None
    BY <1>1 DEF BeginRead, Device!Calls
  <2> QED
    BY <1>1, <2>1 DEF BeginRead
<1>2. ASSUME NEW l \in Lbas, NEW b \in Buffers, NEW d \in Data, BeginWrite(l, b, d)
      PROVE  TypeOK'
  <2>1. call' \in Device!Calls /\ call' # None
    BY <1>2 DEF BeginWrite, Device!Calls
  <2>2. d \in Contents
    BY DEF Contents
  <2>3. mem' \in [Buffers -> Contents]
    BY <1>2, <2>2 DEF BeginWrite
  <2> QED
    BY <1>2, <2>1, <2>3 DEF BeginWrite
<1>3. CASE Fetch
  <2>1. taken' \in Commands
    BY <1>3 DEF Fetch, Commands
  <2> QED
    BY <1>3, <2>1 DEF Fetch
<1>4. CASE Transfer
  <2> DEFINE c == [op |-> taken.op, lba |-> taken.lba, buffer |-> table.buffer]
  <2>1. taken.op \in {"read", "write", "identify"} /\ taken.lba \in Lbas /\ table.buffer \in Buffers
    BY <1>4 DEF Transfer, Commands
  <2>2. store' \in [Lbas -> Contents] /\ mem' \in [Buffers -> Contents]
    <3>1. /\ store' = Device!StoreAfter(c, store, mem)
          /\ mem' = Device!MemAfter(c, store, mem)
      BY <1>4 DEF Transfer
    <3>2. /\ c.op \in {"read", "write", "identify"} /\ c.lba \in Lbas
          /\ c.buffer \in Buffers
      BY <2>1
    <3> HIDE DEF c
    <3> QED
      BY <3>1, <3>2, EffectTypes
  <2> QED
    BY <1>4, <2>2 DEF Transfer
<1>5. CASE Complete
  <2>1. /\ taken' = None /\ ci' = FALSE /\ moved' = FALSE
        /\ UNCHANGED <<pc, call, step, answer, trouble, table, tfd, serr, store, mem, alone>>
    BY <1>5 DEF Complete
  <2>2. ci' \in BOOLEAN /\ moved' \in BOOLEAN /\ taken' \in Commands \cup {None}
    BY <2>1
  <2>3. UNCHANGED <<pc, call, step, answer, trouble, table, tfd, serr, store, mem, alone>>
    BY <2>1
  <2> QED
    BY <2>2, <2>3
<1>6. CASE FailCommand
  BY <1>6 DEF FailCommand
<1>7. CASE LinkError
  BY <1>7 DEF LinkError
<1> QED
  BY <1>1, <1>2, <1>3, <1>4, <1>5, <1>6, <1>7 DEF Next, DriveStep

\* What the drive does follows from what was issued to it.
LEMMA NextFollows ==
  ASSUME TypeOK, DriveFollows, Next
  PROVE  DriveFollows'
<1> USE DEF DriveFollows, TypeOK, Issued, driver, drive
<1>1. ASSUME NEW l \in Lbas, NEW b \in Buffers, BeginRead(l, b)
      PROVE  DriveFollows'
  BY <1>1 DEF BeginRead
<1>2. ASSUME NEW l \in Lbas, NEW b \in Buffers, NEW d \in Data, BeginWrite(l, b, d)
      PROVE  DriveFollows'
  BY <1>2 DEF BeginWrite
<1>3. CASE SetHeader
  BY <1>3 DEF SetHeader
<1>4. CASE SetPrdt
  BY <1>4 DEF SetPrdt
<1>5. CASE SetFis
  BY <1>5 DEF SetFis
<1>6. CASE Issue
  BY <1>6 DEF Issue
<1>7. CASE PollDone
  BY <1>7 DEF PollDone, Return
<1>8. CASE PollTimeout
  BY <1>8 DEF PollTimeout, Return
<1>9. CASE PollBusy
  BY <1>9 DEF PollBusy
<1>10. CASE PollTfd
  BY <1>10 DEF PollTfd, GiveUp, Return
<1>11. CASE PollSerr
  BY <1>11 DEF PollSerr, GiveUp, Return
<1>12. CASE WakeUp
  BY <1>12 DEF WakeUp
<1>13. CASE Fetch
  BY <1>13 DEF Fetch
<1>14. CASE Transfer
  BY <1>14 DEF Transfer
<1>15. CASE Complete
  BY <1>15 DEF Complete
<1>16. CASE FailCommand
  BY <1>16 DEF FailCommand
<1>17. CASE LinkError
  BY <1>17 DEF LinkError
<1> QED
  BY <1>1, <1>2, <1>3, <1>4, <1>5, <1>6, <1>7, <1>8, <1>9, <1>10, <1>11, <1>12,
     <1>13, <1>14, <1>15, <1>16, <1>17 DEF Next, DriverStep, DriveStep

\* Nobody but the driver writes the table, and it does so in order.
LEMMA NextFilled ==
  ASSUME TypeOK, TableFilled, Next
  PROVE  TableFilled'
<1> USE DEF TableFilled, TypeOK, Issued, driver, drive
<1>1. ASSUME NEW l \in Lbas, NEW b \in Buffers, BeginRead(l, b)
      PROVE  TableFilled'
  BY <1>1 DEF BeginRead
<1>2. ASSUME NEW l \in Lbas, NEW b \in Buffers, NEW d \in Data, BeginWrite(l, b, d)
      PROVE  TableFilled'
  BY <1>2 DEF BeginWrite
<1>3. CASE SetHeader
  BY <1>3 DEF SetHeader
<1>4. CASE SetPrdt
  BY <1>4 DEF SetPrdt
<1>5. CASE SetFis
  BY <1>5 DEF SetFis
<1>6. CASE Issue
  BY <1>6 DEF Issue
<1>7. CASE PollDone
  BY <1>7 DEF PollDone, Return
<1>8. CASE PollTimeout
  BY <1>8 DEF PollTimeout, Return
<1>9. CASE PollBusy
  BY <1>9 DEF PollBusy
<1>10. CASE PollTfd
  BY <1>10 DEF PollTfd, GiveUp, Return
<1>11. CASE PollSerr
  BY <1>11 DEF PollSerr, GiveUp, Return
<1>12. CASE WakeUp
  BY <1>12 DEF WakeUp
<1>13. CASE DriveStep
  BY <1>13 DEF DriveStep, Fetch, Transfer, Complete, FailCommand, LinkError
<1> QED
  BY <1>1, <1>2, <1>3, <1>4, <1>5, <1>6, <1>7, <1>8, <1>9, <1>10, <1>11, <1>12,
     <1>13 DEF Next, DriverStep

\* A call whose command has been executed finds its data in place.
LEMMA ExecutedAfter ==
  ASSUME TypeOK, NEW c, call \in Device!Calls,
         c.op = call.op, c.buffer = call.buffer, call.op # "identify" => c.lba = call.lba,
         store' = Device!StoreAfter(c, store, mem), mem' = Device!MemAfter(c, store, mem),
         call' = call
  PROVE  Executed'
<1>0. /\ call.op \in {"read", "write", "identify"} /\ call.buffer \in Buffers
      /\ call.op # "identify" => call.lba \in Lbas
  BY CallFields
<1>1. CASE call.op = "read"
  <2>1. mem' = [mem EXCEPT ![call.buffer] = store[call.lba]] /\ store' = store
    BY <1>1 DEF Device!StoreAfter, Device!MemAfter
  <2>2. mem'[call.buffer] = store[call.lba]
    BY <1>0, <2>1 DEF TypeOK
  <2> QED
    BY <1>1, <2>1, <2>2 DEF Executed
<1>2. CASE call.op = "write"
  <2>1. store' = [store EXCEPT ![call.lba] = mem[call.buffer]] /\ mem' = mem
    BY <1>2 DEF Device!StoreAfter, Device!MemAfter
  <2>2. store'[call.lba] = mem[call.buffer]
    BY <1>0, <1>2, <2>1 DEF TypeOK
  <2> QED
    BY <1>2, <2>1, <2>2 DEF Executed
<1>3. CASE call.op = "identify"
  <2>1. mem' = [mem EXCEPT ![call.buffer] = Passport]
    BY <1>3 DEF Device!MemAfter
  <2>2. mem'[call.buffer] = Passport
    BY <1>0, <2>1 DEF TypeOK
  <2> QED
    BY <1>3, <2>2 DEF Executed
<1> QED
  BY <1>0, <1>1, <1>2, <1>3

\* Alone with its slot, a command is executed exactly as it was asked for.
LEMMA TransferExact ==
  ASSUME IInv, Transfer, pc \in Issued, alone
  PROVE  /\ store' = Device!StoreAfter(call, store, mem)
         /\ mem' = Device!MemAfter(call, store, mem)
         /\ Executed'
<1> DEFINE c == [op |-> taken.op, lba |-> taken.lba, buffer |-> table.buffer]
<1>1. /\ store' = Device!StoreAfter(c, store, mem)
      /\ mem' = Device!MemAfter(c, store, mem)
      /\ call' = call
  BY DEF Transfer, driver
<1>2. call \in Device!Calls
  BY DEF IInv, TypeOK, Issued
<1>3. taken = [op |-> table.op, lba |-> table.lba]
  BY DEF IInv, Exact, Transfer
<1>4. c.op = call.op /\ c.buffer = call.buffer /\ (call.op # "identify" => c.lba = call.lba)
  BY <1>3 DEF IInv, TableFilled
<1> HIDE DEF c
<1>5. Executed'
  BY <1>1, <1>2, <1>4, ExecutedAfter DEF IInv
<1>6. call.op \in {"read", "write", "identify"}
  BY <1>2, CallFields
<1>7. /\ Device!StoreAfter(c, store, mem) = Device!StoreAfter(call, store, mem)
      /\ Device!MemAfter(c, store, mem) = Device!MemAfter(call, store, mem)
  BY <1>4, <1>6 DEF Device!StoreAfter, Device!MemAfter
<1> QED
  BY <1>1, <1>5, <1>7

\* What a call with a slot of its own may rely on stays true.
LEMMA NextExact ==
  ASSUME IInv, Next
  PROVE  Exact'
<1> USE DEF IInv, Exact, TypeOK, Issued
<1>1. ASSUME NEW l \in Lbas, NEW b \in Buffers, BeginRead(l, b)
      PROVE  Exact'
  BY <1>1 DEF BeginRead
<1>2. ASSUME NEW l \in Lbas, NEW b \in Buffers, NEW d \in Data, BeginWrite(l, b, d)
      PROVE  Exact'
  BY <1>2 DEF BeginWrite
<1>3. CASE SetHeader \/ SetPrdt \/ SetFis
  BY <1>3 DEF SetHeader, SetPrdt, SetFis
<1>4. CASE Issue
  BY <1>4 DEF Issue, DriveFollows, drive
<1>5. CASE PollDone
  BY <1>5 DEF PollDone, Return
<1>6. ASSUME pc \in Issued, UNCHANGED <<call, taken, moved, ci, table, store, mem, alone>>
      PROVE  Exact'
  BY <1>6 DEF Executed
<1>7. CASE pc' \notin Issued
  BY <1>7
<1>8. CASE PollTimeout
  BY <1>6, <1>7, <1>8 DEF PollTimeout, Return, drive
<1>9. CASE PollBusy
  BY <1>6, <1>9 DEF PollBusy, drive
<1>10. CASE PollTfd
  BY <1>6, <1>7, <1>10 DEF PollTfd, GiveUp, Return, drive
<1>11. CASE PollSerr
  BY <1>6, <1>7, <1>11 DEF PollSerr, GiveUp, Return, drive
<1>12. CASE WakeUp
  BY <1>6, <1>12 DEF WakeUp, drive
<1>13. CASE Fetch
  <2>1. UNCHANGED <<pc, call, moved, ci, table, store, mem, alone>>
    BY <1>13 DEF Fetch, driver
  <2>2. taken' = [op |-> table.op, lba |-> table.lba]
    BY <1>13 DEF Fetch
  <2> QED
    BY <2>1, <2>2 DEF Executed
<1>14. CASE Transfer
  <2>1. UNCHANGED <<pc, alone, taken, table>>
    BY <1>14 DEF Transfer, driver
  <2> QED
    BY <1>14, <2>1, TransferExact
<1>15. CASE Complete
  <2>1. UNCHANGED <<pc, call, table, store, mem, alone>> /\ moved /\ taken' = None
    BY <1>15 DEF Complete, driver
  <2> QED
    BY <2>1 DEF Executed
<1>16. CASE FailCommand
  <2>1. UNCHANGED <<pc, call, moved, ci, table, store, mem, alone>> /\ taken' = None
    BY <1>16 DEF FailCommand, driver
  <2> QED
    BY <2>1 DEF Executed
<1>17. CASE LinkError
  BY <1>6, <1>7, <1>17 DEF LinkError, driver
<1> QED
  BY <1>1, <1>2, <1>3, <1>4, <1>5, <1>8, <1>9, <1>10, <1>11, <1>12, <1>13,
     <1>14, <1>15, <1>16, <1>17 DEF Next, DriverStep, DriveStep

\* The invariant is inductive: types, what the drive works on, what the table
\* holds, and that a command with the slot to itself is executed as asked.
THEOREM AhciInvariant == Spec => []IInv
<1>1. Init => IInv
  BY InitIInv
<1>2. IInv /\ [Next]_vars => IInv'
  <2> SUFFICES ASSUME IInv, [Next]_vars PROVE IInv'
    OBVIOUS
  <2>1. CASE Next
    <3>1. TypeOK'
      BY <2>1, DriverTypes, OtherTypes DEF IInv
    <3>2. DriveFollows' /\ TableFilled'
      BY <2>1, NextFollows, NextFilled DEF IInv
    <3>3. Exact'
      BY <2>1, NextExact
    <3> QED
      BY <3>1, <3>2, <3>3 DEF IInv
  <2>2. CASE UNCHANGED vars
    BY <2>2 DEF vars, IInv, TypeOK, DriveFollows, TableFilled, Exact, Executed
  <2> QED
    BY <2>1, <2>2
<1> QED
  BY <1>1, <1>2, PTL DEF Spec

\* No success of a call with its own slot is false, whatever failed before.
THEOREM SuccessesAreReal == Spec => SuccessIsReal
<1>1. ASSUME IInv, [Next]_vars, pc = "poll", pc' = "idle", answer' = "success", alone
      PROVE  Executed
  <2>1. DriverStep
    BY <1>1 DEF Next, BeginRead, BeginWrite, DriveStep, Fetch, Transfer, Complete,
                FailCommand, LinkError, driver, vars
  <2>2. PollDone \/ PollTimeout
    BY <1>1, <2>1 DEF DriverStep, SetHeader, SetPrdt, SetFis, Issue, PollBusy, PollTfd,
                      PollSerr, WakeUp
  <2>3. ~ci
    BY <1>1, <2>2 DEF PollDone, PollTimeout, Return
  <2> QED
    BY <1>1, <2>3 DEF IInv, Exact, Issued
<1> QED
  BY <1>1, AhciInvariant, PTL DEF Spec, SuccessIsReal

\* Nothing succeeds after a task file error.
THEOREM ErrorsStick == Spec => ErrorSticks
<1>1. ASSUME IInv, [Next]_vars
      PROVE  tfd /\ pc # "idle" /\ pc' = "idle" => answer' # "success" \/ call.op = "identify"
  <2> SUFFICES ASSUME tfd, pc # "idle", pc' = "idle", answer' = "success"
      PROVE  call.op = "identify"
    OBVIOUS
  <2>0. ci
    BY <1>1 DEF IInv, DriveFollows
  <2>1. DriverStep
    BY <1>1 DEF Next, BeginRead, BeginWrite, DriveStep, Fetch, Transfer, Complete,
                FailCommand, LinkError, driver, vars
  <2>2. PollTimeout \/ PollTfd \/ PollSerr
    BY <1>1, <2>0, <2>1 DEF DriverStep, SetHeader, SetPrdt, SetFis, Issue, PollBusy,
                            PollDone, WakeUp
  <2> QED
    BY <1>1, <2>2 DEF PollTimeout, PollTfd, PollSerr, GiveUp, Return
<1> QED
  BY <1>1, AhciInvariant, PTL DEF Spec, ErrorSticks

\* The device of BlockDevice, as this module sees it.
Done == pc \in Issued /\ (moved \/ ~ci)

\* A step that leaves the contract's variables alone.
LEMMA Stutter ==
  ASSUME UNCHANGED <<store, mem, call, answer, trouble>>, Done' = Done
  PROVE  UNCHANGED Device!vars
  BY DEF Device!vars, Done

\* After a failure every step is allowed.
LEMMA Troubled ==
  ASSUME trouble, trouble'
  PROVE  Device!Next
  BY DEF Device!Next

\* The calls and returns of the driver are those of the device.
LEMMA DriverRefines ==
  ASSUME IInv, DriverStep
  PROVE  Device!Next \/ UNCHANGED Device!vars
<1>0. UNCHANGED <<taken, moved, tfd, serr, store, mem>>
  BY DriverFrame
<1>1. CASE SetHeader \/ SetPrdt \/ SetFis
  BY <1>0, <1>1, Stutter DEF SetHeader, SetPrdt, SetFis, Done, Issued
<1>2. CASE Issue
  <2>1. CASE trouble
    BY <1>2, <2>1, Troubled DEF Issue
  <2>2. CASE ~trouble
    <3>1. ~ci /\ ~moved
      BY <1>2, <2>2 DEF IInv, DriveFollows, Issue, Issued
    <3> QED
      BY <1>0, <1>2, <3>1, Stutter DEF Issue, Done, Issued
  <2> QED
    BY <2>1, <2>2
<1>3. CASE PollDone
  <2>1. call # None
    BY <1>3 DEF PollDone, IInv, TypeOK
  <2>2. Device!Succeed
    BY <1>0, <1>3, <2>1 DEF PollDone, Return, Device!Succeed, Issued
  <2> QED
    BY <2>2 DEF Device!Next
<1>4. ASSUME call # None, call' = None, pc' = "idle", trouble',
             answer' = "success" => call.op = "identify"
      PROVE  Device!Next
  <2>1. Device!Fail
    BY <1>0, <1>4 DEF Device!Fail, Issued
  <2> QED
    BY <2>1 DEF Device!Next
<1>5. pc # "idle" => call # None
  BY DEF IInv, TypeOK
<1>6. CASE PollTimeout
  <2>1. CASE call.op = "identify"
    BY <1>0, <1>6, <2>1, Stutter DEF PollTimeout, Done, Issued
  <2>2. CASE call.op # "identify"
    BY <1>4, <1>5, <1>6, <2>2 DEF PollTimeout, Return
  <2> QED
    BY <2>1, <2>2
<1>7. CASE PollBusy \/ WakeUp
  BY <1>0, <1>7, Stutter DEF PollBusy, WakeUp, Done, Issued
<1>8. CASE PollTfd
  <2>1. CASE tfd
    BY <1>4, <1>5, <1>8, <2>1 DEF PollTfd, GiveUp, Return
  <2>2. CASE ~tfd
    BY <1>0, <1>8, <2>2, Stutter DEF PollTfd, Done, Issued
  <2> QED
    BY <2>1, <2>2
<1>9. CASE PollSerr
  <2>1. CASE serr
    BY <1>4, <1>5, <1>9, <2>1 DEF PollSerr, GiveUp, Return
  <2>2. CASE ~serr
    BY <1>0, <1>9, <2>2, Stutter DEF PollSerr, Done, Issued
  <2> QED
    BY <2>1, <2>2
<1> QED
  BY <1>1, <1>2, <1>3, <1>6, <1>7, <1>8, <1>9 DEF DriverStep

\* What the drive does is the execution of the call, or nothing to the device.
LEMMA DriveRefines ==
  ASSUME IInv, DriveStep
  PROVE  Device!Next \/ UNCHANGED Device!vars
<1>0. UNCHANGED <<pc, call, answer, trouble, table, alone>>
  BY DEF DriveStep, Fetch, Transfer, Complete, FailCommand, LinkError, driver
<1>1. CASE Transfer
  <2>1. CASE trouble
    BY <1>0, <2>1, Troubled
  <2>2. CASE ~trouble
    <3>1. pc \in Issued /\ alone /\ ci /\ ~moved /\ moved' /\ ci'
      BY <1>1, <2>2 DEF IInv, DriveFollows, TypeOK, Transfer
    <3>2. call # None
      BY <3>1 DEF IInv, TypeOK, Issued
    <3>3. /\ store' = Device!StoreAfter(call, store, mem)
          /\ mem' = Device!MemAfter(call, store, mem)
      BY <1>1, <3>1, TransferExact
    <3>4. Device!Execute
      BY <1>0, <3>1, <3>2, <3>3 DEF Device!Execute
    <3> QED
      BY <3>4 DEF Device!Next
  <2> QED
    BY <2>1, <2>2
<1>2. CASE Complete
  <2>1. moved /\ ~ci' /\ UNCHANGED <<store, mem>>
    BY <1>2 DEF Complete
  <2> QED
    BY <1>0, <2>1, Stutter DEF Done
<1>3. CASE Fetch \/ FailCommand \/ LinkError
  <2>1. UNCHANGED <<moved, ci, store, mem>>
    BY <1>3 DEF Fetch, FailCommand, LinkError
  <2> QED
    BY <1>0, <2>1, Stutter DEF Done
<1> QED
  BY <1>1, <1>2, <1>3 DEF DriveStep

\* The driver and the drive keep the contract of BlockDevice.
THEOREM ImplementsDevice == Spec => KeepsContract
<1>1. Init => Device!Init
  <2> SUFFICES ASSUME Init PROVE Device!Init
    OBVIOUS
  <2>1. call \in Device!Calls /\ call.op = "identify"
    BY DEF Init, IdentifyCall, Device!Calls
  <2> QED
    BY <2>1 DEF Init, Device!Init, Issued
<1>2. IInv /\ [Next]_vars => [Device!Next]_(Device!vars)
  <2> SUFFICES ASSUME IInv, [Next]_vars
      PROVE Device!Next \/ UNCHANGED Device!vars
    OBVIOUS
  <2>1. ASSUME NEW l \in Lbas, NEW b \in Buffers, BeginRead(l, b)
        PROVE  Device!Next
    <3>1. call = None /\ call' \in Device!Calls /\ call'.op # "identify"
      BY <2>1 DEF BeginRead, Device!Calls, IInv, TypeOK
    <3>2. Device!Ask
      BY <2>1, <3>1 DEF BeginRead, Device!Ask, Issued
    <3> QED
      BY <3>2 DEF Device!Next
  <2>2. ASSUME NEW l \in Lbas, NEW b \in Buffers, NEW d \in Data, BeginWrite(l, b, d)
        PROVE  Device!Next
    <3>1. call = None /\ call' \in Device!Calls /\ call'.op = "write" /\ call'.buffer = b
      BY <2>2 DEF BeginWrite, Device!Calls, IInv, TypeOK
    <3>2. \E e \in Data : mem' = [mem EXCEPT ![call'.buffer] = e]
      BY <2>2, <3>1 DEF BeginWrite
    <3>3. Device!Ask
      BY <2>2, <3>1, <3>2 DEF BeginWrite, Device!Ask, Issued
    <3> QED
      BY <3>3 DEF Device!Next
  <2>3. CASE UNCHANGED vars
    BY <2>3, Stutter DEF vars, Done
  <2> QED
    BY <2>1, <2>2, <2>3, DriverRefines, DriveRefines DEF Next
<1> QED
  BY <1>1, <1>2, AhciInvariant, PTL DEF Spec, KeepsContract, Device!Spec

=============================================================================
