----------------------------- MODULE Interrupts -----------------------------
(***************************************************************************)
(* A program, the system calls it makes through its library, and the       *)
(* interrupts that come in between (src/src/interrupts, syscall.c,         *)
(* program.c): registers, one stack, the interrupt flag and the PICs.      *)
(*                                                                         *)
(* Code is a sequence of instructions; a run of pushes or pops is one, and *)
(* so is a C handler's body between two points where it matters that an    *)
(* interrupt may come.  An empty code is the program's own.                *)
(***************************************************************************)
EXTENDS Integers, SequencesExt, Library

\* The lines that are not masked (0, 1 and 14), and which are as urgent.
Lines == {"timer", "keyboard", "disk"}
AsUrgent(l) == CASE l = "timer" -> {l} [] l = "keyboard" -> {"timer", l} [] OTHER -> Lines

VARIABLES
  regs,     \* the registers
  stack,    \* the stack, its top last: words, and what the CPU pushes
  code,     \* what is left of the code that runs
  on,       \* the interrupt flag
  call,     \* the library function the program is in
  done,     \* what the kernel has done for it
  irr,      \* the lines that wait at the PICs
  master,   \* the lines in service at the master PIC (the disk's by line 2)
  slave,    \* and at the slave
  ticked,   \* a tick has come since ksleep looked at the counter
  recent    \* the lines served since the interrupted code went on

vars == <<regs, stack, code, on, call, done, irr, master, slave, ticked, recent>>

None == "none"

Word(v) == [kind |-> "word", is |-> v]

\* What the CPU pushes on the way into a handler; was is history.
Frame(by, rest) == [kind |-> "frame", by |-> by, rest |-> rest, on |-> on, was |-> regs]

Top == stack[Len(stack)]
Words(n) == [i \in 1 .. n |-> stack[Len(stack) - n + i].is]

\* The instruction that is next.
Op == IF code = <<>> THEN "own" ELSE Head(code)[1]
Of == Head(code)[2]
Step == code' = Tail(code)

-----------------------------------------------------------------------------
(* The handlers                                                            *)

Pushad == <<"eax", "ecx", "edx", "ebx", "ebp", "esi", "edi">>
PushSegments == <<"ds", "es", "fs", "gs">>
PushSaved == <<"edi", "esi", "ebp", "edx", "ecx", "ebx">>
PushArguments == <<"edi", "esi", "edx", "ecx", "ebx", "eax">>
KernelData == [eax |-> Unknown, ds |-> "0x10", es |-> "0x10"]

\* Defect: a handler for the master's lines forgets to tell it.
EndsSlave(l) == <<<<"eoi", "slave", l>>>>

\* isr32 and isr33 write to the master first, isr46 to the slave.
Ends(l) ==
  IF l = "disk" THEN <<<<"eoi", "slave", l>>, <<"eoi", "master", l>>>>
  ELSE <<<<"eoi", "master", l>>, <<"eoi", "slave", l>>>>

\* isr32, isr33, isr46
Isr(l) ==
  <<<<"cli">>, <<"push", Pushad>>, <<"push", PushSegments>>, <<"load", KernelData>>,
    <<"handle", l>>>>
  \o Ends(l)
  \o <<<<"pop", Reverse(PushSegments)>>, <<"pop", Reverse(Pushad)>>, <<"iret">>>>

\* Defect: the handler leaves interrupts off.
HandlerOff == <<<<"serve">>, <<"answer">>>>

\* The body of syscall_handler: sti, the switch, the result into eax.
Handler == <<<<"sti">>, <<"serve">>, <<"answer">>>>

\* Defect: the registers come back in the order they went.
Isr80Swapped ==
  <<<<"cli">>, <<"push", PushSaved>>, <<"push", PushSegments>>, <<"push", PushArguments>>,
    <<"load", KernelData>>>>
  \o Handler
  \o <<<<"drop">>, <<"pop", Tail(Reverse(PushArguments))>>, <<"pop", Reverse(PushSegments)>>,
       <<"pop", PushSaved>>, <<"sti">>, <<"iret">>>>

Isr80 ==
  <<<<"cli">>, <<"push", PushSaved>>, <<"push", PushSegments>>, <<"push", PushArguments>>,
    <<"load", KernelData>>>>
  \o Handler
  \o <<<<"drop">>, <<"pop", Tail(Reverse(PushArguments))>>, <<"pop", Reverse(PushSegments)>>,
       <<"pop", Reverse(PushSaved)>>, <<"sti">>, <<"iret">>>>

\* Defect: the function does not save what its asm statement loads.
WrapperUnsaved(c, S) ==
  <<<<"push", <<>>>>, <<"load", [r \in S |-> Unknown]>>,
    <<"load", Functions[c].loads>>, <<"int">>, <<"pop", <<>>>>, <<"ret">>>>

\* A library function as compiled, with its operands in the registers S.
Wrapper(c, S) ==
  LET saved == SetToSeq(Saves(c, S)) IN
  <<<<"push", saved>>, <<"load", [r \in S |-> Unknown]>>,
    <<"load", Functions[c].loads>>, <<"int">>, <<"pop", Reverse(saved)>>, <<"ret">>>>

-----------------------------------------------------------------------------
(* The instructions                                                        *)

Flag ==
  /\ Op \in {"cli", "sti"}
  /\ on' = (Op = "sti")
  /\ Step
  /\ UNCHANGED <<regs, stack, call, done, irr, master, slave, ticked>>

Push ==
  /\ Op = "push"
  /\ stack' = stack \o [i \in DOMAIN Of |-> Word(regs[Of[i]])]
  /\ Step
  /\ UNCHANGED <<regs, on, call, done, irr, master, slave, ticked>>

\* The registers are named in the order they leave the stack.
Pop ==
  /\ Op = "pop"
  /\ LET w == Reverse(Words(Len(Of))) IN
     regs' = [r \in Registers |->
       IF \E i \in DOMAIN Of : Of[i] = r THEN w[CHOOSE i \in DOMAIN Of : Of[i] = r] ELSE regs[r]]
  /\ stack' = SubSeq(stack, 1, Len(stack) - Len(Of))
  /\ Step
  /\ UNCHANGED <<on, call, done, irr, master, slave, ticked>>

\* add esp, 4: the result that the handler has put in place of its argument.
Drop ==
  /\ Op = "drop"
  /\ stack' = Front(stack)
  /\ Step
  /\ UNCHANGED <<regs, on, call, done, irr, master, slave, ticked>>

Load ==
  /\ Op = "load"
  /\ regs' = [r \in Registers |-> IF r \in DOMAIN Of THEN Of[r] ELSE regs[r]]
  /\ Step
  /\ UNCHANGED <<stack, on, call, done, irr, master, slave, ticked>>

\* Interrupt 0x80: the gates are interrupt gates and turn interrupts off.
Int80 ==
  /\ Op = "int"
  /\ stack' = Append(stack, Frame("int", Tail(code)))
  /\ code' = Isr80
  /\ on' = FALSE
  /\ UNCHANGED <<regs, call, done, irr, master, slave, ticked>>

Iret ==
  /\ Op = "iret"
  /\ code' = Top.rest
  /\ on' = Top.on
  /\ stack' = Front(stack)
  /\ UNCHANGED <<regs, call, done, irr, master, slave, ticked>>

\* The registers a C function leaves behind.
Used == [r \in Registers |-> IF r \in CallUsed THEN Unknown ELSE regs[r]]

\* The switch of syscall_handler.  The disk's driver may sleep.
Serve ==
  /\ Op = "serve"
  /\ LET w == Words(6)
         a == [r \in ToSet(PushArguments) |-> w[CHOOSE i \in 1 .. 6 : PushArguments[i] = r]]
         services == Served(a)
         ops == {s[1] : s \in services}
     IN
     /\ done' = done \cup services
     /\ stack' = [stack EXCEPT ![Len(stack)] =
          Word(IF ops \cap Answering # {} THEN "answer" ELSE a["eax"])]
     /\ \E waits \in {<<>>, <<<<"sleep">>>>}, runs \in {<<>>, <<<<"execute">>>>} :
          /\ ops \cap OnDisk = {} => waits = <<>>
          /\ "run" \notin ops => runs = <<>>
          /\ code' = waits \o runs \o Tail(code)
  /\ regs' = Used
  /\ UNCHANGED <<on, call, irr, master, slave, ticked>>

\* Defect: the counter is not volatile, and the loop looks at its first value.
CheckCached ==
  /\ Op = "check"
  /\ code' = <<<<"hlt">>>> \o code
  /\ UNCHANGED <<regs, stack, on, call, done, irr, master, slave, ticked>>

\* ksleep: from the target set until a tick has come.  An interrupt, whichever,
\* ends the hlt.
Sleep ==
  /\ Op = "sleep"
  /\ ticked' = FALSE
  /\ code' = <<<<"check">>>> \o Tail(code)
  /\ UNCHANGED <<regs, stack, on, call, done, irr, master, slave>>

Check ==
  /\ Op = "check"
  /\ code' = IF ticked THEN Tail(code) ELSE <<<<"hlt">>>> \o code
  /\ UNCHANGED <<regs, stack, on, call, done, irr, master, slave, ticked>>

\* fs->open has found the program and loaded it over this one: it begins on
\* an empty stack, with the interrupt flag as it is.  (kernel_stack_ptr is
\* saved for SYS_DIED, which no program reaches.)
Execute ==
  /\ Op = "execute"
  /\ code' = <<>> /\ stack' = <<>>
  /\ regs' = Own
  /\ call' = None /\ done' = {}
  /\ UNCHANGED <<on, irr, master, slave, ticked>>

Answer ==
  /\ Op = "answer"
  /\ regs' = [Used EXCEPT !["eax"] = Top.is]
  /\ Step
  /\ UNCHANGED <<stack, on, call, done, irr, master, slave, ticked>>

\* timer_handler, keyboard_handler, disk_handler
Handle ==
  /\ Op = "handle"
  /\ ticked' = (ticked \/ Of = "timer")
  /\ regs' = Used
  /\ Step
  /\ UNCHANGED <<stack, on, call, done, irr, master, slave>>

\* An end of interrupt names no line: it ends the most urgent in service.
Eoi ==
  /\ Op = "eoi"
  /\ IF Of = "master"
     THEN /\ master' = {l \in master : AsUrgent(l) \cap master # {l}}
          /\ UNCHANGED slave
     ELSE slave' = {} /\ UNCHANGED master
  /\ Step
  /\ UNCHANGED <<regs, stack, on, call, done, irr, ticked>>

\* The library function returns; what the program has in its registers then
\* is its own again.
Ret ==
  /\ Op = "ret"
  /\ Step
  /\ regs' = Own
  /\ call' = None /\ done' = {}
  /\ UNCHANGED <<stack, on, irr, master, slave, ticked>>

\* The program calls a library function.
Call(c, S) ==
  /\ Op = "own"
  /\ code' = Wrapper(c, S)
  /\ call' = c
  /\ UNCHANGED <<regs, stack, on, done, irr, master, slave, ticked>>

-----------------------------------------------------------------------------
(* The hardware                                                            *)

InIsr == \E i \in DOMAIN stack : stack[i].kind = "frame" /\ stack[i].by \in Lines

\* A line is raised.  Between two interrupts of one line the interrupted code
\* gets on: a handler takes far less time than there is between two.
Raise(l) ==
  /\ l \notin irr \cup recent
  /\ irr' = irr \cup {l}
  /\ UNCHANGED <<regs, stack, code, on, call, done, master, slave, ticked, recent>>

\* The CPU takes the most urgent line, if none as urgent is in service.
Accept(l) ==
  /\ on
  /\ l \in irr
  /\ AsUrgent(l) \cap irr = {l}
  /\ AsUrgent(l) \cap master = {}
  /\ l = "disk" => slave = {}
  /\ irr' = irr \ {l}
  /\ master' = master \cup {l}
  /\ slave' = IF l = "disk" THEN {l} ELSE slave
  /\ recent' = recent \cup {l}
  /\ stack' = Append(stack, Frame(l, IF Op = "hlt" THEN Tail(code) ELSE code))
  /\ code' = Isr(l)
  /\ on' = FALSE
  /\ UNCHANGED <<regs, call, done, ticked>>

-----------------------------------------------------------------------------
\* kmain has set the gates and the masks and runs the first program.
Init ==
  /\ regs = Own /\ stack = <<>> /\ code = <<>> /\ on = TRUE
  /\ call = None /\ done = {}
  /\ irr = {} /\ master = {} /\ slave = {}
  /\ ticked = TRUE /\ recent = {}

Instruction ==
  \/ Flag \/ Push \/ Pop \/ Drop \/ Load \/ Int80 \/ Iret
  \/ Serve \/ Sleep \/ Check \/ Execute \/ Answer \/ Handle \/ Eoi \/ Ret

Run ==
  /\ \/ Instruction
     \/ Op = "own" /\ \E c \in Calls : \E S \in Operands(c) : Call(c, S)
  /\ recent' = IF InIsr THEN recent ELSE {}

Next == Run \/ \E l \in Lines : Raise(l) \/ Accept(l)

\* The CPU runs and takes interrupts, and the timer ticks.
Fairness ==
  /\ WF_vars(Instruction /\ Run)
  /\ \A l \in Lines : WF_vars(Accept(l))
  /\ WF_vars(Raise("timer"))

Spec == Init /\ [][Next]_vars /\ Fairness

-----------------------------------------------------------------------------
(* Properties                                                              *)

TypeOK ==
  /\ DOMAIN regs = Registers
  /\ \A i \in DOMAIN stack : stack[i].kind \in {"word", "frame"}
  /\ on \in BOOLEAN /\ ticked \in BOOLEAN
  /\ call \in Calls \cup {None}
  /\ irr \subseteq Lines /\ master \subseteq Lines /\ slave \subseteq {"disk"}
  /\ recent \subseteq Lines

\* Whatever came in between, a handler returns to what it has interrupted,
\* with all its registers as they were; a system call may change eax.
Transparent ==
  /\ TypeOK
  /\ Op = "iret" =>
    /\ Top.kind = "frame"
    /\ \A r \in Registers : regs[r] = Top.was[r] \/ (r = "eax" /\ Top.by = "int")

\* Each library function gets the operation it is named for, and that alone,
\* with its own arguments, and its answer if there is one; and it returns with
\* its caller's stack and registers.
ServesCalls ==
  Op = "ret" =>
    /\ stack = <<>>
    /\ call \notin Careless => \A r \in CalleeSaved : regs[r] = r
    /\ call \notin Misfit =>
         /\ done = {Functions[call].meant}
         /\ Functions[call].meant[1] \in Answering => regs["eax"] = "answer"

\* What the PICs hold in service is what the running handlers have still to
\* end: no line stays blocked, and no handler ends another's interrupt.
Ahead(i) ==
  \/ \E k \in DOMAIN code : code[k] = i
  \/ \E j \in DOMAIN stack : stack[j].kind = "frame" /\ \E k \in DOMAIN stack[j].rest : stack[j].rest[k] = i

EndsMatch ==
  /\ master = {l \in Lines : Ahead(<<"eoi", "master", l>>)}
  /\ slave = {l \in {"disk"} : Ahead(<<"eoi", "slave", l>>)}

\* Interrupt handlers do not nest, and a program that runs can be interrupted:
\* its keys and ticks arrive.
Interruptible ==
  /\ InIsr => ~on
  /\ Op = "own" => on

\* Every call ends, in its program or in the next one, also one that sleeps.
CallsReturn == []<>(Op = "own")
=============================================================================
