-------------------------- MODULE InterruptsProofs --------------------------
(***************************************************************************)
(* The inductive invariant of Interrupts, for every library, and that of   *)
(* Keyboard, whose handler comes between the steps of its poll, for every  *)
(* buffer size, set of keys and number of presses.                         *)
(***************************************************************************)
EXTENDS Interrupts, Keyboard, SequenceTheorems, FiniteSetTheorems, TLAPS

IsSeq(s) == s \in Seq(ToSet(s))

\* The words above position n are copies of the registers in names.
Copies(st, n, names, was, d) == \A i \in 1 .. d : st[n + i] = Word(was[names[i]])

\* The registers rg are as they were, those in R.
IsRegs(rg) == rg = [r \in Registers |-> rg[r]]
Same(R, rg, was) == IsRegs(rg) /\ \A r \in R : rg[r] = was[r]

-----------------------------------------------------------------------------
(* The program, in a library function ca with operands in S, before its    *)
(* step k: its code, the stack, the registers and what has been done.      *)

SavedBy(ca, S) == SetToSeq(Saves(ca, S))

\* What the kernel is asked for.
Asked(ca, S) == Served([r \in Arguments |-> Loaded(ca, S)[r]])

Answered(dn) == {s[1] : s \in dn} \cap Answering # {}

Blurred(S) == [r \in Registers |-> IF r \in S THEN Unknown ELSE r]

InWrapper(c, st, rg, ca, dn, S, k) ==
  /\ c = SubSeq(Wrapper(ca, S), k, 6)
  /\ Len(st) = IF k \in 2 .. 5 THEN Len(SavedBy(ca, S)) ELSE 0
  /\ Copies(st, 0, SavedBy(ca, S), Own, Len(st))
  /\ k \in 1 .. 2 => rg = Own
  /\ k = 3 => rg = Blurred(S)
  /\ k = 4 => rg = Loaded(ca, S)
  /\ k \in 5 .. 6 => Same(Registers \ ({"eax"} \cup Saves(ca, S)), rg, Loaded(ca, S))
  /\ k = 5 => Same(Registers \ {"eax"}, rg, Loaded(ca, S))
  /\ k = 6 => Same(Saves(ca, S), rg, Own)
  /\ dn = IF k \in 5 .. 6 THEN Asked(ca, S) ELSE {}
  /\ k \in 5 .. 6 /\ Answered(dn) => rg["eax"] = "answer"

InProgram(c, st, rg, o, ca, dn) ==
  /\ o = TRUE
  /\ \/ c = <<>> /\ st = <<>> /\ rg = Own /\ ca = None /\ dn = {}
     \/ /\ ca \in Calls
        /\ \E S \in Operands(ca) : \E k \in 1 .. 6 : InWrapper(c, st, rg, ca, dn, S, k)

-----------------------------------------------------------------------------
(* The kernel, serving ca: before step j of isr80, whose frame is the n-th *)
(* item of the stack, with the waiting d still before it.                  *)

Names80 == PushSaved \o PushSegments \o PushArguments
Depth80 == <<0, 0, 6, 10, 16, 16, 16, 16, 16, 15, 10, 6, 0, 0>>
Copied80 == <<0, 0, 6, 10, 16, 16, 16, 15, 15, 15, 10, 6, 0, 0>>
Kept80(j) ==
  CASE j <= 5 -> Registers [] j \in 6 .. 11 -> {} [] j = 12 -> Segments [] OTHER -> Registers \ {"eax"}

Delays == {<<"sleep">>, <<"check">>, <<"hlt">>, <<"execute">>}
SomeDelays == Seq(Delays)

InSys(c, st, rg, o, ca, dn, S, n, j, d) ==
  /\ Len(st) = n + Depth80[j]
  /\ Len(SavedBy(ca, S)) = n - 1
  /\ Copies(st, 0, SavedBy(ca, S), Own, n - 1)
  /\ st[n] = [kind |-> "frame", by |-> "int", rest |-> SubSeq(Wrapper(ca, S), 5, 6),
              on |-> TRUE, was |-> Loaded(ca, S)]
  /\ c = d \o SubSeq(Isr80, j, 14)
  /\ d # <<>> => j = 8
  /\ j <= 6 => o = FALSE
  /\ j > 6 => o = TRUE
  /\ Copies(st, n, Names80, Loaded(ca, S), Copied80[j])
  /\ j \in 8 .. 9 =>
       st[n + 16] = Word(IF Answered(dn) THEN "answer" ELSE Loaded(ca, S)["eax"])
  /\ Same(Kept80(j), rg, Loaded(ca, S))
  /\ dn = IF j <= 7 THEN {} ELSE Asked(ca, S)
  /\ j >= 9 /\ Answered(dn) => rg["eax"] = "answer"

InKernel(c, st, rg, o, ca, dn) ==
  /\ ca \in Calls
  /\ \E S \in Operands(ca), n \in 1 .. Len(st), j \in 1 .. 14, d \in SomeDelays :
       InSys(c, st, rg, o, ca, dn, S, n, j, d)

\* Outside the interrupt handlers.
Outside(c, st, rg, o, ca, dn) ==
  /\ IsSeq(st)
  /\ InProgram(c, st, rg, o, ca, dn) \/ InKernel(c, st, rg, o, ca, dn)

-----------------------------------------------------------------------------
(* In the handler of l, before its step k: its frame is the n-th item.     *)

NamesIsr == Pushad \o PushSegments
DepthIsr == <<0, 0, 7, 11, 11, 11, 11, 11, 7, 0>>
KeptIsr(k) ==
  CASE k <= 4 -> Registers [] k \in 5 .. 8 -> {} [] k = 9 -> Segments [] OTHER -> Registers

MasterAt(l, k) == IF k <= 6 \/ (l = "disk" /\ k = 7) THEN {l} ELSE {}
SlaveAt(l, k) == IF l = "disk" /\ k <= 6 THEN {l} ELSE {}

InHandler(c, st, rg, ca, dn, l, n, k) ==
  /\ Len(st) = n + DepthIsr[k]
  /\ IsSeq(st)
  /\ st[n].kind = "frame"
  /\ st[n] = [kind |-> "frame", by |-> l, rest |-> st[n].rest, on |-> TRUE, was |-> st[n].was]
  /\ Outside(st[n].rest, SubSeq(st, 1, n - 1), st[n].was, TRUE, ca, dn)
  /\ c = SubSeq(Isr(l), k, 10)
  /\ Copies(st, n, NamesIsr, st[n].was, DepthIsr[k])
  /\ Same(KeptIsr(k), rg, st[n].was)

IInv ==
  /\ irr \subseteq Lines /\ recent \subseteq Lines /\ ticked \in BOOLEAN
  /\ \/ Outside(code, stack, regs, on, call, done) /\ master = {} /\ slave = {}
     \/ /\ on = FALSE
        /\ \E l \in Lines, n \in 1 .. Len(stack), k \in 1 .. 10 :
             /\ InHandler(code, stack, regs, call, done, l, n, k)
             /\ master = MasterAt(l, k) /\ slave = SlaveAt(l, k)

-----------------------------------------------------------------------------
(* Sequences.                                                              *)

(* Whatever is a sequence of some elements is one of its own.              *)
LEMMA SeqOwn ==
  ASSUME NEW T, NEW s \in Seq(T)
  PROVE  IsSeq(s)
<1>1. Len(s) \in Nat /\ DOMAIN s = 1 .. Len(s) /\ s \in [1 .. Len(s) -> T]
  BY LenProperties
<1>2. s \in [1 .. Len(s) -> ToSet(s)]
  BY <1>1 DEF ToSet
<1> QED
  BY <1>1, <1>2, SeqDef DEF IsSeq

(* What is next in a code, and what is left of it then.                    *)
LEMMA NextStep ==
  ASSUME NEW W, IsSeq(W), NEW k \in 1 .. Len(W), NEW c, c = SubSeq(W, k, Len(W))
  PROVE  /\ c # <<>> /\ Head(c) = W[k]
         /\ Tail(c) = SubSeq(W, k + 1, Len(W))
<1> DEFINE T == ToSet(W)
<1>1. W \in Seq(T)
  BY DEF IsSeq
<1> HIDE DEF T
<1>2. Len(W) \in Nat /\ k \in Int /\ k <= Len(W) /\ Len(W) \in k .. Len(W)
  BY <1>1, LenProperties
<1>3. Head(c) = W[k] /\ Tail(c) = SubSeq(W, k + 1, Len(W))
  BY <1>1, <1>2, HeadTailOfSubSeq
<1>4. \A i \in k .. Len(W) : W[i] \in T
  BY <1>1, <1>2, ElementOfSeq
<1>5. Len(c) = Len(W) - k + 1
  BY <1>1, <1>2
<1>6. c # <<>>
  <2>1. Len(c) # 0 /\ Len(<<>>) = 0
    BY <1>2, <1>5
  <2> QED
    BY <2>1
<1> QED
  BY <1>3, <1>6

-----------------------------------------------------------------------------
(* The codes, step by step.                                                *)

(* A library function.                                                     *)
LEMMA WrapperSteps ==
  ASSUME NEW ca, NEW S
  PROVE  /\ IsSeq(Wrapper(ca, S)) /\ Len(Wrapper(ca, S)) = 6
         /\ Wrapper(ca, S)[1] = <<"push", SavedBy(ca, S)>>
         /\ Wrapper(ca, S)[2] = <<"load", [r \in S |-> Unknown]>>
         /\ Wrapper(ca, S)[3] = <<"load", Functions[ca].loads>>
         /\ Wrapper(ca, S)[4] = <<"int">>
         /\ Wrapper(ca, S)[5] = <<"pop", Reverse(SavedBy(ca, S))>>
         /\ Wrapper(ca, S)[6] = <<"ret">>
<1>1. ASSUME NEW a1, NEW a2, NEW a3, NEW a4, NEW a5, NEW a6
      PROVE  <<a1, a2, a3, a4, a5, a6>> \in Seq({a1, a2, a3, a4, a5, a6})
  OBVIOUS
<1>2. PICK W : W = Wrapper(ca, S)
  OBVIOUS
<1>3. IsSeq(W)
  BY <1>1, <1>2, SeqOwn DEF Wrapper
<1>4. /\ Len(W) = 6 /\ W[1] = <<"push", SavedBy(ca, S)>>
      /\ W[2] = <<"load", [r \in S |-> Unknown]>> /\ W[3] = <<"load", Functions[ca].loads>>
      /\ W[4] = <<"int">> /\ W[5] = <<"pop", Reverse(SavedBy(ca, S))>> /\ W[6] = <<"ret">>
  BY <1>2 DEF Wrapper, SavedBy
<1> QED
  BY <1>2, <1>3, <1>4, Zenon

(* The handler of a line.                                                  *)
LEMMA HandlerSteps ==
  ASSUME NEW l, NEW W, W = Isr(l)
  PROVE  /\ IsSeq(W) /\ Len(W) = 10
         /\ W[1] = <<"cli">>
         /\ W[2] = <<"push", Pushad>>
         /\ W[3] = <<"push", PushSegments>>
         /\ W[4] = <<"load", KernelData>>
         /\ W[5] = <<"handle", l>>
         /\ W[6] = IF l = "disk" THEN <<"eoi", "slave", l>> ELSE <<"eoi", "master", l>>
         /\ W[7] = IF l = "disk" THEN <<"eoi", "master", l>> ELSE <<"eoi", "slave", l>>
         /\ W[8] = <<"pop", Reverse(PushSegments)>>
         /\ W[9] = <<"pop", Reverse(Pushad)>>
         /\ W[10] = <<"iret">>
<1>1. ASSUME NEW a1, NEW a2, NEW a3, NEW a4, NEW a5, NEW b1, NEW b2, NEW c1, NEW c2, NEW c3,
             W = <<a1, a2, a3, a4, a5>> \o <<b1, b2>> \o <<c1, c2, c3>>
      PROVE  W \in Seq({a1, a2, a3, a4, a5, b1, b2, c1, c2, c3})
  BY <1>1
<1>2. IsSeq(W)
  <2>1. CASE l = "disk"
    <3>1. Ends(l) = <<<<"eoi", "slave", l>>, <<"eoi", "master", l>>>>
      BY <2>1 DEF Ends
    <3> QED
      BY <1>1, <3>1, SeqOwn DEF Isr
  <2>2. CASE l # "disk"
    <3>1. Ends(l) = <<<<"eoi", "master", l>>, <<"eoi", "slave", l>>>>
      BY <2>2 DEF Ends
    <3> QED
      BY <1>1, <3>1, SeqOwn DEF Isr
  <2> QED
    BY <2>1, <2>2
<1>3. CASE l = "disk"
  BY <1>2, <1>3 DEF Isr, Ends
<1>4. CASE l # "disk"
  BY <1>2, <1>4 DEF Isr, Ends
<1> QED
  BY <1>3, <1>4

(* The system call.                                                        *)
LEMMA KernelSteps ==
  ASSUME NEW W, W = Isr80
  PROVE  /\ IsSeq(W) /\ Len(W) = 14
         /\ W[1] = <<"cli">>
         /\ W[2] = <<"push", PushSaved>>
         /\ W[3] = <<"push", PushSegments>>
         /\ W[4] = <<"push", PushArguments>>
         /\ W[5] = <<"load", KernelData>>
         /\ W[6] = <<"sti">>
         /\ W[7] = <<"serve">>
         /\ W[8] = <<"answer">>
         /\ W[9] = <<"drop">>
         /\ W[10] = <<"pop", Tail(Reverse(PushArguments))>>
         /\ W[11] = <<"pop", Reverse(PushSegments)>>
         /\ W[12] = <<"pop", Reverse(PushSaved)>>
         /\ W[13] = <<"sti">>
         /\ W[14] = <<"iret">>
<1>1. ASSUME NEW a1, NEW a2, NEW a3, NEW a4, NEW a5, NEW b1, NEW b2, NEW b3,
             NEW c1, NEW c2, NEW c3, NEW c4, NEW c5, NEW c6,
             W = <<a1, a2, a3, a4, a5>> \o <<b1, b2, b3>> \o <<c1, c2, c3, c4, c5, c6>>
      PROVE  W \in Seq({a1, a2, a3, a4, a5, b1, b2, b3, c1, c2, c3, c4, c5, c6})
  BY <1>1
<1>2. IsSeq(W)
  BY <1>1, SeqOwn, ZenonT(60) DEF Isr80, Handler
<1> QED
  BY <1>2 DEF Isr80, Handler

-----------------------------------------------------------------------------
(* Registers that go to the stack and come back.                           *)

(* A sequence, read from its end.                                          *)
LEMMA Reversed ==
  ASSUME NEW s, IsSeq(s)
  PROVE  /\ IsSeq(Reverse(s)) /\ Len(Reverse(s)) = Len(s)
         /\ \A i \in 1 .. Len(s) : Reverse(s)[i] = s[Len(s) - i + 1]
<1> DEFINE T == ToSet(s)
<1>1. s \in Seq(T)
  BY DEF IsSeq
<1> HIDE DEF T
<1>2. /\ Reverse(s) \in Seq(T) /\ Len(Reverse(s)) = Len(s)
      /\ \A i \in 1 .. Len(s) : Reverse(s)[i] = s[Len(s) - i + 1]
  BY <1>1 DEF Reverse
<1> QED
  BY <1>2, SeqOwn

(* What is below stays when the stack grows.                               *)
LEMMA Below ==
  ASSUME NEW st, IsSeq(st), NEW su, IsSeq(su), NEW m \in Nat, m <= Len(st), m <= Len(su),
         \A i \in 1 .. m : su[i] = st[i]
  PROVE  SubSeq(su, 1, m) = SubSeq(st, 1, m)
<1> DEFINE T == ToSet(st) \cup ToSet(su)
<1>1. st \in Seq(T) /\ su \in Seq(T)
  BY SeqMonotonic DEF IsSeq
<1> HIDE DEF T
<1>2. /\ SubSeq(su, 1, m) \in Seq(T) /\ SubSeq(st, 1, m) \in Seq(T)
      /\ Len(SubSeq(su, 1, m)) = m /\ Len(SubSeq(st, 1, m)) = m
      /\ \A i \in 1 .. m : SubSeq(su, 1, m)[i] = su[i] /\ SubSeq(st, 1, m)[i] = st[i]
  BY <1>1
<1> QED
  BY <1>2, SeqEqual

(* The stack with its end taken off.                                       *)
LEMMA Shorter ==
  ASSUME NEW st, IsSeq(st), NEW m \in Nat, m <= Len(st)
  PROVE  /\ IsSeq(SubSeq(st, 1, m)) /\ Len(SubSeq(st, 1, m)) = m
         /\ \A i \in 1 .. m : SubSeq(st, 1, m)[i] = st[i]
<1> DEFINE T == ToSet(st)
<1>1. st \in Seq(T)
  BY DEF IsSeq
<1> HIDE DEF T
<1>2. /\ SubSeq(st, 1, m) \in Seq(T) /\ Len(SubSeq(st, 1, m)) = m
      /\ \A i \in 1 .. m : SubSeq(st, 1, m)[i] = st[i]
  BY <1>1
<1> QED
  BY <1>2, SeqOwn

(* The stack with one item more.                                           *)
LEMMA Longer ==
  ASSUME NEW st, IsSeq(st), NEW e
  PROVE  /\ IsSeq(Append(st, e)) /\ Len(Append(st, e)) = Len(st) + 1 /\ Len(st) \in Nat
         /\ Append(st, e)[Len(st) + 1] = e
         /\ \A i \in 1 .. Len(st) : Append(st, e)[i] = st[i]
         /\ SubSeq(Append(st, e), 1, Len(st)) = st
<1> DEFINE T == ToSet(st) \cup {e}
<1>1. st \in Seq(T)
  BY SeqMonotonic DEF IsSeq
<1>2. e \in T
  OBVIOUS
<1> HIDE DEF T
<1>3. PICK su : su = Append(st, e)
  OBVIOUS
<1>4. /\ su \in Seq(T) /\ Len(su) = Len(st) + 1 /\ Len(st) \in Nat
      /\ su[Len(st) + 1] = e /\ \A i \in 1 .. Len(st) : su[i] = st[i]
  BY <1>1, <1>2, <1>3
<1>5. SubSeq(su, 1, Len(st)) = SubSeq(st, 1, Len(st))
  BY <1>1, <1>4, SeqOwn, Below
<1>6. SubSeq(st, 1, Len(st)) = st
  BY <1>1, SubSeqFull
<1>7. IsSeq(su) /\ SubSeq(su, 1, Len(st)) = st
  BY <1>4, <1>5, <1>6, SeqOwn
<1> QED
  BY <1>3, <1>4, <1>7, Zenon

(* Two sequences in a row.                                                 *)
LEMMA Joined ==
  ASSUME NEW T, NEW A \in Seq(T), NEW B \in Seq(T)
  PROVE  /\ A \o B \in Seq(T) /\ Len(A \o B) = Len(A) + Len(B)
         /\ \A i \in 1 .. Len(A) : (A \o B)[i] = A[i]
         /\ \A i \in 1 .. Len(B) : (A \o B)[Len(A) + i] = B[i]
  OBVIOUS

(* The registers in q are pushed.                                          *)
LEMMA PushCopies ==
  ASSUME NEW st, IsSeq(st), NEW n \in Nat, NEW d \in Nat, Len(st) = n + d,
         NEW names, NEW was, Copies(st, n, names, was, d),
         NEW m \in Nat, NEW w, IsSeq(w), Len(w) = m,
         \A i \in 1 .. m : w[i] = Word(was[names[d + i]])
  PROVE  /\ IsSeq(st \o w) /\ Len(st \o w) = n + (d + m)
         /\ Copies(st \o w, n, names, was, d + m)
         /\ \A i \in 1 .. n : (st \o w)[i] = st[i]
<1> DEFINE T == ToSet(st) \cup ToSet(w)
<1>1. st \in Seq(T) /\ w \in Seq(T)
  BY SeqMonotonic DEF IsSeq
<1> HIDE DEF T
<1>2. PICK su : su = st \o w
  OBVIOUS
<1>3. /\ su \in Seq(T) /\ Len(su) = n + d + m
      /\ \A i \in 1 .. n + d : su[i] = st[i]
      /\ \A i \in 1 .. m : su[n + d + i] = w[i]
  <2>1. /\ st \o w \in Seq(T) /\ Len(st \o w) = Len(st) + Len(w)
        /\ \A i \in 1 .. Len(st) : (st \o w)[i] = st[i]
        /\ \A i \in 1 .. Len(w) : (st \o w)[Len(st) + i] = w[i]
    BY ONLY <1>1, Joined
  <2>2. /\ su \in Seq(T) /\ Len(su) = Len(st) + Len(w)
        /\ \A i \in 1 .. Len(st) : su[i] = st[i]
        /\ \A i \in 1 .. Len(w) : su[Len(st) + i] = w[i]
    BY <1>2, <2>1, Zenon
  <2> QED
    BY <2>2
<1>4. ASSUME NEW i \in 1 .. d + m PROVE su[n + i] = Word(was[names[i]])
  <2>1. CASE i <= d
    BY <1>3, <2>1 DEF Copies
  <2>2. CASE ~(i <= d)
    <3>1. i - d \in 1 .. m /\ n + d + (i - d) = n + i /\ d + (i - d) = i
      BY <2>2
    <3>2. su[n + i] = w[i - d]
      BY <1>3, <3>1
    <3>3. w[i - d] = Word(was[names[d + (i - d)]])
      BY <3>1
    <3> QED
      BY <3>1, <3>2, <3>3
  <2> QED
    BY <2>1, <2>2
<1>5. IsSeq(su) /\ Len(su) = n + (d + m) /\ \A i \in 1 .. n : su[i] = st[i]
  BY <1>3, SeqOwn
<1>6. Copies(su, n, names, was, d + m)
  BY <1>4 DEF Copies
<1> QED
  BY <1>2, <1>5, <1>6

(* What a handler pushes.                                                  *)
LEMMA NamesOfHandler ==
  /\ IsSeq(Pushad) /\ Len(Pushad) = 7 /\ IsSeq(PushSegments) /\ Len(PushSegments) = 4
  /\ \A i \in 1 .. 7 : NamesIsr[i] = Pushad[i] /\ Pushad[i] \in Registers \ Segments
  /\ \A i \in 1 .. 4 : NamesIsr[7 + i] = PushSegments[i] /\ PushSegments[i] \in Segments
  /\ \A r \in Registers \ Segments : \E i \in 1 .. 7 : Pushad[i] = r
  /\ \A r \in Segments : \E i \in 1 .. 4 : PushSegments[i] = r
<1> DEFINE T == Registers
<1> HIDE DEF T
<1>1. Pushad \in Seq(T) /\ Len(Pushad) = 7 /\ PushSegments \in Seq(T) /\ Len(PushSegments) = 4
  BY DEF T, Pushad, PushSegments, Registers, CallUsed, CalleeSaved, Segments
<1>2. /\ \A i \in 1 .. 7 : Pushad[i] \in Registers \ Segments
      /\ \A i \in 1 .. 4 : PushSegments[i] \in Segments
  BY DEF Pushad, PushSegments, Registers, CallUsed, CalleeSaved, Segments
<1>3. \A r \in Registers \ Segments : \E i \in 1 .. 7 : Pushad[i] = r
  BY DEF Pushad, Registers, CallUsed, CalleeSaved, Segments
<1>4. \A r \in Segments : \E i \in 1 .. 4 : PushSegments[i] = r
  BY DEF PushSegments, Segments
<1>5. /\ \A i \in 1 .. 7 : NamesIsr[i] = Pushad[i]
      /\ \A i \in 1 .. 4 : NamesIsr[7 + i] = PushSegments[i]
  BY DEF NamesIsr, Pushad, PushSegments
<1> QED
  BY <1>1, <1>2, <1>3, <1>4, <1>5, SeqOwn

(* What a system call pushes.                                              *)
LEMMA NamesOfCall ==
  /\ IsSeq(PushSaved) /\ Len(PushSaved) = 6 /\ IsSeq(PushArguments) /\ Len(PushArguments) = 6
  /\ \A i \in 1 .. 6 : Names80[i] = PushSaved[i]
  /\ \A i \in 1 .. 6 : PushSaved[i] \in Registers \ (Segments \cup {"eax"})
  /\ \A i \in 1 .. 4 : Names80[6 + i] = PushSegments[i]
  /\ \A i \in 1 .. 6 : Names80[10 + i] = PushArguments[i]
  /\ \A i \in 1 .. 6 : PushArguments[i] \in Registers
  /\ \A i \in 1 .. 5 : PushArguments[i] # "eax"
  /\ PushArguments[6] = "eax"
  /\ \A r \in Registers \ (Segments \cup {"eax"}) : \E i \in 1 .. 6 : PushSaved[i] = r
  /\ ToSet(PushArguments) = Arguments
<1> DEFINE T == Registers
<1> HIDE DEF T
<1>1. /\ PushSaved \in Seq(T) /\ Len(PushSaved) = 6
      /\ PushArguments \in Seq(T) /\ Len(PushArguments) = 6
      /\ PushSegments \in Seq(T) /\ Len(PushSegments) = 4
  BY DEF T, PushSaved, PushArguments, PushSegments, Registers, CallUsed, CalleeSaved, Segments
<1>2. \A i \in 1 .. 6 : PushSaved[i] \in Registers \ (Segments \cup {"eax"})
  BY DEF PushSaved, Registers, CallUsed, CalleeSaved, Segments
<1>3. /\ \A i \in 1 .. 6 : PushArguments[i] \in Registers
      /\ \A i \in 1 .. 5 : PushArguments[i] # "eax"
      /\ PushArguments[6] = "eax"
  BY DEF PushArguments, Registers, CallUsed, CalleeSaved, Segments
<1>4. \A r \in Registers \ (Segments \cup {"eax"}) : \E i \in 1 .. 6 : PushSaved[i] = r
  BY DEF PushSaved, Registers, CallUsed, CalleeSaved, Segments
<1>5. \A i \in 1 .. 6 : Names80[i] = PushSaved[i]
  BY DEF Names80, PushSaved, PushSegments, PushArguments
<1>6. \A i \in 1 .. 4 : Names80[6 + i] = PushSegments[i]
  BY DEF Names80, PushSaved, PushSegments, PushArguments
<1>7. \A i \in 1 .. 6 : Names80[10 + i] = PushArguments[i]
  BY DEF Names80, PushSaved, PushSegments, PushArguments
<1>8. ToSet(PushArguments) = Arguments
  BY DEF ToSet, PushArguments, Arguments
<1> QED
  BY <1>1, <1>2, <1>3, <1>4, <1>5, <1>6, <1>7, <1>8, SeqOwn

-----------------------------------------------------------------------------
(* The instructions.                                                       *)

(* The next instruction says which action is taken.                        *)
LEMMA WhichInstruction ==
  ASSUME Instruction
  PROVE  /\ Op \in {"cli", "sti"} => Flag
         /\ Op = "push" => Push
         /\ Op = "pop" => Pop
         /\ Op = "drop" => Drop
         /\ Op = "load" => Load
         /\ Op = "int" => Int80
         /\ Op = "iret" => Iret
         /\ Op = "serve" => Serve
         /\ Op = "sleep" => Sleep
         /\ Op = "check" => Check
         /\ Op = "execute" => Execute
         /\ Op = "answer" => Answer
         /\ Op = "handle" => Handle
         /\ Op = "eoi" => Eoi
         /\ Op = "ret" => Ret
         /\ Op # "own" /\ Op # "hlt"
<1>1. (Flag => Op \in {"cli", "sti"}) /\ (Push => Op = "push") /\ (Pop => Op = "pop")
  BY DEF Flag, Push, Pop
<1>2. (Drop => Op = "drop") /\ (Load => Op = "load") /\ (Int80 => Op = "int")
  BY DEF Drop, Load, Int80
<1>3. (Iret => Op = "iret") /\ (Serve => Op = "serve") /\ (Sleep => Op = "sleep")
  BY DEF Iret, Serve, Sleep
<1>4. (Check => Op = "check") /\ (Execute => Op = "execute") /\ (Answer => Op = "answer")
  BY DEF Check, Execute, Answer
<1>5. (Handle => Op = "handle") /\ (Eoi => Op = "eoi") /\ (Ret => Op = "ret")
  BY DEF Handle, Eoi, Ret
<1> QED
  BY <1>1, <1>2, <1>3, <1>4, <1>5 DEF Instruction

(* The next instruction, where something is left of the code.              *)
LEMMA NextOp ==
  ASSUME NEW W, IsSeq(W), NEW k \in 1 .. Len(W), code = SubSeq(W, k, Len(W))
  PROVE  Op = W[k][1] /\ Of = W[k][2] /\ code # <<>> /\ Tail(code) = SubSeq(W, k + 1, Len(W))
<1>1. code # <<>> /\ Head(code) = W[k] /\ Tail(code) = SubSeq(W, k + 1, Len(W))
  BY NextStep
<1> QED
  BY <1>1 DEF Op, Of

-----------------------------------------------------------------------------
(* In an interrupt handler.                                                *)

(* One step further: what it has interrupted is not touched.               *)
LEMMA HandlerMoves ==
  ASSUME NEW c, NEW st, NEW rg, NEW ca, NEW dn, NEW l, NEW n \in Nat \ {0}, NEW k \in 1 .. 9,
         InHandler(c, st, rg, ca, dn, l, n, k),
         NEW su, IsSeq(su), Len(su) = n + DepthIsr[k + 1], \A i \in 1 .. n : su[i] = st[i],
         Copies(su, n, NamesIsr, st[n].was, DepthIsr[k + 1]),
         NEW rh, Same(KeptIsr(k + 1), rh, st[n].was)
  PROVE  InHandler(Tail(c), su, rh, ca, dn, l, n, k + 1)
<1>1. Tail(c) = SubSeq(Isr(l), k + 1, 10)
  <2>1. PICK W : W = Isr(l)
    OBVIOUS
  <2>2. IsSeq(W) /\ Len(W) = 10
    BY <2>1, HandlerSteps
  <2>3. k \in 1 .. Len(W) /\ c = SubSeq(W, k, Len(W))
    BY <2>1, <2>2 DEF InHandler
  <2>4. Tail(c) = SubSeq(W, k + 1, Len(W))
    BY ONLY <2>2, <2>3, NextStep
  <2> QED
    BY <2>1, <2>2, <2>4
<1>2. su[n] = st[n]
  OBVIOUS
<1>3. DepthIsr[k] \in Nat /\ DepthIsr[k + 1] \in Nat
  BY SMTT(30) DEF DepthIsr
<1>4. SubSeq(su, 1, n - 1) = SubSeq(st, 1, n - 1)
  <2>1. PICK m : m = n - 1
    OBVIOUS
  <2>2. m \in Nat /\ \A i \in 1 .. m : su[i] = st[i]
    BY <2>1
  <2>3. m <= Len(st) /\ m <= Len(su)
    <3>1. PICK d : d = DepthIsr[k]
      OBVIOUS
    <3>2. PICK e : e = DepthIsr[k + 1]
      OBVIOUS
    <3>3. d \in Nat /\ e \in Nat /\ Len(st) = n + d /\ Len(su) = n + e
      BY <1>3, <3>1, <3>2 DEF InHandler
    <3> QED
      BY <2>1, <3>3
  <2>4. SubSeq(su, 1, m) = SubSeq(st, 1, m)
    BY <2>2, <2>3, Below DEF InHandler
  <2> QED
    BY <2>1, <2>4
<1> QED
  BY <1>1, <1>2, <1>4 DEF InHandler

(* The next instruction of a handler.                                      *)
LEMMA HandlerNext ==
  ASSUME NEW st, NEW rg, NEW ca, NEW dn, NEW l, NEW n, NEW k \in 1 .. 10,
         InHandler(code, st, rg, ca, dn, l, n, k)
  PROVE  Op = Isr(l)[k][1] /\ Of = Isr(l)[k][2] /\ code # <<>>
<1>1. IsSeq(Isr(l)) /\ Len(Isr(l)) = 10
  BY HandlerSteps
<1>2. code = SubSeq(Isr(l), k, Len(Isr(l)))
  BY <1>1 DEF InHandler
<1> QED
  BY <1>1, <1>2, NextOp

\* Where the program is interrupted, or in which handler.
Placed ==
  \/ Outside(code, stack, regs, on, call, done) /\ master = {} /\ slave = {}
  \/ /\ on = FALSE
     /\ \E l \in Lines, n \in 1 .. Len(stack), k \in 1 .. 10 :
          /\ InHandler(code, stack, regs, call, done, l, n, k)
          /\ master = MasterAt(l, k) /\ slave = SlaveAt(l, k)

(* The words that a pop takes.                                             *)
LEMMA PoppedWords ==
  ASSUME IsSeq(stack), NEW m \in Nat, m <= Len(stack)
  PROVE  \A i \in 1 .. m : Reverse(Words(m))[i] = stack[Len(stack) - i + 1].is
<1>1. PICK v : v = Words(m)
  OBVIOUS
<1>2. Len(stack) \in Nat
  BY LenProperties DEF IsSeq
<1>3. Len(v) = m /\ \A i \in 1 .. m : v[i] = stack[Len(stack) - m + i].is
  BY <1>1 DEF Words
<1>4. \A i \in 1 .. m : Reverse(v)[i] = v[m - i + 1]
  BY <1>3 DEF Reverse
<1>5. ASSUME NEW i \in 1 .. m PROVE Reverse(v)[i] = stack[Len(stack) - i + 1].is
  <2>1. m - i + 1 \in 1 .. m /\ Len(stack) - m + (m - i + 1) = Len(stack) - i + 1
    BY <1>2
  <2> QED
    BY <1>3, <1>4, <2>1
<1> QED
  BY <1>1, <1>5

(* A sequence read from its end has the same items.                        *)
LEMMA LastFirst ==
  ASSUME NEW m \in Nat, NEW p, NEW q, \A i \in 1 .. m : q[i] = p[m - i + 1]
  PROVE  \A r : (\E i \in 1 .. m : p[i] = r) => \E i \in 1 .. m : q[i] = r
<1> SUFFICES ASSUME NEW i \in 1 .. m PROVE \E j \in 1 .. m : q[j] = p[i]
  OBVIOUS
<1>1. m - i + 1 \in 1 .. m /\ m - (m - i + 1) + 1 = i
  OBVIOUS
<1>2. q[m - i + 1] = p[i]
  BY <1>1
<1> QED
  BY <1>1, <1>2

(* Outside the handlers there are registers.                               *)
LEMMA OutsideRegisters ==
  ASSUME NEW c, NEW st, NEW rg, NEW o, NEW ca, NEW dn, Outside(c, st, rg, o, ca, dn)
  PROVE  IsRegs(rg)
<1>1. CASE InProgram(c, st, rg, o, ca, dn)
  <2>1. IsRegs(Own) /\ \A S : IsRegs(Blurred(S))
    BY DEF Own, Blurred, IsRegs
  <2>2. \A a, S : IsRegs(Loaded(a, S))
    BY DEF Loaded, IsRegs
  <2>3. ASSUME NEW S, NEW k \in 1 .. 6, InWrapper(c, st, rg, ca, dn, S, k)
        PROVE  IsRegs(rg)
    <3>1. k \in 1 .. 2 \/ k = 3 \/ k = 4 \/ k \in 5 .. 6
      OBVIOUS
    <3> QED
      BY <2>1, <2>2, <2>3, <3>1 DEF InWrapper, Same
  <2> QED
    BY <1>1, <2>1, <2>3 DEF InProgram
<1>2. CASE InKernel(c, st, rg, o, ca, dn)
  BY <1>2 DEF InKernel, InSys, Same
<1> QED
  BY <1>1, <1>2 DEF Outside

\* Above its n-th item the stack st holds d copies.
Holds(st, n, d, names, was) == IsSeq(st) /\ Len(st) = n + d /\ Copies(st, n, names, was, d)

\* The registers in p are to be the next m copies.
Following(p, m, d, names, was) ==
  /\ IsSeq(p) /\ Len(p) = m
  /\ \A i \in 1 .. m : names[d + i] = p[i] /\ regs[p[i]] = was[p[i]]

\* The registers in p are the last m copies, and those in R.
Latest(p, m, d, names, R) ==
  /\ IsSeq(p) /\ Len(p) = m /\ m <= d
  /\ \A i \in 1 .. m : names[(d - m) + i] = p[i] /\ p[i] \in R
  /\ \A r \in R : \E i \in 1 .. m : p[i] = r

\* The registers in q are these, from the top.
Uppermost(q, m, d, names, R) ==
  /\ IsSeq(q) /\ Len(q) = m /\ m <= d
  /\ \A i \in 1 .. m : q[i] = names[d - i + 1] /\ q[i] \in R
  /\ \A r \in R : \E i \in 1 .. m : q[i] = r

\* An instruction leaves d copies, and what is below them.
Leaves(n, d, names, was) ==
  Holds(stack', n, d, names, was) /\ \A i \in 1 .. n : stack'[i] = stack[i]

\* It gives the registers in R back, and leaves the others.
Restores(R, was) ==
  /\ IsRegs(regs')
  /\ \A r \in R \cap Registers : regs'[r] = was[r]
  /\ \A r \in Registers \ R : regs'[r] = regs[r]

(* Registers are pushed that are as they were.                             *)
LEMMA PushDoes ==
  ASSUME Push, NEW n \in Nat, NEW d \in Nat, NEW m \in Nat, NEW names, NEW was,
         Holds(stack, n, d, names, was), Following(Of, m, d, names, was)
  PROVE  Leaves(n, d + m, names, was)
<1>0. /\ IsSeq(stack) /\ Len(stack) = n + d /\ Copies(stack, n, names, was, d)
      /\ IsSeq(Of) /\ Len(Of) = m
      /\ \A i \in 1 .. m : names[d + i] = Of[i] /\ regs[Of[i]] = was[Of[i]]
  BY DEF Holds, Following
<1>1. PICK q : q = Of
  OBVIOUS
<1>2. PICK w : w = [i \in DOMAIN q |-> Word(regs[q[i]])]
  OBVIOUS
<1>3. stack' = stack \o w
  BY <1>1, <1>2 DEF Push
<1>4. DOMAIN q = 1 .. m
  BY <1>0, <1>1, LenProperties DEF IsSeq
<1>5. /\ w \in Seq({w[i] : i \in 1 .. m}) /\ Len(w) = m
      /\ \A i \in 1 .. m : w[i] = Word(regs[q[i]])
  BY <1>2, <1>4
<1>6. IsSeq(w)
  BY <1>5, SeqOwn
<1>7. \A i \in 1 .. m : w[i] = Word(was[names[d + i]])
  BY <1>0, <1>1, <1>5
<1>8. /\ IsSeq(stack \o w) /\ Len(stack \o w) = n + (d + m)
      /\ Copies(stack \o w, n, names, was, d + m)
      /\ \A i \in 1 .. n : (stack \o w)[i] = stack[i]
  BY <1>0, <1>5, <1>6, <1>7, PushCopies
<1> QED
  <2>1. /\ IsSeq(stack') /\ Len(stack') = n + (d + m)
        /\ Copies(stack', n, names, was, d + m)
        /\ \A i \in 1 .. n : stack'[i] = stack[i]
    BY <1>3, <1>8, Zenon
  <2> QED
    BY <2>1 DEF Leaves, Holds

(* Registers that were pushed are popped.                                  *)
LEMMA PopDoes ==
  ASSUME Pop, NEW n \in Nat, NEW d \in Nat, NEW m \in Nat, NEW names, NEW was, NEW R,
         Holds(stack, n, d, names, was), Uppermost(Of, m, d, names, R)
  PROVE  Leaves(n, d - m, names, was) /\ Restores(R, was)
<1>0. /\ IsSeq(stack) /\ Len(stack) = n + d /\ Copies(stack, n, names, was, d)
      /\ IsSeq(Of) /\ Len(Of) = m /\ m <= d
      /\ \A i \in 1 .. m : Of[i] = names[d - i + 1] /\ Of[i] \in R
      /\ \A r \in R : \E i \in 1 .. m : Of[i] = r
  BY DEF Holds, Uppermost
<1>1. PICK w : w = Reverse(Words(m))
  OBVIOUS
<1>2. PICK q : q = Of
  OBVIOUS
<1>3. DOMAIN q = 1 .. m
  BY <1>0, <1>2, LenProperties DEF IsSeq
<1>4. /\ stack' = SubSeq(stack, 1, Len(stack) - m)
      /\ regs' = [r \in Registers |-> IF \E i \in 1 .. m : q[i] = r
                                      THEN w[CHOOSE i \in 1 .. m : q[i] = r] ELSE regs[r]]
  BY <1>0, <1>1, <1>2, <1>3 DEF Pop
<1>5. \A i \in 1 .. m : w[i] = stack[Len(stack) - i + 1].is
  <2>1. m <= Len(stack)
    BY <1>0
  <2> QED
    BY <1>0, <1>1, <2>1, PoppedWords
<1>6. /\ IsSeq(stack') /\ Len(stack') = n + (d - m)
      /\ Copies(stack', n, names, was, d - m)
      /\ \A i \in 1 .. n : stack'[i] = stack[i]
      /\ \A i \in 1 .. m : stack[Len(stack) - i + 1].is = was[names[d - i + 1]]
  <2>1. PICK k : k = Len(stack) - m
    OBVIOUS
  <2>2. k \in Nat /\ k <= Len(stack) /\ k = n + (d - m)
    BY <1>0, <2>1
  <2>3. stack' = SubSeq(stack, 1, k)
    BY <1>4, <2>1, Zenon
  <2>4. IsSeq(stack') /\ Len(stack') = k /\ \A i \in 1 .. k : stack'[i] = stack[i]
    BY <1>0, <2>2, <2>3, Shorter
  <2>5. Copies(stack', n, names, was, d - m) /\ \A i \in 1 .. n : stack'[i] = stack[i]
    BY <1>0, <2>2, <2>4 DEF Copies
  <2>6. ASSUME NEW i \in 1 .. m PROVE stack[Len(stack) - i + 1].is = was[names[d - i + 1]]
    <3>0. Len(stack) = n + d /\ m <= d
      BY <1>0
    <3>1. d - i + 1 \in 1 .. d /\ n + (d - i + 1) = Len(stack) - i + 1
      BY <3>0
    <3>2. stack[n + (d - i + 1)] = Word(was[names[d - i + 1]])
      BY <1>0, <3>1 DEF Copies
    <3> QED
      BY <3>1, <3>2 DEF Word
  <2> QED
    BY <2>2, <2>4, <2>5, <2>6
<1>7. ASSUME NEW i \in 1 .. m PROVE w[i] = was[q[i]]
  <2>1. q[i] = names[d - i + 1]
    BY <1>0, <1>2
  <2> QED
    BY <1>5, <1>6, <2>1
<1>8. ASSUME NEW r \in R \cap Registers PROVE regs'[r] = was[r]
  <2>1. PICK j : j = CHOOSE i \in 1 .. m : q[i] = r
    OBVIOUS
  <2>2. j \in 1 .. m /\ q[j] = r
    BY <1>0, <1>2, <1>8, <2>1
  <2>3. regs'[r] = w[j]
    BY <1>4, <2>1, <2>2
  <2> QED
    BY <1>7, <2>2, <2>3
<1>9. ASSUME NEW r \in Registers \ R PROVE regs'[r] = regs[r]
  BY <1>0, <1>2, <1>4
<1>10. IsRegs(regs')
  BY <1>4 DEF IsRegs
<1> QED
  BY <1>6, <1>8, <1>9, <1>10 DEF Leaves, Holds, Restores

(* Registers in the order they leave the stack.                            *)
LEMMA OffTheStack ==
  ASSUME NEW p, NEW m \in Nat, NEW d \in Nat, NEW names, NEW R, Latest(p, m, d, names, R)
  PROVE  Uppermost(Reverse(p), m, d, names, R)
<1>0. /\ IsSeq(p) /\ Len(p) = m /\ m <= d
      /\ \A i \in 1 .. m : names[(d - m) + i] = p[i] /\ p[i] \in R
      /\ \A r \in R : \E i \in 1 .. m : p[i] = r
  BY DEF Latest
<1>1. PICK q : q = Reverse(p)
  OBVIOUS
<1>2. IsSeq(q) /\ Len(q) = m /\ \A i \in 1 .. m : q[i] = p[m - i + 1]
  <2>1. /\ IsSeq(Reverse(p)) /\ Len(Reverse(p)) = Len(p)
        /\ \A i \in 1 .. Len(p) : Reverse(p)[i] = p[Len(p) - i + 1]
    BY <1>0, Reversed, Zenon
  <2> QED
    BY <1>0, <1>1, <2>1
<1>3. ASSUME NEW i \in 1 .. m PROVE q[i] = names[d - i + 1] /\ q[i] \in R
  <2>1. m - i + 1 \in 1 .. m /\ (d - m) + (m - i + 1) = d - i + 1
    OBVIOUS
  <2>2. names[(d - m) + (m - i + 1)] = p[m - i + 1] /\ p[m - i + 1] \in R
    BY <1>0, <2>1
  <2> QED
    BY <1>2, <2>1, <2>2
<1>4. \A r \in R : \E i \in 1 .. m : q[i] = r
  BY <1>0, <1>2, LastFirst
<1> QED
  BY <1>0, <1>1, <1>2, <1>3, <1>4 DEF Uppermost

(* How deep the stack of a handler is, and what registers it keeps.        *)
LEMMA HandlerTable ==
  /\ DepthIsr[1] = 0 /\ DepthIsr[2] = 0 /\ DepthIsr[3] = 7 /\ DepthIsr[4] = 11 /\ DepthIsr[5] = 11
  /\ DepthIsr[6] = 11 /\ DepthIsr[7] = 11 /\ DepthIsr[8] = 11 /\ DepthIsr[9] = 7 /\ DepthIsr[10] = 0
  /\ KeptIsr(1) = Registers /\ KeptIsr(2) = Registers /\ KeptIsr(3) = Registers
  /\ KeptIsr(4) = Registers /\ KeptIsr(5) = {} /\ KeptIsr(6) = {} /\ KeptIsr(7) = {}
  /\ KeptIsr(8) = {} /\ KeptIsr(9) = Segments /\ KeptIsr(10) = Registers
<1>1. /\ DepthIsr[1] = 0 /\ DepthIsr[2] = 0 /\ DepthIsr[3] = 7 /\ DepthIsr[4] = 11 /\ DepthIsr[5] = 11
      /\ DepthIsr[6] = 11 /\ DepthIsr[7] = 11 /\ DepthIsr[8] = 11 /\ DepthIsr[9] = 7 /\ DepthIsr[10] = 0
  BY DEF DepthIsr
<1> QED
  BY <1>1 DEF KeptIsr

(* Which lines are in service while a handler runs.                        *)
LEMMA ServiceTable ==
  ASSUME NEW l
  PROVE  /\ MasterAt(l, 1) = {l} /\ SlaveAt(l, 1) = (IF l = "disk" THEN {l} ELSE {})
         /\ MasterAt(l, 1) = MasterAt(l, 2) /\ SlaveAt(l, 1) = SlaveAt(l, 2)
         /\ MasterAt(l, 2) = MasterAt(l, 3) /\ SlaveAt(l, 2) = SlaveAt(l, 3)
         /\ MasterAt(l, 3) = MasterAt(l, 4) /\ SlaveAt(l, 3) = SlaveAt(l, 4)
         /\ MasterAt(l, 4) = MasterAt(l, 5) /\ SlaveAt(l, 4) = SlaveAt(l, 5)
         /\ MasterAt(l, 5) = MasterAt(l, 6) /\ SlaveAt(l, 5) = SlaveAt(l, 6)
         /\ MasterAt(l, 6) = {l} /\ SlaveAt(l, 6) = (IF l = "disk" THEN {l} ELSE {})
         /\ MasterAt(l, 7) = (IF l = "disk" THEN {l} ELSE {}) /\ SlaveAt(l, 7) = {}
         /\ MasterAt(l, 8) = {} /\ SlaveAt(l, 8) = {}
         /\ MasterAt(l, 8) = MasterAt(l, 9) /\ SlaveAt(l, 8) = SlaveAt(l, 9)
         /\ MasterAt(l, 9) = MasterAt(l, 10) /\ SlaveAt(l, 9) = SlaveAt(l, 10)
         /\ MasterAt(l, 10) = {} /\ SlaveAt(l, 10) = {}
  BY DEF MasterAt, SlaveAt

(* An instruction of a handler.                                            *)
LEMMA HandlerStep ==
  ASSUME NEW l \in Lines, NEW n \in 1 .. Len(stack), NEW k \in 1 .. 10,
         InHandler(code, stack, regs, call, done, l, n, k), on = FALSE,
         master = MasterAt(l, k), slave = SlaveAt(l, k), Instruction
  PROVE  Placed'
<1>1. Op = Isr(l)[k][1] /\ Of = Isr(l)[k][2] /\ code # <<>>
  BY HandlerNext
<1>2. PICK W : W = Isr(l)
  OBVIOUS
<1>3. /\ W[1] = <<"cli">> /\ W[2] = <<"push", Pushad>> /\ W[3] = <<"push", PushSegments>>
      /\ W[4] = <<"load", KernelData>> /\ W[5] = <<"handle", l>>
      /\ W[6] = IF l = "disk" THEN <<"eoi", "slave", l>> ELSE <<"eoi", "master", l>>
      /\ W[7] = IF l = "disk" THEN <<"eoi", "master", l>> ELSE <<"eoi", "slave", l>>
      /\ W[8] = <<"pop", Reverse(PushSegments)>> /\ W[9] = <<"pop", Reverse(Pushad)>>
      /\ W[10] = <<"iret">>
  BY <1>2, HandlerSteps
<1>4. PICK was : was = stack[n].was
  OBVIOUS
<1>5. /\ IsSeq(stack) /\ Len(stack) = n + DepthIsr[k]
      /\ Copies(stack, n, NamesIsr, was, DepthIsr[k]) /\ Same(KeptIsr(k), regs, was)
  BY <1>4 DEF InHandler
<1>6. /\ n \in Nat \ {0} /\ n \in Nat /\ l \in Lines
      /\ master = MasterAt(l, k) /\ slave = SlaveAt(l, k)
  BY <1>5, LenProperties DEF IsSeq
<1> DEFINE Onward(j) ==
      /\ k = j - 1 /\ IsSeq(stack') /\ Len(stack') = n + DepthIsr[j]
      /\ \A i \in 1 .. n : stack'[i] = stack[i]
      /\ Copies(stack', n, NamesIsr, was, DepthIsr[j])
      /\ Same(KeptIsr(j), regs', was)
      /\ on' = FALSE /\ code' = Tail(code) /\ call' = call /\ done' = done
      /\ master' = MasterAt(l, j) /\ slave' = SlaveAt(l, j)
<1>7. ASSUME NEW j \in 2 .. 10, Onward(j)
      PROVE  Placed'
  <2>1. k \in 1 .. 9 /\ k + 1 = j /\ j \in 1 .. 10
    BY <1>7
  <2>2. InHandler(Tail(code), stack', regs', call, done, l, n, j)
    BY <1>4, <1>6, <1>7, <2>1, HandlerMoves
  <2>3. n \in 1 .. Len(stack')
    <3>1. DepthIsr[j] \in Nat
      BY <2>1 DEF DepthIsr
    <3> QED
      BY <1>6, <1>7, <3>1
  <2>4. InHandler(code', stack', regs', call', done', l, n, j)
    BY <1>7, <2>2
  <2>5. on' = FALSE /\ master' = MasterAt(l, j) /\ slave' = SlaveAt(l, j)
    BY <1>7
  <2> QED
    BY <2>1, <2>3, <2>4, <2>5 DEF Placed
<1>8. CASE k = 1
  <2>1. Flag /\ Op = "cli"
    BY <1>1, <1>2, <1>3, <1>8, WhichInstruction
  <2>2. /\ stack' = stack /\ regs' = regs /\ on' = FALSE /\ code' = Tail(code) /\ call' = call
        /\ done' = done /\ master' = master /\ slave' = slave
    <3>1. on' = FALSE
      <4>1. on' = (Op = "sti") /\ Op # "sti"
        BY <2>1 DEF Flag
      <4> QED
        BY <4>1, Zenon
    <3> QED
      BY <2>1, <3>1 DEF Flag, Step
  <2>3. Onward(2)
    <3>1. master' = MasterAt(l, 2) /\ slave' = SlaveAt(l, 2)
      BY ONLY <1>6, <1>8, <2>2, ServiceTable
    <3> QED
      BY <3>1, <1>5, <1>8, <2>2, HandlerTable
  <2> HIDE DEF Onward
  <2> QED
    BY <1>7, <2>3
<1>9. CASE k = 2
  <2>1. Push /\ Of = Pushad
    BY <1>1, <1>2, <1>3, <1>9, WhichInstruction
  <2>2. /\ regs' = regs /\ on' = FALSE /\ code' = Tail(code) /\ call' = call
        /\ done' = done /\ master' = master /\ slave' = slave
    BY <2>1 DEF Push, Step
  <2>3. /\ IsSeq(Pushad) /\ Len(Pushad) = 7
        /\ \A i \in 1 .. 7 : NamesIsr[0 + i] = Pushad[i] /\ regs[Pushad[i]] = was[Pushad[i]]
    BY <1>5, <1>9, NamesOfHandler, HandlerTable DEF Same
  <2>4. Len(stack) = n + 0 /\ Copies(stack, n, NamesIsr, was, 0)
    BY <1>5, <1>9, HandlerTable
  <2>5. /\ IsSeq(stack') /\ Len(stack') = n + 7 /\ Copies(stack', n, NamesIsr, was, 7)
        /\ \A i \in 1 .. n : stack'[i] = stack[i]
    <3>1. Following(Of, 7, 0, NamesIsr, was) /\ Holds(stack, n, 0, NamesIsr, was)
      BY <1>5, <2>1, <2>3, <2>4 DEF Following, Holds
    <3>2. Leaves(n, 0 + 7, NamesIsr, was)
      BY <1>6, <2>1, <3>1, PushDoes
    <3> QED
      BY <3>2 DEF Leaves, Holds
  <2>6. Onward(3)
    <3>1. master' = MasterAt(l, 3) /\ slave' = SlaveAt(l, 3)
      BY ONLY <1>6, <1>9, <2>2, ServiceTable
    <3> QED
      BY <3>1, <1>5, <1>9, <2>2, <2>5, HandlerTable
  <2> HIDE DEF Onward
  <2> QED
    BY <1>7, <2>6
<1>10. CASE k = 3
  <2>1. Push /\ Of = PushSegments
    BY <1>1, <1>2, <1>3, <1>10, WhichInstruction
  <2>2. /\ regs' = regs /\ on' = FALSE /\ code' = Tail(code) /\ call' = call
        /\ done' = done /\ master' = master /\ slave' = slave
    BY <2>1 DEF Push, Step
  <2>3. /\ IsSeq(PushSegments) /\ Len(PushSegments) = 4
        /\ \A i \in 1 .. 4 : NamesIsr[7 + i] = PushSegments[i]
                           /\ regs[PushSegments[i]] = was[PushSegments[i]]
    BY <1>5, <1>10, NamesOfHandler, HandlerTable DEF Same, Registers
  <2>4. Len(stack) = n + 7 /\ Copies(stack, n, NamesIsr, was, 7)
    BY <1>5, <1>10, HandlerTable
  <2>5. /\ IsSeq(stack') /\ Len(stack') = n + 11 /\ Copies(stack', n, NamesIsr, was, 11)
        /\ \A i \in 1 .. n : stack'[i] = stack[i]
    <3>1. Following(Of, 4, 7, NamesIsr, was) /\ Holds(stack, n, 7, NamesIsr, was)
      BY <1>5, <2>1, <2>3, <2>4 DEF Following, Holds
    <3>2. Leaves(n, 7 + 4, NamesIsr, was)
      BY <1>6, <2>1, <3>1, PushDoes
    <3> QED
      BY <3>2 DEF Leaves, Holds
  <2>6. Onward(4)
    <3>1. master' = MasterAt(l, 4) /\ slave' = SlaveAt(l, 4)
      BY ONLY <1>6, <1>10, <2>2, ServiceTable
    <3> QED
      BY <3>1, <1>5, <1>10, <2>2, <2>5, HandlerTable
  <2> HIDE DEF Onward
  <2> QED
    BY <1>7, <2>6
<1>11. CASE k = 4
  <2>1. Load
    BY <1>1, <1>2, <1>3, <1>11, WhichInstruction
  <2>2. IsRegs(regs')
    BY <2>1 DEF Load, IsRegs
  <2>3. /\ stack' = stack /\ on' = FALSE /\ code' = Tail(code) /\ call' = call
        /\ done' = done /\ master' = master /\ slave' = slave
    BY <2>1 DEF Load, Step
  <2>4. Same(KeptIsr(5), regs', was)
    BY <2>2, HandlerTable DEF Same
  <2>5. Onward(5)
    <3>1. master' = MasterAt(l, 5) /\ slave' = SlaveAt(l, 5)
      BY ONLY <1>6, <1>11, <2>3, ServiceTable
    <3> QED
      BY <3>1, <1>5, <1>11, <2>3, <2>4, HandlerTable
  <2> HIDE DEF Onward
  <2> QED
    BY <1>7, <2>5
<1>12. CASE k = 5
  <2>1. Handle
    BY <1>1, <1>2, <1>3, <1>12, WhichInstruction
  <2>2. IsRegs(regs')
    BY <2>1 DEF Handle, Used, IsRegs
  <2>3. /\ stack' = stack /\ on' = FALSE /\ code' = Tail(code) /\ call' = call
        /\ done' = done /\ master' = master /\ slave' = slave
    BY <2>1 DEF Handle, Step
  <2>4. Same(KeptIsr(6), regs', was)
    BY <2>2, HandlerTable DEF Same
  <2>5. Onward(6)
    <3>1. master' = MasterAt(l, 6) /\ slave' = SlaveAt(l, 6)
      BY ONLY <1>6, <1>12, <2>3, ServiceTable
    <3> QED
      BY <3>1, <1>5, <1>12, <2>3, <2>4, HandlerTable
  <2> HIDE DEF Onward
  <2> QED
    BY <1>7, <2>5
<1>13. ASSUME Eoi, Of = "master", master = {l} PROVE master' = {} /\ slave' = slave
  <2>1. AsUrgent(l) \cap {l} = {l}
    BY DEF AsUrgent, Lines
  <2>2. master' = {m \in master : AsUrgent(m) \cap master # {m}} /\ slave' = slave
    BY <1>13 DEF Eoi
  <2> QED
    BY <1>13, <2>1, <2>2
<1>14. CASE k = 6
  <2>1. Eoi /\ Of = IF l = "disk" THEN "slave" ELSE "master"
    BY <1>1, <1>2, <1>3, <1>14, WhichInstruction
  <2>2. master = {l} /\ slave = IF l = "disk" THEN {l} ELSE {}
    BY <1>14, ServiceTable
  <2>3. master' = MasterAt(l, 7) /\ slave' = SlaveAt(l, 7)
    <3>1. CASE l = "disk"
      BY <2>1, <2>2, <3>1, ServiceTable DEF Eoi
    <3>2. CASE l # "disk"
      BY <1>13, <2>1, <2>2, <3>2, ServiceTable
    <3> QED
      BY <3>1, <3>2
  <2>4. stack' = stack /\ on' = FALSE /\ code' = Tail(code)
        /\ call' = call /\ done' = done /\ regs' = regs
    BY <2>1 DEF Eoi, Step
  <2>5. Onward(7)
    BY <1>5, <1>14, <2>3, <2>4, HandlerTable DEF Same
  <2> HIDE DEF Onward
  <2> QED
    BY <1>7, <2>5
<1>15. CASE k = 7
  <2>1. Eoi /\ Of = IF l = "disk" THEN "master" ELSE "slave"
    BY <1>1, <1>2, <1>3, <1>15, WhichInstruction
  <2>2. master = (IF l = "disk" THEN {l} ELSE {}) /\ slave = {}
    BY <1>15, ServiceTable
  <2>3. master' = MasterAt(l, 8) /\ slave' = SlaveAt(l, 8)
    <3>1. CASE l = "disk"
      BY <1>13, <2>1, <2>2, <3>1, ServiceTable
    <3>2. CASE l # "disk"
      BY <2>1, <2>2, <3>2, ServiceTable DEF Eoi
    <3> QED
      BY <3>1, <3>2
  <2>4. stack' = stack /\ on' = FALSE /\ code' = Tail(code)
        /\ call' = call /\ done' = done /\ regs' = regs
    BY <2>1 DEF Eoi, Step
  <2>5. Onward(8)
    BY <1>5, <1>15, <2>3, <2>4, HandlerTable DEF Same
  <2> HIDE DEF Onward
  <2> QED
    BY <1>7, <2>5
<1>16. CASE k = 8
  <2>1. PICK q : q = Reverse(PushSegments)
    OBVIOUS
  <2>2. Pop /\ Of = q
    BY <1>1, <1>2, <1>3, <1>16, <2>1, WhichInstruction
  <2>3. Uppermost(q, 4, 11, NamesIsr, Segments)
    <3>1. Latest(PushSegments, 4, 11, NamesIsr, Segments)
      BY NamesOfHandler DEF Latest
    <3>2. Uppermost(Reverse(PushSegments), 4, 11, NamesIsr, Segments)
      BY <3>1, OffTheStack
    <3> QED
      BY <2>1, <3>2
  <2>4. Holds(stack, n, 11, NamesIsr, was)
    BY <1>5, <1>16, HandlerTable DEF Holds
  <2>5. /\ IsSeq(stack') /\ Len(stack') = n + 7 /\ Copies(stack', n, NamesIsr, was, 7)
        /\ \A i \in 1 .. n : stack'[i] = stack[i]
        /\ IsRegs(regs') /\ \A r \in Segments : regs'[r] = was[r]
    <3>1. Leaves(n, 11 - 4, NamesIsr, was) /\ Restores(Segments, was)
      BY <1>6, <2>2, <2>3, <2>4, PopDoes
    <3>2. Segments \subseteq Registers
      BY DEF Registers
    <3> QED
      BY <3>1, <3>2 DEF Leaves, Holds, Restores
  <2>6. Same(KeptIsr(9), regs', was)
    BY <2>5, HandlerTable DEF Same
  <2>7. /\ on' = FALSE /\ code' = Tail(code) /\ call' = call
        /\ done' = done /\ master' = master /\ slave' = slave
    BY <2>2 DEF Pop, Step
  <2>8. Onward(9)
    <3>1. master' = MasterAt(l, 9) /\ slave' = SlaveAt(l, 9)
      BY ONLY <1>6, <1>16, <2>7, ServiceTable
    <3> QED
      BY <3>1, <1>16, <2>5, <2>6, <2>7, HandlerTable
  <2> HIDE DEF Onward
  <2> QED
    BY <1>7, <2>8
<1>17. CASE k = 9
  <2>1. PICK q : q = Reverse(Pushad)
    OBVIOUS
  <2>2. Pop /\ Of = q
    BY <1>1, <1>2, <1>3, <1>17, <2>1, WhichInstruction
  <2>3. PICK R : R = Registers \ Segments
    OBVIOUS
  <2>4. Uppermost(q, 7, 7, NamesIsr, R)
    <3>1. Latest(Pushad, 7, 7, NamesIsr, R)
      BY <2>3, NamesOfHandler DEF Latest
    <3>2. Uppermost(Reverse(Pushad), 7, 7, NamesIsr, R)
      BY <3>1, OffTheStack
    <3> QED
      BY <2>1, <3>2
  <2>5. Holds(stack, n, 7, NamesIsr, was)
    BY <1>5, <1>17, HandlerTable DEF Holds
  <2>6. /\ IsSeq(stack') /\ Len(stack') = n + 0 /\ Copies(stack', n, NamesIsr, was, 0)
        /\ \A i \in 1 .. n : stack'[i] = stack[i]
        /\ IsRegs(regs') /\ \A r \in R : regs'[r] = was[r]
        /\ \A r \in Registers \ R : regs'[r] = regs[r]
    <3>1. Leaves(n, 7 - 7, NamesIsr, was) /\ Restores(R, was)
      BY <1>6, <2>2, <2>4, <2>5, PopDoes
    <3> QED
      BY <2>3, <3>1 DEF Leaves, Holds, Restores
  <2>7. \A r \in Segments : regs[r] = was[r]
    BY <1>5, <1>17, HandlerTable DEF Same
  <2>8. Same(KeptIsr(10), regs', was)
    BY <2>3, <2>6, <2>7, HandlerTable DEF Same
  <2>9. /\ on' = FALSE /\ code' = Tail(code) /\ call' = call
        /\ done' = done /\ master' = master /\ slave' = slave
    BY <2>2 DEF Pop, Step
  <2>10. Onward(10)
    <3>1. master' = MasterAt(l, 10) /\ slave' = SlaveAt(l, 10)
      BY ONLY <1>6, <1>17, <2>9, ServiceTable
    <3> QED
      BY <3>1, <1>17, <2>6, <2>8, <2>9, HandlerTable
  <2> HIDE DEF Onward
  <2> QED
    BY <1>7, <2>10
<1>18. CASE k = 10
  <2>1. Iret
    BY <1>1, <1>2, <1>3, <1>18, WhichInstruction
  <2>2. Len(stack) = n /\ IsRegs(regs) /\ \A r \in Registers : regs[r] = was[r]
    BY <1>5, <1>6, <1>18, HandlerTable DEF Same
  <2>3. Top = stack[n]
    BY <2>2 DEF Top
  <2>4. PICK f : f = stack[n]
    OBVIOUS
  <2>5. /\ f = [kind |-> "frame", by |-> l, rest |-> f.rest, on |-> TRUE, was |-> f.was]
        /\ Outside(f.rest, SubSeq(stack, 1, n - 1), was, TRUE, call, done)
    BY <1>4, <2>4 DEF InHandler
  <2>6. f.on = TRUE
    BY <2>5
  <2>7. regs = was
    <3>1. regs = [r \in Registers |-> regs[r]] /\ was = [r \in Registers |-> was[r]]
      BY <2>2, <2>5, OutsideRegisters DEF IsRegs
    <3> QED
      BY <2>2, <3>1
  <2>8. /\ code' = f.rest /\ on' = TRUE /\ stack' = SubSeq(stack, 1, n - 1)
        /\ regs' = was /\ call' = call /\ done' = done /\ master' = master /\ slave' = slave
    BY <2>1, <2>2, <2>3, <2>4, <2>6, <2>7 DEF Iret, Front
  <2>9. Outside(code', stack', regs', on', call', done')
    BY <2>5, <2>8
  <2>10. master' = {} /\ slave' = {}
    BY <1>18, <2>8, ServiceTable
  <2> QED
    BY <2>9, <2>10 DEF Placed
<1> QED
  BY <1>8, <1>9, <1>10, <1>11, <1>12, <1>14, <1>15, <1>16, <1>17, <1>18

-----------------------------------------------------------------------------
(* In the kernel.                                                          *)

(* What a library function saves, one register after the other.            *)
LEMMA SavedRegisters ==
  ASSUME NEW ca, NEW S
  PROVE  /\ IsSeq(SavedBy(ca, S)) /\ Len(SavedBy(ca, S)) \in Nat
         /\ \A i \in 1 .. Len(SavedBy(ca, S)) : SavedBy(ca, S)[i] \in Saves(ca, S)
         /\ \A r \in Saves(ca, S) : \E i \in 1 .. Len(SavedBy(ca, S)) : SavedBy(ca, S)[i] = r
<1>1. PICK R : R = Saves(ca, S)
  OBVIOUS
<1>2. IsFiniteSet(R)
  <2>1. IsFiniteSet(CalleeSaved)
    <3>1. CalleeSaved = {"ebx"} \cup {"esi"} \cup {"edi"} \cup {"ebp"}
      BY DEF CalleeSaved
    <3> QED
      BY <3>1, FS_Singleton, FS_Union
  <2>2. R \subseteq CalleeSaved
    BY <1>1 DEF Saves
  <2> QED
    BY <2>1, <2>2, FS_Subset
<1>3. PICK n : n = Cardinality(R)
  OBVIOUS
<1>4. n \in Nat /\ ExistsBijection(1 .. n, R)
  BY <1>2, <1>3, FS_CardinalityType
<1>5. PICK s : s = SetToSeq(R)
  OBVIOUS
<1>6. s \in [1 .. n -> R] /\ IsInjective(s)
  <2>1. PICK f : f \in [1 .. n -> R] /\ IsInjective(f)
    BY <1>4 DEF ExistsBijection, Bijection, Injection
  <2>2. s = CHOOSE g \in [1 .. n -> R] : IsInjective(g)
    BY <1>3, <1>5 DEF SetToSeq
  <2> QED
    BY <2>1, <2>2
<1>7. s \in Surjection(1 .. n, R)
  <2>1. s \in Injection(1 .. n, R)
    BY <1>6 DEF Injection
  <2>2. Cardinality(1 .. n) = n
    BY <1>4, FS_Interval
  <2> QED
    BY <1>2, <1>3, <2>1, <2>2, FS_Injection
<1>8. \A r \in R : \E i \in 1 .. n : s[i] = r
  BY <1>7 DEF Surjection
<1>9. s \in Seq(R) /\ Len(s) = n
  BY <1>4, <1>6, SeqDef
<1>10. IsSeq(s)
  BY <1>9, SeqOwn
<1>11. SavedBy(ca, S) = s
  BY <1>1, <1>5 DEF SavedBy
<1> QED
  BY <1>1, <1>4, <1>6, <1>8, <1>9, <1>10, <1>11

(* What is left of isr80.                                                  *)
LEMMA Left80 ==
  ASSUME NEW j \in 1 .. 15
  PROVE  IsSeq(SubSeq(Isr80, j, 14)) /\ <<>> \o SubSeq(Isr80, j, 14) = SubSeq(Isr80, j, 14)
<1>1. PICK W : W = Isr80
  OBVIOUS
<1> DEFINE T == ToSet(W)
<1>2. W \in Seq(T) /\ Len(W) = 14
  BY <1>1, KernelSteps DEF IsSeq
<1> HIDE DEF T
<1>3. \A i \in j .. 14 : W[i] \in T
  <2>1. \A i \in 1 .. 14 : W[i] \in T
    BY <1>2, ElementOfSeq
  <2> QED
    BY <2>1
<1>4. SubSeq(W, j, 14) \in Seq(T)
  <2>1. j \in Int /\ 14 \in Int
    OBVIOUS
  <2> QED
    BY ONLY <1>3, <2>1, SubSeqProperties
<1>5. <<>> \o SubSeq(W, j, 14) = SubSeq(W, j, 14)
  BY <1>4, ConcatEmptySeq
<1> QED
  BY <1>1, <1>4, <1>5, SeqOwn

(* An instruction before others.                                           *)
LEMMA Delayed ==
  ASSUME NEW r, IsSeq(r), NEW d \in SomeDelays
  PROVE  /\ d # <<>> => /\ Head(d) \in Delays /\ Tail(d) \in SomeDelays /\ d \o r # <<>>
                       /\ Head(d \o r) = Head(d) /\ Tail(d \o r) = Tail(d) \o r
         /\ \A x \in Delays : <<x>> \o d \in SomeDelays /\ <<x>> \o (d \o r) = (<<x>> \o d) \o r
<1> DEFINE T == ToSet(r) \cup Delays
<1>1. r \in Seq(T) /\ d \in Seq(T) /\ d \in Seq(Delays)
  BY SeqMonotonic DEF IsSeq, SomeDelays
<1>2. Delays \subseteq T
  OBVIOUS
<1> HIDE DEF T
<1>3. ASSUME NEW x \in Delays
      PROVE  <<x>> \o d \in SomeDelays /\ <<x>> \o (d \o r) = (<<x>> \o d) \o r
  <2>1. <<x>> \in Seq(Delays)
    BY <1>3
  <2>2. <<x>> \in Seq(T)
    BY <1>2, <1>3
  <2> HIDE DEF Delays
  <2>3. <<x>> \o d \in SomeDelays
    BY <1>1, <2>1, ConcatProperties DEF SomeDelays
  <2>4. <<x>> \o (d \o r) = (<<x>> \o d) \o r
    BY <1>1, <2>2, ConcatAssociative
  <2> QED
    BY <2>3, <2>4
<1>4. ASSUME d # <<>>
      PROVE  /\ Head(d) \in Delays /\ Tail(d) \in SomeDelays /\ d \o r # <<>>
             /\ Head(d \o r) = Head(d) /\ Tail(d \o r) = Tail(d) \o r
  <2>1. Head(d) \in Delays /\ Tail(d) \in SomeDelays /\ Tail(d) \in Seq(T) /\ Len(d) # 0
    BY <1>1, <1>4, HeadTailProperties, EmptySeq, SeqMonotonic DEF SomeDelays
  <2>2. d = <<Head(d)>> \o Tail(d)
    BY <1>1, <1>4
  <2>3. PICK x : x = Head(d)
    OBVIOUS
  <2>4. PICK e : e = Tail(d)
    OBVIOUS
  <2>5. x \in T /\ e \in Seq(T) /\ d = <<x>> \o e
    BY <1>2, <2>1, <2>2, <2>3, <2>4
  <2>6. d \o r = <<x>> \o (e \o r)
    BY <1>1, <2>5, ConcatAssociative
  <2>7. e \o r \in Seq(T)
    BY <1>1, <2>5
  <2>8. <<x>> \o (e \o r) # <<>> /\ Head(<<x>> \o (e \o r)) = x /\ Tail(<<x>> \o (e \o r)) = e \o r
    BY <2>5, <2>7
  <2> QED
    BY <2>1, <2>3, <2>4, <2>6, <2>8
<1> QED
  BY <1>3, <1>4

(* Before isr80 has come to its j-th step.                                 *)
LEMMA KernelNext ==
  ASSUME NEW st, NEW rg, NEW o, NEW ca, NEW dn, NEW S, NEW n, NEW j \in 1 .. 14,
         InSys(code, st, rg, o, ca, dn, S, n, j, <<>>)
  PROVE  /\ code = SubSeq(Isr80, j, 14) /\ code # <<>>
         /\ Op = Isr80[j][1] /\ Of = Isr80[j][2] /\ Tail(code) = SubSeq(Isr80, j + 1, 14)
<1>1. IsSeq(Isr80) /\ Len(Isr80) = 14
  BY KernelSteps
<1>2. code = SubSeq(Isr80, j, 14)
  BY Left80 DEF InSys
<1> QED
  BY <1>1, <1>2, NextOp

(* How deep the stack is in the kernel, and what registers it keeps.       *)
LEMMA KernelTable ==
  /\ Depth80[1] = 0 /\ Depth80[2] = 0 /\ Depth80[3] = 6 /\ Depth80[4] = 10 /\ Depth80[5] = 16
  /\ Depth80[6] = 16 /\ Depth80[7] = 16 /\ Depth80[8] = 16 /\ Depth80[9] = 16
  /\ Depth80[10] = 15 /\ Depth80[11] = 10 /\ Depth80[12] = 6 /\ Depth80[13] = 0 /\ Depth80[14] = 0
  /\ Copied80[1] = 0 /\ Copied80[2] = 0 /\ Copied80[3] = 6 /\ Copied80[4] = 10 /\ Copied80[5] = 16
  /\ Copied80[6] = 16 /\ Copied80[7] = 16 /\ Copied80[8] = 15 /\ Copied80[9] = 15
  /\ Copied80[10] = 15 /\ Copied80[11] = 10 /\ Copied80[12] = 6 /\ Copied80[13] = 0 /\ Copied80[14] = 0
  /\ Kept80(1) = Registers /\ Kept80(2) = Registers /\ Kept80(3) = Registers
  /\ Kept80(4) = Registers /\ Kept80(5) = Registers
  /\ Kept80(6) = {} /\ Kept80(7) = {} /\ Kept80(8) = {} /\ Kept80(9) = {} /\ Kept80(10) = {}
  /\ Kept80(11) = {} /\ Kept80(12) = Segments
  /\ Kept80(13) = Registers \ {"eax"} /\ Kept80(14) = Registers \ {"eax"}
<1>1. /\ Depth80[1] = 0 /\ Depth80[2] = 0 /\ Depth80[3] = 6 /\ Depth80[4] = 10 /\ Depth80[5] = 16
      /\ Depth80[6] = 16 /\ Depth80[7] = 16 /\ Depth80[8] = 16 /\ Depth80[9] = 16
      /\ Depth80[10] = 15 /\ Depth80[11] = 10 /\ Depth80[12] = 6 /\ Depth80[13] = 0 /\ Depth80[14] = 0
  BY DEF Depth80
<1>2. /\ Copied80[1] = 0 /\ Copied80[2] = 0 /\ Copied80[3] = 6 /\ Copied80[4] = 10 /\ Copied80[5] = 16
      /\ Copied80[6] = 16 /\ Copied80[7] = 16 /\ Copied80[8] = 15 /\ Copied80[9] = 15
      /\ Copied80[10] = 15 /\ Copied80[11] = 10 /\ Copied80[12] = 6 /\ Copied80[13] = 0 /\ Copied80[14] = 0
  BY DEF Copied80
<1>3. /\ Kept80(1) = Registers /\ Kept80(2) = Registers /\ Kept80(3) = Registers
      /\ Kept80(4) = Registers /\ Kept80(5) = Registers
      /\ Kept80(6) = {} /\ Kept80(7) = {} /\ Kept80(8) = {} /\ Kept80(9) = {} /\ Kept80(10) = {}
      /\ Kept80(11) = {} /\ Kept80(12) = Segments
      /\ Kept80(13) = Registers \ {"eax"} /\ Kept80(14) = Registers \ {"eax"}
  BY DEF Kept80
<1> QED
  BY <1>1, <1>2, <1>3

\* An instruction of isr80 leads to its j-th, after the delays d.
ToStep80(S, n, j, d) ==
  /\ IsSeq(stack') /\ Len(stack') = n + Depth80[j]
  /\ \A i \in 1 .. n : stack'[i] = stack[i]
  /\ Copies(stack', n, Names80, Loaded(call, S), Copied80[j])
  /\ Same(Kept80(j), regs', Loaded(call, S))
  /\ (j <= 6 => on' = FALSE) /\ (j > 6 => on' = TRUE)
  /\ d \in SomeDelays /\ code' = d \o SubSeq(Isr80, j, 14) /\ (d # <<>> => j = 8)
  /\ call' = call /\ done' = IF j <= 7 THEN {} ELSE Asked(call, S)
  /\ j \in 8 .. 9 =>
       stack'[n + 16] = Word(IF Answered(done') THEN "answer" ELSE Loaded(call, S)["eax"])
  /\ j >= 9 /\ Answered(done') => regs'["eax"] = "answer"

(* One step further in the kernel.                                         *)
LEMMA KernelMoves ==
  ASSUME call \in Calls, NEW S \in Operands(call), NEW n \in 1 .. Len(stack),
         NEW k \in 1 .. 14, NEW e, InSys(code, stack, regs, on, call, done, S, n, k, e),
         IsSeq(stack), NEW j \in 1 .. 14, NEW d, ToStep80(S, n, j, d)
  PROVE  Outside(code', stack', regs', on', call', done')
<1>1. n \in Nat \ {0} /\ Len(stack) \in Nat
  BY LenProperties DEF IsSeq
<1>2. Depth80[j] \in Nat
  <2>1. PICK i \in 1 .. 14 : i = j
    OBVIOUS
  <2>2. Depth80[i] \in Nat
    BY ONLY i \in 1 .. 14, SMTT(30) DEF Depth80
  <2> QED
    BY <2>1, <2>2
<1>3. n \in 1 .. Len(stack')
  <2>1. PICK m : m = Depth80[j]
    OBVIOUS
  <2>2. m \in Nat /\ Len(stack') = n + m
    BY <1>2, <2>1 DEF ToStep80
  <2> QED
    BY <1>1, <2>2
<1>4. /\ Len(SavedBy(call, S)) = n - 1
      /\ Copies(stack, 0, SavedBy(call, S), Own, n - 1)
      /\ stack[n] = [kind |-> "frame", by |-> "int", rest |-> SubSeq(Wrapper(call, S), 5, 6),
                     on |-> TRUE, was |-> Loaded(call, S)]
  BY DEF InSys
<1>5. \A i \in 1 .. n : stack'[i] = stack[i]
  BY DEF ToStep80
<1>6. stack'[n] = stack[n] /\ Copies(stack', 0, SavedBy(call, S), Own, n - 1)
  BY <1>1, <1>4, <1>5 DEF Copies
<1>7. call' = call
  BY DEF ToStep80
<1>8. InSys(code', stack', regs', on', call, done', S, n, j, d)
  BY <1>4, <1>6 DEF InSys, ToStep80
<1>9. InKernel(code', stack', regs', on', call, done')
  <2>1. d \in SomeDelays
    BY DEF ToStep80
  <2> QED
    BY <1>3, <1>8, <2>1 DEF InKernel
<1> QED
  BY <1>7, <1>9 DEF Outside, ToStep80

(* The switch serves the registers that the library has loaded.            *)
LEMMA ServeDoes ==
  ASSUME Serve, NEW S, NEW n \in Nat, Holds(stack, n, 16, Names80, Loaded(call, S)), done = {}
  PROVE  /\ IsSeq(stack') /\ Len(stack') = n + 16
         /\ Copies(stack', n, Names80, Loaded(call, S), 15)
         /\ \A i \in 1 .. n : stack'[i] = stack[i]
         /\ done' = Asked(call, S)
         /\ stack'[n + 16] = Word(IF Answered(done') THEN "answer" ELSE Loaded(call, S)["eax"])
         /\ IsRegs(regs')
         /\ \E d \in SomeDelays : code' = d \o Tail(code)
<1>1. PICK was : was = Loaded(call, S)
  OBVIOUS
<1>2. IsSeq(stack) /\ Len(stack) = n + 16 /\ Copies(stack, n, Names80, was, 16)
  BY <1>1 DEF Holds
<1>3. PICK w : w = Words(6)
  OBVIOUS
<1>4. PICK a : a = [r \in ToSet(PushArguments) |->
                      Words(6)[CHOOSE i \in 1 .. 6 : PushArguments[i] = r]]
  OBVIOUS
<1>5. ASSUME NEW i \in 1 .. 6 PROVE w[i] = was[PushArguments[i]]
  <2>1. n + 16 - 6 + i = n + (10 + i) /\ 10 + i \in 1 .. 16
    OBVIOUS
  <2>2. w[i] = stack[n + (10 + i)].is
    BY <1>2, <1>3, <2>1 DEF Words
  <2>3. stack[n + (10 + i)] = Word(was[Names80[10 + i]])
    BY <1>2, <2>1 DEF Copies
  <2>4. Names80[10 + i] = PushArguments[i]
    BY NamesOfCall
  <2> QED
    BY <2>2, <2>3, <2>4 DEF Word
<1>6. a = [r \in Arguments |-> was[r]]
  <2>1. ToSet(PushArguments) = Arguments
    BY NamesOfCall
  <2>2. ASSUME NEW r \in Arguments PROVE a[r] = was[r]
    <3>1. \E i \in 1 .. 6 : PushArguments[i] = r
      BY DEF PushArguments, Arguments
    <3>2. PICK j : j = CHOOSE i \in 1 .. 6 : PushArguments[i] = r
      OBVIOUS
    <3>3. j \in 1 .. 6 /\ PushArguments[j] = r
      BY <3>1, <3>2
    <3>4. a[r] = w[j]
      BY <1>3, <1>4, <2>1, <3>2
    <3> QED
      BY <1>5, <3>3, <3>4
  <2> QED
    BY <1>4, <2>1, <2>2
<1>7. Served(a) = Asked(call, S) /\ a["eax"] = was["eax"]
  BY <1>1, <1>6 DEF Asked, Arguments
<1>8. /\ done' = done \cup Served(a)
      /\ stack' = [stack EXCEPT ![Len(stack)] =
           Word(IF {s[1] : s \in Served(a)} \cap Answering # {} THEN "answer" ELSE a["eax"])]
      /\ \E waits \in {<<>>, <<<<"sleep">>>>}, runs \in {<<>>, <<<<"execute">>>>} :
           code' = waits \o runs \o Tail(code)
      /\ regs' = Used
  <2> DEFINE A == [r \in ToSet(PushArguments) |->
                     Words(6)[CHOOSE i \in 1 .. 6 : PushArguments[i] = r]]
  <2>1. done' = done \cup Served(A)
    BY DEF Serve
  <2>2. stack' = [stack EXCEPT ![Len(stack)] =
           Word(IF {s[1] : s \in Served(A)} \cap Answering # {} THEN "answer" ELSE A["eax"])]
    BY DEF Serve
  <2>3. \E waits \in {<<>>, <<<<"sleep">>>>}, runs \in {<<>>, <<<<"execute">>>>} :
           code' = waits \o runs \o Tail(code)
    BY DEF Serve
  <2>4. regs' = Used
    BY DEF Serve
  <2>5. a = A
    BY <1>4
  <2> HIDE DEF A
  <2>6. done' = done \cup Served(a)
    BY <2>1, <2>5, Zenon
  <2>7. stack' = [stack EXCEPT ![Len(stack)] =
           Word(IF {s[1] : s \in Served(a)} \cap Answering # {} THEN "answer" ELSE a["eax"])]
    BY <2>2, <2>5, Zenon
  <2> QED
    BY <2>3, <2>4, <2>6, <2>7
<1>9. done' = Asked(call, S)
  BY <1>7, <1>8
<1>10. PICK x : x = Word(IF Answered(done') THEN "answer" ELSE was["eax"])
  OBVIOUS
<1>11. stack' = [stack EXCEPT ![n + 16] = x]
  BY <1>2, <1>7, <1>8, <1>9, <1>10 DEF Answered
<1>12. /\ IsSeq(stack') /\ Len(stack') = n + 16 /\ stack'[n + 16] = x
       /\ \A i \in 1 .. n + 15 : stack'[i] = stack[i]
  <2> DEFINE T == ToSet(stack) \cup {x}
  <2>1. stack \in Seq(T) /\ x \in T
    BY <1>2, SeqMonotonic DEF IsSeq
  <2> HIDE DEF T
  <2>2. n + 16 \in 1 .. Len(stack)
    BY <1>2
  <2>3. /\ stack' \in Seq(T) /\ Len(stack') = n + 16
        /\ \A i \in 1 .. n + 16 : stack'[i] = IF i = n + 16 THEN x ELSE stack[i]
    BY <1>2, <1>11, <2>1, <2>2, ExceptSeq
  <2> QED
    BY <2>2, <2>3, SeqOwn
<1>13. Copies(stack', n, Names80, was, 15)
  <2>1. ASSUME NEW i \in 1 .. 15 PROVE stack'[n + i] = Word(was[Names80[i]])
    <3>1. n + i \in 1 .. n + 15 /\ i \in 1 .. 16
      OBVIOUS
    <3>2. stack'[n + i] = stack[n + i]
      BY <1>12, <3>1
    <3>3. stack[n + i] = Word(was[Names80[i]])
      BY <1>2, <3>1 DEF Copies
    <3> QED
      BY <3>2, <3>3
  <2> QED
    BY <2>1 DEF Copies
<1>14. IsRegs(regs')
  BY <1>8 DEF Used, IsRegs
<1>15. \E d \in SomeDelays : code' = d \o Tail(code)
  <2>1. PICK waits \in {<<>>, <<<<"sleep">>>>}, runs \in {<<>>, <<<<"execute">>>>} :
          code' = waits \o runs \o Tail(code)
    BY <1>8
  <2>2. waits \in Seq(Delays) /\ runs \in Seq(Delays)
    <3>1. <<>> \in Seq(Delays) /\ <<<<"sleep">>>> \in Seq(Delays) /\ <<<<"execute">>>> \in Seq(Delays)
      <4>1. <<"sleep">> \in Delays /\ <<"execute">> \in Delays
        BY DEF Delays
      <4> QED
        BY <4>1
    <3> QED
      BY <3>1
  <2>3. waits \o runs \in SomeDelays
    BY <2>2, ConcatProperties DEF SomeDelays
  <2> QED
    BY <2>1, <2>3
<1>16. \A i \in 1 .. n : stack'[i] = stack[i]
  BY <1>12
<1>17. stack'[n + 16] = Word(IF Answered(done') THEN "answer" ELSE Loaded(call, S)["eax"])
  BY <1>1, <1>10, <1>12, Zenon
<1>18. Copies(stack', n, Names80, Loaded(call, S), 15)
  BY <1>1, <1>13
<1> QED
  BY <1>9, <1>12, <1>14, <1>15, <1>16, <1>17, <1>18

(* The arguments leave the stack, without the first.                       *)
LEMMA ArgumentsOff ==
  Uppermost(Tail(Reverse(PushArguments)), 5, 15, Names80, Registers \ (Segments \cup {"eax", "ebp"}))
<1>1. PICK p : p = PushArguments
  OBVIOUS
<1>2. IsSeq(p) /\ Len(p) = 6 /\ \A i \in 1 .. 6 : Names80[10 + i] = p[i]
  BY <1>1, NamesOfCall
<1>3. PICK q : q = Reverse(p)
  OBVIOUS
<1>4. IsSeq(q) /\ Len(q) = 6 /\ \A i \in 1 .. 6 : q[i] = p[6 - i + 1]
  <2>1. /\ IsSeq(Reverse(p)) /\ Len(Reverse(p)) = Len(p)
        /\ \A i \in 1 .. Len(p) : Reverse(p)[i] = p[Len(p) - i + 1]
    BY <1>2, Reversed, Zenon
  <2> QED
    BY <1>2, <1>3, <2>1
<1>5. PICK t : t = Tail(q)
  OBVIOUS
<1>6. IsSeq(t) /\ Len(t) = 5 /\ \A i \in 1 .. 5 : t[i] = p[5 - i + 1]
  <2> DEFINE T == ToSet(q)
  <2>1. q \in Seq(T) /\ Len(q) = 6
    BY <1>4 DEF IsSeq
  <2> HIDE DEF T
  <2>2. t \in Seq(T) /\ Len(t) = 5 /\ \A i \in 1 .. 5 : t[i] = q[i + 1]
    <3>1. q # <<>>
      BY <2>1
    <3>2. t \in Seq(T) /\ Len(t) = 5 /\ \A i \in 1 .. Len(t) : t[i] = q[i + 1]
      BY <1>5, <2>1, <3>1, HeadTailProperties
    <3> QED
      BY <3>2
  <2>3. \A i \in 1 .. 5 : q[i + 1] = p[5 - i + 1]
    <3>1. \A i \in 1 .. 5 : i + 1 \in 1 .. 6 /\ 6 - (i + 1) + 1 = 5 - i + 1
      OBVIOUS
    <3> QED
      BY <1>4, <3>1
  <2> QED
    BY <2>2, <2>3, SeqOwn
<1>7. \A i \in 1 .. 5 : p[5 - i + 1] = Names80[15 - i + 1]
  <2>1. \A i \in 1 .. 5 : 5 - i + 1 \in 1 .. 6 /\ 10 + (5 - i + 1) = 15 - i + 1
    OBVIOUS
  <2> QED
    BY <1>2, <2>1
<1>8. PICK R : R = Registers \ (Segments \cup {"eax", "ebp"})
  OBVIOUS
<1>9. R = {"ecx", "edx", "ebx", "esi", "edi"}
  BY <1>8 DEF Registers, Segments, CallUsed, CalleeSaved
<1>10. p[1] = "edi" /\ p[2] = "esi" /\ p[3] = "edx" /\ p[4] = "ecx" /\ p[5] = "ebx"
  BY <1>1 DEF PushArguments
<1>11. t[1] = "ebx" /\ t[2] = "ecx" /\ t[3] = "edx" /\ t[4] = "esi" /\ t[5] = "edi"
  BY <1>6, <1>10
<1>12. /\ \A i \in 1 .. 5 : t[i] \in R
       /\ \A r \in R : \E i \in 1 .. 5 : t[i] = r
  BY <1>9, <1>11
<1>13. Uppermost(t, 5, 15, Names80, R)
  BY <1>6, <1>7, <1>12 DEF Uppermost
<1> QED
  BY <1>1, <1>3, <1>5, <1>8, <1>13, Zenon

(* An instruction of isr80, nothing waiting.                               *)
LEMMA KernelStep ==
  ASSUME call \in Calls, NEW S \in Operands(call), NEW n \in 1 .. Len(stack), NEW j \in 1 .. 14,
         InSys(code, stack, regs, on, call, done, S, n, j, <<>>), IsSeq(stack), Instruction
  PROVE  /\ Outside(code', stack', regs', on', call', done')
         /\ master' = master /\ slave' = slave
<1>1. /\ Op = Isr80[j][1] /\ Of = Isr80[j][2] /\ code # <<>>
      /\ Tail(code) = SubSeq(Isr80, j + 1, 14)
  BY KernelNext
<1>2. PICK W : W = Isr80
  OBVIOUS
<1>3. /\ W[1] = <<"cli">> /\ W[2] = <<"push", PushSaved>> /\ W[3] = <<"push", PushSegments>>
      /\ W[4] = <<"push", PushArguments>> /\ W[5] = <<"load", KernelData>>
      /\ W[6] = <<"sti">> /\ W[7] = <<"serve">> /\ W[8] = <<"answer">> /\ W[9] = <<"drop">>
      /\ W[10] = <<"pop", Tail(Reverse(PushArguments))>>
      /\ W[11] = <<"pop", Reverse(PushSegments)>> /\ W[12] = <<"pop", Reverse(PushSaved)>>
      /\ W[13] = <<"sti">> /\ W[14] = <<"iret">>
  BY <1>2, KernelSteps
<1>4. PICK was : was = Loaded(call, S)
  OBVIOUS
<1>5. /\ Len(stack) = n + Depth80[j] /\ Copies(stack, n, Names80, was, Copied80[j])
      /\ Same(Kept80(j), regs, was)
      /\ (j <= 6 => on = FALSE) /\ (j > 6 => on = TRUE)
      /\ done = IF j <= 7 THEN {} ELSE Asked(call, S)
      /\ j \in 8 .. 9 => stack[n + 16] = Word(IF Answered(done) THEN "answer" ELSE was["eax"])
      /\ j >= 9 /\ Answered(done) => regs["eax"] = "answer"
  BY <1>4 DEF InSys
<1>6. n \in Nat \ {0} /\ n \in Nat /\ IsSeq(stack)
  BY LenProperties DEF IsSeq
<1>7. <<>> \in SomeDelays
  BY DEF SomeDelays
<1>8. PICK e : e = SubSeq(Isr80, j + 1, 14)
  OBVIOUS
<1>9. Tail(code) = <<>> \o e
  <2>1. j + 1 \in 1 .. 15
    OBVIOUS
  <2>2. <<>> \o SubSeq(Isr80, j + 1, 14) = SubSeq(Isr80, j + 1, 14)
    BY <2>1, Left80
  <2> QED
    BY <1>1, <1>8, <2>2
<1>10. ASSUME NEW i \in 1 .. 14, NEW d, ToStep80(S, n, i, d)
      PROVE  Outside(code', stack', regs', on', call', done')
  BY <1>6, <1>10, KernelMoves
<1>11. CASE j = 1
  <2>1. Flag /\ Op = "cli"
    BY <1>1, <1>2, <1>3, <1>11, WhichInstruction
  <2>2. on' = FALSE
    <3>1. on' = (Op = "sti") /\ Op # "sti"
      BY <2>1 DEF Flag
    <3> QED
      BY <3>1, Zenon
  <2>3. /\ stack' = stack /\ regs' = regs /\ code' = Tail(code) /\ call' = call
        /\ done' = done /\ master' = master /\ slave' = slave
    BY <2>1 DEF Flag, Step
  <2>4. code' = <<>> \o SubSeq(Isr80, 2, 14)
    <3>1. j + 1 = 2
      BY <1>11
    <3>2. e = SubSeq(Isr80, 2, 14)
      BY ONLY <1>8, <3>1
    <3> QED
      BY <1>9, <3>2, <2>3
  <2>5. ToStep80(S, n, 2, <<>>)
    <3>1. /\ IsSeq(stack') /\ Len(stack') = n + Depth80[2]
          /\ \A i \in 1 .. n : stack'[i] = stack[i]
      BY <1>5, <1>6, <1>11, <2>2, <2>3, <2>4, KernelTable
    <3>2. Copies(stack', n, Names80, Loaded(call, S), Copied80[2])
      BY <1>4, <1>5, <1>11, <2>2, <2>3, <2>4, KernelTable
    <3>3. Same(Kept80(2), regs', Loaded(call, S))
      BY <1>4, <1>5, <1>11, <2>2, <2>3, <2>4, KernelTable DEF Same
    <3>4. on' = FALSE /\ call' = call /\ done' = {}
      BY <1>5, <1>11, <2>2, <2>3, <2>4
    <3> QED
      BY <1>7, <2>4, <3>1, <3>2, <3>3, <3>4 DEF ToStep80
  <2> QED
    BY <1>10, <2>3, <2>5
<1>12. CASE j = 2
  <2>1. Push /\ Of = PushSaved
    BY <1>1, <1>2, <1>3, <1>12, WhichInstruction
  <2>2. /\ regs' = regs /\ on' = on /\ code' = Tail(code) /\ call' = call
        /\ done' = done /\ master' = master /\ slave' = slave
    BY <2>1 DEF Push, Step
  <2>3. Following(Of, 6, 0, Names80, was)
    <3>1. \A i \in 1 .. 6 : Names80[0 + i] = PushSaved[i] /\ PushSaved[i] \in Registers
      BY NamesOfCall, NamesOfHandler DEF Registers
    <3>2. \A r \in Registers : regs[r] = was[r]
      BY <1>5, <1>12, KernelTable DEF Same
    <3>3. IsSeq(PushSaved) /\ Len(PushSaved) = 6
      BY NamesOfCall, NamesOfHandler
    <3> QED
      BY <2>1, <3>1, <3>2, <3>3 DEF Following
  <2>4. Holds(stack, n, 0, Names80, was)
    BY <1>5, <1>6, <1>12, KernelTable DEF Holds
  <2>5. Leaves(n, 0 + 6, Names80, was)
    BY <1>6, <2>1, <2>3, <2>4, PushDoes
  <2>6. code' = <<>> \o SubSeq(Isr80, 3, 14)
    <3>1. j + 1 = 3
      BY <1>12
    <3>2. e = SubSeq(Isr80, 3, 14)
      BY ONLY <1>8, <3>1
    <3> QED
      BY <1>9, <3>2, <2>2
  <2>7. ToStep80(S, n, 3, <<>>)
    <3>1. /\ IsSeq(stack') /\ Len(stack') = n + Depth80[3]
          /\ \A i \in 1 .. n : stack'[i] = stack[i]
      BY <2>5, KernelTable DEF Leaves, Holds
    <3>2. Copies(stack', n, Names80, Loaded(call, S), Copied80[3])
      BY <1>4, <2>5, KernelTable DEF Leaves, Holds
    <3>3. Same(Kept80(3), regs', Loaded(call, S))
      BY <1>4, <1>5, <1>12, <2>2, <2>5, <2>6, KernelTable DEF Same
    <3>4. on' = FALSE /\ call' = call /\ done' = {}
      BY <1>5, <1>12, <2>2, <2>5, <2>6
    <3> QED
      BY <1>7, <2>6, <3>1, <3>2, <3>3, <3>4 DEF ToStep80
  <2> QED
    BY <1>10, <2>2, <2>7
<1>13. CASE j = 3
  <2>1. Push /\ Of = PushSegments
    BY <1>1, <1>2, <1>3, <1>13, WhichInstruction
  <2>2. /\ regs' = regs /\ on' = on /\ code' = Tail(code) /\ call' = call
        /\ done' = done /\ master' = master /\ slave' = slave
    BY <2>1 DEF Push, Step
  <2>3. Following(Of, 4, 6, Names80, was)
    <3>1. \A i \in 1 .. 4 : Names80[6 + i] = PushSegments[i] /\ PushSegments[i] \in Registers
      BY NamesOfCall, NamesOfHandler DEF Registers
    <3>2. \A r \in Registers : regs[r] = was[r]
      BY <1>5, <1>13, KernelTable DEF Same
    <3>3. IsSeq(PushSegments) /\ Len(PushSegments) = 4
      BY NamesOfCall, NamesOfHandler
    <3> QED
      BY <2>1, <3>1, <3>2, <3>3 DEF Following
  <2>4. Holds(stack, n, 6, Names80, was)
    BY <1>5, <1>6, <1>13, KernelTable DEF Holds
  <2>5. Leaves(n, 6 + 4, Names80, was)
    BY <1>6, <2>1, <2>3, <2>4, PushDoes
  <2>6. code' = <<>> \o SubSeq(Isr80, 4, 14)
    <3>1. j + 1 = 4
      BY <1>13
    <3>2. e = SubSeq(Isr80, 4, 14)
      BY ONLY <1>8, <3>1
    <3> QED
      BY <1>9, <3>2, <2>2
  <2>7. ToStep80(S, n, 4, <<>>)
    <3>1. /\ IsSeq(stack') /\ Len(stack') = n + Depth80[4]
          /\ \A i \in 1 .. n : stack'[i] = stack[i]
      BY <2>5, KernelTable DEF Leaves, Holds
    <3>2. Copies(stack', n, Names80, Loaded(call, S), Copied80[4])
      BY <1>4, <2>5, KernelTable DEF Leaves, Holds
    <3>3. Same(Kept80(4), regs', Loaded(call, S))
      BY <1>4, <1>5, <1>13, <2>2, <2>5, <2>6, KernelTable DEF Same
    <3>4. on' = FALSE /\ call' = call /\ done' = {}
      BY <1>5, <1>13, <2>2, <2>5, <2>6
    <3> QED
      BY <1>7, <2>6, <3>1, <3>2, <3>3, <3>4 DEF ToStep80
  <2> QED
    BY <1>10, <2>2, <2>7
<1>14. CASE j = 4
  <2>1. Push /\ Of = PushArguments
    BY <1>1, <1>2, <1>3, <1>14, WhichInstruction
  <2>2. /\ regs' = regs /\ on' = on /\ code' = Tail(code) /\ call' = call
        /\ done' = done /\ master' = master /\ slave' = slave
    BY <2>1 DEF Push, Step
  <2>3. Following(Of, 6, 10, Names80, was)
    <3>1. \A i \in 1 .. 6 : Names80[10 + i] = PushArguments[i] /\ PushArguments[i] \in Registers
      BY NamesOfCall, NamesOfHandler DEF Registers
    <3>2. \A r \in Registers : regs[r] = was[r]
      BY <1>5, <1>14, KernelTable DEF Same
    <3>3. IsSeq(PushArguments) /\ Len(PushArguments) = 6
      BY NamesOfCall, NamesOfHandler
    <3> QED
      BY <2>1, <3>1, <3>2, <3>3 DEF Following
  <2>4. Holds(stack, n, 10, Names80, was)
    BY <1>5, <1>6, <1>14, KernelTable DEF Holds
  <2>5. Leaves(n, 10 + 6, Names80, was)
    BY <1>6, <2>1, <2>3, <2>4, PushDoes
  <2>6. code' = <<>> \o SubSeq(Isr80, 5, 14)
    <3>1. j + 1 = 5
      BY <1>14
    <3>2. e = SubSeq(Isr80, 5, 14)
      BY ONLY <1>8, <3>1
    <3> QED
      BY <1>9, <3>2, <2>2
  <2>7. ToStep80(S, n, 5, <<>>)
    <3>1. /\ IsSeq(stack') /\ Len(stack') = n + Depth80[5]
          /\ \A i \in 1 .. n : stack'[i] = stack[i]
      BY <2>5, KernelTable DEF Leaves, Holds
    <3>2. Copies(stack', n, Names80, Loaded(call, S), Copied80[5])
      BY <1>4, <2>5, KernelTable DEF Leaves, Holds
    <3>3. Same(Kept80(5), regs', Loaded(call, S))
      BY <1>4, <1>5, <1>14, <2>2, <2>5, <2>6, KernelTable DEF Same
    <3>4. on' = FALSE /\ call' = call /\ done' = {}
      BY <1>5, <1>14, <2>2, <2>5, <2>6
    <3> QED
      BY <1>7, <2>6, <3>1, <3>2, <3>3, <3>4 DEF ToStep80
  <2> QED
    BY <1>10, <2>2, <2>7
<1>15. CASE j = 5
  <2>1. Load
    BY <1>1, <1>2, <1>3, <1>15, WhichInstruction
  <2>2. /\ stack' = stack /\ on' = on /\ code' = Tail(code) /\ call' = call
        /\ done' = done /\ master' = master /\ slave' = slave
    BY <2>1 DEF Load, Step
  <2>3. IsRegs(regs')
    BY <2>1 DEF Load, IsRegs
  <2>4. code' = <<>> \o SubSeq(Isr80, 6, 14)
    <3>1. j + 1 = 6
      BY <1>15
    <3>2. e = SubSeq(Isr80, 6, 14)
      BY ONLY <1>8, <3>1
    <3> QED
      BY <1>9, <3>2, <2>2
  <2>5. ToStep80(S, n, 6, <<>>)
    <3>1. /\ IsSeq(stack') /\ Len(stack') = n + Depth80[6]
          /\ \A i \in 1 .. n : stack'[i] = stack[i]
      BY <1>5, <1>6, <1>15, <2>2, <2>3, <2>4, KernelTable
    <3>2. Copies(stack', n, Names80, Loaded(call, S), Copied80[6])
      BY <1>4, <1>5, <1>15, <2>2, <2>3, <2>4, KernelTable
    <3>3. Same(Kept80(6), regs', Loaded(call, S))
      BY <1>4, <1>5, <1>15, <2>2, <2>3, <2>4, KernelTable DEF Same
    <3>4. on' = FALSE /\ call' = call /\ done' = {}
      BY <1>5, <1>15, <2>2, <2>3, <2>4
    <3> QED
      BY <1>7, <2>4, <3>1, <3>2, <3>3, <3>4 DEF ToStep80
  <2> QED
    BY <1>10, <2>2, <2>5
<1>16. CASE j = 6
  <2>1. Flag /\ Op = "sti"
    BY <1>1, <1>2, <1>3, <1>16, WhichInstruction
  <2>2. on' = TRUE
    <3>1. on' = (Op = "sti") /\ Op = "sti"
      BY <2>1 DEF Flag
    <3> QED
      BY <3>1, Zenon
  <2>3. /\ stack' = stack /\ regs' = regs /\ code' = Tail(code) /\ call' = call
        /\ done' = done /\ master' = master /\ slave' = slave
    BY <2>1 DEF Flag, Step
  <2>4. code' = <<>> \o SubSeq(Isr80, 7, 14)
    <3>1. j + 1 = 7
      BY <1>16
    <3>2. e = SubSeq(Isr80, 7, 14)
      BY ONLY <1>8, <3>1
    <3> QED
      BY <1>9, <3>2, <2>3
  <2>5. ToStep80(S, n, 7, <<>>)
    <3>1. /\ IsSeq(stack') /\ Len(stack') = n + Depth80[7]
          /\ \A i \in 1 .. n : stack'[i] = stack[i]
      BY <1>5, <1>6, <1>16, <2>2, <2>3, <2>4, KernelTable
    <3>2. Copies(stack', n, Names80, Loaded(call, S), Copied80[7])
      BY <1>4, <1>5, <1>16, <2>2, <2>3, <2>4, KernelTable
    <3>3. Same(Kept80(7), regs', Loaded(call, S))
      BY <1>4, <1>5, <1>16, <2>2, <2>3, <2>4, KernelTable DEF Same
    <3>4. on' = TRUE /\ call' = call /\ done' = {}
      BY <1>5, <1>16, <2>2, <2>3, <2>4
    <3> QED
      BY <1>7, <2>4, <3>1, <3>2, <3>3, <3>4 DEF ToStep80
  <2> QED
    BY <1>10, <2>3, <2>5
<1>17. CASE j = 7
  <2>1. Serve
    BY <1>1, <1>2, <1>3, <1>17, WhichInstruction
  <2>2. on' = on /\ call' = call /\ master' = master /\ slave' = slave
    BY <2>1 DEF Serve
  <2>3. Holds(stack, n, 16, Names80, Loaded(call, S)) /\ done = {}
    BY <1>4, <1>5, <1>6, <1>17, KernelTable DEF Holds
  <2>4. /\ IsSeq(stack') /\ Len(stack') = n + 16
        /\ Copies(stack', n, Names80, Loaded(call, S), 15)
        /\ \A i \in 1 .. n : stack'[i] = stack[i]
        /\ done' = Asked(call, S)
        /\ stack'[n + 16] = Word(IF Answered(done') THEN "answer" ELSE Loaded(call, S)["eax"])
        /\ IsRegs(regs')
        /\ \E d \in SomeDelays : code' = d \o Tail(code)
    BY <1>6, <2>1, <2>3, ServeDoes
  <2>5. PICK d \in SomeDelays : code' = d \o SubSeq(Isr80, 8, 14)
    <3>1. j + 1 = 8
      BY <1>17
    <3>2. Tail(code) = SubSeq(Isr80, 8, 14)
      BY ONLY <1>1, <3>1
    <3> QED
      BY <2>4, <3>2
  <2>6. ToStep80(S, n, 8, d)
    <3>1. /\ Same(Kept80(8), regs', Loaded(call, S)) /\ Depth80[8] = 16 /\ Copied80[8] = 15
          /\ on' = TRUE
      BY <1>5, <1>17, <2>2, <2>4, KernelTable DEF Same
    <3>2. IsSeq(stack') /\ Len(stack') = n + Depth80[8] /\ \A i \in 1 .. n : stack'[i] = stack[i]
      BY <2>4, <3>1
    <3>3. Copies(stack', n, Names80, Loaded(call, S), Copied80[8])
      BY <2>4, <3>1
    <3>4. /\ d \in SomeDelays /\ code' = d \o SubSeq(Isr80, 8, 14)
          /\ call' = call /\ done' = Asked(call, S)
          /\ stack'[n + 16] = Word(IF Answered(done') THEN "answer" ELSE Loaded(call, S)["eax"])
      BY <2>2, <2>4, <2>5
    <3> QED
      BY <3>1, <3>2, <3>3, <3>4 DEF ToStep80
  <2> QED
    BY <1>10, <2>2, <2>6
<1>18. CASE j = 8
  <2>1. Answer
    BY <1>1, <1>2, <1>3, <1>18, WhichInstruction
  <2>2. /\ stack' = stack /\ on' = on /\ code' = Tail(code) /\ call' = call
        /\ done' = done /\ master' = master /\ slave' = slave
    BY <2>1 DEF Answer, Step
  <2>3. Len(stack) = n + 16
    BY <1>5, <1>18, KernelTable
  <2>4. Top = Word(IF Answered(done) THEN "answer" ELSE was["eax"])
    BY <1>5, <1>18, <2>3 DEF Top
  <2>5. IsRegs(regs') /\ regs'["eax"] = Top.is
    BY <2>1 DEF Answer, Used, IsRegs, Registers, CallUsed
  <2>6. Answered(done') => regs'["eax"] = "answer"
    BY <2>2, <2>4, <2>5 DEF Word
  <2>7. code' = <<>> \o SubSeq(Isr80, 9, 14)
    <3>1. j + 1 = 9
      BY <1>18
    <3>2. e = SubSeq(Isr80, 9, 14)
      BY ONLY <1>8, <3>1
    <3> QED
      BY <1>9, <3>2, <2>2
  <2>8. stack'[n + 16] = Word(IF Answered(done') THEN "answer" ELSE Loaded(call, S)["eax"])
    BY <1>4, <1>5, <1>18, <2>2
  <2>9. ToStep80(S, n, 9, <<>>)
    <3>1. /\ IsSeq(stack') /\ Len(stack') = n + Depth80[9]
          /\ \A i \in 1 .. n : stack'[i] = stack[i]
      BY <1>5, <1>6, <1>18, <2>2, <2>5, <2>6, <2>7, <2>8, KernelTable
    <3>2. Copies(stack', n, Names80, Loaded(call, S), Copied80[9])
      BY <1>4, <1>5, <1>18, <2>2, <2>5, <2>6, <2>7, <2>8, KernelTable
    <3>3. Same(Kept80(9), regs', Loaded(call, S))
      BY <1>4, <1>5, <1>18, <2>2, <2>5, <2>6, <2>7, <2>8, KernelTable DEF Same
    <3>4. on' = TRUE /\ call' = call /\ done' = Asked(call, S)
      BY <1>5, <1>18, <2>2, <2>5, <2>6, <2>7, <2>8
    <3> QED
      BY <1>7, <2>7, <3>1, <3>2, <3>3, <3>4, <2>6, <2>8 DEF ToStep80
  <2> QED
    BY <1>10, <2>2, <2>9
<1>19. CASE j = 9
  <2>1. Drop
    BY <1>1, <1>2, <1>3, <1>19, WhichInstruction
  <2>2. /\ regs' = regs /\ on' = on /\ code' = Tail(code) /\ call' = call
        /\ done' = done /\ master' = master /\ slave' = slave
    BY <2>1 DEF Drop, Step
  <2>3. Len(stack) = n + 16 /\ Copies(stack, n, Names80, was, 15)
    BY <1>5, <1>19, KernelTable
  <2>4. PICK m : m = Len(stack) - 1
    OBVIOUS
  <2>5. m \in Nat /\ m = n + 15 /\ m <= Len(stack)
    BY <1>6, <2>3, <2>4
  <2>6. stack' = SubSeq(stack, 1, m)
    BY <2>1, <2>4 DEF Drop, Front
  <2>7. IsSeq(stack') /\ Len(stack') = n + 15 /\ \A i \in 1 .. n + 15 : stack'[i] = stack[i]
    <3>1. IsSeq(SubSeq(stack, 1, m)) /\ Len(SubSeq(stack, 1, m)) = m
          /\ \A i \in 1 .. m : SubSeq(stack, 1, m)[i] = stack[i]
      BY ONLY <1>6, <2>5, Shorter
    <3> QED
      BY <2>5, <2>6, <3>1
  <2>8. Copies(stack', n, Names80, was, 15) /\ \A i \in 1 .. n : stack'[i] = stack[i]
    <3>1. \A i \in 1 .. 15 : n + i \in 1 .. n + 15
      BY <1>6
    <3>2. \A i \in 1 .. 15 : stack'[n + i] = stack[n + i]
      BY <2>7, <3>1
    <3>3. \A i \in 1 .. 15 : stack'[n + i] = Word(was[Names80[i]])
      BY <2>3, <3>2 DEF Copies
    <3>4. \A i \in 1 .. n : stack'[i] = stack[i]
      BY <1>6, <2>7
    <3> QED
      BY <3>3, <3>4 DEF Copies
  <2>9. code' = <<>> \o SubSeq(Isr80, 10, 14)
    <3>1. j + 1 = 10
      BY <1>19
    <3>2. e = SubSeq(Isr80, 10, 14)
      BY ONLY <1>8, <3>1
    <3> QED
      BY <1>9, <3>2, <2>2
  <2>10. ToStep80(S, n, 10, <<>>)
    <3>1. /\ IsSeq(stack') /\ Len(stack') = n + Depth80[10]
          /\ \A i \in 1 .. n : stack'[i] = stack[i]
      BY <1>5, <1>6, <1>19, <2>2, <2>7, <2>8, <2>9, KernelTable
    <3>2. Copies(stack', n, Names80, Loaded(call, S), Copied80[10])
      BY <1>4, <1>5, <1>19, <2>2, <2>7, <2>8, <2>9, KernelTable
    <3>3. Same(Kept80(10), regs', Loaded(call, S))
      BY <1>4, <1>5, <1>19, <2>2, <2>7, <2>8, <2>9, KernelTable DEF Same
    <3>4. on' = TRUE /\ call' = call /\ done' = Asked(call, S)
      BY <1>5, <1>19, <2>2, <2>7, <2>8, <2>9
    <3>5. Answered(done') => regs'["eax"] = "answer"
      BY <1>5, <1>19, <2>2, <2>7, <2>8, <2>9
    <3> QED
      BY <1>7, <2>9, <3>1, <3>2, <3>3, <3>4, <3>5 DEF ToStep80
  <2> QED
    BY <1>10, <2>2, <2>10
<1>20. CASE j = 10
  <2>1. PICK q : q = Tail(Reverse(PushArguments))
    OBVIOUS
  <2>2. Pop /\ Of = q
    <3>1. Op = W[10][1] /\ Of = W[10][2]
      BY <1>1, <1>2, <1>20
    <3>2. W[10] = <<"pop", q>>
      BY <1>3, <2>1, Zenon
    <3> QED
      BY <3>1, <3>2, WhichInstruction
  <2>3. /\ on' = on /\ code' = Tail(code) /\ call' = call
        /\ done' = done /\ master' = master /\ slave' = slave
    BY <2>2 DEF Pop, Step
  <2>4. PICK R : R = Registers \ (Segments \cup {"eax", "ebp"})
    OBVIOUS
  <2>5. Uppermost(q, 5, 15, Names80, R)
    BY <2>1, <2>4, ArgumentsOff
  <2>6. Holds(stack, n, 15, Names80, was)
    BY <1>5, <1>6, <1>20, KernelTable DEF Holds
  <2>7. Leaves(n, 15 - 5, Names80, was) /\ Restores(R, was)
    BY <1>6, <2>2, <2>5, <2>6, PopDoes
  <2>8. regs'["eax"] = regs["eax"]
    <3>1. "eax" \in Registers /\ "eax" \notin R
      BY <2>4 DEF Registers, CallUsed, Segments
    <3> QED
      BY <2>7, <3>1 DEF Restores
  <2>9. code' = <<>> \o SubSeq(Isr80, 11, 14)
    <3>1. j + 1 = 11
      BY <1>20
    <3>2. e = SubSeq(Isr80, 11, 14)
      BY ONLY <1>8, <3>1
    <3> QED
      BY <1>9, <3>2, <2>3
  <2>10. ToStep80(S, n, 11, <<>>)
    <3>1. IsSeq(stack') /\ Len(stack') = n + Depth80[11] /\ \A i \in 1 .. n : stack'[i] = stack[i]
      BY <2>7, KernelTable DEF Leaves, Holds
    <3>2. Copies(stack', n, Names80, Loaded(call, S), Copied80[11])
      BY <1>4, <2>7, KernelTable DEF Leaves, Holds
    <3>3. Same(Kept80(11), regs', Loaded(call, S))
      BY <2>7, KernelTable DEF Same, Restores
    <3>4. on' = TRUE /\ call' = call /\ done' = Asked(call, S)
      BY <1>5, <1>20, <2>3
    <3>5. Answered(done') => regs'["eax"] = "answer"
      BY <1>5, <1>20, <2>3, <2>8
    <3> QED
      BY <1>7, <2>9, <3>1, <3>2, <3>3, <3>4, <3>5 DEF ToStep80
  <2> QED
    BY <1>10, <2>3, <2>10
<1>21. CASE j = 11
  <2>1. PICK q : q = Reverse(PushSegments)
    OBVIOUS
  <2>2. Pop /\ Of = q
    BY <1>1, <1>2, <1>3, <1>21, <2>1, WhichInstruction
  <2>3. /\ on' = on /\ code' = Tail(code) /\ call' = call
        /\ done' = done /\ master' = master /\ slave' = slave
    BY <2>2 DEF Pop, Step
  <2>4. PICK R : R = Segments
    OBVIOUS
  <2>5. Uppermost(q, 4, 10, Names80, R)
    <3>1. Latest(PushSegments, 4, 10, Names80, R)
      BY <2>4, NamesOfCall, NamesOfHandler DEF Latest
    <3>2. Uppermost(Reverse(PushSegments), 4, 10, Names80, R)
      BY <3>1, OffTheStack
    <3> QED
      BY <2>1, <3>2
  <2>6. Holds(stack, n, 10, Names80, was)
    BY <1>5, <1>6, <1>21, KernelTable DEF Holds
  <2>7. Leaves(n, 10 - 4, Names80, was) /\ Restores(R, was)
    BY <1>6, <2>2, <2>5, <2>6, PopDoes
  <2>8. regs'["eax"] = regs["eax"]
    <3>1. "eax" \in Registers /\ "eax" \notin R
      BY <2>4 DEF Registers, CallUsed, Segments
    <3> QED
      BY <2>7, <3>1 DEF Restores
  <2>9. code' = <<>> \o SubSeq(Isr80, 12, 14)
    <3>1. j + 1 = 12
      BY <1>21
    <3>2. e = SubSeq(Isr80, 12, 14)
      BY ONLY <1>8, <3>1
    <3> QED
      BY <1>9, <3>2, <2>3
  <2>10. ToStep80(S, n, 12, <<>>)
    <3>1. IsSeq(stack') /\ Len(stack') = n + Depth80[12] /\ \A i \in 1 .. n : stack'[i] = stack[i]
      BY <2>7, KernelTable DEF Leaves, Holds
    <3>2. Copies(stack', n, Names80, Loaded(call, S), Copied80[12])
      BY <1>4, <2>7, KernelTable DEF Leaves, Holds
    <3>3. Same(Kept80(12), regs', Loaded(call, S))
      <4>1. Segments \subseteq Registers
        BY DEF Registers
      <4> QED
        BY <1>4, <2>4, <2>7, <4>1, KernelTable DEF Same, Restores
    <3>4. on' = TRUE /\ call' = call /\ done' = Asked(call, S)
      BY <1>5, <1>21, <2>3
    <3>5. Answered(done') => regs'["eax"] = "answer"
      BY <1>5, <1>21, <2>3, <2>8
    <3> QED
      BY <1>7, <2>9, <3>1, <3>2, <3>3, <3>4, <3>5 DEF ToStep80
  <2> QED
    BY <1>10, <2>3, <2>10
<1>22. CASE j = 12
  <2>1. PICK q : q = Reverse(PushSaved)
    OBVIOUS
  <2>2. Pop /\ Of = q
    BY <1>1, <1>2, <1>3, <1>22, <2>1, WhichInstruction
  <2>3. /\ on' = on /\ code' = Tail(code) /\ call' = call
        /\ done' = done /\ master' = master /\ slave' = slave
    BY <2>2 DEF Pop, Step
  <2>4. PICK R : R = Registers \ (Segments \cup {"eax"})
    OBVIOUS
  <2>5. Uppermost(q, 6, 6, Names80, R)
    <3>1. Latest(PushSaved, 6, 6, Names80, R)
      BY <2>4, NamesOfCall, NamesOfHandler DEF Latest
    <3>2. Uppermost(Reverse(PushSaved), 6, 6, Names80, R)
      BY <3>1, OffTheStack
    <3> QED
      BY <2>1, <3>2
  <2>6. Holds(stack, n, 6, Names80, was)
    BY <1>5, <1>6, <1>22, KernelTable DEF Holds
  <2>7. Leaves(n, 6 - 6, Names80, was) /\ Restores(R, was)
    BY <1>6, <2>2, <2>5, <2>6, PopDoes
  <2>8. regs'["eax"] = regs["eax"]
    <3>1. "eax" \in Registers /\ "eax" \notin R
      BY <2>4 DEF Registers, CallUsed, Segments
    <3> QED
      BY <2>7, <3>1 DEF Restores
  <2>9. code' = <<>> \o SubSeq(Isr80, 13, 14)
    <3>1. j + 1 = 13
      BY <1>22
    <3>2. e = SubSeq(Isr80, 13, 14)
      BY ONLY <1>8, <3>1
    <3> QED
      BY <1>9, <3>2, <2>3
  <2>10. ToStep80(S, n, 13, <<>>)
    <3>1. IsSeq(stack') /\ Len(stack') = n + Depth80[13] /\ \A i \in 1 .. n : stack'[i] = stack[i]
      BY <2>7, KernelTable DEF Leaves, Holds
    <3>2. Copies(stack', n, Names80, Loaded(call, S), Copied80[13])
      BY <1>4, <2>7, KernelTable DEF Leaves, Holds
    <3>3. Same(Kept80(13), regs', Loaded(call, S))
      <4>1. \A r \in Segments : regs[r] = was[r]
        BY <1>5, <1>22, KernelTable DEF Same
      <4>2. \A r \in Segments : r \in Registers \ R
        BY <2>4 DEF Registers
      <4>3. \A r \in Registers \ {"eax"} : regs'[r] = was[r]
        BY <2>4, <2>7, <4>1, <4>2 DEF Restores
      <4> QED
        BY <1>4, <2>7, <4>3, KernelTable DEF Same, Restores
    <3>4. on' = TRUE /\ call' = call /\ done' = Asked(call, S)
      BY <1>5, <1>22, <2>3
    <3>5. Answered(done') => regs'["eax"] = "answer"
      BY <1>5, <1>22, <2>3, <2>8
    <3> QED
      BY <1>7, <2>9, <3>1, <3>2, <3>3, <3>4, <3>5 DEF ToStep80
  <2> QED
    BY <1>10, <2>3, <2>10
<1>23. CASE j = 13
  <2>1. Flag /\ Op = "sti"
    BY <1>1, <1>2, <1>3, <1>23, WhichInstruction
  <2>2. on' = TRUE
    <3>1. on' = (Op = "sti") /\ Op = "sti"
      BY <2>1 DEF Flag
    <3> QED
      BY <3>1, Zenon
  <2>3. /\ stack' = stack /\ regs' = regs /\ code' = Tail(code) /\ call' = call
        /\ done' = done /\ master' = master /\ slave' = slave
    BY <2>1 DEF Flag, Step
  <2>4. code' = <<>> \o SubSeq(Isr80, 14, 14)
    <3>1. j + 1 = 14
      BY <1>23
    <3>2. e = SubSeq(Isr80, 14, 14)
      BY ONLY <1>8, <3>1
    <3> QED
      BY <1>9, <3>2, <2>3
  <2>5. ToStep80(S, n, 14, <<>>)
    <3>1. IsSeq(stack') /\ Len(stack') = n + Depth80[14] /\ \A i \in 1 .. n : stack'[i] = stack[i]
      BY <1>5, <1>6, <1>23, <2>3, KernelTable
    <3>2. Copies(stack', n, Names80, Loaded(call, S), Copied80[14])
      BY <1>4, <1>5, <1>23, <2>3, KernelTable
    <3>3. Same(Kept80(14), regs', Loaded(call, S))
      BY <1>4, <1>5, <1>23, <2>3, KernelTable
    <3>4. call' = call /\ done' = Asked(call, S)
      BY <1>5, <1>23, <2>3
    <3>5. Answered(done') => regs'["eax"] = "answer"
      BY <1>5, <1>23, <2>3
    <3> QED
      BY <1>7, <2>2, <2>4, <3>1, <3>2, <3>3, <3>4, <3>5 DEF ToStep80
  <2> QED
    BY <1>10, <2>3, <2>5
<1>24. CASE j = 14
  <2>1. Iret
    BY <1>1, <1>2, <1>3, <1>24, WhichInstruction
  <2>2. Len(stack) = n /\ Same(Registers \ {"eax"}, regs, was)
    <3>1. Depth80[14] = 0 /\ Kept80(14) = Registers \ {"eax"}
      BY ONLY KernelTable
    <3>2. Len(stack) = n + Depth80[14] /\ Same(Kept80(14), regs, was)
      BY <1>5, <1>24, Zenon
    <3>3. Len(stack) = n
      BY <1>6, <3>1, <3>2
    <3>4. Same(Registers \ {"eax"}, regs, was)
      BY <3>1, <3>2, Zenon
    <3> QED
      BY <3>3, <3>4
  <2>3. /\ Len(SavedBy(call, S)) = n - 1
        /\ Copies(stack, 0, SavedBy(call, S), Own, n - 1)
        /\ stack[n] = [kind |-> "frame", by |-> "int", rest |-> SubSeq(Wrapper(call, S), 5, 6),
                       on |-> TRUE, was |-> Loaded(call, S)]
    BY DEF InSys
  <2>4. Top = stack[n]
    BY <2>2 DEF Top
  <2>5. PICK m : m = n - 1
    OBVIOUS
  <2>6. m \in Nat /\ m <= Len(stack)
    BY <1>6, <2>2, <2>5
  <2>7. /\ code' = SubSeq(Wrapper(call, S), 5, 6) /\ on' = TRUE /\ stack' = SubSeq(stack, 1, m)
        /\ regs' = regs /\ call' = call /\ done' = done /\ master' = master /\ slave' = slave
    BY <2>1, <2>2, <2>3, <2>4, <2>5 DEF Iret, Front
  <2>8. IsSeq(stack') /\ Len(stack') = m /\ \A i \in 1 .. m : stack'[i] = stack[i]
    <3>1. IsSeq(SubSeq(stack, 1, m)) /\ Len(SubSeq(stack, 1, m)) = m
          /\ \A i \in 1 .. m : SubSeq(stack, 1, m)[i] = stack[i]
      BY ONLY <1>6, <2>6, Shorter
    <3> QED
      BY <2>7, <3>1
  <2>9. Copies(stack', 0, SavedBy(call, S), Own, m)
    BY <2>3, <2>5, <2>6, <2>8 DEF Copies
  <2>10. done' = Asked(call, S) /\ (Answered(done') => regs'["eax"] = "answer")
    BY <1>5, <1>24, <2>7
  <2>11. Same(Registers \ {"eax"}, regs', Loaded(call, S))
    BY <1>4, <2>2, <2>7
  <2>12. Same(Registers \ ({"eax"} \cup Saves(call, S)), regs', Loaded(call, S))
    BY <2>11 DEF Same
  <2>13. InWrapper(code', stack', regs', call, done', S, 5)
    BY <2>3, <2>5, <2>7, <2>8, <2>9, <2>10, <2>11, <2>12 DEF InWrapper
  <2>14. InProgram(code', stack', regs', on', call', done')
    BY <2>7, <2>13 DEF InProgram
  <2> QED
    BY <2>7, <2>8, <2>14 DEF Outside
<1> QED
  BY <1>11, <1>12, <1>13, <1>14, <1>15, <1>16, <1>17, <1>18, <1>19, <1>20,
     <1>21, <1>22, <1>23, <1>24

(* Before the answer, the driver waits or the next program starts.         *)
LEMMA DelayStep ==
  ASSUME call \in Calls, NEW S \in Operands(call), NEW n \in 1 .. Len(stack), NEW j \in 1 .. 14,
         NEW d \in SomeDelays, d # <<>>, InSys(code, stack, regs, on, call, done, S, n, j, d),
         IsSeq(stack), Instruction
  PROVE  /\ Outside(code', stack', regs', on', call', done')
         /\ master' = master /\ slave' = slave
<1>1. j = 8 /\ on = TRUE /\ code = d \o SubSeq(Isr80, 8, 14)
  <2>1. (d # <<>> => j = 8) /\ (j > 6 => on = TRUE) /\ code = d \o SubSeq(Isr80, j, 14)
    BY DEF InSys
  <2>2. j = 8
    BY <2>1
  <2>3. on = TRUE
    BY <2>1, <2>2
  <2> QED
    BY <2>1, <2>2, <2>3, Zenon
<1>2. PICK r : r = SubSeq(Isr80, 8, 14)
  OBVIOUS
<1>3. IsSeq(r) /\ code = d \o r
  BY <1>1, <1>2, Left80
<1>4. /\ Head(d) \in Delays /\ Tail(d) \in SomeDelays /\ code # <<>>
      /\ Head(code) = Head(d) /\ Tail(code) = Tail(d) \o r
      /\ \A x \in Delays : <<x>> \o d \in SomeDelays /\ <<x>> \o (d \o r) = (<<x>> \o d) \o r
      /\ \A x \in Delays : /\ <<x>> \o Tail(d) \in SomeDelays
                           /\ <<x>> \o (Tail(d) \o r) = (<<x>> \o Tail(d)) \o r
  <2>1. Head(d) \in Delays /\ Tail(d) \in SomeDelays /\ d \o r # <<>>
        /\ Head(d \o r) = Head(d) /\ Tail(d \o r) = Tail(d) \o r
    BY <1>3, Delayed
  <2>2. \A x \in Delays : <<x>> \o d \in SomeDelays /\ <<x>> \o (d \o r) = (<<x>> \o d) \o r
    BY <1>3, Delayed
  <2>3. \A x \in Delays : /\ <<x>> \o Tail(d) \in SomeDelays
                          /\ <<x>> \o (Tail(d) \o r) = (<<x>> \o Tail(d)) \o r
    BY <1>3, <2>1, Delayed
  <2> QED
    BY <1>3, <2>1, <2>2, <2>3
<1>5. <<"check">> \in Delays /\ <<"hlt">> \in Delays
  BY DEF Delays
<1>6. Op = Head(d)[1] /\ Op \in {"sleep", "check", "hlt", "execute"}
  BY <1>4 DEF Op, Delays
<1>7. ASSUME NEW c \in SomeDelays, code' = c \o r, UNCHANGED <<stack, on, call, done>>,
             regs' = regs
      PROVE  Outside(code', stack', regs', on', call', done')
  <2>1. ToStep80(S, n, 8, c)
    <3>1. /\ Len(stack) = n + Depth80[8] /\ Copies(stack, n, Names80, Loaded(call, S), Copied80[8])
          /\ Same(Kept80(8), regs, Loaded(call, S)) /\ done = Asked(call, S)
          /\ stack[n + 16] = Word(IF Answered(done) THEN "answer" ELSE Loaded(call, S)["eax"])
      BY <1>1 DEF InSys
    <3>2. \A i \in 1 .. n : stack'[i] = stack[i]
      BY <1>7
    <3> QED
      BY <1>1, <1>2, <1>7, <3>1, <3>2 DEF ToStep80
  <2> QED
    BY <2>1, KernelMoves
<1>8. CASE Op = "sleep"
  <2>1. Sleep
    BY <1>8, WhichInstruction
  <2>2. code' = <<<<"check">>>> \o (Tail(d) \o r)
    BY <1>4, <2>1 DEF Sleep
  <2>3. PICK c \in SomeDelays : code' = c \o r
    BY <1>4, <1>5, <2>2
  <2> QED
    BY <1>7, <2>1, <2>3 DEF Sleep
<1>9. CASE Op = "check"
  <2>1. Check
    BY <1>9, WhichInstruction
  <2>2. PICK c \in SomeDelays : code' = c \o r
    <3>1. CASE ticked
      <4>1. code' = Tail(d) \o r
        BY <1>4, <2>1, <3>1 DEF Check
      <4> QED
        BY <1>4, <4>1
    <3>2. CASE ~ticked
      <4>1. code' = <<<<"hlt">>>> \o (d \o r)
        BY <1>3, <2>1, <3>2 DEF Check
      <4> QED
        BY <1>4, <1>5, <4>1
    <3> QED
      BY <3>1, <3>2
  <2> QED
    BY <1>7, <2>1, <2>2 DEF Check
<1>10. CASE Op = "execute"
  <2>1. Execute
    BY <1>10, WhichInstruction
  <2>2. /\ code' = <<>> /\ stack' = <<>> /\ regs' = Own /\ call' = None /\ done' = {}
        /\ on' = TRUE /\ master' = master /\ slave' = slave
    BY <1>1, <2>1 DEF Execute
  <2>3. IsSeq(<<>>)
    BY DEF IsSeq
  <2> QED
    BY <2>2, <2>3 DEF Outside, InProgram
<1>11. Op # "hlt"
  BY WhichInstruction
<1> QED
  BY <1>6, <1>8, <1>9, <1>10, <1>11

-----------------------------------------------------------------------------
(* In the program.                                                         *)

(* Before a library function has come to its k-th step.                    *)
LEMMA WrapperNext ==
  ASSUME NEW st, NEW rg, NEW ca, NEW dn, NEW S, NEW k \in 1 .. 6,
         InWrapper(code, st, rg, ca, dn, S, k)
  PROVE  /\ Op = Wrapper(ca, S)[k][1] /\ Of = Wrapper(ca, S)[k][2] /\ code # <<>>
         /\ Tail(code) = SubSeq(Wrapper(ca, S), k + 1, 6)
<1>1. PICK W : W = Wrapper(ca, S)
  OBVIOUS
<1>2. IsSeq(W) /\ Len(W) = 6
  <2>1. IsSeq(Wrapper(ca, S)) /\ Len(Wrapper(ca, S)) = 6
    BY WrapperSteps
  <2> QED
    BY <1>1, <2>1
<1>3. code = SubSeq(W, k, Len(W))
  BY <1>1, <1>2 DEF InWrapper
<1>4. /\ Op = W[k][1] /\ Of = W[k][2] /\ code # <<>> /\ Tail(code) = SubSeq(W, k + 1, Len(W))
  BY <1>2, <1>3, NextOp
<1> QED
  BY <1>1, <1>2, <1>4

(* An instruction of a library function.                                   *)
LEMMA WrapperStep ==
  ASSUME call \in Calls, NEW S \in Operands(call), NEW k \in 1 .. 6, IsSeq(stack), on = TRUE,
         InWrapper(code, stack, regs, call, done, S, k), Instruction
  PROVE  /\ Outside(code', stack', regs', on', call', done')
         /\ master' = master /\ slave' = slave
<1>1. PICK s : s = SavedBy(call, S)
  OBVIOUS
<1>2. PICK R : R = Saves(call, S)
  OBVIOUS
<1>3. PICK W : W = Wrapper(call, S)
  OBVIOUS
<1>4. PICK asked : asked = Asked(call, S)
  OBVIOUS
<1>5. PICK loaded : loaded = Loaded(call, S)
  OBVIOUS
<1>6. /\ IsSeq(s) /\ Len(s) \in Nat
      /\ \A i \in 1 .. Len(s) : s[i] \in R
      /\ \A r \in R : \E i \in 1 .. Len(s) : s[i] = r
  BY <1>1, <1>2, SavedRegisters
<1>7. /\ W[1] = <<"push", s>> /\ W[2] = <<"load", [r \in S |-> Unknown]>>
      /\ W[3] = <<"load", Functions[call].loads>> /\ W[4] = <<"int">>
      /\ W[5] = <<"pop", Reverse(s)>> /\ W[6] = <<"ret">>
  <2>1. /\ Wrapper(call, S)[1] = <<"push", SavedBy(call, S)>>
        /\ Wrapper(call, S)[2] = <<"load", [r \in S |-> Unknown]>>
        /\ Wrapper(call, S)[3] = <<"load", Functions[call].loads>>
        /\ Wrapper(call, S)[4] = <<"int">>
        /\ Wrapper(call, S)[5] = <<"pop", Reverse(SavedBy(call, S))>>
        /\ Wrapper(call, S)[6] = <<"ret">>
    BY WrapperSteps
  <2> QED
    BY <1>1, <1>3, <2>1, Zenon
<1>8. /\ Op = W[k][1] /\ Of = W[k][2] /\ code # <<>> /\ Tail(code) = SubSeq(W, k + 1, 6)
  <2>1. /\ Op = Wrapper(call, S)[k][1] /\ Of = Wrapper(call, S)[k][2] /\ code # <<>>
        /\ Tail(code) = SubSeq(Wrapper(call, S), k + 1, 6)
    BY WrapperNext
  <2> QED
    BY <1>3, <2>1, Zenon
<1>9. /\ Len(stack) = (IF k \in 2 .. 5 THEN Len(s) ELSE 0)
      /\ Copies(stack, 0, s, Own, Len(stack))
      /\ done = IF k \in 5 .. 6 THEN asked ELSE {}
  BY <1>1, <1>4 DEF InWrapper
<1>10. R \subseteq Registers /\ "eax" \notin R
  BY <1>2 DEF Saves, Registers, CalleeSaved
<1>11. IsRegs(Own) /\ \A r \in Registers : Own[r] = r
  BY DEF IsRegs, Own
<1>12. CASE k = 1
  <2>0. Tail(code) = SubSeq(W, 2, 6)
    <3>1. k + 1 = 2
      BY <1>12
    <3> QED
      BY ONLY <1>8, <3>1
  <2>1. Push /\ Of = s
    BY <1>7, <1>8, <1>12, WhichInstruction
  <2>2. regs = Own /\ stack = <<>>
    BY <1>9, <1>12 DEF InWrapper, IsSeq
  <2>3. /\ regs' = regs /\ on' = on /\ code' = SubSeq(W, 2, 6) /\ call' = call
        /\ done' = done /\ master' = master /\ slave' = slave
    BY <1>12, <2>0, <2>1 DEF Push, Step
  <2>4. PICK m : m = Len(s)
    OBVIOUS
  <2>5. Following(Of, m, 0, s, Own) /\ Holds(stack, 0, 0, s, Own)
    BY <1>6, <1>9, <1>12, <2>1, <2>2, <2>4 DEF Following, Holds
  <2>6. Leaves(0, 0 + m, s, Own)
    BY <1>6, <2>1, <2>4, <2>5, PushDoes
  <2>7. Len(stack') = m /\ Copies(stack', 0, s, Own, m) /\ IsSeq(stack')
    BY <1>6, <2>4, <2>6 DEF Leaves, Holds
  <2>8. InWrapper(code', stack', regs', call', done', S, 2)
    BY <1>1, <1>3, <1>9, <1>12, <2>2, <2>3, <2>4, <2>7 DEF InWrapper
  <2> QED
    <3>1. InProgram(code', stack', regs', on', call', done')
      BY <2>3, <2>7, <2>8 DEF InProgram
    <3> QED
      BY <2>3, <2>7, <2>8, <3>1 DEF Outside
<1>13. CASE k = 2
  <2>0. Tail(code) = SubSeq(W, 3, 6)
    <3>1. k + 1 = 3
      BY <1>13
    <3> QED
      BY ONLY <1>8, <3>1
  <2>1. Load /\ Of = [r \in S |-> Unknown]
    BY <1>7, <1>8, <1>13, WhichInstruction
  <2>2. regs = Own
    BY <1>13 DEF InWrapper
  <2>3. /\ stack' = stack /\ on' = on /\ code' = SubSeq(W, 3, 6) /\ call' = call
        /\ done' = done /\ master' = master /\ slave' = slave
    BY <1>13, <2>0, <2>1 DEF Load, Step
  <2>4. regs' = Blurred(S)
    BY <2>1, <2>2 DEF Load, Blurred, Own
  <2>5. InWrapper(code', stack', regs', call', done', S, 3)
    BY <1>1, <1>3, <1>9, <1>13, <2>3, <2>4 DEF InWrapper
  <2> QED
    <3>1. InProgram(code', stack', regs', on', call', done')
      BY <2>3, <2>5 DEF InProgram
    <3> QED
      BY <2>3, <2>5, <3>1 DEF Outside
<1>14. CASE k = 3
  <2>0. Tail(code) = SubSeq(W, 4, 6)
    <3>1. k + 1 = 4
      BY <1>14
    <3> QED
      BY ONLY <1>8, <3>1
  <2>1. Load /\ Of = Functions[call].loads
    BY <1>7, <1>8, <1>14, WhichInstruction
  <2>2. regs = Blurred(S)
    BY <1>14 DEF InWrapper
  <2>3. /\ stack' = stack /\ on' = on /\ code' = SubSeq(W, 4, 6) /\ call' = call
        /\ done' = done /\ master' = master /\ slave' = slave
    BY <1>14, <2>0, <2>1 DEF Load, Step
  <2>4. regs' = loaded
    BY <1>5, <2>1, <2>2 DEF Load, Blurred, Loaded
  <2>5. InWrapper(code', stack', regs', call', done', S, 4)
    BY <1>1, <1>3, <1>5, <1>9, <1>14, <2>3, <2>4 DEF InWrapper
  <2> QED
    <3>1. InProgram(code', stack', regs', on', call', done')
      BY <2>3, <2>5 DEF InProgram
    <3> QED
      BY <2>3, <2>5, <3>1 DEF Outside
<1>15. CASE k = 4
  <2>0. Tail(code) = SubSeq(W, 5, 6)
    <3>1. k + 1 = 5
      BY <1>15
    <3> QED
      BY ONLY <1>8, <3>1
  <2>1. Int80
    BY <1>7, <1>8, <1>15, WhichInstruction
  <2>2. regs = loaded /\ Len(stack) = Len(s)
    BY <1>5, <1>9, <1>15 DEF InWrapper
  <2>3. /\ stack' = Append(stack, Frame("int", SubSeq(W, 5, 6))) /\ code' = Isr80 /\ on' = FALSE
        /\ regs' = regs /\ call' = call /\ done' = {} /\ master' = master /\ slave' = slave
    <3>1. /\ stack' = Append(stack, Frame("int", Tail(code))) /\ code' = Isr80 /\ on' = FALSE
          /\ regs' = regs /\ call' = call /\ done' = done /\ master' = master /\ slave' = slave
      BY <2>1 DEF Int80
    <3>2. done = {}
      BY <1>9, <1>15
    <3> QED
      BY <2>0, <3>1, <3>2, Zenon
  <2>4. PICK n : n = Len(stack) + 1
    OBVIOUS
  <2>5. /\ IsSeq(stack') /\ Len(stack') = n /\ n \in Nat \ {0}
        /\ stack'[n] = Frame("int", SubSeq(W, 5, 6))
        /\ \A i \in 1 .. Len(stack) : stack'[i] = stack[i]
    <3>1. PICK f : f = Frame("int", SubSeq(W, 5, 6))
      OBVIOUS
    <3>2. stack' = Append(stack, f)
      BY <2>3, <3>1
    <3>3. /\ IsSeq(Append(stack, f)) /\ Len(Append(stack, f)) = Len(stack) + 1
          /\ Len(stack) \in Nat /\ Append(stack, f)[Len(stack) + 1] = f
          /\ \A i \in 1 .. Len(stack) : Append(stack, f)[i] = stack[i]
      BY Longer
    <3> QED
      BY <2>4, <3>1, <3>2, <3>3
  <2>6. Frame("int", SubSeq(W, 5, 6)) =
          [kind |-> "frame", by |-> "int", rest |-> SubSeq(W, 5, 6), on |-> TRUE, was |-> loaded]
    BY <2>2 DEF Frame
  <2>7. Copies(stack', 0, s, Own, n - 1) /\ Len(s) = n - 1
    BY <1>6, <1>9, <2>2, <2>4, <2>5 DEF Copies
  <2>8. <<>> \in SomeDelays /\ code' = <<>> \o SubSeq(Isr80, 1, 14)
    <3>1. IsSeq(Isr80) /\ Len(Isr80) = 14
      BY KernelSteps
    <3>2. SubSeq(Isr80, 1, 14) = Isr80
      BY <3>1, SubSeqFull DEF IsSeq
    <3> QED
      BY <2>3, <3>2, Left80 DEF SomeDelays
  <2>9. Same(Registers, regs', loaded)
    BY <1>5, <2>2, <2>3 DEF Same, IsRegs, Loaded
  <2>10. InSys(code', stack', regs', on', call', done', S, n, 1, <<>>)
    <3>1. Len(stack') = n + Depth80[1] /\ Copies(stack', n, Names80, loaded, Copied80[1])
      BY <2>5, KernelTable DEF Copies
    <3>2. Same(Kept80(1), regs', loaded)
      BY <2>9, KernelTable
    <3> QED
      BY <1>1, <1>3, <1>5, <2>3, <2>5, <2>6, <2>7, <2>8, <3>1, <3>2 DEF InSys
  <2>11. InKernel(code', stack', regs', on', call', done')
    BY <2>3, <2>5, <2>8, <2>10 DEF InKernel
  <2> QED
    BY <2>3, <2>5, <2>11 DEF Outside
<1>16. CASE k = 5
  <2>0. Tail(code) = SubSeq(W, 6, 6)
    <3>1. k + 1 = 6
      BY <1>16
    <3> QED
      BY ONLY <1>8, <3>1
  <2>1. PICK q : q = Reverse(s)
    OBVIOUS
  <2>2. Pop /\ Of = q
    BY <1>7, <1>8, <1>16, <2>1, WhichInstruction
  <2>3. /\ on' = on /\ code' = SubSeq(W, 6, 6) /\ call' = call
        /\ done' = done /\ master' = master /\ slave' = slave
    BY <1>16, <2>0, <2>2 DEF Pop, Step
  <2>4. PICK m : m = Len(s)
    OBVIOUS
  <2>5. Latest(s, m, m, s, R)
    BY <1>6, <2>4 DEF Latest
  <2>6. Uppermost(q, m, m, s, R)
    BY <1>6, <2>1, <2>4, <2>5, OffTheStack
  <2>7. Holds(stack, 0, m, s, Own)
    BY <1>6, <1>9, <1>16, <2>4 DEF Holds
  <2>8. Leaves(0, m - m, s, Own) /\ Restores(R, Own)
    BY <1>6, <2>2, <2>4, <2>6, <2>7, PopDoes
  <2>9. IsSeq(stack') /\ Len(stack') = 0 /\ Copies(stack', 0, s, Own, 0)
    BY <1>6, <2>4, <2>8 DEF Leaves, Holds
  <2>10. /\ Same(Registers \ {"eax"}, regs, loaded) /\ (Answered(done) => regs["eax"] = "answer")
    BY <1>5, <1>16 DEF InWrapper
  <2>11. /\ Same(Registers \ ({"eax"} \cup R), regs', loaded) /\ Same(R, regs', Own)
         /\ (Answered(done) => regs'["eax"] = "answer")
    <3>1. "eax" \in Registers
      BY DEF Registers, CallUsed
    <3> QED
      BY <1>10, <2>8, <2>10, <3>1 DEF Same, Restores
  <2>12. InWrapper(code', stack', regs', call', done', S, 6)
    BY <1>1, <1>2, <1>3, <1>4, <1>5, <1>9, <1>16, <2>3, <2>9, <2>11 DEF InWrapper
  <2> QED
    <3>1. InProgram(code', stack', regs', on', call', done')
      BY <2>3, <2>9, <2>12 DEF InProgram
    <3> QED
      BY <2>3, <2>9, <2>12, <3>1 DEF Outside
<1>17. CASE k = 6
  <2>1. Ret
    BY <1>7, <1>8, <1>17, WhichInstruction
  <2>2. Len(stack) = 0
    BY <1>9, <1>17
  <2>3. stack = <<>>
    BY <2>2 DEF IsSeq
  <2>4. Tail(code) = SubSeq(W, 7, 6)
    <3>1. k + 1 = 7
      BY <1>17
    <3> QED
      BY ONLY <1>8, <3>1
  <2>5. SubSeq(W, 7, 6) = <<>>
    BY SubSeqEmpty
  <2>6. /\ code' = <<>> /\ stack' = <<>> /\ regs' = Own /\ on' = TRUE
        /\ call' = None /\ done' = {} /\ master' = master /\ slave' = slave
    BY <2>1, <2>3, <2>4, <2>5 DEF Ret, Step
  <2>7. IsSeq(<<>>)
    BY DEF IsSeq
  <2> QED
    BY <2>6, <2>7 DEF Outside, InProgram
<1> QED
  BY <1>12, <1>13, <1>14, <1>15, <1>16, <1>17

-----------------------------------------------------------------------------
(* Where the program is, and what comes next.                              *)

\* The program runs its own code.
Idle ==
  /\ code = <<>> /\ stack = <<>> /\ regs = Own /\ on = TRUE /\ call = None /\ done = {}
  /\ Op = "own"

\* A library function runs.
InLibrary ==
  /\ call \in Calls /\ on = TRUE /\ IsSeq(stack)
  /\ \E S \in Operands(call), k \in 1 .. 6 :
       /\ InWrapper(code, stack, regs, call, done, S, k)
       /\ Op \in {"push", "load", "int", "pop", "ret"} /\ (Op = "ret" => k = 6)

\* A system call runs; d is what it waits for.
InCall(d) ==
  /\ call \in Calls /\ IsSeq(stack)
  /\ \E S \in Operands(call), n \in 1 .. Len(stack), j \in 1 .. 14 :
       /\ InSys(code, stack, regs, on, call, done, S, n, j, d)
       /\ d = <<>> => /\ Op \in {"cli", "push", "load", "sti", "serve", "answer", "drop", "pop", "iret"}
                      /\ (Op = "iret" => j = 14)
       /\ d # <<>> => /\ d \in SomeDelays /\ j = 8
                      /\ Op \in {"sleep", "check", "hlt", "execute"}

(* Outside the handlers it is one of these.                                *)
LEMMA WhereOutside ==
  ASSUME Outside(code, stack, regs, on, call, done)
  PROVE  Idle \/ InLibrary \/ \E d \in SomeDelays : InCall(d)
<1>1. CASE /\ code = <<>> /\ stack = <<>> /\ regs = Own /\ call = None /\ done = {} /\ on = TRUE
  BY <1>1 DEF Idle, Op
<1>2. ASSUME call \in Calls, on = TRUE, NEW S \in Operands(call), NEW k \in 1 .. 6,
             InWrapper(code, stack, regs, call, done, S, k)
      PROVE  InLibrary
  <2>1. Op = Wrapper(call, S)[k][1]
    BY <1>2, WrapperNext
  <2>2. PICK W : W = Wrapper(call, S)
    OBVIOUS
  <2>3. PICK s : s = SavedBy(call, S)
    OBVIOUS
  <2>4. /\ W[1][1] = "push" /\ W[2][1] = "load" /\ W[3][1] = "load"
        /\ W[4][1] = "int" /\ W[5][1] = "pop" /\ W[6][1] = "ret"
    <3>1. /\ Wrapper(call, S)[1] = <<"push", SavedBy(call, S)>>
          /\ Wrapper(call, S)[2] = <<"load", [r \in S |-> Unknown]>>
          /\ Wrapper(call, S)[3] = <<"load", Functions[call].loads>>
          /\ Wrapper(call, S)[4] = <<"int">>
          /\ Wrapper(call, S)[5] = <<"pop", Reverse(SavedBy(call, S))>>
          /\ Wrapper(call, S)[6] = <<"ret">>
      BY WrapperSteps
    <3> QED
      BY <2>2, <3>1
  <2>5. Op = W[k][1]
    BY <2>1, <2>2
  <2>6. Op \in {"push", "load", "int", "pop", "ret"} /\ (Op = "ret" => k = 6)
    <3>1. k = 1 \/ k = 2 \/ k = 3 \/ k = 4 \/ k = 5 \/ k = 6
      OBVIOUS
    <3> QED
      BY <2>4, <2>5, <3>1
  <2> QED
    BY <1>2, <2>6 DEF InLibrary, Outside
<1>3. ASSUME call \in Calls, NEW S \in Operands(call), NEW n \in 1 .. Len(stack),
             NEW j \in 1 .. 14, NEW d \in SomeDelays,
             InSys(code, stack, regs, on, call, done, S, n, j, d)
      PROVE  InCall(d)
  <2>1. CASE d = <<>>
    <3>1. InSys(code, stack, regs, on, call, done, S, n, j, <<>>)
      BY <1>3, <2>1
    <3>2. Op = Isr80[j][1]
      BY <3>1, KernelNext
    <3>3. PICK W : W = Isr80
      OBVIOUS
    <3>4. /\ W[1][1] = "cli" /\ W[2][1] = "push" /\ W[3][1] = "push" /\ W[4][1] = "push"
          /\ W[5][1] = "load" /\ W[6][1] = "sti" /\ W[7][1] = "serve" /\ W[8][1] = "answer"
          /\ W[9][1] = "drop" /\ W[10][1] = "pop" /\ W[11][1] = "pop" /\ W[12][1] = "pop"
          /\ W[13][1] = "sti" /\ W[14][1] = "iret"
      BY <3>3, KernelSteps
    <3>5. Op = W[j][1]
      BY <3>2, <3>3
    <3>6. /\ Op \in {"cli", "push", "load", "sti", "serve", "answer", "drop", "pop", "iret"}
          /\ (Op = "iret" => j = 14)
      <4>1. \/ j = 1 \/ j = 2 \/ j = 3 \/ j = 4 \/ j = 5 \/ j = 6 \/ j = 7
            \/ j = 8 \/ j = 9 \/ j = 10 \/ j = 11 \/ j = 12 \/ j = 13 \/ j = 14
        OBVIOUS
      <4> QED
        BY <3>4, <3>5, <4>1
    <3> QED
      BY <1>3, <2>1, <3>6 DEF InCall, Outside
  <2>2. CASE d # <<>>
    <3>1. (d # <<>> => j = 8) /\ code = d \o SubSeq(Isr80, j, 14)
      BY <1>3 DEF InSys
    <3>2. j = 8
      BY <2>2, <3>1
    <3>3. PICK r : r = SubSeq(Isr80, j, 14)
      OBVIOUS
    <3>4. IsSeq(r) /\ code = d \o r
      <4>1. j \in 1 .. 15
        OBVIOUS
      <4>2. IsSeq(SubSeq(Isr80, j, 14))
        BY <4>1, Left80
      <4> QED
        BY <3>1, <3>3, <4>2
    <3>5. Head(d) \in Delays /\ code # <<>> /\ Head(code) = Head(d)
      BY <2>2, <3>4, Delayed
    <3>6. Op \in {"sleep", "check", "hlt", "execute"}
      BY <3>5 DEF Op, Delays
    <3> QED
      BY <1>3, <2>2, <3>2, <3>6 DEF InCall, Outside
  <2> QED
    BY <2>1, <2>2
<1> QED
  BY <1>1, <1>2, <1>3 DEF Outside, InProgram, InKernel

(* An instruction outside the handlers.                                    *)
LEMMA OutsideStep ==
  ASSUME Outside(code, stack, regs, on, call, done), Instruction
  PROVE  /\ Outside(code', stack', regs', on', call', done')
         /\ master' = master /\ slave' = slave
<1>1. Op # "own"
  BY WhichInstruction
<1>2. CASE InLibrary
  BY <1>2, WrapperStep DEF InLibrary
<1>3. ASSUME NEW d \in SomeDelays, InCall(d)
      PROVE  /\ Outside(code', stack', regs', on', call', done')
             /\ master' = master /\ slave' = slave
  <2>1. PICK S \in Operands(call), n \in 1 .. Len(stack), j \in 1 .. 14 :
          InSys(code, stack, regs, on, call, done, S, n, j, d)
    BY <1>3 DEF InCall
  <2>2. call \in Calls /\ IsSeq(stack)
    BY <1>3 DEF InCall
  <2>3. CASE d = <<>>
    <3>1. InSys(code, stack, regs, on, call, done, S, n, j, <<>>)
      BY <2>1, <2>3
    <3> QED
      BY <2>2, <3>1, KernelStep
  <2>4. CASE d # <<>>
    BY <2>1, <2>2, <2>4, DelayStep
  <2> QED
    BY <2>3, <2>4
<1> QED
  BY <1>1, <1>2, <1>3, WhereOutside DEF Idle

(* The program calls a library function.                                   *)
LEMMA CallStep ==
  ASSUME Outside(code, stack, regs, on, call, done), NEW c \in Calls, NEW S \in Operands(c), Call(c, S)
  PROVE  /\ Outside(code', stack', regs', on', call', done')
         /\ master' = master /\ slave' = slave
<1>1. Op = "own"
  BY DEF Call
<1>2. stack = <<>> /\ regs = Own /\ on = TRUE /\ done = {}
  BY <1>1, WhereOutside DEF Idle, InLibrary, InCall
<1>3. /\ code' = Wrapper(c, S) /\ call' = c /\ stack' = <<>> /\ regs' = Own /\ on' = TRUE
      /\ done' = {} /\ master' = master /\ slave' = slave
  BY <1>2 DEF Call
<1>4. code' = SubSeq(Wrapper(c, S), 1, 6)
  <2>1. IsSeq(Wrapper(c, S)) /\ Len(Wrapper(c, S)) = 6
    BY WrapperSteps
  <2>2. SubSeq(Wrapper(c, S), 1, 6) = Wrapper(c, S)
    BY <2>1, SubSeqFull DEF IsSeq
  <2> QED
    BY <1>3, <2>2
<1>5. Len(<<>>) = 0 /\ IsSeq(<<>>) /\ Copies(<<>>, 0, SavedBy(c, S), Own, 0)
  BY DEF IsSeq, Copies
<1>6. InWrapper(code', <<>>, Own, c, {}, S, 1)
  BY <1>4, <1>5 DEF InWrapper
<1>7. InProgram(code', stack', regs', on', call', done')
  BY <1>3, <1>6 DEF InProgram
<1> QED
  BY <1>3, <1>5, <1>7 DEF Outside

-----------------------------------------------------------------------------
(* Interrupts.                                                             *)

(* An interrupt ends a hlt: the code goes on behind it.                    *)
LEMMA Interrupted ==
  ASSUME Outside(code, stack, regs, on, call, done)
  PROVE  Outside(IF Op = "hlt" THEN Tail(code) ELSE code, stack, regs, on, call, done)
<1>1. CASE Op # "hlt"
  BY <1>1
<1>2. CASE Op = "hlt"
  <2>1. PICK d \in SomeDelays : InCall(d)
    BY <1>2, WhereOutside DEF Idle, InLibrary
  <2>2. PICK S \in Operands(call), n \in 1 .. Len(stack), j \in 1 .. 14 :
          /\ InSys(code, stack, regs, on, call, done, S, n, j, d)
          /\ d = <<>> => Op # "hlt"
          /\ d # <<>> => j = 8
    BY <2>1 DEF InCall
  <2>3. d # <<>> /\ j = 8
    BY <1>2, <2>2
  <2>4. PICK r : r = SubSeq(Isr80, j, 14)
    OBVIOUS
  <2>5. IsSeq(r) /\ code = d \o r
    <3>1. j \in 1 .. 15
      OBVIOUS
    <3>2. IsSeq(SubSeq(Isr80, j, 14))
      BY <3>1, Left80
    <3> QED
      BY <2>2, <2>4, <3>2 DEF InSys
  <2>6. Tail(d) \in SomeDelays /\ Tail(code) = Tail(d) \o SubSeq(Isr80, j, 14)
    BY <2>3, <2>4, <2>5, Delayed
  <2>7. InSys(Tail(code), stack, regs, on, call, done, S, n, j, Tail(d))
    BY <2>2, <2>3, <2>6 DEF InSys
  <2>8. call \in Calls /\ IsSeq(stack)
    BY <2>1 DEF InCall
  <2>9. InKernel(Tail(code), stack, regs, on, call, done)
    BY <2>6, <2>7, <2>8 DEF InKernel
  <2> QED
    BY <1>2, <2>8, <2>9 DEF Outside
<1> QED
  BY <1>1, <1>2

(* A handler starts on top of what it interrupts.                          *)
LEMMA AcceptStep ==
  ASSUME NEW l \in Lines, Accept(l), Outside(code, stack, regs, on, call, done),
         master = {}, slave = {}
  PROVE  Placed'
<1>1. PICK rest : rest = IF Op = "hlt" THEN Tail(code) ELSE code
  OBVIOUS
<1>2. on = TRUE
  <2>1. on
    BY DEF Accept
  <2>2. on \in BOOLEAN
    <3>1. ASSUME NEW d, InCall(d) PROVE on \in BOOLEAN
      <4>1. PICK S \in Operands(call), n \in 1 .. Len(stack), j \in 1 .. 14 :
              InSys(code, stack, regs, on, call, done, S, n, j, d)
        BY <3>1 DEF InCall
      <4>2. (j <= 6 => on = FALSE) /\ (j > 6 => on = TRUE)
        BY <4>1 DEF InSys
      <4>3. j <= 6 \/ j > 6
        OBVIOUS
      <4> QED
        BY <4>2, <4>3, Zenon
    <3> QED
      BY <3>1, WhereOutside DEF Idle, InLibrary
  <2> QED
    BY <2>1, <2>2
<1>3. Outside(rest, stack, regs, TRUE, call, done)
  <2>1. Outside(rest, stack, regs, on, call, done)
    BY <1>1, Interrupted, Zenon
  <2> QED
    BY <1>2, <2>1
<1>4. PICK f : f = Frame(l, rest)
  OBVIOUS
<1>5. /\ f = [kind |-> "frame", by |-> l, rest |-> f.rest, on |-> TRUE, was |-> f.was]
      /\ f.rest = rest /\ f.was = regs /\ f.kind = "frame"
  BY <1>2, <1>4 DEF Frame
<1>6. /\ stack' = Append(stack, f) /\ code' = Isr(l) /\ on' = FALSE /\ regs' = regs
      /\ call' = call /\ done' = done
      /\ master' = master \cup {l} /\ slave' = IF l = "disk" THEN {l} ELSE slave
  BY <1>1, <1>4 DEF Accept
<1>7. PICK n : n = Len(stack) + 1
  OBVIOUS
<1>8. IsSeq(stack)
  BY DEF Outside
<1>9. /\ IsSeq(stack') /\ Len(stack') = n /\ n \in Nat \ {0} /\ stack'[n] = f
      /\ SubSeq(stack', 1, n - 1) = stack
  <2>1. /\ IsSeq(Append(stack, f)) /\ Len(Append(stack, f)) = Len(stack) + 1
        /\ Len(stack) \in Nat /\ Append(stack, f)[Len(stack) + 1] = f
        /\ SubSeq(Append(stack, f), 1, Len(stack)) = stack
    BY <1>8, Longer
  <2>2. n - 1 = Len(stack) /\ n \in Nat \ {0}
    BY <1>7, <2>1
  <2> QED
    BY <1>6, <1>7, <2>1, <2>2
<1>10. code' = SubSeq(Isr(l), 1, 10)
  <2>1. IsSeq(Isr(l)) /\ Len(Isr(l)) = 10
    BY HandlerSteps
  <2>2. SubSeq(Isr(l), 1, 10) = Isr(l)
    BY <2>1, SubSeqFull DEF IsSeq
  <2> QED
    BY <1>6, <2>2
<1>11. Len(stack') = n + DepthIsr[1] /\ Copies(stack', n, NamesIsr, regs, DepthIsr[1])
  BY <1>9, HandlerTable DEF Copies
<1>12. Same(KeptIsr(1), regs', regs)
  <2>1. IsRegs(regs)
    BY OutsideRegisters
  <2> QED
    BY <1>6, <2>1 DEF Same
<1>13. InHandler(code', stack', regs', call', done', l, n, 1)
  BY <1>3, <1>5, <1>6, <1>9, <1>10, <1>11, <1>12 DEF InHandler
<1>14. master' = MasterAt(l, 1) /\ slave' = SlaveAt(l, 1)
  <2>1. master' = {l} /\ slave' = IF l = "disk" THEN {l} ELSE {}
    BY <1>6
  <2> QED
    BY <2>1, ServiceTable
<1>15. n \in 1 .. Len(stack') /\ 1 \in 1 .. 10
  BY <1>9
<1> QED
  BY <1>6, <1>13, <1>14, <1>15 DEF Placed

-----------------------------------------------------------------------------
(* The inductive invariant.                                                *)

(* At the start the program runs its own code.                             *)
LEMMA InitInv == Init => IInv
<1> SUFFICES ASSUME Init PROVE IInv
  OBVIOUS
<1>1. IsSeq(<<>>)
  BY DEF IsSeq
<1>2. Outside(code, stack, regs, on, call, done)
  BY <1>1 DEF Init, Outside, InProgram
<1> QED
  BY <1>2 DEF Init, IInv

(* What a handler does next.                                               *)
LEMMA HandlerOps ==
  ASSUME NEW st, NEW rg, NEW ca, NEW dn, NEW l, NEW n, NEW k \in 1 .. 10,
         InHandler(code, st, rg, ca, dn, l, n, k)
  PROVE  Op \notin {"own", "ret"} /\ (Op = "iret" => k = 10)
<1>1. Op = Isr(l)[k][1]
  BY HandlerNext
<1>2. PICK W : W = Isr(l)
  OBVIOUS
<1>3. /\ W[1][1] = "cli" /\ W[2][1] = "push" /\ W[3][1] = "push" /\ W[4][1] = "load"
      /\ W[5][1] = "handle" /\ W[6][1] = "eoi" /\ W[7][1] = "eoi"
      /\ W[8][1] = "pop" /\ W[9][1] = "pop" /\ W[10][1] = "iret"
  <2>1. W[6] = (IF l = "disk" THEN <<"eoi", "slave", l>> ELSE <<"eoi", "master", l>>)
    BY <1>2, HandlerSteps
  <2>2. W[7] = (IF l = "disk" THEN <<"eoi", "master", l>> ELSE <<"eoi", "slave", l>>)
    BY <1>2, HandlerSteps
  <2>3. W[6][1] = "eoi" /\ W[7][1] = "eoi"
    BY <2>1, <2>2
  <2>4. /\ W[1] = <<"cli">> /\ W[2] = <<"push", Pushad>> /\ W[3] = <<"push", PushSegments>>
        /\ W[4] = <<"load", KernelData>> /\ W[5] = <<"handle", l>>
        /\ W[8] = <<"pop", Reverse(PushSegments)>> /\ W[9] = <<"pop", Reverse(Pushad)>>
        /\ W[10] = <<"iret">>
    BY <1>2, HandlerSteps
  <2> QED
    BY <2>3, <2>4
<1>4. \/ k = 1 \/ k = 2 \/ k = 3 \/ k = 4 \/ k = 5
      \/ k = 6 \/ k = 7 \/ k = 8 \/ k = 9 \/ k = 10
  OBVIOUS
<1> QED
  BY <1>1, <1>2, <1>3, <1>4

(* An instruction or a call, wherever it is.                               *)
LEMMA PlacedRun ==
  ASSUME Placed, Instruction \/ \E c \in Calls : \E S \in Operands(c) : Call(c, S)
  PROVE  Placed'
<1>1. CASE Outside(code, stack, regs, on, call, done) /\ master = {} /\ slave = {}
  <2>1. /\ Outside(code', stack', regs', on', call', done')
        /\ master' = master /\ slave' = slave
    <3>1. CASE Instruction
      BY <1>1, <3>1, OutsideStep
    <3>2. ASSUME NEW c \in Calls, NEW S \in Operands(c), Call(c, S)
          PROVE  /\ Outside(code', stack', regs', on', call', done')
                 /\ master' = master /\ slave' = slave
      BY <1>1, <3>2, CallStep
    <3> QED
      BY <3>1, <3>2
  <2> QED
    BY <1>1, <2>1 DEF Placed
<1>2. ASSUME NEW l \in Lines, NEW n \in 1 .. Len(stack), NEW k \in 1 .. 10, on = FALSE,
             InHandler(code, stack, regs, call, done, l, n, k),
             master = MasterAt(l, k), slave = SlaveAt(l, k)
      PROVE  Placed'
  <2>1. Op # "own"
    BY <1>2, HandlerOps
  <2>2. Instruction
    BY <2>1 DEF Call
  <2> QED
    BY <1>2, <2>2, HandlerStep
<1> QED
  BY <1>1, <1>2 DEF Placed

(* Each step keeps it.                                                     *)
LEMMA NextInv == IInv /\ [Next]_vars => IInv'
<1> SUFFICES ASSUME IInv, [Next]_vars PROVE IInv'
  OBVIOUS
<1>1. Placed /\ irr \subseteq Lines /\ recent \subseteq Lines /\ ticked \in BOOLEAN
  BY DEF IInv, Placed
<1>2. ASSUME Placed', irr' \subseteq Lines, recent' \subseteq Lines, ticked' \in BOOLEAN
      PROVE  IInv'
  BY <1>2 DEF IInv, Placed
<1>3. CASE Run
  <2>1. Instruction \/ \E c \in Calls : \E S \in Operands(c) : Call(c, S)
    BY <1>3 DEF Run
  <2>2. Placed'
    BY <1>1, <2>1, PlacedRun
  <2>3. irr' = irr
    BY <2>1 DEF Instruction, Flag, Push, Pop, Drop, Load, Int80, Iret, Serve, Sleep, Check,
                Execute, Answer, Handle, Eoi, Ret, Call
  <2>4. ticked' \in BOOLEAN
    <3>1. CASE Handle
      BY <3>1, Zenon DEF Handle
    <3>2. CASE Sleep
      BY <3>2 DEF Sleep
    <3>3. CASE ~Handle /\ ~Sleep
      <4>1. ticked' = ticked
        BY <2>1, <3>3 DEF Instruction, Flag, Push, Pop, Drop, Load, Int80, Iret, Serve, Check,
                          Execute, Answer, Eoi, Ret, Call
      <4> QED
        BY <1>1, <4>1
    <3> QED
      BY <3>1, <3>2, <3>3
  <2>5. recent' \subseteq Lines
    BY <1>1, <1>3 DEF Run
  <2> QED
    BY <1>1, <1>2, <2>2, <2>3, <2>4, <2>5
<1>4. ASSUME NEW l \in Lines, Raise(l) PROVE IInv'
  <2>1. Placed'
    BY <1>1, <1>4 DEF Raise, Placed
  <2> QED
    BY <1>1, <1>2, <1>4, <2>1 DEF Raise
<1>5. ASSUME NEW l \in Lines, Accept(l) PROVE IInv'
  <2>1. on # FALSE
    BY <1>5 DEF Accept
  <2>2. Outside(code, stack, regs, on, call, done) /\ master = {} /\ slave = {}
    BY <1>1, <2>1 DEF Placed
  <2>3. Placed'
    BY <1>5, <2>2, AcceptStep
  <2>4. /\ irr' = irr \ {l} /\ recent' = recent \cup {l} /\ ticked' = ticked
    BY <1>5 DEF Accept
  <2> QED
    BY <1>1, <1>2, <2>3, <2>4
<1>6. CASE UNCHANGED vars
  <2>1. Placed'
    BY <1>1, <1>6 DEF vars, Placed
  <2> QED
    BY <1>1, <1>2, <1>6, <2>1 DEF vars
<1> QED
  BY <1>3, <1>4, <1>5, <1>6 DEF Next

(* Wherever the interrupts come, the invariant holds.                      *)
THEOREM Placement == Spec => []IInv
<1> QED
  BY InitInv, NextInv, PTL DEF Spec

-----------------------------------------------------------------------------
(* What is on the stack, and what the codes do not hold.                   *)

\* No end of interrupt is left in the code c.
Calm(c) == \A k \in DOMAIN c : c[k][1] # "eoi"

\* Only words, and frames of system calls to a code without one.
CalmStack(st) ==
  \A i \in DOMAIN st :
    /\ st[i].kind \in {"word", "frame"}
    /\ st[i].kind = "frame" => st[i].by = "int" /\ Calm(st[i].rest)

(* Part of a calm code.                                                    *)
LEMMA CalmRest ==
  ASSUME NEW W, IsSeq(W), \A i \in 1 .. Len(W) : W[i][1] # "eoi", NEW k \in 1 .. Len(W)
  PROVE  Calm(SubSeq(W, k, Len(W)))
<1> DEFINE T == ToSet(W)
<1>1. W \in Seq(T) /\ Len(W) \in Nat
  BY LenProperties DEF IsSeq
<1> HIDE DEF T
<1>2. PICK c : c = SubSeq(W, k, Len(W))
  OBVIOUS
<1>3. c \in Seq(T) /\ Len(c) = Len(W) - k + 1 /\ \A i \in 1 .. Len(c) : c[i] = W[k + i - 1]
  <2>1. \A i \in k .. Len(W) : W[i] \in T
    BY <1>1, ElementOfSeq
  <2>2. /\ SubSeq(W, k, Len(W)) \in Seq(T)
        /\ Len(SubSeq(W, k, Len(W))) = IF k <= Len(W) THEN Len(W) - k + 1 ELSE 0
        /\ \A i \in 1 .. Len(W) - k + 1 : SubSeq(W, k, Len(W))[i] = W[k + i - 1]
    BY <1>1, <2>1, SubSeqProperties
  <2> QED
    BY <1>1, <1>2, <2>2
<1>4. DOMAIN c = 1 .. Len(c)
  BY <1>3, LenProperties
<1>5. ASSUME NEW i \in 1 .. Len(c) PROVE c[i][1] # "eoi"
  <2>1. k + i - 1 \in 1 .. Len(W)
    BY <1>1, <1>3
  <2> QED
    BY <1>3, <2>1
<1> QED
  BY <1>2, <1>4, <1>5 DEF Calm

(* The codes of the program and of the kernel are calm.                    *)
LEMMA CalmCodes ==
  /\ \A ca, S : \A k \in 1 .. 6 : Calm(SubSeq(Wrapper(ca, S), k, 6))
  /\ \A d \in SomeDelays : \A j \in 1 .. 14 : Calm(d \o SubSeq(Isr80, j, 14))
<1>1. ASSUME NEW ca, NEW S, NEW k \in 1 .. 6 PROVE Calm(SubSeq(Wrapper(ca, S), k, 6))
  <2>1. PICK W : W = Wrapper(ca, S)
    OBVIOUS
  <2>2. /\ IsSeq(W) /\ Len(W) = 6 /\ W[1][1] = "push" /\ W[2][1] = "load" /\ W[3][1] = "load"
        /\ W[4][1] = "int" /\ W[5][1] = "pop" /\ W[6][1] = "ret"
    <3>1. /\ IsSeq(Wrapper(ca, S)) /\ Len(Wrapper(ca, S)) = 6
          /\ Wrapper(ca, S)[1] = <<"push", SavedBy(ca, S)>>
          /\ Wrapper(ca, S)[2] = <<"load", [r \in S |-> Unknown]>>
          /\ Wrapper(ca, S)[3] = <<"load", Functions[ca].loads>>
          /\ Wrapper(ca, S)[4] = <<"int">>
          /\ Wrapper(ca, S)[5] = <<"pop", Reverse(SavedBy(ca, S))>>
          /\ Wrapper(ca, S)[6] = <<"ret">>
      BY WrapperSteps
    <3> QED
      BY <2>1, <3>1
  <2>3. \A i \in 1 .. 6 : W[i][1] # "eoi"
    <3>1. \A i \in 1 .. 6 : i = 1 \/ i = 2 \/ i = 3 \/ i = 4 \/ i = 5 \/ i = 6
      OBVIOUS
    <3> QED
      BY <2>2, <3>1
  <2> QED
    BY <2>1, <2>2, <2>3, CalmRest
<1>2. ASSUME NEW d \in SomeDelays, NEW j \in 1 .. 14 PROVE Calm(d \o SubSeq(Isr80, j, 14))
  <2>1. PICK W : W = Isr80
    OBVIOUS
  <2>2. /\ IsSeq(W) /\ Len(W) = 14 /\ W[1][1] = "cli" /\ W[2][1] = "push" /\ W[3][1] = "push"
        /\ W[4][1] = "push" /\ W[5][1] = "load" /\ W[6][1] = "sti" /\ W[7][1] = "serve"
        /\ W[8][1] = "answer" /\ W[9][1] = "drop" /\ W[10][1] = "pop" /\ W[11][1] = "pop"
        /\ W[12][1] = "pop" /\ W[13][1] = "sti" /\ W[14][1] = "iret"
    BY <2>1, KernelSteps
  <2>3. \A i \in 1 .. 14 : W[i][1] # "eoi"
    <3>1. \A i \in 1 .. 14 :
            \/ i = 1 \/ i = 2 \/ i = 3 \/ i = 4 \/ i = 5 \/ i = 6 \/ i = 7
            \/ i = 8 \/ i = 9 \/ i = 10 \/ i = 11 \/ i = 12 \/ i = 13 \/ i = 14
      OBVIOUS
    <3> QED
      BY <2>2, <3>1
  <2>4. PICK r : r = SubSeq(W, j, 14)
    OBVIOUS
  <2>5. Calm(r)
    BY <2>2, <2>3, <2>4, CalmRest
  <2>6. IsSeq(r)
    <3>1. IsSeq(SubSeq(Isr80, j, 14))
      BY Left80
    <3> QED
      BY <2>1, <2>4, <3>1
  <2> DEFINE T == ToSet(r) \cup Delays
  <2>7. r \in Seq(T) /\ d \in Seq(T) /\ d \in Seq(Delays)
    BY <2>6, SeqMonotonic DEF IsSeq, SomeDelays
  <2> HIDE DEF T
  <2>8. PICK c : c = d \o r
    OBVIOUS
  <2>9. /\ c \in Seq(T) /\ Len(c) = Len(d) + Len(r) /\ Len(d) \in Nat /\ Len(r) \in Nat
        /\ DOMAIN c = 1 .. Len(c) /\ DOMAIN r = 1 .. Len(r)
        /\ \A i \in 1 .. Len(d) + Len(r) : c[i] = IF i <= Len(d) THEN d[i] ELSE r[i - Len(d)]
    <3>1. /\ d \o r \in Seq(T) /\ Len(d \o r) = Len(d) + Len(r)
          /\ \A i \in 1 .. Len(d) + Len(r) : (d \o r)[i] = IF i <= Len(d) THEN d[i] ELSE r[i - Len(d)]
      BY <2>7, ConcatProperties
    <3> QED
      BY <2>7, <2>8, <3>1, LenProperties
  <2>10. \A i \in 1 .. Len(d) : d[i][1] # "eoi"
    <3>1. \A i \in 1 .. Len(d) : d[i] \in Delays
      BY <2>7, ElementOfSeq
    <3>2. \A x \in Delays : x[1] # "eoi"
      BY DEF Delays
    <3> QED
      BY <3>1, <3>2
  <2>11. ASSUME NEW i \in 1 .. Len(c) PROVE c[i][1] # "eoi"
    <3>1. CASE i <= Len(d)
      <4>1. i \in 1 .. Len(d) /\ c[i] = d[i]
        BY <2>9, <3>1
      <4> QED
        BY <2>10, <4>1
    <3>2. CASE ~(i <= Len(d))
      <4>1. i - Len(d) \in DOMAIN r /\ c[i] = r[i - Len(d)]
        BY <2>9, <3>2
      <4> QED
        BY <2>5, <4>1 DEF Calm
    <3> QED
      BY <3>1, <3>2
  <2>12. Calm(c)
    BY <2>9, <2>11 DEF Calm
  <2> QED
    BY <2>1, <2>4, <2>8, <2>12
<1> QED
  BY <1>1, <1>2

(* Above the frame of a system call there are copies, and the argument     *)
(* that the result takes the place of.                                     *)
LEMMA KernelDepth ==
  ASSUME NEW j \in 1 .. 14, NEW t
  PROVE  /\ Depth80[j] \in Nat
         /\ t \in 1 .. Depth80[j] => t \in 1 .. Copied80[j] \/ (j \in 8 .. 9 /\ t = 16)
<1>1. CASE j \notin 8 .. 9
  <2>1. PICK i \in 1 .. 14 : i = j /\ i \notin 8 .. 9
    BY <1>1
  <2>2. Depth80[i] \in Nat /\ Depth80[i] = Copied80[i]
    <3>1. \/ i = 1 \/ i = 2 \/ i = 3 \/ i = 4 \/ i = 5 \/ i = 6 \/ i = 7
          \/ i = 10 \/ i = 11 \/ i = 12 \/ i = 13 \/ i = 14
      BY <2>1
    <3>2. PICK p, q : p = Depth80 /\ q = Copied80
      OBVIOUS
    <3>3. p[i] \in Nat /\ p[i] = q[i]
      <4>1. /\ p[1] = 0 /\ p[2] = 0 /\ p[3] = 6 /\ p[4] = 10 /\ p[5] = 16 /\ p[6] = 16 /\ p[7] = 16
            /\ p[10] = 15 /\ p[11] = 10 /\ p[12] = 6 /\ p[13] = 0 /\ p[14] = 0
            /\ q[1] = 0 /\ q[2] = 0 /\ q[3] = 6 /\ q[4] = 10 /\ q[5] = 16 /\ q[6] = 16 /\ q[7] = 16
            /\ q[10] = 15 /\ q[11] = 10 /\ q[12] = 6 /\ q[13] = 0 /\ q[14] = 0
        BY <3>2, KernelTable
      <4> QED
        BY <3>1, <4>1
    <3> QED
      BY <3>2, <3>3
  <2>3. Depth80[j] \in Nat /\ Depth80[j] = Copied80[j]
    BY <2>1, <2>2
  <2> QED
    BY ONLY <2>3
<1>2. CASE j \in 8 .. 9
  <2>1. PICK i \in 8 .. 9 : i = j
    BY <1>2
  <2>2. Depth80[i] = 16 /\ Copied80[i] = 15
    BY ONLY i \in 8 .. 9 DEF Depth80, Copied80
  <2>3. Depth80[j] = 16 /\ Copied80[j] = 15
    BY <2>1, <2>2
  <2> QED
    BY <1>2, <2>3
<1> QED
  BY <1>1, <1>2

(* Outside the handlers all is calm.                                       *)
LEMMA CalmOutside ==
  ASSUME NEW c, NEW st, NEW rg, NEW o, NEW ca, NEW dn, Outside(c, st, rg, o, ca, dn)
  PROVE  Calm(c) /\ CalmStack(st) /\ IsSeq(st) /\ ca \in Calls \cup {None}
<1>1. IsSeq(st) /\ Len(st) \in Nat /\ DOMAIN st = 1 .. Len(st)
  BY LenProperties DEF Outside, IsSeq
<1>2. \A v : Word(v).kind = "word"
  BY DEF Word
<1>3. CASE c = <<>> /\ st = <<>> /\ ca = None
  BY <1>1, <1>3 DEF Calm, CalmStack
<1>4. ASSUME ca \in Calls, NEW S, NEW k \in 1 .. 6, InWrapper(c, st, rg, ca, dn, S, k)
      PROVE  Calm(c) /\ CalmStack(st) /\ ca \in Calls \cup {None}
  <2>1. Calm(c)
    BY <1>4, CalmCodes DEF InWrapper
  <2>2. Copies(st, 0, SavedBy(ca, S), Own, Len(st))
    BY <1>4 DEF InWrapper
  <2>3. \A i \in 1 .. Len(st) : st[i].kind = "word"
    BY <1>1, <1>2, <2>2 DEF Copies
  <2> QED
    BY <1>1, <1>4, <2>1, <2>3 DEF CalmStack
<1>5. ASSUME ca \in Calls, NEW S, NEW n \in 1 .. Len(st), NEW j \in 1 .. 14, NEW d \in SomeDelays,
             InSys(c, st, rg, o, ca, dn, S, n, j, d)
      PROVE  Calm(c) /\ CalmStack(st) /\ ca \in Calls \cup {None}
  <2>1. Calm(c)
    BY <1>5, CalmCodes DEF InSys
  <2>2. /\ Copies(st, 0, SavedBy(ca, S), Own, n - 1) /\ Len(st) = n + Depth80[j]
        /\ Copies(st, n, Names80, Loaded(ca, S), Copied80[j])
        /\ st[n].kind = "frame" /\ st[n].by = "int" /\ st[n].rest = SubSeq(Wrapper(ca, S), 5, 6)
        /\ j \in 8 .. 9 => st[n + 16].kind = "word"
    BY <1>2, <1>5 DEF InSys
  <2>3. \A i \in 1 .. n - 1 : st[i].kind = "word"
    BY <1>1, <1>2, <2>2 DEF Copies
  <2>4. Calm(st[n].rest)
    BY <2>2, CalmCodes
  <2>5. ASSUME NEW i \in n + 1 .. Len(st) PROVE st[i].kind = "word"
    <3>1. PICK t : t = i - n
      OBVIOUS
    <3>2. Depth80[j] \in Nat /\ (t \in 1 .. Depth80[j] => t \in 1 .. Copied80[j] \/ (j \in 8 .. 9 /\ t = 16))
      BY KernelDepth
    <3>3. t \in 1 .. Depth80[j] /\ i = n + t
      <4>1. PICK p : p = Depth80[j]
        OBVIOUS
      <4>2. p \in Nat /\ Len(st) = n + p
        BY <2>2, <3>2, <4>1
      <4> QED
        BY <1>1, <3>1, <4>1, <4>2
    <3>4. t \in 1 .. Copied80[j] \/ (j \in 8 .. 9 /\ t = 16)
      BY <3>2, <3>3
    <3> QED
      BY <1>2, <2>2, <3>3, <3>4 DEF Copies
  <2>6. \A i \in 1 .. Len(st) : i \in 1 .. n - 1 \/ i = n \/ i \in n + 1 .. Len(st)
    BY <1>1
  <2> QED
    BY <1>1, <1>5, <2>1, <2>2, <2>3, <2>4, <2>5, <2>6 DEF CalmStack
<1>6. InProgram(c, st, rg, o, ca, dn) \/ InKernel(c, st, rg, o, ca, dn)
  BY DEF Outside
<1> QED
  BY <1>1, <1>3, <1>4, <1>5, <1>6 DEF InProgram, InKernel

-----------------------------------------------------------------------------
(* What the invariant says of the properties.                              *)

\* In the handler of l the stack holds its frame, the n-th item, words above
\* it, and below it what is calm.
Framed(l, n) ==
  /\ IsSeq(stack) /\ n \in 1 .. Len(stack) /\ DOMAIN stack = 1 .. Len(stack)
  /\ stack[n].kind = "frame" /\ stack[n].by = l /\ Calm(stack[n].rest)
  /\ \A i \in 1 .. n - 1 :
       /\ stack[i].kind \in {"word", "frame"}
       /\ stack[i].kind = "frame" => stack[i].by = "int" /\ Calm(stack[i].rest)
  /\ \A i \in n + 1 .. Len(stack) : stack[i].kind = "word"

(* A handler's stack.                                                      *)
LEMMA HandlerStack ==
  ASSUME NEW l \in Lines, NEW n \in 1 .. Len(stack), NEW k \in 1 .. 10,
         InHandler(code, stack, regs, call, done, l, n, k)
  PROVE  Framed(l, n) /\ call \in Calls \cup {None}
<1>1. IsSeq(stack) /\ Len(stack) \in Nat /\ DOMAIN stack = 1 .. Len(stack)
  BY LenProperties DEF InHandler, IsSeq
<1>2. PICK m : m = n - 1
  OBVIOUS
<1>3. m \in Nat /\ m <= Len(stack)
  BY <1>1, <1>2
<1>4. PICK b : b = SubSeq(stack, 1, m)
  OBVIOUS
<1>5. IsSeq(b) /\ Len(b) = m /\ \A i \in 1 .. m : b[i] = stack[i]
  BY <1>1, <1>3, <1>4, Shorter
<1>6. DOMAIN b = 1 .. m
  BY <1>5, LenProperties DEF IsSeq
<1>7. Outside(stack[n].rest, b, stack[n].was, TRUE, call, done)
  BY <1>2, <1>4 DEF InHandler
<1>8. Calm(stack[n].rest) /\ CalmStack(b) /\ call \in Calls \cup {None}
  BY <1>7, CalmOutside
<1>9. ASSUME NEW i \in 1 .. n - 1
      PROVE  /\ stack[i].kind \in {"word", "frame"}
             /\ stack[i].kind = "frame" => stack[i].by = "int" /\ Calm(stack[i].rest)
  <2>1. i \in DOMAIN b /\ b[i] = stack[i]
    BY <1>2, <1>5, <1>6
  <2> QED
    BY <1>8, <2>1 DEF CalmStack
<1>10. ASSUME NEW i \in n + 1 .. Len(stack) PROVE stack[i].kind = "word"
  <2>1. PICK d : d = DepthIsr[k]
    OBVIOUS
  <2>2. d \in Nat /\ Len(stack) = n + d /\ Copies(stack, n, NamesIsr, stack[n].was, d)
    <3>1. DepthIsr[k] \in Nat
      BY ONLY k \in 1 .. 10 DEF DepthIsr
    <3> QED
      BY <2>1, <3>1 DEF InHandler
  <2>3. PICK t : t = i - n
    OBVIOUS
  <2>4. t \in 1 .. d /\ i = n + t
    BY <1>1, <2>2, <2>3
  <2>5. stack[i] = Word(stack[n].was[NamesIsr[t]])
    BY <2>2, <2>4 DEF Copies
  <2> QED
    BY <2>5 DEF Word
<1>11. stack[n].kind = "frame" /\ stack[n].by = l
  <2>1. stack[n] = [kind |-> "frame", by |-> l, rest |-> stack[n].rest, on |-> TRUE, was |-> stack[n].was]
    BY DEF InHandler
  <2>2. PICK f : f = stack[n]
    OBVIOUS
  <2>3. f = [kind |-> "frame", by |-> l, rest |-> f.rest, on |-> TRUE, was |-> f.was]
    BY <2>1, <2>2
  <2>4. f.kind = "frame" /\ f.by = l
    BY <2>3
  <2> QED
    BY <2>2, <2>4
<1> QED
  BY <1>1, <1>8, <1>9, <1>10, <1>11 DEF Framed

(* Every variable keeps its type.                                          *)
LEMMA TypeInv == IInv => TypeOK
<1> SUFFICES ASSUME IInv PROVE TypeOK
  OBVIOUS
<1>1. irr \subseteq Lines /\ recent \subseteq Lines /\ ticked \in BOOLEAN
  BY DEF IInv
<1>2. IsRegs(regs) => DOMAIN regs = Registers
  BY DEF IsRegs
<1>3. CASE Outside(code, stack, regs, on, call, done) /\ master = {} /\ slave = {}
  <2>1. IsRegs(regs) /\ CalmStack(stack) /\ call \in Calls \cup {None}
    BY <1>3, OutsideRegisters, CalmOutside
  <2>2. on \in BOOLEAN
    <3>1. ASSUME NEW S, NEW n, NEW j \in 1 .. 14, NEW d,
                 InSys(code, stack, regs, on, call, done, S, n, j, d)
          PROVE  on \in BOOLEAN
      <4>1. j <= 6 \/ j > 6
        OBVIOUS
      <4> QED
        BY <3>1, <4>1 DEF InSys
    <3> QED
      BY <1>3, <3>1 DEF Outside, InProgram, InKernel
  <2> QED
    BY <1>1, <1>2, <1>3, <2>1, <2>2 DEF TypeOK, CalmStack
<1>4. ASSUME NEW l \in Lines, NEW n \in 1 .. Len(stack), NEW k \in 1 .. 10, on = FALSE,
             InHandler(code, stack, regs, call, done, l, n, k),
             master = MasterAt(l, k), slave = SlaveAt(l, k)
      PROVE  TypeOK
  <2>1. Framed(l, n) /\ call \in Calls \cup {None}
    BY <1>4, HandlerStack
  <2>2. ASSUME NEW i \in DOMAIN stack PROVE stack[i].kind \in {"word", "frame"}
    <3>1. i \in 1 .. n - 1 \/ i = n \/ i \in n + 1 .. Len(stack)
      BY <2>1, LenProperties DEF Framed, IsSeq
    <3> QED
      BY <2>1, <3>1 DEF Framed
  <2>3. DOMAIN regs = Registers
    BY <1>2, <1>4 DEF InHandler, Same
  <2>4. master \subseteq Lines /\ slave \subseteq {"disk"}
    BY <1>4 DEF MasterAt, SlaveAt
  <2> QED
    BY <1>1, <1>4, <2>1, <2>2, <2>3, <2>4 DEF TypeOK
<1> QED
  BY <1>3, <1>4 DEF IInv

(* What a return finds on the stack.                                       *)
LEMMA ReturnInv ==
  ASSUME IInv, Op = "iret"
  PROVE  /\ Top.kind = "frame"
         /\ \A r \in Registers : regs[r] = Top.was[r] \/ (r = "eax" /\ Top.by = "int")
<1>1. ASSUME NEW l \in Lines, NEW n \in 1 .. Len(stack), NEW k \in 1 .. 10,
             InHandler(code, stack, regs, call, done, l, n, k)
      PROVE  /\ Top.kind = "frame"
             /\ \A r \in Registers : regs[r] = Top.was[r] \/ (r = "eax" /\ Top.by = "int")
  <2>1. k = 10
    BY <1>1, HandlerOps
  <2>2. InHandler(code, stack, regs, call, done, l, n, 10)
    BY <1>1, <2>1
  <2>3. Len(stack) = n
    <3>1. Len(stack) = n + DepthIsr[10]
      BY <2>2 DEF InHandler
    <3>2. DepthIsr[10] = 0
      BY HandlerTable
    <3> QED
      BY <3>1, <3>2
  <2>4. Same(Registers, regs, stack[n].was)
    <3>1. Same(KeptIsr(10), regs, stack[n].was)
      BY <2>2 DEF InHandler
    <3>2. KeptIsr(10) = Registers
      BY HandlerTable
    <3> QED
      BY <3>1, <3>2
  <2>5. Top = stack[n]
    BY <2>3 DEF Top
  <2>6. stack[n].kind = "frame"
    BY <2>2 DEF InHandler
  <2> QED
    BY <2>4, <2>5, <2>6 DEF Same
<1>2. ASSUME NEW d \in SomeDelays, InCall(d)
      PROVE  /\ Top.kind = "frame"
             /\ \A r \in Registers : regs[r] = Top.was[r] \/ (r = "eax" /\ Top.by = "int")
  <2>1. PICK S \in Operands(call), n \in 1 .. Len(stack), j \in 1 .. 14 :
          /\ InSys(code, stack, regs, on, call, done, S, n, j, d)
          /\ d = <<>> => (Op = "iret" => j = 14)
          /\ d # <<>> => Op \in {"sleep", "check", "hlt", "execute"}
    BY <1>2 DEF InCall
  <2>2. InSys(code, stack, regs, on, call, done, S, n, 14, d)
    BY <2>1
  <2>3. Len(stack) = n
    <3>1. Len(stack) = n + Depth80[14]
      BY <2>2 DEF InSys
    <3>2. Depth80[14] = 0
      BY KernelTable
    <3> QED
      BY <3>1, <3>2
  <2>4. Same(Registers \ {"eax"}, regs, Loaded(call, S))
    <3>1. Same(Kept80(14), regs, Loaded(call, S))
      BY <2>2 DEF InSys
    <3>2. Kept80(14) = Registers \ {"eax"}
      BY KernelTable
    <3> QED
      BY <3>1, <3>2
  <2>5. Top = [kind |-> "frame", by |-> "int", rest |-> SubSeq(Wrapper(call, S), 5, 6),
               on |-> TRUE, was |-> Loaded(call, S)]
    BY <2>2, <2>3 DEF InSys, Top
  <2>6. Top.kind = "frame" /\ Top.by = "int" /\ Top.was = Loaded(call, S)
    BY <2>5
  <2> QED
    BY <2>4, <2>6 DEF Same
<1>3. CASE Outside(code, stack, regs, on, call, done)
  <2>1. ~Idle /\ ~InLibrary
    BY DEF Idle, InLibrary
  <2>2. PICK d \in SomeDelays : InCall(d)
    BY <1>3, <2>1, WhereOutside
  <2> QED
    BY <1>2, <2>2
<1> QED
  BY <1>1, <1>3 DEF IInv

(* A library function that returns has been served.                        *)
LEMMA ServedInv ==
  ASSUME IInv, Op = "ret"
  PROVE  /\ stack = <<>>
         /\ call \notin Careless => \A r \in CalleeSaved : regs[r] = r
         /\ call \notin Misfit =>
              /\ done = {Functions[call].meant}
              /\ Functions[call].meant[1] \in Answering => regs["eax"] = "answer"
<1>1. ~(\E l \in Lines, n \in 1 .. Len(stack), k \in 1 .. 10 :
          InHandler(code, stack, regs, call, done, l, n, k))
  BY HandlerOps
<1>2. Outside(code, stack, regs, on, call, done)
  BY <1>1 DEF IInv
<1>3. ~Idle /\ \A d \in SomeDelays : ~InCall(d)
  BY DEF Idle, InCall
<1>4. InLibrary
  BY <1>2, <1>3, WhereOutside
<1>5. PICK S \in Operands(call) : InWrapper(code, stack, regs, call, done, S, 6)
  BY <1>4 DEF InLibrary
<1>6. call \in Calls /\ IsSeq(stack)
  BY <1>4 DEF InLibrary
<1>7. /\ Len(stack) = 0
      /\ Same(Registers \ ({"eax"} \cup Saves(call, S)), regs, Loaded(call, S))
      /\ Same(Saves(call, S), regs, Own)
      /\ done = Asked(call, S)
      /\ Answered(done) => regs["eax"] = "answer"
  BY <1>5 DEF InWrapper
<1>8. stack = <<>>
  BY <1>6, <1>7, EmptySeq DEF IsSeq
<1>9. ASSUME call \notin Careless, NEW r \in CalleeSaved
      PROVE  regs[r] = r
  <2>1. r \in Registers /\ r # "eax"
    BY DEF Registers, CalleeSaved
  <2>2. Own[r] = r
    BY <2>1 DEF Own
  <2>3. CASE r \in Saves(call, S)
    BY <1>7, <2>2, <2>3 DEF Same
  <2>4. CASE r \notin Saves(call, S)
    <3>1. r \notin Functions[call].told /\ r \notin S
      BY <2>4 DEF Saves
    <3>2. r \notin DOMAIN Functions[call].loads
      BY <1>6, <1>9, <3>1, LibraryAssumption
    <3>3. Loaded(call, S)[r] = r
      BY <2>1, <3>1, <3>2 DEF Loaded
    <3> QED
      BY <1>7, <2>1, <2>4, <3>3 DEF Same
  <2> QED
    BY <2>3, <2>4
<1>10. ASSUME call \notin Misfit
       PROVE  /\ done = {Functions[call].meant}
              /\ Functions[call].meant[1] \in Answering => regs["eax"] = "answer"
  <2>1. done = {Functions[call].meant}
    BY <1>6, <1>7, <1>10, LibraryAssumption DEF Asked
  <2>2. Functions[call].meant[1] \in Answering => Answered(done)
    BY <2>1 DEF Answered
  <2> QED
    BY <1>7, <2>1, <2>2
<1> QED
  BY <1>8, <1>9, <1>10

(* The program can be interrupted, the handlers not.                       *)
LEMMA InterruptibleInv == IInv => Interruptible
<1> SUFFICES ASSUME IInv PROVE Interruptible
  OBVIOUS
<1>1. CASE Outside(code, stack, regs, on, call, done)
  <2>1. CalmStack(stack)
    BY <1>1, CalmOutside
  <2>2. ~InIsr
    BY <2>1 DEF InIsr, CalmStack, Lines
  <2>3. Op = "own" => Idle
    <3>1. ~InLibrary \/ Op # "own"
      BY DEF InLibrary
    <3>2. \A d \in SomeDelays : ~InCall(d) \/ Op # "own"
      BY DEF InCall
    <3> QED
      BY <1>1, <3>1, <3>2, WhereOutside
  <2> QED
    BY <2>2, <2>3 DEF Idle, Interruptible
<1>2. ASSUME NEW l \in Lines, NEW n \in 1 .. Len(stack), NEW k \in 1 .. 10, on = FALSE,
             InHandler(code, stack, regs, call, done, l, n, k)
      PROVE  Interruptible
  <2>1. Op # "own"
    BY <1>2, HandlerOps
  <2> QED
    BY <1>2, <2>1 DEF Interruptible
<1> QED
  BY <1>1, <1>2 DEF IInv

(* Where all is calm no end of interrupt is ahead.                         *)
LEMMA CalmAhead ==
  ASSUME Calm(code), CalmStack(stack), NEW p, NEW l
  PROVE  ~Ahead(<<"eoi", p, l>>)
<1>1. PICK e : e = <<"eoi", p, l>>
  OBVIOUS
<1>2. e[1] = "eoi"
  BY <1>1
<1>3. ~Ahead(e)
  BY <1>2 DEF Ahead, Calm, CalmStack
<1> QED
  BY <1>1, <1>3

\* From its step k on the handler W has the end of interrupt e.
Sends(W, k, e) == \E q \in k .. 10 : W[q] = e

(* The ends of interrupt that a handler has still to send.                 *)
LEMMA EndsLeft ==
  ASSUME NEW l, NEW k \in 1 .. 10, NEW p \in {"master", "slave"}, NEW m
  PROVE  Sends(Isr(l), k, <<"eoi", p, m>>)
           <=> m = l /\ k <= (IF (l = "disk") = (p = "slave") THEN 6 ELSE 7)
<1>0. PICK W : W = Isr(l)
  OBVIOUS
<1>1. PICK e : e = <<"eoi", p, m>>
  OBVIOUS
<1>2. e[1] = "eoi" /\ e[2] = p /\ e[3] = m
  BY <1>1
<1>3. /\ W[1][1] # "eoi" /\ W[2][1] # "eoi" /\ W[3][1] # "eoi" /\ W[4][1] # "eoi"
      /\ W[5][1] # "eoi" /\ W[8][1] # "eoi" /\ W[9][1] # "eoi" /\ W[10][1] # "eoi"
  <2>1. /\ W[1] = <<"cli">> /\ W[2] = <<"push", Pushad>> /\ W[3] = <<"push", PushSegments>>
        /\ W[4] = <<"load", KernelData>> /\ W[5] = <<"handle", l>>
        /\ W[8] = <<"pop", Reverse(PushSegments)>> /\ W[9] = <<"pop", Reverse(Pushad)>>
        /\ W[10] = <<"iret">>
    BY <1>0, HandlerSteps
  <2> QED
    BY <2>1
<1>4. /\ W[6] = (IF l = "disk" THEN <<"eoi", "slave", l>> ELSE <<"eoi", "master", l>>)
      /\ W[7] = (IF l = "disk" THEN <<"eoi", "master", l>> ELSE <<"eoi", "slave", l>>)
  BY <1>0, HandlerSteps
<1>5. \A q \in k .. 10 : W[q] = e => q = 6 \/ q = 7
  <2>1. \A q \in k .. 10 : \/ q = 1 \/ q = 2 \/ q = 3 \/ q = 4 \/ q = 5
                           \/ q = 6 \/ q = 7 \/ q = 8 \/ q = 9 \/ q = 10
    OBVIOUS
  <2> QED
    BY <1>2, <1>3, <2>1
<1>6. W[6] = e <=> m = l /\ ((l = "disk") = (p = "slave"))
  <2>1. CASE l = "disk"
    <3>1. W[6] = <<"eoi", "slave", l>>
      BY <1>4, <2>1
    <3> QED
      BY <1>1, <2>1, <3>1
  <2>2. CASE l # "disk"
    <3>1. W[6] = <<"eoi", "master", l>>
      BY <1>4, <2>2
    <3> QED
      BY <1>1, <2>2, <3>1
  <2> QED
    BY <2>1, <2>2
<1>7. W[7] = e <=> m = l /\ ((l = "disk") # (p = "slave"))
  <2>1. CASE l = "disk"
    <3>1. W[7] = <<"eoi", "master", l>>
      BY <1>4, <2>1
    <3> QED
      BY <1>1, <2>1, <3>1
  <2>2. CASE l # "disk"
    <3>1. W[7] = <<"eoi", "slave", l>>
      BY <1>4, <2>2
    <3> QED
      BY <1>1, <2>2, <3>1
  <2> QED
    BY <2>1, <2>2
<1>8. Sends(W, k, e) <=> (k <= 6 /\ W[6] = e) \/ (k <= 7 /\ W[7] = e)
  BY <1>5 DEF Sends
<1>9. Sends(W, k, e) <=> m = l /\ k <= (IF (l = "disk") = (p = "slave") THEN 6 ELSE 7)
  BY <1>6, <1>7, <1>8
<1> QED
  BY <1>0, <1>1, <1>9, Zenon

(* They are all that is ahead while the handler runs.                      *)
LEMMA HandlerAhead ==
  ASSUME NEW l \in Lines, NEW n \in 1 .. Len(stack), NEW k \in 1 .. 10,
         InHandler(code, stack, regs, call, done, l, n, k), NEW p, NEW m
  PROVE  Ahead(<<"eoi", p, m>>) <=> Sends(Isr(l), k, <<"eoi", p, m>>)
<1>1. PICK e : e = <<"eoi", p, m>>
  OBVIOUS
<1>2. e[1] = "eoi"
  BY <1>1
<1>3. PICK W : W = Isr(l)
  OBVIOUS
<1>4. Framed(l, n)
  BY HandlerStack
<1>5. \A i \in DOMAIN stack : stack[i].kind = "frame" => Calm(stack[i].rest)
  <2>1. \A i \in DOMAIN stack : i \in 1 .. n - 1 \/ i = n \/ i \in n + 1 .. Len(stack)
    BY <1>4, LenProperties DEF Framed, IsSeq
  <2> QED
    BY <1>4, <2>1 DEF Framed
<1>6. \A i \in DOMAIN stack :
        stack[i].kind = "frame" => ~\E q \in DOMAIN stack[i].rest : stack[i].rest[q] = e
  BY <1>2, <1>5 DEF Calm
<1>7. DOMAIN code = 1 .. 11 - k /\ \A i \in 1 .. 11 - k : code[i] = W[k + i - 1]
  <2> DEFINE T == ToSet(W)
  <2>1. W \in Seq(T) /\ Len(W) = 10
    BY <1>3, HandlerSteps DEF IsSeq
  <2> HIDE DEF T
  <2>2. \A i \in k .. 10 : W[i] \in T
    <3>1. \A i \in k .. 10 : i \in 1 .. Len(W)
      BY <2>1
    <3> QED
      BY <2>1, <3>1, ElementOfSeq
  <2>3. /\ SubSeq(W, k, 10) \in Seq(T)
        /\ Len(SubSeq(W, k, 10)) = IF k <= 10 THEN 10 - k + 1 ELSE 0
        /\ \A i \in 1 .. 10 - k + 1 : SubSeq(W, k, 10)[i] = W[k + i - 1]
    BY <2>1, <2>2, SubSeqProperties
  <2>4. code = SubSeq(W, k, 10)
    BY <1>3 DEF InHandler
  <2>5. code \in Seq(T) /\ Len(code) = 11 - k /\ \A i \in 1 .. 11 - k : code[i] = W[k + i - 1]
    BY <2>3, <2>4
  <2> QED
    BY <2>5, LenProperties
<1>8. (\E i \in DOMAIN code : code[i] = e) <=> Sends(W, k, e)
  <2>1. ASSUME NEW i \in DOMAIN code, code[i] = e PROVE \E q \in k .. 10 : W[q] = e
    <3>1. k + i - 1 \in k .. 10 /\ W[k + i - 1] = e
      <4>1. i \in 1 .. 11 - k
        BY <1>7
      <4>2. k + i - 1 \in k .. 10
        BY ONLY k \in 1 .. 10, <4>1
      <4>3. code[i] = W[k + i - 1]
        BY <1>7, <4>1
      <4> QED
        BY <2>1, <4>2, <4>3
    <3> QED
      BY <3>1
  <2>2. ASSUME NEW q \in k .. 10, W[q] = e PROVE \E i \in DOMAIN code : code[i] = e
    <3>1. q - k + 1 \in 1 .. 11 - k /\ k + (q - k + 1) - 1 = q
      OBVIOUS
    <3>2. q - k + 1 \in DOMAIN code
      BY <1>7, <3>1
    <3>3. code[q - k + 1] = W[k + (q - k + 1) - 1]
      BY <1>7, <3>1
    <3>4. code[q - k + 1] = e
      BY <2>2, <3>1, <3>3
    <3> QED
      BY <3>2, <3>4
  <2> QED
    BY <2>1, <2>2 DEF Sends
<1>9. Ahead(e) <=> \E i \in DOMAIN code : code[i] = e
  BY <1>6 DEF Ahead
<1>10. Ahead(e) <=> Sends(W, k, e)
  BY <1>8, <1>9
<1> QED
  BY <1>1, <1>3, <1>10, Zenon

(* The PICs hold what is ahead.                                            *)
LEMMA EndsMatchInv == IInv => EndsMatch
<1> SUFFICES ASSUME IInv PROVE EndsMatch
  OBVIOUS
<1>1. CASE Outside(code, stack, regs, on, call, done) /\ master = {} /\ slave = {}
  <2>1. Calm(code) /\ CalmStack(stack)
    BY <1>1, CalmOutside
  <2>2. \A p, l : ~Ahead(<<"eoi", p, l>>)
    BY <2>1, CalmAhead
  <2> QED
    BY <1>1, <2>2 DEF EndsMatch
<1>2. ASSUME NEW l \in Lines, NEW n \in 1 .. Len(stack), NEW k \in 1 .. 10,
             InHandler(code, stack, regs, call, done, l, n, k),
             master = MasterAt(l, k), slave = SlaveAt(l, k)
      PROVE  EndsMatch
  <2>1. ASSUME NEW p \in {"master", "slave"}, NEW m
        PROVE  Ahead(<<"eoi", p, m>>)
                 <=> m = l /\ k <= (IF (l = "disk") = (p = "slave") THEN 6 ELSE 7)
    <3>1. Ahead(<<"eoi", p, m>>) <=> Sends(Isr(l), k, <<"eoi", p, m>>)
      BY <1>2, HandlerAhead
    <3>2. Sends(Isr(l), k, <<"eoi", p, m>>)
            <=> m = l /\ k <= (IF (l = "disk") = (p = "slave") THEN 6 ELSE 7)
      BY EndsLeft
    <3> QED
      BY <3>1, <3>2, Zenon
  <2>2. \A m : Ahead(<<"eoi", "master", m>>) <=> m = l /\ k <= (IF l = "disk" THEN 7 ELSE 6)
    BY <2>1
  <2>3. \A m : Ahead(<<"eoi", "slave", m>>) <=> m = l /\ k <= (IF l = "disk" THEN 6 ELSE 7)
    BY <2>1
  <2>4. master = {m \in Lines : Ahead(<<"eoi", "master", m>>)}
    BY <1>2, <2>2 DEF MasterAt
  <2>5. slave = {m \in {"disk"} : Ahead(<<"eoi", "slave", m>>)}
    BY <1>2, <2>3 DEF SlaveAt
  <2> QED
    BY <2>4, <2>5 DEF EndsMatch
<1> QED
  BY <1>1, <1>2 DEF IInv

-----------------------------------------------------------------------------
(* The theorems.                                                           *)

\* Wherever interrupts come, a handler and the system call return to what they
\* have interrupted with its registers, but for the eax of a system call.
THEOREM ReturnsAsItWas == Spec => []Transparent
<1>1. IInv => Transparent
  BY TypeInv, ReturnInv DEF Transparent
<1> QED
  BY Placement, <1>1, PTL

\* Whatever comes in between, the kernel has done for a library function what
\* it is named for, and it returns with its caller's registers.
THEOREM CallsAreServed == Spec => []ServesCalls
<1>1. IInv => ServesCalls
  BY ServedInv DEF ServesCalls
<1> QED
  BY Placement, <1>1, PTL

\* What the PICs hold in service is what the running handler still ends.
THEOREM ServiceEnds == Spec => []EndsMatch
<1> QED
  BY Placement, EndsMatchInv, PTL

\* Handlers do not nest, and the program's own code can be interrupted.
THEOREM HandlersDoNotNest == Spec => []Interruptible
<1> QED
  BY Placement, InterruptibleInv, PTL

-----------------------------------------------------------------------------
(* The keyboard: what its handler may do to the poll that it interrupts.   *)

(* The invariant holds before the first key.                               *)
LEMMA FirstKey == KInit => KIInv
<1> SUFFICES ASSUME KInit PROVE KIInv
  OBVIOUS
<1>1. KTypeOK
  <2>1. 0 \in 0 .. MaxPresses /\ 0 \in Cells /\ 1 \in 1 .. BufSize
    BY KeyboardAssumption DEF Cells
  <2>2. cells \in [Cells -> 0 .. MaxPresses]
    BY <2>1 DEF KInit
  <2> QED
    BY <2>1, <2>2 DEF KInit, KTypeOK
<1>2. NewestOrNothing /\ NoStuckShift /\ PollFresh
  BY KeyboardAssumption DEF KInit, NewestOrNothing, NoStuckShift, PollFresh, Cells
<1> QED
  BY <1>1, <1>2 DEF KIInv

(* keyboard_buf_insert puts a symbol where the read index then points.     *)
LEMMA InsertedAtRead ==
  ASSUME KTypeOK, NEW c \in 0 .. MaxPresses, Inserted(c)
  PROVE  /\ cells' \in [Cells -> 0 .. MaxPresses]
         /\ insert' \in 1 .. BufSize
         /\ read' \in Cells
         /\ cells'[read'] = c
         /\ \A i \in Cells : cells'[i] \in {cells[i], c}
<1> USE KeyboardAssumption DEF KTypeOK, Cells
<1>1. CASE insert < BufSize
  BY <1>1 DEF Inserted
<1>2. CASE ~(insert < BufSize)
  BY <1>2 DEF Inserted
<1> QED
  BY <1>1, <1>2

(* A key goes down: whatever the poll has loaded is older.                 *)
LEMMA PressKeeps ==
  ASSUME KIInv, NEW key \in Keys, Press(key)
  PROVE  KIInv'
<1> DEFINE c == IF key \in Blanks THEN 0 ELSE presses + 1
<1> USE DEF KIInv
<1>1. /\ presses' = presses + 1 /\ presses + 1 \in 0 .. MaxPresses
      /\ pc' = pc /\ idx' = idx /\ temp' = temp /\ got' = got
      /\ Inserted(c)
  BY KeyboardAssumption DEF Press, KTypeOK
<1>2. c \in 0 .. MaxPresses /\ c \in {0, presses + 1}
  BY <1>1, KeyboardAssumption
<1>3. /\ cells' \in [Cells -> 0 .. MaxPresses] /\ insert' \in 1 .. BufSize /\ read' \in Cells
      /\ cells'[read'] = c
      /\ \A i \in Cells : cells'[i] \in {cells[i], c}
  BY <1>1, <1>2, InsertedAtRead
<1> HIDE DEF c
<1>4. KTypeOK'
  BY <1>1, <1>3, KeyboardAssumption DEF KTypeOK, Press, Keys
<1>5. NewestOrNothing'
  BY <1>1, <1>2, <1>3 DEF NewestOrNothing, PollFresh, KTypeOK
<1>6. NoStuckShift'
  BY DEF NoStuckShift, Press
<1>7. PollFresh'
  BY <1>1, <1>2, <1>3 DEF PollFresh, KTypeOK
<1> QED
  BY <1>4, <1>5, <1>6, <1>7

(* A key goes up: only isShift and the keys that are down change.          *)
LEMMA ReleaseKeeps ==
  ASSUME KIInv, NEW key \in Keys, Release(key)
  PROVE  KIInv'
<1> USE DEF KIInv, Release
<1>1. KTypeOK'
  BY DEF KTypeOK
<1>2. NoStuckShift'
  BY DEF NoStuckShift
<1>3. NewestOrNothing' /\ PollFresh'
  BY DEF NewestOrNothing, PollFresh
<1> QED
  BY <1>1, <1>2, <1>3

(* The poll: what it loads is the newest symbol or nothing.                *)
LEMMA PollKeeps ==
  ASSUME KIInv, Poll
  PROVE  KIInv'
<1> USE KeyboardAssumption DEF KIInv, Cells
<1>1. CASE LoadIndex
  BY <1>1 DEF LoadIndex, KTypeOK, NewestOrNothing, NoStuckShift, PollFresh
<1>2. CASE Test
  BY <1>2 DEF Test, KTypeOK, NewestOrNothing, NoStuckShift, PollFresh
<1>3. CASE Take
  BY <1>3 DEF Take, KTypeOK, NewestOrNothing, NoStuckShift, PollFresh
<1>4. CASE Clear
  <2> USE DEF Clear
  <2>1. KTypeOK'
    BY <1>4 DEF KTypeOK
  <2>2. NewestOrNothing'
    BY <1>4 DEF KTypeOK, NewestOrNothing, PollFresh
  <2>3. NoStuckShift' /\ PollFresh'
    BY <1>4 DEF KTypeOK, NoStuckShift, PollFresh
  <2> QED
    BY <2>1, <2>2, <2>3
<1> QED
  BY <1>1, <1>2, <1>3, <1>4 DEF Poll

-----------------------------------------------------------------------------
(* The theorems about the keyboard.                                        *)

\* The invariant holds wherever the handler interrupts the poll.
THEOREM KeyboardInvariant == KSpec => []KIInv
<1>1. KIInv /\ [KNext]_kvars => KIInv'
  <2> SUFFICES ASSUME KIInv, [KNext]_kvars PROVE KIInv'
    OBVIOUS
  <2>1. CASE UNCHANGED kvars
    BY <2>1 DEF kvars, KIInv, KTypeOK, NewestOrNothing, NoStuckShift, PollFresh
  <2> QED
    BY <2>1, PressKeeps, ReleaseKeeps, PollKeeps DEF KNext
<1> QED
  BY FirstKey, <1>1, PTL DEF KSpec

\* get_las_sym returns keys in the order they were pressed, none twice.
THEOREM KeysInOrder == KSpec => []InOrder
<1>1. KIInv => InOrder
  BY DEF KIInv, PollFresh, InOrder
<1> QED
  BY KeyboardInvariant, <1>1, PTL

\* The cell under the read index holds the newest symbol or nothing.
THEOREM ReadsNewest == KSpec => []NewestOrNothing
<1>1. KIInv => NewestOrNothing
  BY DEF KIInv
<1> QED
  BY KeyboardInvariant, <1>1, PTL

\* isShift is set only while a shift is down.
THEOREM ShiftNeverSticks == KSpec => []NoStuckShift
<1>1. KIInv => NoStuckShift
  BY DEF KIInv
<1> QED
  BY KeyboardInvariant, <1>1, PTL

\* A symbol that waits goes in no other way than that a later key takes its
\* place, that the poll returns it, or that it came while a poll was busy with
\* an earlier one.
THEOREM LossesAreKnown == KSpec => LostOnlyKnown
<1> DEFINE Lost == cells[read] # 0 /\ cells'[read'] # cells[read] /\ got' # cells[read]
           Known == presses' > presses \/ (pc = "clear" /\ temp # cells[read])
<1>1. KIInv /\ [KNext]_kvars => [Lost => Known]_kvars
  <2> SUFFICES ASSUME KIInv, KNext, Lost PROVE Known
    OBVIOUS
  <2>1. ASSUME NEW key \in Keys, Press(key) PROVE Known
    <3>1. presses \in Int
      BY KeyboardAssumption DEF KIInv, KTypeOK
    <3>2. presses' = presses + 1
      BY <2>1 DEF Press
    <3> QED
      BY <3>1, <3>2
  <2>2. ASSUME NEW key \in Keys, Release(key) PROVE FALSE
    BY <2>2 DEF Release
  <2>3. CASE LoadIndex \/ Test \/ Take
    BY <2>3 DEF LoadIndex, Test, Take
  <2>4. CASE Clear
    BY <2>4 DEF Clear, KIInv, KTypeOK
  <2> QED
    BY <2>1, <2>2, <2>3, <2>4 DEF KNext, Poll
<1> QED
  BY KeyboardInvariant, <1>1, PTL DEF KSpec, LostOnlyKnown
=============================================================================
