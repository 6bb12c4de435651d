----------------------------- MODULE FileStore -----------------------------
(***************************************************************************)
(* What the commands of the shell promise: files are independent of one    *)
(* another, a command changes the file it names and no other, and says     *)
(* what it has done; rm and cat may say that they have failed when they    *)
(* have not.  A command may be misled, and works on one other file then.   *)
(* Once something strange has happened nothing is promised.                *)
(***************************************************************************)
CONSTANTS
  Files,     \* the names of files
  Contents,  \* what may be in them
  Binary,    \* those contents that cannot be shown
  New,       \* what is in a new file
  Absent,    \* there is no such file
  Quiet,     \* nothing has been said
  Misled,    \* the file spoken of is not the one worked on
  Yes, No    \* it has worked; it has not

VARIABLES
  store,   \* the files
  said,    \* the answer to the last command
  strange

vars == <<store, said, strange>>

There(f) == store[f] # Absent
Say(c, f, a) == said' = [command |-> c, file |-> f, answer |-> a]

Check(f) == Say("is", f, IF There(f) THEN Yes ELSE No) /\ UNCHANGED store

\* A new file is empty; one that exists stays.
Touch(f) ==
  \/ Say("touch", f, Yes) /\ store' = [store EXCEPT ![f] = IF There(f) THEN @ ELSE New]
  \/ Say("touch", f, No) /\ ~There(f) /\ UNCHANGED store

Write(f) ==
  \/ /\ Say("write", f, Yes)
     /\ There(f)
     /\ \E c \in Contents : store' = [store EXCEPT ![f] = c]
  \/ Say("write", f, No) /\ ~There(f) /\ UNCHANGED store

Remove(f) ==
  /\ \E a \in {Yes, No} : Say("rm", f, a)
  /\ store' = [store EXCEPT ![f] = Absent]

\* What cat shows is what is in the file.
Cat(f) ==
  /\ \/ Say("cat", f, No)
     \/ \E c \in Contents : Say("cat", f, c) /\ (store[f] = c \/ store[f] \in Binary)
  /\ UNCHANGED store

\* A program, or a command that is misled or whose path is spelled unusually,
\* changes one file.
Quietly(f) ==
  /\ said' \in {Quiet, Misled}
  /\ store'[f] \in Contents \cup {Absent}
  /\ store' = [store EXCEPT ![f] = store'[f]]

Init ==
  /\ store \in [Files -> Contents \cup {Absent}]
  /\ said = Quiet
  /\ strange = FALSE

Next ==
  \/ strange'
  \/ /\ \E f \in Files :
          Check(f) \/ Touch(f) \/ Write(f) \/ Remove(f) \/ Cat(f) \/ Quietly(f)
     /\ UNCHANGED strange

Spec == Init /\ [][Next]_vars
=============================================================================
