------------------------------ MODULE Keyboard ------------------------------
(***************************************************************************)
(* The keyboard driver (src/src/drivers/keyboard/keyboard.c): the handler  *)
(* of IRQ 1 and the poll behind get_char, which runs with interrupts on    *)
(* (syscall_handler begins with sti).  The handler is atomic (isr33 begins *)
(* with cli); the poll is not, and shares the buffer and its two indices   *)
(* with the handler without a lock.                                        *)
(*                                                                         *)
(* keyboard.c is built without optimisation: each of the three accesses to *)
(* _keyboard_buf[_keyboard_buf_read] loads the index and then the cell,    *)
(* and an interrupt may come between any two loads.                        *)
(*                                                                         *)
(* A symbol is represented by the number of the key press that made it; 0  *)
(* is the byte 0, which says "nothing here".                               *)
(***************************************************************************)
EXTENDS Integers

CONSTANTS
  BufSize,    \* KEYBOARD_BUF_SIZE (32)
  Shifts,     \* the shift keys
  Symbols,    \* keys whose table entry is a symbol
  Blanks,     \* keys whose table entry is 0
  MaxPresses  \* bound on the key presses of a run

VARIABLES
  cells,    \* _keyboard_buf
  insert,   \* _keyboard_buf_insert
  read,     \* _keyboard_buf_read
  isShift,
  held,     \* the keys that are down
  presses,  \* key presses so far: the newest one's number
  pc,       \* where the poll is
  idx,      \* the index it has loaded
  temp,     \* temp
  got       \* the symbol get_char has returned last

kvars == <<cells, insert, read, isShift, held, presses, pc, idx, temp, got>>

Keys == Shifts \cup Symbols \cup Blanks
Cells == 0 .. BufSize - 1

ASSUME KeyboardAssumption ==
  /\ BufSize \in Nat \ {0, 1}
  /\ MaxPresses \in Nat
  /\ Shifts \cap Symbols = {} /\ Shifts \cap Blanks = {} /\ Symbols \cap Blanks = {}

-----------------------------------------------------------------------------
(* The handler.                                                            *)

\* Defect: a full buffer is begun anew without moving the read index.
InsertedAtWrapOnly(c) ==
  IF insert < BufSize
  THEN cells' = [cells EXCEPT ![insert] = c] /\ insert' = insert + 1 /\ read' = insert
  ELSE cells' = [cells EXCEPT ![0] = c] /\ insert' = 1 /\ read' = read

\* keyboard_buf_insert: the read index goes to the newest symbol.
Inserted(c) ==
  IF insert < BufSize
  THEN cells' = [cells EXCEPT ![insert] = c] /\ insert' = insert + 1 /\ read' = insert
  ELSE cells' = [cells EXCEPT ![0] = c] /\ insert' = 1 /\ read' = 0

\* A key goes down, or repeats while it is down.  A shift is a symbol too (0x01), and so takes the place
\* of the symbol before it; a blank key puts a 0 there.
Press(key) ==
  /\ presses < MaxPresses
  /\ held' = held \cup {key}
  /\ presses' = presses + 1
  /\ isShift' = (isShift \/ key \in Shifts)
  /\ Inserted(IF key \in Blanks THEN 0 ELSE presses')
  /\ UNCHANGED <<pc, idx, temp, got>>

\* Defect: the entry of a released shift is not found in the table.
ReleaseUnknown(key) ==
  /\ key \in held
  /\ held' = held \ {key}
  /\ UNCHANGED <<cells, insert, read, isShift, presses, pc, idx, temp, got>>

\* A key goes up.  The handler looks the whole scan code up, release bit
\* included: 128 entries on, in the table laid out behind the first one,
\* which names the shifts at the same places.
Release(key) ==
  /\ key \in held
  /\ held' = held \ {key}
  /\ isShift' = (isShift /\ key \notin Shifts)
  /\ UNCHANGED <<cells, insert, read, presses, pc, idx, temp, got>>

-----------------------------------------------------------------------------
(* keyboard_buf_get_las_sym                                                *)

\* The index is loaded: for the test, for temp, and for the clearing.
LoadIndex ==
  /\ pc \in {"idle", "full", "taken"}
  /\ idx' = read
  /\ pc' = CASE pc = "idle" -> "test" [] pc = "full" -> "take" [] pc = "taken" -> "clear"
  /\ UNCHANGED <<cells, insert, read, isShift, held, presses, temp, got>>

\* Defect: the test is the wrong way round.
TestInverted ==
  /\ pc = "test"
  /\ IF cells[idx] = 0 THEN pc' = "full" /\ idx' = idx ELSE pc' = "idle" /\ idx' = 0
  /\ UNCHANGED <<cells, insert, read, isShift, held, presses, temp, got>>

\* An empty cell ends the poll with 0.
Test ==
  /\ pc = "test"
  /\ IF cells[idx] # 0 THEN pc' = "full" /\ idx' = idx ELSE pc' = "idle" /\ idx' = 0
  /\ UNCHANGED <<cells, insert, read, isShift, held, presses, temp, got>>

\* Defect: the cell is cleared before it is read.
TakeCleared ==
  /\ pc = "take"
  /\ cells' = [cells EXCEPT ![idx] = 0]
  /\ temp' = 0
  /\ pc' = "taken"
  /\ UNCHANGED <<insert, read, isShift, held, presses, idx, got>>

Take ==
  /\ pc = "take"
  /\ temp' = cells[idx]
  /\ pc' = "taken"
  /\ UNCHANGED <<cells, insert, read, isShift, held, presses, idx, got>>

\* Defect: the cell is not cleared.
ClearNothing ==
  /\ pc = "clear"
  /\ got' = IF temp # 0 THEN temp ELSE got
  /\ pc' = "idle"
  /\ idx' = 0 /\ temp' = 0
  /\ UNCHANGED <<cells, insert, read, isShift, held, presses>>

\* The cell is cleared and temp returned.
Clear ==
  /\ pc = "clear"
  /\ cells' = [cells EXCEPT ![idx] = 0]
  /\ got' = IF temp # 0 THEN temp ELSE got
  /\ pc' = "idle"
  /\ idx' = 0 /\ temp' = 0
  /\ UNCHANGED <<insert, read, isShift, held, presses>>

-----------------------------------------------------------------------------
KInit ==
  /\ cells = [i \in Cells |-> 0]
  /\ insert = 1
  /\ read = 0
  /\ isShift = FALSE
  /\ held = {}
  /\ presses = 0
  /\ pc = "idle"
  /\ idx = 0 /\ temp = 0 /\ got = 0

Poll == LoadIndex \/ Test \/ Take \/ Clear

KNext ==
  \/ \E key \in Keys : Press(key) \/ Release(key)
  \/ Poll

\* The shell polls without end; nobody has to press a key.
KSpec == KInit /\ [][KNext]_kvars /\ WF_kvars(Poll)

-----------------------------------------------------------------------------
(* Properties                                                              *)

KTypeOK ==
  /\ cells \in [Cells -> 0 .. MaxPresses]
  /\ insert \in 1 .. BufSize
  /\ read \in Cells
  /\ isShift \in BOOLEAN
  /\ held \subseteq Keys
  /\ presses \in 0 .. MaxPresses
  /\ pc \in {"idle", "test", "full", "take", "taken", "clear"}
  /\ idx \in Cells
  /\ temp \in 0 .. MaxPresses
  /\ got \in 0 .. MaxPresses

\* The cell the poll looks at never holds an old symbol: it holds the newest
\* one, not yet returned, or nothing.  What an interrupted poll or a skipped
\* symbol leaves behind in other cells is overwritten before it is read.
NewestOrNothing ==
  /\ cells[read] \in {0, presses}
  /\ cells[read] # 0 => cells[read] > got

\* No key is delivered twice and none after a later one, wherever the
\* handler interrupts the poll: what is about to be returned is newer than
\* all that has been.
InOrder == pc = "clear" /\ temp # 0 => temp > got

\* A symbol that waits is lost in two ways only: a later key takes its
\* place, or it came while a poll was busy with an earlier one, which then
\* clears it.
LostOnlyKnown ==
  [][cells[read] # 0 /\ cells'[read'] # cells[read] /\ got' # cells[read] =>
       \/ presses' > presses
       \/ pc = "clear" /\ temp # cells[read]]_kvars

\* No shift sticks: isShift says that some shift key is down.  (The converse
\* fails: of two shifts held, the release of one ends both.)
NoStuckShift == isShift => held \cap Shifts # {}

\* A symbol that waits when a poll begins arrives, unless a later key comes.
Arrives ==
  \A n \in 1 .. MaxPresses :
    pc = "idle" /\ cells[read] = n ~> got = n \/ presses > n

-----------------------------------------------------------------------------
(* The inductive invariant behind NewestOrNothing and InOrder.             *)

\* What the poll has loaded is not older than what it has returned.
PollFresh ==
  /\ got <= presses
  /\ \A i \in Cells : cells[i] <= presses
  /\ pc = "take" => cells[idx] = 0 \/ cells[idx] > got
  /\ pc \in {"taken", "clear"} => temp = 0 \/ temp > got
  /\ pc \in {"taken", "clear"} => temp <= presses
  /\ pc = "clear" /\ cells[read] # 0 /\ temp = cells[read] => idx = read

KIInv == KTypeOK /\ NewestOrNothing /\ NoStuckShift /\ PollFresh
=============================================================================
