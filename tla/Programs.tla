------------------------------ MODULE Programs ------------------------------
(***************************************************************************)
(* What happens above the file system between one power cut and the next:  *)
(* the kernel starts the shell, whose commands (src/program/shell/shell.c) *)
(* work on files or start init (init.c) and setup (setup.c).  A call of    *)
(* the file system is one step; its disk writes are in FluidFS, whose      *)
(* scans are here again with paths as they are written and records with    *)
(* extensions.  The disk never gets full, but directories do.              *)
(***************************************************************************)
EXTENDS Paths

CONSTANTS
  Slots,    \* records per block
  Images,   \* the tables as the packer may leave them
  Block,    \* bytes per block; a program is as long
  Args,     \* paths that users write behind a command, and what lies behind them:
            \* the next argument, or what an older line has left there
  Texts,    \* what they write into files, shorter than a block
  Keys,     \* what is typed at the question for a name
  NameSize, \* the bytes of username (32)
  Back,     \* the key BACKSPACE
  Code,     \* what is in the files that are programs
  Absent, Quiet, Misled, Yes, No  \* see FileStore

VARIABLES
  tables,  \* the directories, and block 0, the table behind each of them
  prog,    \* the program that runs, or "stopped"
  typed,   \* setup's username[0 .. i - 1]
  said,    \* history: the shell's last answer
  strange, \* history: a command has done what its user cannot have meant
  vain     \* history: why user.cfg may hold no name

vars == <<tables, prog, typed, said, strange, vain>>

\* The programs' own files.
ShellBin == <<"/", "home", "/", "shell", ".", "bin">>
SetupBin == <<"/", "system", "/", "setup", ".", "bin">>
InitCfg  == <<"/", "home", "/", "init", ".", "cfg">>
UserCfg  == <<"/", "home", "/", "user", ".", "cfg">>

\* The paths in use, taken apart.
Paths == Args \cup {ShellBin, SetupBin, InitCfg, UserCfg}
Parts == [p \in Paths |-> Split(p)]

\* What the code puts into the first byte of the name of a deleted record.
Deleted == <<"\\xFF">>
Zero == [s \in 1 .. Slots |->
           [name |-> <<>>, ext |-> <<>>, table |-> "none", data |-> <<>>, size |-> 0]]

-----------------------------------------------------------------------------
(* Calls of the file system                                                *)

\* The directory a path leads to (at most one).
Enter(t, d) ==
  LET match(s) == tables[t][s].name = d /\ tables[t][s].table # "none"
  IN {tables[t][s].table : s \in {r \in 1 .. Slots :
        match(r) /\ \A q \in 1 .. r - 1 : tables[t][q].name # <<>> /\ ~match(q)}}
Directory(dirs) ==
  LET after[k \in 0 .. Len(dirs)] ==
        IF k = 0 THEN {"root"} ELSE UNION {Enter(t, dirs[k]) : t \in after[k - 1]}
  IN after[Len(dirs)]

\* The scan of directory t goes on in block 0.  A place is a table and a slot.
Places(t) == ({t} \cup {"block0"}) \X (1 .. Slots)
Earlier(a, b) == IF a[1] = b[1] THEN a[2] < b[2] ELSE b[1] = "block0"
Record(a) == tables[a[1]][a[2]]

\* Defect: fcheck compares names only.
HitsByName(p) ==
  LET f == Parts[p]
      match(a) == Record(a).name = f.name
  IN UNION {{a \in Places(t) :
        /\ Record(a).name # <<>> /\ match(a)
        /\ \A b \in Places(t) : Earlier(b, a) => Record(b).name # <<>> /\ ~match(b)}
      : t \in Directory(f.dirs)}

\* Name and extension are those of the path.
Fits(r, p) == r.name = Parts[p].name /\ r.ext = Parts[p].ext

\* fcheck: the record a path names (at most one).
Hits(p) ==
  UNION {{a \in Places(t) :
      /\ Record(a).name # <<>> /\ Fits(Record(a), p)
      /\ \A b \in Places(t) : Earlier(b, a) => Record(b).name # <<>> /\ ~Fits(Record(b), p)}
    : t \in Directory(Parts[p].dirs)}

\* cnode's place for a new record (at most one).
Gaps(t) ==
  LET gap(a) == Record(a).name \in {<<>>, Deleted}
  IN {a \in Places(t) : gap(a) /\ \A b \in Places(t) : Earlier(b, a) => ~gap(b)}

Stored(a, r) == tables' = [tables EXCEPT ![a[1]][a[2]] = r]

\* cnode, once it has a place.
Made(p, a) ==
  Stored(a, [name |-> Parts[p].name, ext |-> Kept(Parts[p].ext),
             table |-> "none", data |-> <<>>, size |-> 0])

\* fwrite over a directory puts the text where its records were; without a
\* text it takes away its block, and block 0 is read instead.
Overwritten(a, text) ==
  LET r == Record(a)
      over == [tables EXCEPT ![r.table] = IF text = <<>> THEN Zero ELSE [Zero EXCEPT ![1].name = text]]
      kept == IF text = <<>> THEN "block0" ELSE r.table
  IN IF r.table = "none"
     THEN Stored(a, [r EXCEPT !.data = text, !.size = Len(text)])
     ELSE tables' = [over EXCEPT ![a[1]][a[2]] = [r EXCEPT !.table = kept, !.size = Len(text)]]

\* fdel marks the record and erases its blocks, those of a directory too.
Removed(a) ==
  LET gone == [tables EXCEPT ![a[1]][a[2]] = [Zero[1] EXCEPT !.name = Deleted]]
  IN tables' = IF Record(a).table = "none" THEN gone
               ELSE [gone EXCEPT ![Record(a).table] = Zero]

\* fread, for up to one block: nothing when it is a whole one.
Copied(a, n) ==
  LET r == Record(a) IN SubSeq(r.data, 1, Min({n, r.size}) % Block)

\* fopen loads what it finds over the program that calls, and never returns;
\* what is not a program runs into anything.
Loaded(p) ==
  LET codes == {Record(a).data : a \in Hits(p)} \cap Code
  IN IF codes = {} THEN "stopped" ELSE (CHOOSE c \in codes : TRUE)[1]

-----------------------------------------------------------------------------
(* The shell's commands.  An argument that is left out is whatever lies    *)
(* behind the argument vector (argv[1] is read unchecked), so it may be    *)
(* any of Args and Texts too.  (A text that is not left out lies behind    *)
(* its path: "write /a x" is about /a.x.)                                  *)

\* Files as users think of them, and the one a path is the spelling of.
Known == {[dirs |-> d, name |-> n, ext |-> e] :
            d \in {<<>>, <<<<"home">>>>}, n \in {<<w>> : w \in Words},
            e \in {<<>>} \cup {<<w>> : w \in Words}}
Files == {f \in Known : Spelled(f) \in Args \cup {UserCfg}}

\* Paths without a dot that get an extension from what lies behind them: the
\* command is about the file with it, and what it says about the one without.
Misread == {p \in Paths : Parts[p] # Split(Shown(p))}

Say(c, p, a) ==
  LET meant == {f \in Files : Spelled(f) = Shown(p)}
  IN said' = IF p \in Misread THEN Misled
             ELSE IF meant = {} THEN Quiet
             ELSE [command |-> c, file |-> CHOOSE f \in meant : TRUE, answer |-> a]

\* What is typed at the question for a name.
Names == UNION {[1 .. n -> Keys] : n \in 0 .. NameSize}

Command == prog = "shell" /\ UNCHANGED <<prog, typed>>

\* user.cfg, however it is spelled, is not setup's any more.
Meddled(p) == vain' = (vain \/ Parts[p] = Parts[UserCfg])

Check(p) ==
  /\ Command
  /\ Say("is", p, IF Hits(p) = {} THEN No ELSE Yes)
  /\ UNCHANGED <<tables, strange, vain>>

\* A record that gets into block 0 is in every full directory, one without a
\* name hides the records behind it, one of a file that exists hides it if it
\* comes before, and of a long extension a part is lost.
Misplaced(p, a) ==
  \/ a[1] = "block0"
  \/ Parts[p].name = <<>> /\ Record(a).name = Deleted
  \/ \E b \in Hits(p) : Earlier(a, b)
  \/ Kept(Parts[p].ext) # Parts[p].ext

\* Without a place cnode falls off its end, with an answer that is not 0.
Touch(p) ==
  /\ Command
  /\ \/ /\ Directory(Parts[p].dirs) = {}
        /\ Say("touch", p, No)
        /\ UNCHANGED <<tables, strange, vain>>
     \/ \E t \in Directory(Parts[p].dirs) :
          /\ Say("touch", p, Yes)
          /\ Meddled(p)
          /\ \/ Gaps(t) = {} /\ UNCHANGED tables /\ strange' = TRUE
             \/ \E a \in Gaps(t) : Made(p, a) /\ strange' = Misplaced(p, a)

Write(p, text) ==
  /\ Command
  /\ \/ Hits(p) = {} /\ Say("write", p, No) /\ UNCHANGED <<tables, strange, vain>>
     \/ \E a \in Hits(p) :
          /\ Overwritten(a, text)
          /\ Say("write", p, Yes)
          /\ strange' = (Record(a).table # "none")
          /\ Meddled(p)

\* There may be another record of the same name, which is found from now on.
\* fdel returns nothing: what rm says depends on what is left in eax.
Delete(p) ==
  /\ Command
  /\ \/ Hits(p) = {} /\ Say("rm", p, No) /\ UNCHANGED <<tables, strange>>
     \/ \E a \in Hits(p) :
          /\ Removed(a)
          /\ \E ok \in {Yes, No} : Say("rm", p, ok)
          /\ strange' = (Record(a).table # "none" \/ Hits(p)' # {})
  /\ UNCHANGED vain

\* fread returns nothing either: cat may say that it has failed.
Cat(p) ==
  /\ Command
  /\ \/ Say("cat", p, No)
     \/ \E a \in Hits(p) : Say("cat", p, Copied(a, Block))
  /\ UNCHANGED <<tables, strange, vain>>

\* What is no command is the path of a program.
Run(p) ==
  /\ prog = "shell"
  /\ Hits(p) # {}
  /\ prog' = Loaded(p)
  /\ said' = Quiet
  /\ UNCHANGED <<tables, typed, strange, vain>>

-----------------------------------------------------------------------------
(* init and setup                                                          *)

\* init wants its configuration, and asks for a name if user.cfg is missing.
Begin ==
  /\ prog = "init"
  /\ prog' = IF Hits(InitCfg) = {} THEN "stopped"
             ELSE Loaded(IF Hits(UserCfg) = {} THEN SetupBin ELSE ShellBin)
  /\ said' = Quiet
  /\ UNCHANGED <<tables, typed, strange, vain>>

\* setup creates user.cfg before it asks.
Ask ==
  /\ prog = "setup"
  /\ prog' = "asking"
  /\ typed' = <<>>
  /\ \E t \in Directory(Parts[UserCfg].dirs) :
       \/ Gaps(t) = {} /\ UNCHANGED tables /\ strange' = TRUE
       \/ \E a \in Gaps(t) : Made(UserCfg, a) /\ strange' = Misplaced(UserCfg, a)
  /\ said' = Quiet
  /\ UNCHANGED vain

\* BACKSPACE takes a character back, or is one at the beginning.
Key(c) ==
  /\ prog = "asking"
  /\ IF c = Back /\ typed # <<>>
     THEN typed' = Front(typed) /\ UNCHANGED <<prog, vain>>
     ELSE IF Len(typed) < NameSize
          THEN typed' = Append(typed, c) /\ UNCHANGED <<prog, vain>>
          \* Nothing stops the name at the end of its buffer, on the stack.
          ELSE prog' = "stopped" /\ vain' = TRUE /\ UNCHANGED typed
  /\ said' = Quiet
  /\ UNCHANGED <<tables, strange>>

\* What is left of setup when it starts the shell: it goes on if there is none.
ToShell ==
  IF Hits(ShellBin) = {} THEN UNCHANGED <<prog, typed>>
  ELSE prog' = Loaded(ShellBin) /\ typed' = <<>>

\* Defect: setup starts the shell before it writes the name.
AnswerLate ==
  /\ prog = "asking"
  /\ ToShell
  /\ vain' = FALSE
  /\ said' = Quiet
  /\ UNCHANGED <<tables, strange>>

\* ENTER: the name is written into user.cfg.
Answer ==
  /\ prog = "asking"
  /\ IF Hits(UserCfg) = {} THEN UNCHANGED tables
     ELSE \E a \in Hits(UserCfg) : Overwritten(a, <<"user:">> \o typed)
  /\ ToShell
  /\ vain' = FALSE
  /\ said' = Quiet
  /\ UNCHANGED strange

-----------------------------------------------------------------------------
\* The power goes and comes back: the kernel starts the shell.
Cut ==
  /\ prog' = Loaded(ShellBin)
  /\ typed' = <<>>
  /\ said' = Quiet
  /\ vain' = (vain \/ prog = "asking")
  /\ UNCHANGED <<tables, strange>>

Init ==
  /\ tables \in Images
  /\ prog = "shell"
  /\ typed = <<>>
  /\ said = Quiet
  /\ strange = FALSE
  /\ vain = FALSE

\* Nothing is said of what follows something strange.
Next ==
  /\ ~strange
  /\ \/ \E p \in Args : Check(p) \/ Touch(p) \/ Delete(p) \/ Cat(p) \/ Run(p)
     \/ \E p \in Args, text \in Texts : Write(p, text)
     \/ Begin \/ Ask \/ Answer \/ Cut
     \/ \E c \in Keys : Key(c)

Spec == Init /\ [][Next]_vars

-----------------------------------------------------------------------------
(* What the packer makes, and what is left of it.                          *)

Shaped(ts) ==
  /\ {"root", "block0"} \subseteq DOMAIN ts /\ "none" \notin DOMAIN ts
  /\ \A t \in DOMAIN ts :
       /\ DOMAIN ts[t] = 1 .. Slots
       /\ \A s \in 1 .. Slots :
            /\ DOMAIN ts[t][s] = DOMAIN Zero[1]
            /\ ts[t][s].table \in DOMAIN ts \cup {"none"}
            /\ ts[t][s].size \in 0 .. Block

\* No record of a directory lies behind an empty one.
InOrder(ts) ==
  \A t \in DOMAIN ts \ {"block0"}, r, s \in 1 .. Slots :
    r < s /\ ts[t][r].name = <<>> => ts[t][s].name = <<>>

\* A directory has one record.
OneOwner(ts) ==
  \A t, u \in DOMAIN ts, r, s \in 1 .. Slots :
    ts[t][r].table # "none" =>
      /\ ts[t][r].table \notin {"root", "block0"}
      /\ ts[t][r].name \notin {<<>>, Deleted}
      /\ ts[u][s].table = ts[t][r].table => u = t /\ s = r

\* The boot sector does not look like a file that is asked for.
BootCode(ts) ==
  \A s \in 1 .. Slots, p \in Paths :
    ts["block0"][s].name # <<>> => ~Fits(ts["block0"][s], p)

\* user.cfg is no directory.
UserCfgIsFile(ts) ==
  \A t \in DOMAIN ts, s \in 1 .. Slots :
    Fits(ts[t][s], UserCfg) => ts[t][s].table = "none"

\* There is one home in the root directory, and its table is called so.
HasHome(ts) ==
  /\ "home" \in DOMAIN ts
  /\ \E h \in 1 .. Slots :
       /\ ts["root"][h].table = "home"
       /\ \A s \in 1 .. Slots :
            ts["root"][s].name = <<"home">> /\ ts["root"][s].table # "none" <=> s = h

\* What files may hold: a program fills its block, and a text does not.
Plain == {<<>>} \cup Texts \cup {<<"user:">> \o n : n \in Names}
Sized(r) == (r.data \in Code /\ r.size = Block) \/ (r.data \in Plain /\ r.size = Len(r.data))

Sound(ts) ==
  /\ Shaped(ts) /\ InOrder(ts) /\ OneOwner(ts) /\ BootCode(ts) /\ UserCfgIsFile(ts) /\ HasHome(ts)
  /\ \A t \in DOMAIN ts, s \in 1 .. Slots : Sized(ts[t][s])

\* The build makes no user.cfg.
ASSUME ProgramsAssumption ==
  /\ {Slots, Block} \subseteq Nat \ {0} /\ NameSize \in Nat /\ NameSize + 1 < Block
  /\ Args \subseteq Seq(Words \cup {"/", ".", Nul})
  /\ {"home", "shell", "bin", "system", "setup", "init", "user", "cfg"} \subseteq Words
  /\ Deleted[1] \notin Words
  /\ \A text \in Texts : Len(text) \in 0 .. Block - 1 /\ text = [i \in 1 .. Len(text) |-> text[i]]
  /\ Code \subseteq {<<"shell">>, <<"init">>, <<"setup">>}
  /\ Absent \notin Plain \cup Code
  /\ \A ts \in Images :
       /\ Sound(ts)
       /\ \A t \in DOMAIN ts, s \in 1 .. Slots : ~Fits(ts[t][s], UserCfg)

-----------------------------------------------------------------------------
(* Properties                                                              *)

TypeOK ==
  /\ Shaped(tables)
  /\ prog \in {"shell", "init", "setup", "asking", "stopped"}
  /\ typed \in Names
  /\ strange \in BOOLEAN /\ vain \in BOOLEAN

\* The first record of a file in its directory, read from the tables: not
\* behind a record without a name.
Holding(f) ==
  LET t == IF f.dirs = <<>> THEN "root" ELSE f.dirs[1][1]
      fits(a) == Record(a).name = f.name /\ Record(a).ext = f.ext
  IN {a \in Places(t) :
        /\ fits(a)
        /\ \A b \in Places(t) : Earlier(b, a) => Record(b).name # <<>> /\ ~fits(b)}
Content(f) ==
  LET held == Holding(f)
  IN IF held = {} THEN Absent ELSE Record(CHOOSE a \in held : TRUE).data

\* The shell's commands are those of FileStore, however long the sequence of
\* creates and deletes in one directory, through starts of other programs and
\* power cuts.  A command is Misled if the bytes behind its path have been
\* taken for an extension: then it works on that one file, not on the one it
\* speaks of.  Strange are only: a record that goes to block 0 as its
\* directory is full; one without a name that takes a deleted record's place
\* before others; an extension longer than 8; a write or rm of a directory; an
\* rm of a file that has been created twice.
Shell == INSTANCE FileStore WITH
           store <- [f \in Files |-> Content(f)],
           Contents <- Plain \cup Code,
           Binary <- Code, New <- <<>>
KeepsFiles == Shell!Spec

\* When user.cfg is there it holds a name: so init, which only looks whether
\* it is there, asks for one until it has got one.  Unless the power goes (or
\* the name runs out of its buffer) while setup asks: user.cfg has been
\* created by then; or a user has been at the file.  (Types first.)
NamedUnlessCut ==
  /\ TypeOK
  /\ ~strange /\ ~vain /\ prog # "asking" =>
       \A a \in Hits(UserCfg) : Record(a).data # <<>> /\ Record(a).data[1] = "user:"

\* The inductive invariant behind it (proved in ProgramsProofs).
IInv == NamedUnlessCut /\ (~strange => Sound(tables))

=============================================================================
