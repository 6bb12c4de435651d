------------------------------ MODULE Library -------------------------------
(***************************************************************************)
(* The programs' library (src/program/libs) and the table of the kernel's  *)
(* calls (syscall.c): what each library function puts into which register  *)
(* before its int 0x80, and what the kernel does for which registers.      *)
(*                                                                         *)
(* Register contents are strings: a number as its digits, a parameter by   *)
(* its name, and what a caller has in a register by the register's name.   *)
(***************************************************************************)
EXTENDS FiniteSets, TLC

CallUsed == {"eax", "ecx", "edx"}            \* a C function may change them
CalleeSaved == {"ebx", "esi", "edi", "ebp"}  \* it returns with these as before
Segments == {"ds", "es", "fs", "gs"}
Registers == CallUsed \cup CalleeSaved \cup Segments

Arguments == {"eax", "ebx", "ecx", "edx", "esi", "edi"}  \* the kernel looks at these
Own == [r \in Registers |-> r]
Unknown == "?"

-----------------------------------------------------------------------------
(* The kernel's side: for eax and ebx, the operation and the registers it  *)
(* takes its arguments from.  The cases of SYSCALL_STRING run on into      *)
(* those of SYSCALL_MEMORY.                                                *)

Services == {
  <<"1", "1", "print string", <<"ecx">>>>, <<"1", "2", "print character", <<"ecx">>>>,
  <<"1", "3", "print number", <<"ecx">>>>, <<"1", "4", "print hex", <<"ecx">>>>,
  <<"1", "5", "set background", <<"ecx">>>>, <<"1", "6", "set foreground", <<"ecx">>>>,
  <<"1", "7", "clear screen", <<"ecx">>>>, <<"1", "8", "set cursor", <<"ecx">>>>,
  <<"1", "9", "get cursor", <<"ecx", "edx">>>>,
  <<"2", "1", "get key", <<>>>>,
  <<"3", "1", "compare", <<"esi", "edi">>>>, <<"3", "1", "allocate", <<"ecx">>>>,
  <<"3", "2", "length", <<"esi">>>>, <<"3", "2", "release", <<"esi">>>>,
  <<"4", "1", "allocate", <<"ecx">>>>, <<"4", "2", "release", <<"esi">>>>,
  <<"5", "1", "read", <<"esi", "edx", "ecx">>>>, <<"5", "2", "write", <<"esi", "edi", "ecx">>>>,
  <<"5", "3", "create", <<"esi", "ecx">>>>, <<"5", "4", "delete", <<"esi">>>>,
  <<"5", "5", "check", <<"esi">>>>, <<"5", "6", "list", <<"esi">>>>,
  <<"6", "1", "run", <<"esi">>>>, <<"6", "96", "exit", <<>>>>}  \* SYS_DIED is 0x60

Answering == {"get key", "compare", "length", "allocate",
              "read", "write", "create", "delete", "check", "list"}
OnDisk == {"read", "write", "create", "delete", "check", "list", "run"}

\* What the kernel does for the arguments a.
Served(a) ==
  {<<s[3], [i \in DOMAIN s[4] |-> a[s[4][i]]]>> :
     s \in {t \in Services : t[1] = a["eax"] /\ t[2] = a["ebx"]}}

-----------------------------------------------------------------------------
(* The programs' side.  For each library function: what its name promises, *)
(* the registers its asm statement loads, those it tells the compiler of,  *)
(* and how many operands it leaves to the compiler to put in a register.   *)

Entry(op, args, loads, told, free) ==
  [meant |-> <<op, args>>, loads |-> loads, told |-> told, free |-> free]

ABC == {"eax", "ebx", "ecx"}

SysFunctions == [
  sys_read |-> Entry("read", <<"name", "out", "n">>,
    [eax |-> "5", ebx |-> "1", ecx |-> "n", esi |-> "name", edx |-> "out"],
    ABC \cup {"esi", "edx"}, 0),
  sys_check |-> Entry("check", <<"name">>,
    [eax |-> "5", ebx |-> "5", esi |-> "name"], ABC \cup {"edx"}, 1),
  sys_write |-> Entry("write", <<"name", "in", "count">>,
    [eax |-> "5", ebx |-> "2", ecx |-> "count", esi |-> "name", edi |-> "in"],
    ABC \cup {"esi", "edi"}, 0),
  sys_create |-> Entry("create", <<"name", "size">>,
    [eax |-> "5", ebx |-> "3", ecx |-> "size", esi |-> "name"], ABC \cup {"esi", "edi"}, 0),
  sys_delete |-> Entry("delete", <<"name">>,
    [eax |-> "5", ebx |-> "4", esi |-> "name"], ABC \cup {"esi", "edi"}, 0),
  write_root |-> Entry("list", <<"dir">>,
    [eax |-> "5", ebx |-> "6", esi |-> "dir"], ABC, 1),
  sys_run |-> Entry("run", <<"name">>,
    [eax |-> "6", ebx |-> "1", esi |-> "name"], {"eax", "ebx", "esi"}, 1),
  sys_died |-> Entry("exit", <<>>,
    [eax |-> "6", ebx |-> "60"], {}, 0)]

FileFunctions == [
  fopen |-> Entry("open", <<"name">>,
    [eax |-> "5", ebx |-> "8", esi |-> "name"], {"eax", "ebx", "esi"}, 1),
  fclose |-> Entry("release", <<"file">>,
    [eax |-> "4", ebx |-> "2", esi |-> "file"], {"eax", "ebx", "esi"}, 1),
  fwrite |-> Entry("write", <<"file", "in", "n">>,
    [eax |-> "5", ebx |-> "2", ecx |-> "n", esi |-> "file", edi |-> "in"],
    ABC \cup {"esi", "edi"}, 0)]

MemoryFunctions == [
  malloc |-> Entry("allocate", <<"size">>,
    [eax |-> "4", ebx |-> "1", ecx |-> "size"], ABC, 1),
  free |-> Entry("release", <<"data">>,
    [eax |-> "4", ebx |-> "2", ecx |-> "data"], ABC, 1)]

ColorFunctions == [
  SetFGColor |-> Entry("set foreground", <<"color">>,
    [eax |-> "1", ebx |-> "6", ecx |-> "color"], ABC, 1),
  SetBGColor |-> Entry("set background", <<"color">>,
    [eax |-> "1", ebx |-> "5", ecx |-> "color"], ABC, 1)]

\* print is what printf does for a string or a number; it does putchar for
\* every other character, and SetFGColor for a colour.
ScreenFunctions == [
  print |-> Entry("print string", <<"s">>,
    [eax |-> "1", ebx |-> "1", ecx |-> "s"], ABC, 1),
  putchar |-> Entry("print character", <<"c">>,
    [eax |-> "1", ebx |-> "2", ecx |-> "c"], ABC, 1),
  clear_screen |-> Entry("clear screen", <<"color">>,
    [eax |-> "1", ebx |-> "7", edx |-> "color"], {"eax", "ebx", "edx"}, 1),
  set_cursor |-> Entry("set cursor", <<"pos">>,
    [eax |-> "1", ebx |-> "8", ecx |-> "pos"], ABC, 1),
  get_cursor |-> Entry("get cursor", <<"x", "y">>,
    [eax |-> "1", ebx |-> "9", ecx |-> "x", edx |-> "y"], ABC \cup {"edx"}, 2),
  get_char |-> Entry("get key", <<>>,
    [eax |-> "2", ebx |-> "1", ecx |-> "0", edx |-> "0"], ABC \cup {"edx"}, 0)]

LibraryFunctions == SysFunctions @@ FileFunctions @@ MemoryFunctions @@ ColorFunctions @@ ScreenFunctions

-----------------------------------------------------------------------------
(* Any library that is made the same way.                                  *)

CONSTANTS
  Functions,   \* the functions
  Misfit,      \* those whose registers or number the kernel does not expect
  Careless     \* those that load registers they do not tell the compiler of

Calls == DOMAIN Functions

\* Where the compiler may put the operands left to it.
Operands(c) ==
  {S \in SUBSET ((CallUsed \cup CalleeSaved) \ Functions[c].told) :
     Cardinality(S) = Functions[c].free}

\* What the compiled function saves, with the operands in S: what it has been
\* told of and what it uses itself.
Saves(c, S) == CalleeSaved \cap (Functions[c].told \cup S)

\* The registers that c makes its call with.
Loaded(c, S) ==
  [r \in Registers |-> IF r \in DOMAIN Functions[c].loads THEN Functions[c].loads[r]
                       ELSE IF r \in S THEN Unknown ELSE r]

\* The kernel does for each function what its name says, but for the misfits;
\* and each tells the compiler what it loads, but for the careless.
ASSUME LibraryAssumption ==
  \A c \in Calls :
    /\ c \notin Misfit => \A S \in Operands(c) :
         Served([r \in Arguments |-> Loaded(c, S)[r]]) = {Functions[c].meant}
    /\ c \notin Careless =>
         DOMAIN Functions[c].loads \cap CalleeSaved \subseteq Functions[c].told
=============================================================================
