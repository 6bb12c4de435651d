# Atom-x86 in TLA+

A verification development for the Atom-x86 kernel: a 32-bit hobby operating
system with one address space, one program at a time, a polled AHCI disk, a
small file system of its own (FluidFS), a heap, and an interrupt-driven
keyboard.  The modules are translated from the C and assembly sources under
`src/`; TLC checks them on small instances, and TLAPS proves the central
invariants for every value of the constants.

## 1. The system and its parts

| Component | Source | State it keeps | Operations |
| --- | --- | --- | --- |
| FluidFS | `src/src/fs/fluidfs.c` | directory blocks, file blocks and a bitmap sector on the disk; the bitmap, one buffer and the node found last in memory | init, check, open, read, write (`fwrite`), delete, create (`cnode`), list |
| Heap | `src/src/kernel/services/memory/memory.c` | a linked list of block headers in 1 MB at 0x200000 | create_heap, malloc, free |
| Interrupt handlers and PIC | `isr32.asm`, `isr33.asm`, `isr46.asm`, `isr8.asm`, `src/src/cpu/pic.c`, `idt.c` | what is on the stack; lines waiting and in service | enter, end of interrupt, return |
| Keyboard | `src/src/drivers/keyboard/keyboard.c`, `isr33.asm` | 32 cells and two indices, the shift flag | IRQ 1 handler, poll |
| Timer | `src/src/drivers/timer/timer.c`, `isr32.asm` | tick counter | IRQ 0 handler, ksleep |
| AHCI disk | `src/src/drivers/disk/sata.c`, `disk.c`, `src/src/drivers/pci/pci.c` | table of PCI functions, command header and table in fixed memory, HBA registers | bus scan, reset, port scan, identify, sector read and write with a timeout |
| Video console | `src/src/drivers/video/vga_640_480.c` | cursor, colours, frame buffer | kprintf, kputc, scroll, cursor |
| System calls | `src/src/kernel/services/syscall/syscall.c`, `isr80.asm` | the caller's registers on the stack | dispatch on eax, ebx |
| Programs | `src/src/kernel/services/memory/program.c`, `src/src/kernel/nf86krn.c` | saved stack and return pointer | boot, execute, exit |
| Program library | `src/program/libs` | registers at an `int 0x80` | one function per system call, printf, copies |
| User programs | `src/program` | line buffer, argument vector, the name that is typed | init, setup, shell with its commands, notepad |
| Image packer | `src/utilities/FluidFSPacker` | the image in a file | create image, push files |
| Boot loader | `src/src/bootloader` | real-mode registers, memory | load the kernel, switch to protected mode |

How they interact.  A program calls the kernel with `int 0x80`; the handler
turns interrupts on again at once and calls FluidFS, the heap, the keyboard
poll or the console.  FluidFS calls the disk through `disk->dispather` with a
packet, and takes its buffers from the heap.  The disk driver waits with
`ksleep`, that is on the timer interrupt.  The only things that run at the same
time are the CPU in the kernel, the interrupt handlers, and the drive with its
DMA; and whatever the kernel does, the power may go.

What is hard in it:

* **Crash.** Every FluidFS operation is several disk writes (data, record,
  bitmap) in an order of its own; a power cut may fall between any two.  Above
  it, setup makes a file before it has what belongs into it.
* **Interleaving.** The keyboard handler and the poll share a buffer and two
  indices without a lock, in code built without optimisation.
* **Long sequences.** The bitmap, the records and the heap's list are changed
  incrementally by calls that undo one another; a block must never get two
  owners and a header never land in a caller's memory.
* **Limits.** A full disk, a full directory, a full heap, the end of the bitmap.
* **Partial failure.** Early returns in the middle of an operation; disk
  errors nobody looks at; a command that times out and completes later.
* **Names.** The kernel checks no path: directories are written and deleted as
  files are, extensions grow into other fields, and files of one name coexist.

What makes each component correct:

* FluidFS: no block has two owners; used blocks are marked, on the disk too
  but for a known window; freed blocks are blank; records stay reachable; only
  known steps leak; a call touches no other file; every call ends.  After a
  power cut, or a write that has failed, these still hold but for known causes.
* Heap: the blocks tile the heap; what is handed out is disjoint, inside, and
  stays so until freed; malloc fails only when it must; free merges.
* Keyboard: keys arrive in order and at most once; a key is lost only in known
  ways; shift does not stick.
* AHCI: a success means the command was executed; the drive touches only the
  buffer of a call in progress unless a timeout was reported; every call ends.
* Console and shell: the line on the screen is the line executed; the cursor
  stays where the next character goes.
* Programs: a command changes the file its user has named and no other, and
  says what it has done; the system asks for a name until it has one.
* System calls and interrupts: a program gets back its registers and stack
  whatever comes in between; arguments reach the operation meant, and its
  answer the program; no interrupt line stays blocked; a program can always be
  interrupted; every call ends.
* Packer: the image satisfies what FluidFS assumes of it, as long as no record
  gets out of its directory.

## 2. The modules

| Module | What it is | Code |
| --- | --- | --- |
| `FluidFS` | the file system at the granularity of disk writes | `fluidfs.c` |
| `MCFluidFS` | a small disk image for it | |
| `FluidFSFaults`, `MCFluidFSFaults` | FluidFS with power cuts and writes that fail | `fluidfs.c`, `nf86krn.c` |
| `FluidFSProofs` | the inductive invariant of FluidFS, what it keeps of its records, and what cuts and lost writes leave of it, proved | |
| `Paths` | how a path is taken apart | `fluidfs.c` 62-115 |
| `FileStore` | what the shell's commands promise | |
| `Programs`, `MCPrograms`, `ProgramsProofs` | the shell's commands, init and setup on directories; invariant and refinement proved | `shell.c` 87-167, 226-246, `init.c`, `setup.c`, `fluidfs.c` |
| `Allocator` | what a heap promises | |
| `Heap` | the kernel heap, one action per loop round | `memory.c` 24-110 |
| `MCHeap`, `HeapProofs` | small instance; invariant and refinement proved | |
| `Keyboard` | interrupt handler and poll, access by access | `keyboard.c` 48-96 |
| `MCKeyboard` | a small instance for it | |
| `BlockDevice` | what the file system needs of a disk driver | |
| `Ahci` | commands to the disk, store by store and poll by poll | `sata.c` 174-244, 287-350 |
| `MCAhci`, `AhciProofs` | small instance; invariant and refinement proved | |
| `AhciInit`, `MCAhciInit`, `AhciInitProofs` | finding the disk on the bus, port reset, scan and start; invariant proved | `pci.c`, `disk.c` 17-54, `sata.c` 69-172, 265-285 |
| `Packer`, `MCPacker`, `PackerProofs` | the tool that makes the disk image; invariant proved | `pack.c` |
| `Console` | cursor, cells and scrolling of the screen | `vga_640_480.c` 46-154 |
| `LineReader` | what a line editor promises | |
| `Terminal`, `MCTerminal`, `TerminalProofs` | the shell's line editor on the console; invariant and refinement proved | `shell.c` 194-287 |
| `Library` | the kernel's table of calls, and what each library function loads, tells the compiler and saves | `syscall.c` 14-126, `libs/file.c`, `libs/memory.c`, `libs/strio.c` 109-293 |
| `Interrupts`, `MCInterrupts` | calls and interrupts, instruction by instruction, with the repository's library | `isr*.asm`, `syscall.c`, `program.c` 12-33, `timer.c` 19-30 |
| `InterruptsProofs` | the inductive invariants of Interrupts, for any library, and of Keyboard, proved | |

### FluidFS

A disk is a function from block numbers to tables (of `NodePBlock` records) or
data; `dmap` is the bitmap sector on the disk and `bitmap` the one in memory.
Each call is a chain of actions linked by `pc`, one per disk write, with the
code's locals (`buf` is `g_fcheck_buffer`, `cblk` and `cslot` are
`g_cur_block` and `g_cur_node`, `k` and `left` the loop's k and n):

* write: `BeginWrite` (fcheck), `WriteBlock` per block or `WriteOverflow`,
  `TrimBlock` per block behind the new end, `WriteRecord`, `WriteMap`;
* delete: `BeginDelete` (marks the record), `DeleteBlock` per block, `DeleteMap`;
* create: `BeginCreate` (first free record, `get_block`), `CreateMap`.

Reading operations are operators: `DirPtrs` walks the root directory, `Hits`
is what fcheck finds, `FreePlaces` what cnode takes, `Listing` what write_dir
prints.  They do what the code does at its edges: a scan runs on over block
pointers that are 0, into block 0, and stops at an empty record.

What is abstracted: names and data are model values; a path has at most one
directory (the packer makes no deeper ones and cnode is only ever asked for
files); a deleted record loses its pointers on the disk, which nothing reads;
the heap allocations inside a call.  What is assumed of the environment: the
image is as the packer makes it when no record gets out of its directory
(`ImageAssumption`: blocks exclusive and marked, unmarked blocks zero, pointers
that fit the sizes, no record behind an empty one; the `packer` run checks all
of it); callers write to files and not to directories (`NoDirectory`: the kernel
does not check; `Programs` shows what such a call does); the drive does what it is told, except that it refuses blocks it does
not have (`FluidFSFaults` drops this one).

### FluidFSFaults

`FSpec` is FluidFS with two more kinds of steps.  `Cut` is a power cut and the
boot after it: memory is gone, and fluidfs_init loads the bitmap sector.  The
`Lost` actions are the steps of FluidFS with their one disk write missing:
nobody looks at the result of `disk->dispather`, so memory goes on as if it had
happened.  Four history variables say which of these have happened that matter
later: `behind` (a flush of the bitmap was lost), `spilled` (a write has
overflowed), and from them `torn` (a block may have two owners from here on)
and `stale` (free blocks may hold old data).  The causes are exact: leaving any
one of them out makes the run fail.  `torn` is set by a cut between a record
and its bitmap, by any cut while a file has a block beyond the bitmap sector
(get_block hands them out, and the sector never records them), and by the loss
of a record that gives blocks up (the mark of a delete, the record of a write
that has trimmed); nothing else gives a block two owners, however calls, cuts
and losses are mixed.  Exploration stops there.
A read that fails is not modelled: the buffer then holds what was there before.

### Paths, FileStore and Programs

One level up: a call of the file system is one step, and paths are what users
write.  A path is a sequence of slashes, dots and words, up to its first NUL,
and what lies behind that in memory (`Paths!Split` is
`raw_filename_to_std_format`): a path without a slash in front loses its first
character, the extension begins behind the first dot of the last part or, if
there is none, behind the NUL, since the code steps over either; and of a long
one `Kept` is what is left after cnode has put the flag over its ninth
character.  What lies behind a path is the next argument (the shell puts NULs
into the line, in place) or what an older, longer line has left; mostly it is
another NUL.  `Shown` is the path as its user sees it.  `tables` holds the directories and block 0, into which every scan
of a full directory runs on; `Hits` is fcheck, `Gaps` cnode's search.  `prog` is
the program that runs: the kernel starts the shell after every power cut
(`Cut`), the shell may start init or setup (fopen loads a program over its
caller), init starts setup if there is no user.cfg, and setup asks for a name.

`KeepsFiles` is the refinement of `FileStore`: files that do not know of one
another, commands that change the one they name, and answers that are true
(the answers of rm and cat may be wrong, since the kernel's fdel and fread
return nothing and the shell takes what is left in eax).  A command whose path
is `Misread`, that is, gets its extension from behind the path, is about another
file than it says: FileStore lets it answer anything (`Misled`) and change one
file (`Quietly`).  The refinement holds until
something `strange` happens, and the strange things are again exact: a record
that goes to block 0 because its directory is full; one without a name that
takes a deleted record's place before others; one put before another of its
name; an extension longer than 8; a write or rm of a directory; an rm that
brings an older file of the name to light.  `vain` is the same for
`NamedUnlessCut`: the power goes while setup asks, the name outgrows its
buffer, or a command has touched or written user.cfg, under whatever path the
kernel takes for it.

What is abstracted: the bytes of words (extensions of 9 to 12 characters are
the only long ones; longer ones reach further into the record); texts are
shorter than a block; paths and names longer than 32 characters (with what
lies behind them, up to its NUL); the disk never
gets full here; a name that outgrows its buffer on the stack stops the system;
a command without its argument takes any argument, since `argv[1]` is read
anyway.  A letter and CAPS are one key.  `MCView` leaves the last answer out of
the state TLC remembers, since no step reads it.

### Heap

`hdr` holds the headers of the blocks in the list; a header that was merged
away is dropped, and the invariant shows that nothing reads one again.
`current` and `address` are malloc's two cursors, and free's `heap` and
`next`.  `owned` is what the callers hold; callers free only that.
The byte behind the heap that free reads (at 0x300010, inside the loaded
program) is taken not to be 1.  Sizes are at most the heap's, so no address
wraps.

### Keyboard

`keyboard.c` is compiled without optimisation (`src/build.sh`), so the poll
loads index and cell three times; the model has one action per load.  The
handler is one action, since `isr33` runs with interrupts off.  A symbol is
the number of its key press, so that order and loss can be stated; `got` is
the last one returned.  The module's specification is `KSpec`, with names of its
own so that `InterruptsProofs` can extend it beside Interrupts.  The release of a shift is looked up past the end of
the first table, in the second one, which the build lays out behind it and
which has the shifts at the same places.

### Ahci

The driver (`pc`, `call`, `step`) stores the packet into the one command table
in three steps (header and command byte; buffer; sector address), sets `ci`,
and looks at `ci`, the task file and `serr` in turn until one of them ends the
loop or the count does.  The drive is external: it fetches header and FIS when
it likes, moves the data when it likes (to the buffer the table names *then*),
completes, fails, or does nothing, and the link may report an error.  A call
that gave up leaves its command issued, so the drive can read the table while
the next call fills it; `alone` records that a call found slot 0 free.  The
module begins where the port is set up and the identification is about to be
issued.  `KeepsContract` is the refinement of `BlockDevice`, the device
FluidFS relies on (it looks at no result).

### AhciInit

Boot up to the first command: the scan of the PCI bus (one step: nothing runs
beside it), which reads 31 of 32 slots and 7 of 8 functions into a table
without a look at its end, `disk_init`'s choice, and then, register write by
register write, for each port COMRESET, the signature, the stop of both engines,
the move of the lists, and the start, which is always port 0's.  `cr` and `fr`
follow `st` and `fre`, and link and signature come after a reset, when the
hardware likes.  `Wait` is one of the code's loops without an end.  The HBA
implements all ports of the instance, and a port without a disk stays busy
(its task file reads 0x7F).

### Packer

One action per image made, boot loader installed and file copied; `rec` and
`data` are the image read as records and as parts of files.  `Overruns` is a
copy that leaves the image or the record (nothing is modelled behind it);
"spilled" marks a record written outside of its directory, with what was there
before lost.  There are two ways to it: a copy into a full directory, whose
record goes to the next block, and the loader's installation when the first
record of `/boot` is in use (`InstallBoot`): the search moves on by 128 records,
which is 16 KB (`Stride` blocks), and ends in whatever block has a 0 there.
`pack()` copies files before it installs the loader, so both may happen in one
command.  Steps go on after a spill; `ImageOK` and `PushedIsFound` speak of the
time before it.  A loader longer than its one block, or than the 3584 bytes
between boot sector and super block into which it is read, is not modelled; nor
is how host file names become name and extension.  Modelled with it:
the bound of `main.c` on the size, as the number of bitmap blocks.

### Console and Terminal

A console is a record and its operations are operators, so that the shell's
actions can apply several.  `open` is the bit mask the last character has left
in the VGA: scrolling copies the frame buffer byte by byte through the VGA's
latches, and that works only while the mask is 0, that is after a character
whose last line is blank (all of ASCII; not the blocks and frames from 0xAB
on).  `Terminal` has one action per key; `home` and `lost` are history.
What commands do to files is in `Programs`; here they print, or clear the screen.
A line whose command starts another program is not continued.

### Interrupts and Library

One CPU with its registers, one stack and the code that is left to run.  A
program (an empty code) calls any library function as the compiler may have
compiled it (`Wrapper`: operands in any register the asm statement does not
mention; the build uses -O1), which ends in `int 0x80`, `Isr80` and the C
handler.  Any of the three unmasked lines may be raised at any time and is
taken between two instructions when the interrupt flag, the PICs' priorities
and what is in service allow.  A run of pushes or pops is one instruction, and
a C handler's body one or two; `call` and `ret` to C are balanced and left
out.  Register contents are symbolic: every register of the program holds its
own name, so that any mix-up shows.  `was` in a frame is history: the
registers at the interrupt.  The operations themselves (disk, heap, console)
are the other components'; here a disk operation may sleep on the timer
(`Sleep`, `Check`, and a `hlt` that any interrupt ends) and a run may find its
program (`Execute`).

External and assumed: the 8259s' fixed priorities, cdecl, and that between two
interrupts of one line the interrupted code gets on (`recent`): a tick comes
every 10 ms and a handler takes microseconds.  `sti` takes effect at once,
although the CPU delays it by an instruction: one more place where an interrupt
may come.

`LibraryFunctions` is the repository's library; `Misfit` and `Careless` name its
functions that the kernel's table does not fit or the compiler is not told
enough of (section 6), and TLC evaluates `LibraryAssumption`, that all others
fit, register by register against `Services`.

What the run shows is what Heap, FluidFS and Keyboard take for granted: one
kernel call at a time, and a keyboard handler that nothing interrupts.

## 3. The runs

| Run | Shows | Bounds |
| --- | --- | --- |
| `fluidfs` | the invariants, action properties and termination of FluidFS | 5 blocks: block 0, root table, one directory, two for files; 2 records per block, 2 pointers per record, writes of 0, one whole and one and a half blocks |
| `fluidfs_size` | a comment the code does not keep (section 6) | as `fluidfs` |
| `fluidfs_faults` | what power cuts and lost writes can do to owners, free blocks and the bitmap, and what they cannot | 4 blocks: block 0, root table, two for files, and one the scan finds beyond bitmap and disk; 2 files (symmetric), records and pointers as `fluidfs`, writes of 0 and of one and a half blocks; any number of cuts and losses |
| `heap` | the heap refines the allocator, tiles, fails only when full | 14 bytes, headers of 2, requests of 0 to 3 |
| `keyboard` | order, loss, shift, arrival under every interleaving | 3 cells, 2 shifts, a symbol key and a blank key, 5 presses |
| `ahci` | the driver is a block device until a call fails; what still holds after; every call returns | 2 sectors, 2 buffers, 2 contents, one sleep before the timeout |
| `ahci_init` | lists and links are touched only while the engines stand still; the first command meets a running port and is reached | 3 ports, each with or without a disk and left running or not by the BIOS; 8 buses, of which 2 slots with 2 functions are read into 2 entries |
| `ahci_init_ready` | a comment the code does not keep (section 6) | 2 ports |
| `packer` | the image is what FluidFS assumes of blocks, records and sizes, and what was copied is there, until a record gets out of its directory | 10 blocks, 4 records per block, 16 KB being 4 blocks, 2 pointers per record, 2 files of 0 to 3 blocks, 3 copies, any number of loaders |
| `terminal` | the line on the screen, the line executed and the line typed are one | 3 columns, 3 rows in use, lines of 5 characters, outputs that wrap, scroll and end in a tall picture |
| `interrupts` | registers, stack, answers, end-of-interrupt commands and the flag survive every interleaving; every call ends | none: all 21 library functions and all three lines |
| `programs` | the shell's commands are those of FileStore; the system asks for a name until it has one | 4 records per block, 13 paths in all unusual spellings, two of them with an extension behind their NUL, 2 texts, names of up to 2 keys; an image with room and a full one |

Why the bounds are enough.  With two records per block a directory fills up
and spills into block 0 after two creates, and block 0 after one more; with two
blocks for files the disk overflows both at a create and in the middle of a
two-block write; two pointers per record give a trim, a gap and an exact
multiple of the block size a chance.  (A disk shorter than its bitmap sector,
4 blocks with 5 bits and 6 scanned, passes with all properties too, but takes
five minutes; it is not among the runs.)  In `fluidfs_faults` two files compete
for two blocks, so a block that is freed too early is handed on at once.  (Writes of
exactly one block pass too, in three minutes.)  The heap holds several pieces at once,
so that splits, merges over several blocks, exact fits and the test at the end
of the heap all occur.  Five presses go round three cells, and a press can
fall between any two of the poll's six accesses, more than once.  In `ahci` a
timed-out command can complete during each later step of the next call; one
sleep is enough, since every further one returns to the same state but for the
count.  Three ports let the scan meet a disk before, on and behind port 0's;
the buses have controllers in both orders, in places that are not read, and
more functions than entries.  Three copies fill the one directory the boot
loader shares, and fill the image; the loader comes before, between and behind
them, and again, into `/boot`, into the block 16 KB on and out of the image.  Five characters after the prompt cross the
end of a row and the bottom of the screen, in both orders, with older lines
still in the buffer.  `Interrupts` needs no bounds: handlers do not nest deeper
than a call and one interrupt.  In `programs` home has one record left, so the
second create spills, and a deleted record before, between and behind others
can be taken again; the paths name one file in several spellings, two files
that differ in the extension only, a directory, a file without a name and the
files that init and setup look for; `/a` and `/home/user` come with bytes behind
them that make `/a.x` and user.cfg of them.

The type invariants of FluidFSFaults, AhciInit, Packer, Terminal, Interrupts
and Programs are checked as the first part of `OwnersNeedCause`, `IssueReady`,
`ImageOK`, `LineOnScreen`, `Transparent` and `NamedUnlessCut`, those of Heap,
Keyboard and Ahci as part of their `IInv` or `KIInv`.  FluidFS's is proved (section 4).

Every property has a seeded defect, an operator called "Defect" beside the
definition it replaces, that breaks it.

Deadlock is checked, but in the runs of `Ahci` and `AhciInit`, where the code
itself stops (`for(;;) hlt` after a timeout of the identification, no disk, a
wait that never ends), of `Packer`, which stops at its bound on copies or
when the image is overrun, and of `FluidFSFaults` and `Programs`, which say
nothing of what comes after `torn` and `strange`.

### Fairness

`WF_vars(Continue)` in FluidFS and Heap: a call, once begun, runs on, since the
kernel is not preempted and each disk wait ends by itself (completion, error or
timeout).  No fairness on the beginning of calls.  `WF_vars(Poll)` in Keyboard:
the shell polls in an endless loop.  Nobody has to press or release a key.
`WF_vars(DriverStep)` in Ahci: the driver runs on and the timer ticks; the
drive need never answer.  AhciInit asks besides that the HBA's engines follow
their switches and that a disk wakes after a reset, port by port: its waits
have no timeout, so nothing could be said of a boot with broken hardware.
Interrupts asks that the CPU runs and takes interrupts, and that the timer
ticks: `CallsReturn` needs the tick for a call that sleeps.  The program need
not call again.  FluidFSFaults, Packer, Terminal and Programs have safety
properties only.

## 4. What is proved

All proofs are for every value of the constants that satisfies the named
assumptions.

* **FluidFS** (`FluidFSProofs`; `FluidFSAssumption`, `ImageAssumption`).
  `IInv` is inductive.  Its first part, `Owned`, is types, `NoCrossLink` and
  `UsedBlocksMarked`, strengthened by how the record in memory relates to the
  disk; its second is `FreedBlocksErased`, apart because lost writes break it
  alone.  `InFlight` says that the pointers of the record a write or delete
  works on are marked, distinct, and no other record's: without it a trim
  could erase somebody else's block.  `Writing` says that the buffer differs
  from its block on the disk in that record only, so that `WriteRecord` puts
  back nothing stale; `Deleting` that the record is gone from the disk before
  its blocks are erased; `FixedMarked` keeps the fixed blocks out of
  `get_block`.  Each action is shown to have `Kept`: besides `Owned'`, how the
  records on the disk change (`RecordsKept`) and that one block at most is
  written, a table or one that no other record points to (`OneWritten`).
  Theorems: `InductiveInvariant`, `TypeCorrect`, `NoBlockShared`,
  `UsedBlocksStayMarked`, `FreedBlocksHoldZeroes`, `TornAtFlushOnly`,
  `OtherFilesKept`.
* **FluidFS's records** (`FluidFSProofs`; the same assumptions).  Three
  more invariants, for the record in memory while fwrite and fdel loop over
  it: `Filled` and `Trimmed` say which pointers are set and which are not at
  the loop's k, so that the record has no gap when it goes to the disk, and
  `GivenUp` that a block taken from it, but not yet from the disk, is already
  free.  `SizesCovered` needs the first two, and that a size stored is not
  larger than the one asked for; `OnlyKnownLeaks` needs all of them: a delete
  would leak what lies behind a gap.  `RecordsAreFound` needs that no record
  comes to lie behind an empty one (`NoneBehindEmpty`), which is why fdel
  writes 0xFF; that the scan's first hit exists is the library's theorem on
  least elements.
* **FluidFSFaults** (`FluidFSProofs`, at its end; the same assumptions).  `FIInv` is
  `Owned`, `Filled`, `TornOnlyAtFlush` and `Durable` up to `torn`, and
  `FreedBlocksErased` up to `stale`.  `Durable` says what the platter's bitmap
  covers as long as no flush was lost; `TornOnlyAtFlush` is what makes a cut
  outside the window harmless; `Filled` that a record lost after a trim is the
  only one that still names the blocks given up.  Sound steps keep it by the
  lemmas on FluidFS's; cuts and each kind of lost write have lemmas of their
  own.  From it: `OwnersSurviveFaults`, `BlankSurvivesFaults` and
  `CutBetweenCallsIsHarmless`.
* **Heap** (`HeapProofs`; `HeapAssumption`).  `IInv` says that the list tiles
  the heap, that blocks are disjoint with their headers below the end, that
  malloc's sum is its pointer's address, and that it has passed by no block it
  could have taken.  From it: `BlocksTile`, `HeldStaysBusy`, `NoFalseFailure`
  (malloc fails only when it must) and `ImplementsAllocator`, the refinement
  of `Allocator` step by step.
* **Interrupts** (`InterruptsProofs`; `LibraryAssumption`, which names the
  functions that do not fit).  The library is a constant here, a table of what
  each function loads, tells the compiler of and leaves to it, so that the
  theorems hold for any set of functions and any choice of registers for their
  operands; the run evaluates the assumption for the repository's 21.  `IInv`
  says where the machine is.  Outside the handlers (`Outside`) the program is in
  its own code, before a step of a library function (`InWrapper`) or of `isr80`
  (`InSys`, with what the call waits for), and each says what is left of the
  code, what copies lie on the stack, which registers are as they were, and what
  the kernel has done.  In a handler (`InHandler`) its frame lies on the stack
  with copies of the registers above it, and the state in the frame together
  with the stack below it is one that `Outside` allows: this is what makes
  the return land where the properties hold again.  `MasterAt` and `SlaveAt`
  say what is in service at each step of a handler.  An instruction is treated
  by lemmas on what a push and a pop do (`PushDoes`, `PopDoes`), a handler, the
  system call and a library function each by one case per step (`HandlerStep`,
  `KernelStep`, `WrapperStep`), and an interrupt by the fact that it makes a frame of
  whatever was `Outside`, a `hlt` included (`Interrupted`).  From `Placement`,
  which says that `IInv` holds: `ReturnsAsItWas`, `CallsAreServed`,
  `ServiceEnds` (the codes of program and kernel send no end of interrupt,
  `CalmOutside`, so what is ahead is what the one handler has left) and
  `HandlersDoNotNest`.
* **Keyboard** (`InterruptsProofs`, at its end; `KeyboardAssumption`).  `KIInv`
  adds to the properties what the poll's registers may hold at each point
  (`PollFresh`).  From it: `KeysInOrder`, `ReadsNewest`, `ShiftNeverSticks`,
  `LossesAreKnown`.
* **Ahci** (`AhciProofs`; `AhciAssumption`).  `IInv` says that the drive works
  on issued commands only and that a command issued outside the loop that
  waits for it means some call has failed (`DriveFollows`); what the table
  holds at each point of a call (`TableFilled`); and that with the slot to
  itself the drive works on the call's own command and has executed it once
  the data moved (`Exact`).  From it: `ImplementsDevice`, the refinement of
  `BlockDevice` step by step, `SuccessesAreReal` and `ErrorsStick`.

* **AhciInit** (`AhciInitProofs`; `AhciInitAssumption`: at least one
  port, any set of buses, any reach and table of the scan).  `IInv` says which engines rest at which
  step of the scan (`Resting`: a switch that was cleared stays so, and an engine
  seen at rest with its switch off does not start again), which ones run in
  `ahci_port_dma_enable` (`Running`), that a port that is not busy has signed
  (`SignedWhenIdle`), and that the recognised ports are those with the kernel's
  lists, but for the one the scan is at (`Recognised`).  From it:
  `ListsMovedAtRest` and `FirstCommandReady`: the port of the first command is
  ready and its engines run, but it fetches the command from the list the BIOS
  left if the scan has not recognised the disk (a slow one).
* **Terminal** (`TerminalProofs`; `ConsoleAssumption`, `TerminalAssumption`:
  the prompt fits a row, the column backspace at column 0 leads to lies far
  enough right that no line comes back from it).  `IInv` adds to `LineOnScreen`
  that the buffer holds printable characters up to `index` (`LineTyped`), that
  the cursor has gone no further than the line (`CursorBound`), and that the
  VGA's mask is not the one that spoils a scroll while a character of the line
  is visible (`MaskHolds`).  A string is drawn by a recursive function, so what
  drawing keeps is shown by taking the shortest part of the string that would
  break it; that the cells of a line are different ones rests on lemmas on
  division and remainder.  From it: `ShownIsExecuted`, and `ReadsWhatWasTyped`,
  the refinement of `LineReader` step by step.  The proof corrected the model:
  an earlier `Scrolled` also painted over the row behind the screen.
* **Packer** (`PackerProofs`; `PackerAssumption`, and the hypothesis
  `TotalBlock <= BitsPerBlock` on each theorem).  `IInv` adds to `ImageOK` and
  `PushedIsFound` that the directories are the three that disk_img_create makes
  (`DirsFixed`), so that every path leads to one of four tables.  What
  `free_block_get` returns are different free blocks (`FreeBlocksAreFree`, by
  counting the free bits up to each block).  The boot loader and a copied file
  do the same to the image (`Adds`: fresh blocks, and the first unused record of
  a table), and that keeps it sound and every earlier file in place, as long as
  the record stays in its directory: the theorems speak of that time only, and
  a copy into a full directory or a loader installed into a `/boot` in use ends
  it.  The hypothesis says that the bitmap is one block, that is an image of 128 MB at
  most; above it the theorem is false, since the marking loop does not move on
  and leaves a directory's block unmarked (section 6).  From it:
  `ImageStaysSound` and `CopiesStay`.
* **Programs** (`ProgramsProofs`; `PathsAssumption`, `ProgramsAssumption`: the
  packer's tables are well formed, no record lies behind an empty one, each
  directory has one record, and there is no user.cfg among the build's files;
  there is one home, in the root directory; a record's size is its data's, a
  program fills its block and a text does not; the boot sector, which every full
  directory's scan runs into, does not look like a file anybody asks for; the
  name and its heading are shorter than a block).  `IInv` adds to
  `NamedUnlessCut` that the tables stay so (`Sound`) until something strange
  happens.  With it, what is
  not strange changes one record that is no directory (`Put`), and leaves every
  path the directory it led to.  A path could yet be a second name of user.cfg
  and a write to it go unnoticed: that different paths lead to different
  directories (`LeadsApart`) is shown by taking the shortest path that meets
  another one.  That the first match is the only one (`HitIsOne`), and that a
  put makes no other record the first one unless it stops being it itself
  (`HitsAfterPut`), leaves the changed record as the only one to look at.
  From it: `AsksUntilNamed`, and `ImplementsFileStore`, the refinement of
  `FileStore` step by step.  For that a file as its user thinks of it must be
  the one the code finds: what `Spelled` puts together `Split` takes apart again
  (`SpelledIsSplit`, symbol by symbol), and the directories of the usual
  spellings are the root and home (`Homes`).  A put record is then what its file
  holds (`PutIsHit`; `NothingBefore` for a new one), an older record of the name
  in front of it stays the file's (`HitStays`), and no other file's is touched
  (`OtherFiles`).  A usual spelling has no NUL (`ShownWhole`), and a path that
  is not `Misread` is taken apart like the path alone (`Answered`); a command
  whose path is `Misread` still changes one file at most (`QuietStep`).

Each `IInv` was checked with TLC before it was proved; `heap`, `keyboard` and
`ahci` still check it in their runs, and the other runs check the properties
that theirs are made for.

What is only model-checked: the liveness properties `CallsReturn` (of FluidFS,
Heap, Ahci and Interrupts), `Arrives` and `BootReachesCommand`, which are out of
the prover's reach.  Every safety property of the passing runs is proved.

## 5. Plan

Done: all modules of section 2, model checked, and proofs of the safety
properties of FluidFS, FluidFSFaults, Heap with Allocator, Keyboard, Ahci with
BlockDevice, AhciInit, Terminal with LineReader, Packer, Interrupts, and
Programs with FileStore.  Then, in this order:

1. Reads that fail in FluidFS: what a call does that works on an old buffer.
2. Files of several blocks in fread, and the wrap of the tick counter in
   ksleep.

## 6. Where code and comments disagree

* `fluidfs.c:315` says fwrite writes n bytes to the file.  The size it stores
  is what its loop has left of n, that is n modulo the block size
  (`WrittenSize`, run `fluidfs_size`).
* `sata.c:110` says the scan makes each port ready; it starts port 0 whatever
  port it has found a disk on (`ScanMakesReady`, run `ahci_init_ready`).

Seen while modelling, without a run of their own:

* `pack.c:404` prints "Successful copying" although the record may have been
  written behind a full directory, over another one (`PushedIsFound` excepts
  it).
* `vga_640_480.c:128` says that draw_char draws a character; the one that meets
  the end of a row is dropped (`LineOnScreen` excepts it).
* `setup.c` creates user.cfg before it asks for the name, and init.c:23 only
  looks whether the file is there: after a power cut at the question nobody
  asks again (`NamedUnlessCut`).  The name is stored without a look at the end
  of its 32 bytes, and BACKSPACE on an empty name becomes a character of it
  (`Key`).
* The kernel's fdel and fread return nothing; rm and cat print success or
  failure by what is left in eax (`Delete`, `Cat`).
* touch makes a second file of a name that exists; put in front it hides the
  first, and rm of it brings the first back (`Misplaced`, `Delete`).
* A path that ends in a slash, or whose last part begins with a dot, makes a
  record without a name, and every scan ends at it (`Misplaced`).
* A path without a dot takes what lies behind its NUL for an extension, since
  `fluidfs.c:98` steps over the dot or the NUL alike: `write /a x` writes to
  `/a.x` or says that `/a` is not there, and `is /home/user cfg` finds user.cfg
  (`Split`, `Misread`).  `pack.c:85` does the same with host file names (not
  modelled: the build's have dots).
* When the first record of `/boot` is in use, main_boot_set looks for the next
  one 16 KB on (`pack.c:274` adds 128 to a pointer to records of 128 bytes), in a
  block of nobody or of another file: nothing finds the loader there, and its
  record may destroy what is in the block (`InstallBoot`; `ImageOK` and
  `PushedIsFound` except it).
* An extension longer than 8 characters runs into the record's other fields
  (`fluidfs.c:101`, `Kept`).
* A path that does not begin with a slash gets it in place of its first
  character: `home/x` is looked for in `/ome` (`Forced`).  `ls /home`, without a
  slash at the end, lists the root directory.
* Commands read `argv[1]` whether there is one or not.
* fread and fwrite never advance the caller's pointer, so every block of a file
  gets the same data and only the last block read remains.
* A create in a full block 0 falls off the end of cnode, and the caller takes
  what is in eax for success (`Touch`).
* The memset at `shell.c:234` clears at the address that the first character's
  value names, and the programs' buffers are never given back (see the
  library's free below): after some 250 `cat`s the heap is full.
* The PCI scan leaves out slot 31 and function 7 (`pci.c:23`): the AHCI
  controller of a q35 board is at slot 31.  It also masks bar0 to its lowest bit
  (line 33), so the PIO driver would find port 0x1F0 or nothing.
* `fluidfs.c:143` says fcheck returns 1 if the file is found.  Its scan runs on
  into block 0 when a directory's block is full, and so does cnode's: a file
  created in one full directory is found in every other.
* `fluidfs.c:399` says fdel deletes the file.  cnode makes a second record of
  the same name without complaint, and fdel removes the first only.
* `sata.c:109` says the scan determines the type of each device.  It reads the
  signature at once, since `ksleep(0.1)` is `ksleep(0)`: a slow disk is taken
  for none (in `AhciInit`, `ScanOther` with a disk on the port).
* `sata.c:263` says init_sata fills the buffer with the passport; after an
  error in IDENTIFY it returns SUCCES with the buffer as it was (`GiveUp`).
* `nf86krn.c:62` prints "Unsupported device type"; with a PATA controller only
  the null `dispather` is called instead (`DiskInit`).
* `main.c:64` accepts images up to 256 MB; above 128 MB the last directory's
  block is not marked (`MarkedAtCreation` with two bitmap blocks).
* `notepad.c:39` prints "ESC - exit", but sys_died passes 60 where the kernel
  expects 0x60 (`file.c:115`, `syscall.h`): neither ESC nor the shell's `exit`
  does anything; and exit itself opens a name that cannot exist and halts
  (`Misfit`).
* The library's free passes its pointer in ecx and the kernel frees esi
  (`libs/memory.c:66`, `syscall.c:79`): memory of programs is not given back, and
  whatever esi points to may be.  clear_screen passes its colour in edx, and
  fopen asks for a number nobody serves and writes through the answer
  (`Misfit`).
* write_root, sys_check and sys_died load ebx or esi without telling the
  compiler (`Careless`).
* SYSCALL_STRING runs on into SYSCALL_MEMORY (`syscall.c:71`): a comparison
  allocates ecx bytes, a length frees esi.  No library function asks for either.
* printf's `%d` builds its digits through a pointer that is never set
  (`strio.c:160`).
* `vga_640_480.c:120` says that scroll moves the screen by a row; after a
  character whose last line is not blank it paints over the screen (`Scrolled`).

## 7. What is not modelled

The boot loader and `kmain`'s set-up (16-bit and port I/O), the double fault
handler, exit (no program reaches it), the PIO driver
`ata.c` (not linked), the font, the packer's command line and the old tool
`afsm.c`, `notepad` (it uses system calls the kernel does not have); and, until
their turn in the plan, what section 2 says is abstracted.
`PROJECT.json` lists every hazard found in the code with the properties that
cover it, or why none does yet.
