# A TLA+ development of XCPM

XCPM (`src/xcpm.c`, `src/hardware.c`) runs CP/M 2.2 programs from the command
line: a Z80 core (`src/z80ex/`) executes the guest, and a trap opcode in the
BDOS entry and in the BIOS jump table hands each system call to C code that
answers it with host files and the host's console.  The modules here model that
program, check it with TLC on small instances and prove what they can with
TLAPS.  Every definition is read off the C code; `PROJECT.json` names the lines
for each.

## 1. Inventory

| component | state | operations |
|---|---|---|
| main loop (`xcpm.c` `main`) | - | `cpm_init`, then `z80ex_step` for ever |
| start (`xcpm.c` `cpm_init`) | guest memory, PC, SP | lay the traps, take the arguments, read the program |
| trap dispatch (`z80ex_ed_cb`, `cbios_call`, `bdos_call`) | the guest's registers | find the call from PC, run it, exit on what is unknown |
| BDOS files (`bdos_open_file` ... `bdos_random_access_read_record`) | `fcb_table`, `dma_address`, guest memory, host streams and files | functions 15, 16, 19, 20, 21, 22, 26, 33 |
| names (`write_filename_to_fcb`, `fcb_to_filename`) | an FCB, the host's name | conversions between an argument, an FCB and a host name |
| console (`bdos_buffered_console_input`, `bdos_output_string`, function 2) | guest memory, stdin, stdout | functions 2, 9, 10 |
| C library streams (external) | buffer, position, direction | `fopen`, `fread`, `fwrite`, `fseek`, `fclose`, `exit` |
| memory and ports (`hardware.c`) | `memory[0x10000]` | read and write callbacks; the interrupt bus reads 0xFF |
| Z80 control (`z80ex.c`, `macros.h`) | PC, prefix, IFF1, IFF2, IM, I, R, halted, two one-shot flags | `z80ex_step`, `z80ex_int`, `z80ex_nmi`, `z80ex_reset` |
| Z80 arithmetic (`macros.h`, `ptables.c`) | A, F, register pairs | the flag computations, by table |
| Z80 opcode pages (`opcodes_*.c`) | all registers | some 1300 generated functions |
| disassembler (`z80ex_dasm.c`, `opcodes_dasm.c`) | - | `z80ex_dasm`: one line of a listing; a part of the core's library, not linked into `xcpm` |
| Z180, T-states | - | not compiled into `xcpm` |

How they interact: `main` steps the core; the core calls `z80ex_mread_cb` and
`z80ex_mwrite_cb` for memory and `z80ex_ed_cb` for an ED opcode above BB; the
callback reads PC to find out which call it is, reads the guest's registers and
memory for its parameters, and writes A, L and guest memory as its answer.
`exit()` flushes and closes every host stream; a kill does not.

What is hard: an FCB is known to the emulator by its address only, so the table,
the open streams and the guest's idea of what is open must stay together through
reopening, deleting and running out of slots; one position and one direction per
host stream serve both sequential and random records; buffered bytes are lost or
kept depending on how the process ends; prefixes, EI, HALT and interrupts
interleave in the core byte by byte; the memory layout of the start has regions
that touch.  The process is one thread; no signal handler or timer exists.

What makes each component correct:

- **files**: the FCB table and the open streams agree; what a call took reaches
  the file unless the process is killed; a file that function 22 could see is never
  replaced; an open that fails changes nothing else; the calls amount to operations on files of records.
- **names**: the loop ends, stays in its buffer, and gives BASE.EXT for every
  mixture of blanks, lower case and high bits.
- **start**: a started guest finds tail, FCBs, program and traps intact, or the
  start is refused.
- **traps**: a call comes back behind its CALL with the stack as before; a boot
  ends the process.
- **the whole**: programs that copy, type, look up and replace files and echo lines
  leave the files and the output that they were written to leave.
- **console**: nothing typed is lost between two calls; output is what stands
  before the `$`, and ends there.
- **Z80 control**: stepping by bytes with interrupts between amounts to whole
  instructions with interrupts between them.
- **Z80 arithmetic and pages**: routines compute what they are written to compute.
- **disassembler**: a listing keeps step with what the CPU executes.

## 2. Modules

| module | models | built on |
|---|---|---|
| `HostStdio` | one buffered stream of the C library (external) | - |
| `BdosFiles` | the BDOS file calls, the end of the process | `HostStdio` |
| `CpmFiles` | what the file calls promise, by records (abstract) | - |
| `BdosImplementsCpm` | the refinement mapping between the two | `BdosFiles`, `CpmFiles` |
| `SharedHost` | function 22 in two steps, beside other processes of the host | `BdosFiles` |
| `FcbFormat`, `FcbNames` | `write_filename_to_fcb`; the loop of `fcb_to_filename` | - |
| `CpmStart` | `cpm_init` | `FcbFormat` |
| `Xcpm` | `main`, the trap dispatch, every BDOS and BIOS call on the guest's memory and registers, `exit`: the composition | `CpmStart`, `Z80Cpu`, `FcbNames`, `BdosFiles`, `ConsoleCalls` |
| `ConsoleCalls` | functions 2, 9, 10 | - |
| `Z80Step` | `z80ex_step`, `z80ex_int`, `z80ex_nmi`, `z80ex_reset` | - |
| `Z80Instr` | whole instructions with interrupts between them (abstract) | - |
| `Z80ImplementsInstr` | the refinement mapping between the two | `Z80Step`, `Z80Instr` |
| `Z80Alu`, `Z80Cpu` | the flag tables and arithmetic macros; every opcode page, ports, interrupts | - |
| `Z80Dasm` | `z80ex_dasm` and a listing made with it | - |
| `BdosFilesProofs`, `BdosImplementsCpmProofs` | theorems on the file calls | `BdosFiles`, `BdosImplementsCpm` |
| `FcbNamesProofs`, `CpmStartProofs`, `ConsoleCallsProofs` | theorems | the module named |
| `Z80StepProofs` | theorems on the CPU's control | `Z80ImplementsInstr` |
| `Z80CpuProofs` | theorems on the arithmetic and on all opcode pages | `Z80Cpu` |
| `Numbers` | lemmas on quotients, remainders, least and greatest numbers, induction, recursion and folds | - |
| `MC...` | instances for TLC | the module named |

**HostStdio.** A stream is a record: the file it stands on, a mode (closed, idle,
read, write), a position, and a buffer with its offset in the file.  `Effective`
is where a read looks, `Flushed` the file after a flush of k of the pending
bytes, `AfterRead`, `AfterWrite`, `AfterDroppedWrite` and `Drained` the stream
after each call.  Choices the C library may make are constants: `DiskFull` (a
flush may write less than all), `ReadAhead`, and `SwitchOutcomes` (a write
straight after a read, which ISO C leaves undefined, works, fails or is
dropped).  None of this is in the repository: it is what `xcpm.c` relies on.

**BdosFiles.** `fcb_table`, `dma_address`, `reg_a` are the C variables (A and L
are always written together); `dma_buf` is the guest's memory at the DMA
addresses; `dir`, `content`, `stream` are the host.  Each call is one action:
`OpenFile` (15, with `fcb_alloc` in its three forms: the FCB's own slot with the
old stream closed, a free slot, none), `CloseFile` (16), `DeleteFile` (19, which
frees the slot before it asks the host to remove), `ReadNext` (20), `WriteNext`
(21), `CreateFile` (22), `SetDma` (26) and `ReadRandom` (33).  The guest chooses
the FCB, name and record number.  `Exit`, `ExitClosesStream` and `ExitEnds` are
`exit()`, which flushes stream by stream; `Kill` flushes nothing.  `HostRefuses`
lets the host answer any `fopen` or `remove` with a failure, also of a file that is
there: `fopen(fn, "r+b")` does so for a file that is read-only.

**SharedHost** takes `CreateFile` apart.  `CreateTest` is the `fopen` that looks for
an older file, `CreateOpen` the second one, which makes the file or empties it;
`creating` is the call between the two.  `OtherMakes` and `OtherRemoves` are another
process, at any moment.  `unseen` is history: the files that the look could not
find, for they came later or the host refused it.

**CpmFiles** has files as sequences of records and an open FCB as a place in one.
`BdosImplementsCpm` maps a file to its content with what its stream holds back,
an FCB to its stream's position in records, and the durable file to the content
alone.

**FcbNames.** `a`, `fcb`, `fn` are the C variables; each branch of the loop is an
action (`Truncate`, `EndOfExtension`, `EndOfBase`, `CopyByte`, `EndOfName`).
`result` is `stray` where the code stores its zero in front of the buffer and
returns it unwritten.

**CpmStart.** `memory` is `memory[]`; `Init` lays down the jump table, the BDOS
entry and the two jumps at 0 and 5, `TakeArg` takes one argument into an FCB and
the tail, or refuses it, and `Load` reads the program and looks at its length
afterwards.  The addresses are constants with the order of the code's.

**Xcpm** is the composition, by `INSTANCE` of the component modules on shared
variables: one `memory` for `CpmStart`, `Z80Cpu`, `ConsoleCalls` and the FCBs; one
register file `r` for the CPU and the calls; `reg_a` and `dma_buf`, which
`BdosFiles` keeps for itself, are tied to A, L and memory.  `Start` is a step of
`cpm_init`; `z80ex_step` is a step of the CPU, or, on an ED opcode above BB,
`z80ex_ed_cb`, which finds out from PC what was called.  `bdos_call` takes its FCB,
file name, record number and buffer out of the guest's memory, lets the action of
`BdosFiles` or `ConsoleCalls` happen, and puts the answer into A and L, the record
at the DMA address, and zeroes over the end of the FCB.  `Printing` is the loop of
function 9, `Exiting` what `exit()` does after the code has called it, `Kill` the
end from outside, at any moment.  `exit` is the exit code; `call` and `session` are
history.  The name of an FCB is given by `HostText`, which `FcbNames` and its proof
show to be what the loop of `fcb_to_filename` computes.

**ConsoleCalls.** `stdin` is what `fgets` has not taken, `p` the pointer of
`bdos_output_string`; `before`, `from`, `given` are history.

**Z80Step.** `prefix`, `IFF1`, `IFF2`, `IM`, `PC`, `noint_once`,
`reset_PV_on_int`, `halted` are the fields of `Z80EX_CONTEXT`; one step is one
byte.  `xcpm` itself raises no interrupts; the core offers them, and the module
lets both kinds come at every moment.  `Z80Instr` is the programmer's manual's
view, one instruction at a time; the
mapping is in `Z80ImplementsInstr`.

**Z80Alu** and **Z80Cpu.** The operators of `Z80Alu` are the macros of `macros.h`
on values and sets of flags, the look-up tables included.  `Z80Cpu` has one
action for each family of opcodes on each page, over the registers, the alternate
bank, memory, ports and `ctl` (the flip-flops, IM, I, R and the one-shot flags), so
that every one of the 256 opcodes of every page belongs to one action; and
`z80ex_nmi` and `z80ex_int`, which take the interrupts that `Requests` still holds.
`sent` is the history of the ports.

**Z80Dasm.** `Decode` picks the table and reads prefixes, displacement and opcode,
`Operand` prints one operand and adds its bytes, `Return` gives the length; `pc`
walks beside it by the lengths the CPU takes.

## 3. Runs

| run | module | what it shows |
|---|---|---|
| `files_table` | `MCBdosFiles` | `TypeOK`, `TableSound`, `FailedOpenHarmless`, `FilesNotReplaced` under every fault of the host at once |
| `files_data` | `MCSharedHost` | `ReadsCurrent`, `RecordAligned`, `WritesKept` with real bytes, read-ahead and write-behind; `CreateAsOneStep`: what may happen between the two `fopen`s of function 22 |
| `files_refine` | `MCBdosFiles` | `ImplementsCpm`: the calls implement `CpmFiles` |
| `files_disk_full` | `MCBdosFiles` | violates `LostWritesReported`, see section 5 |
| `names` | `FcbNames` | `BufferBound`, `NamedByFields`, `ArgumentRoundTrip`, `Converts` |
| `names_empty_ext` | `FcbNames` | violates `EmptyExtensionKeepsBase`, see section 5 |
| `start` | `MCCpmStart` | `TailIsJoined`, `TrapsIntact`, `ProgramIntact`, `FcbsNamed` |
| `xcpm` | `MCXcpm` | whole programs: `FilesExact`, `TypeExact`, `EchoExact`, `CallsReturn`, `WarmBootEnds` |
| `console` | `MCConsoleCalls` | `InputConserved`, `LineByLine`, `OutputExact`, `OutputEnds` |
| `z80` | `MCZ80Step` | `HaltStands`, `IFF1NeedsIFF2`, `ImplementsInstr`, `PrefixesEnd` |
| `cpu` | `MCZ80Cpu` | routines: `ArithmeticExact`, `BlocksMoved`, `ComparisonsExact`, `StateRestored`, `RecordsExact`, `BitsExact`, `PortsExact`, `RefreshExact`, `HandlersBalanced`, `Terminates` |
| `dasm` | `MCZ80Dasm` | violates `ListingKeepsStep`, see section 5 |

Bounds, and why they are enough:

- `files_table`: three FCBs on a table of two slots, so that the table fills up
  while one FCB may still be reopened; three streams, because a reopened FCB has
  its new stream before the old one is closed; all FCBs share one file, removal
  and opens may be refused, the disk may fill up, switches may fail or be dropped.  One
  byte value: these properties look at lengths and at the table only.
- `files_data`: two FCBs on one slot, one FCB at a time on the file, records of two
  bytes, files of up to `MaxFileLen` 4 bytes, random records 0 and 1: a position can
  stand in front of, at, and behind the end, and a write can leave a hole.
  `SharedFiles` is FALSE: without it the guest itself may make buffers stale.
  Another process makes and removes the file, with nothing or a record in it, and the
  host may refuse any open; two identities are enough for the file that is open, or
  removed while it is, and the one that another process or function 22 makes.
- `files_refine`: two files and two FCBs on one slot, so that the second open finds the
  table full; no full disk, no refused opens and switches that work, the promises under
  which the abstract specification holds.  Files have up to two records: record 1
  can be asked for when there is none, and a write there leaves a hole.  Two files open
  at a time are in `xcpm` and in the theorem.
- `names`: fields of 3 and 2 bytes over NUL, blank, `.`, a capital, a small
  letter and a letter with its high bit: every blank position in each field and
  every class of byte the loop tells apart.  The theorems of section 4 remove
  the bound for three of the properties.
- `start`: names of 2+1, a tail of 4, programs of 2 to 6 bytes, files up to 10: the
  regions touch as in the real layout, and every text may stop short of, at, and
  beyond each of their ends; three arguments, one more than there are FCBs.
- `xcpm`: a memory of 256 bytes, records of 8, names of 2+1, FCBs, tail and
  program touching as at their real addresses (opening the first FCB clears the
  second, the default DMA buffer is the tail, the stack begins at the BDOS entry).
  The guests are machine code. One copies a file: no source; a source of no, half
  a, one and two records; a destination that is there, or is named in small
  letters. One types files of four lengths; one looks up records 0, 1 and 2 of a
  file of one and a half with its own DMA address; one changes such a record in
  its place; one deletes, creates and writes a file without closing it; one echoes
  a line with each of its possible ends; and 98 short guests, each on three
  command lines, call a function by CALL or JP and end by a boot, a RET (which
  finds the BDOS entry's own bytes on the stack), or a trap at a wrong place. Two
  slots and two streams serve the two files a program has open.
- `console`: everything of up to five characters typed into a host buffer of three
  characters plus its NUL, so that lines come in one, two and three pieces; every
  memory of seven bytes over NUL, `$` and a letter: a string may have its `$` at once,
  on the last byte, or nowhere.
- `z80`: all programs of four bytes over eight opcodes (two interrupt modes in
  one program among them), and those over ten others
  that begin with EI; interrupts at every moment; two remembered words of stack.
  A prefix, its opcode and what interrupts it take three bytes.
- `cpu`: a few dozen to a few hundred inputs for each routine, at the boundaries of
  sign, carry and digit; 128 bytes of memory hold code, data and stack.  INT and NMI
  come up to once or twice between any two steps of the routines under `Watched`
  and of their handlers.  A HALT is executed once (`~halted`): again, it would only
  count R; this is where the run stops.
- `dasm`: every opcode on every one of the seven tables, once each, with zeros
  behind it.  On all tables but DDCB and FDCB (`OtherCodes` of `MCZ80Dasm` for
  `Codes`) the property holds.

Symmetry is used in the file runs over streams and file identities, which no
definition orders; these runs check no liveness.

Fairness.  The process is one thread, and `main` steps the CPU in an endless
loop: `XSpec`, `FairSpec` of `Z80Step` and `Spec` of `Z80Cpu` have weak fairness
on the step, and on nothing that the guest or the interrupting world decides.
`fcb_to_filename` is a C loop that runs until it ends: `WF(Loop)`; so is that of
function 9: `WF(Output)` in `FairSpec` of `ConsoleCalls`.  In `Xcpm` one
`WF(main)` stands for the thread: the start, the CPU, the loop of function 9 and
`exit()` are its steps, and a kill never has to come.  The file and start modules
need no fairness.
The runs that check no deadlock are those of systems that really stop: a process
that has exited, a conversion that has ended, a listing that is complete, a CPU
whose HALT is bounded (`cpu`).  A Z80 never stops: `z80` checks that.

## 4. Proofs

Each theorem holds for every value of the constants that the named assumptions
of the modules allow; a theorem that needs more says so in its `ASSUME`.
Wherever a run states the same formula, TLC has checked it on a small instance.

| theorem | states | beyond the modules' assumptions |
|---|---|---|
| `BdosFilesProofs` `TypeCorrect`, `TableStaysSound` | `TypeOK`, `TableSound` | - |
| ... `FilesStay` | `FilesNotReplaced` | - |
| ... `FailedOpensAreHarmless` | `FailedOpenHarmless` | - |
| ... `NothingWrittenIsLost` | `WritesKept` | no full disk |
| ... `RecordsStayAligned` | `RecordAligned` | no full disk, files begin as whole records |
| ... `NoReadIsStale` | `ReadsCurrent` | one FCB per file, no write dropped by the library |
| `BdosImplementsCpmProofs` `BdosImplementsTheCalls` | `ImplementsCpm` | `Promises`, see below |
| `FcbNamesProofs` `NameFits`, `NameIsItsFields`, `ArgumentNamesItsFile` | `BufferBound`, `NamedByFields`, `ArgumentRoundTrip` | - |
| `CpmStartProofs` `TrapsStand`, `ProgramStands`, `FcbsStand`, `TailStands` | `TrapsIntact`, `ProgramIntact`, `FcbsNamed`, `TailIsJoined` | - |
| `ConsoleCallsProofs` `PrintedToTheDollar` | `OutputExact` | - |
| ... `TypedArrives`, `OneLinePerCall` | `InputConserved`, `LineByLine` | `BufSize - 1 <= CountMax`: a piece of a line fits the count's byte |
| `Z80StepProofs` `HaltAlwaysStands`, `EnablesInOrder` | `HaltStands`, `IFF1NeedsIFF2` | - |
| ... `Implementation` | `ImplementsInstr` | - |
| `Z80CpuProofs` `SumsAreExact`, `DifferencesAreExact`, `ComparesExactly`, `CountsExactly`, `DAAIsDecimal`, `ShiftsAreExact`, `RotationsUndo`, `BitsAreExact` | the operators of `Z80Alu` | - |
| ... `TypeCorrect`, `InterruptsInOrder` | `TypeOK`; `Masked`, `Undivided`, `Waiting` | - |
| ... `WordsComeBack` | the action property `StackKeeps` of that module | `Top > 1` divides 65536, as the 64K of the program do |

**BdosFilesProofs.** `TypeOK` and `TableSound` follow from `Invariance`, whose
inductive invariant `IInv` is `TypeOK /\ StreamsHaveFiles /\ TableSound`.
`TableSound` alone is not inductive: that a slot's stream can be flushed and
closed needs the types, and a flush writes to `content[st.ino]`, so every open
stream must stand on a file that exists (`StreamsHaveFiles`).  The argument goes
by what happens to the table: a slot is freed with its stream (`FreeStep`), a
free slot is taken by a fresh stream (`TakeSlot`), an FCB's own slot changes its
stream (`ReuseSlot`), or only the state of a stream changes (`ReadStep`,
`StreamStep`); each call is one of these, and `fcb_alloc` is cases of them
(`AllocStep`).  The module begins with what the operators of `HostStdio` do:
types, which bytes a flush writes, what a read delivers, alignment to records.

The five properties of steps rest on one lemma, `StepShape`: unless it is a kill, a step of any call moves at most one stream that stays
(`Moved`: it flushes, reads, writes, seeks or is closed), and opens at most one;
entries of the directory stay or go, and one is added for a file that was not
there.  Each property is then a statement about one move.  Three need more than
`IInv`: `RecordAligned` is inductive with the positions and buffers of the
streams aligned too (`Aligned`), which a partial flush on a full disk would
break; a write makes stale what another stream of its file has read ahead, so
that `ReadsCurrent` needs that there is none (`Exclusive`), which the guest's
promise of one FCB per file gives; and that a failed open puts the stream back
as it was needs a closed stream to have nothing in it (`ClosedEmpty`).  The
hypotheses are those of the facts: a full disk does lose bytes (section 5), two
FCBs on a file do read stale bytes, and the runs that check these properties
assume the same.

**BdosImplementsCpmProofs.** That the calls implement `CpmFiles`, the abstract
specification by records.  `Promises` are the host's and the guest's under which
it is meant: the disk is not full, the host refuses no open or removal, a switch
from reading to writing works, a file has one FCB, files begin as whole records, and there are at least `MaxOpen`
streams and slots; `files_refine` is an instance.  The invariant `RInv` joins
the ones above with three more: an open stream is on a file of the directory
(`Listed`), which has one entry (`Distinct`), and stands where the next record
goes (`AllPlaced`); the mapping shows a file through the stream that has it open,
which has to be unique, and an FCB's place as the stream's position, which has to
be a whole number of records.  The mapping is written with CHOOSE; `FilesView`
and `FcbsView` say without it what the file and the FCB are mapped to, hold by
`RInv` in every state (`Viewed`), and are all that the steps use.  There is one
lemma per action: `CloseImplements`, `ReadImplements`, `WriteImplements` and so
on.  Opening is the hardest, `AllocImplements`: of its three forms, the refusal
for want of a slot or stream is allowed to the abstract call only when `MaxOpen`
FCBs are open, which is a counting argument over slots, streams and FCBs
(`AllOpen`).  `exit()` flushes stream by stream, which are steps of the abstract
exit (`ExitClosesImplements`), and a kill leaves the durable file.

**FcbNamesProofs.** `fn[14]` is never overrun, the byte before it is written for
all-blank names and no others, and a name with an extension is BASE.EXT, for fields of any length over any set of bytes.  The invariant says what
the loop has done when it comes to `a`: the base name as far as `a` (`InBase`),
all of it (`BehindBase`, where the jump over the blanks lands), or that, the `.`
and the extension as far as `a` (`InExtension`).  `Field` chooses the least
blank; that it is the byte at which the loop stops is `FieldStops`.  That a `.`
found in an argument lies inside it rests on `LeastNumber`, from the
well-foundedness of the natural numbers.  `ArgumentNamesItsFile` puts the other
half in front: `FieldsOfArgument` is what `write_filename_to_fcb` puts into the
fields, `TextOfArgument` that they read as BASE.EXT again.

**CpmStartProofs.** A started guest finds its traps, its program and its FCBs,
for every layout in the order of `LayoutAssumption` (that of the real addresses
is one), every program and every command line.  The argument is about what
overlaps what.  `IInv` says, while arguments are taken (`Laying`), that the first
eight bytes and all from `LoadAddr` on are as laid down, that the tail ends in
its room, and that each FCB holds its argument or blanks; and, once started
(`Standing`), the same with the program in place.  The tail must be in it: that
`strcat` appends inside its room, where `TrapMemory` is not touched, depends on
where the string so far ends; its NUL may come to stand on `LoadAddr`, which is
zero then and is overwritten by the program.  `ArgumentAssumption` is that the
one argument which does not fit, and is refused after it was appended, still lies
in the memory.  `TailStands` needs what the tail is after each argument (`JInv`:
the first `next - 1` arguments joined, and its length); `TailIsJoined`
joins them by a fold, which `Folding` of `Numbers` takes apart into its steps.

**ConsoleCallsProofs.** Function 9 prints the memory from its address to the
first `$`.  `IInv` ties a string being printed to its pointer: what is out is
what stands before the pointer and has no `$` (`Printing`).  It also carries the
types through function 10: the count of a line fits its byte, and the line its
buffer, as long as buffers have room (`BuffersAssumption`).  `TypedArrives` and
`OneLinePerCall` rest on `TInv`: for some k,
`fgets` has left what was typed behind its first k characters, and of these k the
guest has found all but the line feeds and, if the lines fit, found them as lines
(`TakenAre`); `PieceIs` and its neighbours cut sequences in two and join them.  The hypothesis is that `fgets` takes no more than the count's
byte can say: `BufSize` is 256 in the code and a count at most 255.

**Z80StepProofs.** For every size of memory, program, vector and bound of the
stack.  `Flags` is `TypeOK`, `HaltStands` and `IFF1NeedsIFF2`; the refinement of
`Z80Instr` needs `Tracks` as well: which bytes lie between the last boundary of
an instruction and PC, however many prefixes were taken, because the mapping
stands still there and the instruction that ends has to be the one that began at
the boundary.  `StepCases` splits a byte's step by what was fetched and under
which prefix; `BaseImplements`, `ExtendedImplements`, `BitsImplements`,
`PrefixImplements` and `InterruptImplements` are their steps in `Z80Instr`.  That
addresses wrap, and that moving PC twice is moving it once, is `PlusPlus`, from
the uniqueness of the remainder in `Numbers`.

**Z80CpuProofs**, the arithmetic.  The run `cpu` adds and shifts some hundred
operands; these theorems are for all of them, the 2^33 of a 16-bit ADC among them.
The code finds C in bit 8 or 16 of a result, and H and P/V by looking up one bit
each of the two operands and the result.  What these flags should be is stated
without bits: `IsSum` and `IsDifference` have the carry as what is missing in the
value, H as the carry of the lower digits, P/V as a signed sum that is no signed
number of that width.  Between the two is the column of a bit: the operands and the
result cut below it (`Splits`), the carry into the column and the one out of it,
and what each of the four tables says of them (`Tables`); the signs are the top
column.  A difference wraps in a word of the code, wider than its operands,
which the proofs undo.  `DAAIsDecimal` goes by digits: which corrections of a sum or
difference of two digits and a carry are due is arithmetic on them, that DAA finds
the same out of C, H and the digits is `Corrects`.  `BitsAreExact` builds a byte
from its eight bits and takes it apart again.

**Z80CpuProofs**, the machine.  `CInv` is the types, with the domains of the
registers, and `Masked`, `Undivided` and `Waiting`; TLC has checked it on the
instance of `cpu`.  It is inductive because no instruction is executed while the
CPU waits except the HALT it waits on, which `Waiting` says; because a prefix,
which clears the one-shot flag like every step, sets it again; and because every
result is cut to its width, for which each operator of the ALU has a lemma.  Nearly
all instructions are of five shapes: new registers and flags (`Loads`), with a byte
or a word to memory (`Stores`, `Stores16`) or to a port (`Sends`), or new flip-flops
(`Controls`).  `BaseLow`, `BaseMiddle`, `BaseHigh`, `PageCB`, `PagesDDCB`, `PageED`,
`PageEDBlocks` and `FlipFlops` show this of every action, `Afterwards` that a shape
preserves `CInv`; the exchanges, HALT, LD A,I and LD A,R, the prefixes and the two
interrupts are shown one by one.  `WordsComeBack` needs more than `CInv`: that two
neighbouring addresses, each wrapped at 65536 and then at the end of a smaller
memory, are two bytes (`Neighbours`), or the high byte of a word would fall on its
low one.

**Numbers.** The library's induction theorems take an operator as parameter, which
no installed prover can instantiate.  Stated over a set, induction needs none: a
set of naturals that has 0 and with n also n + 1 is all of them (`Induction`), from
their well-foundedness.  Likewise recursion: that there is a function with a given
first value and steps (`StepsExist`) is shown by a least counterexample, and from
it that the library's fold over a sequence is what its steps compute (`Folding`).

Only model-checked, and why:

- everything under fairness (`Converts`, `OutputEnds`, `WarmBootEnds`, `PrefixesEnd`,
  `Terminates`): the prover does no liveness;
- the properties of `MCZ80Cpu`: they say of particular routines that they compute
  what they should, by running them.  What they are made of is proved: each sum,
  shift, bit and decimal correction, and that the machine stays in order;
- the properties of `SharedHost`: they say where the one step of `CreateFile`, of which
  the theorems speak, is a sound picture of the two in the code;
- the properties of `MCXcpm`: the same of whole guest programs, in the composition.
  What holds of the components it is made of is proved above.


## 5. Where code and documentation disagree

- `files_disk_full`: `xcpm.c:344` has the loss of a record reported to the guest,
  but `fwrite` only fills a buffer; when the flush in `fclose` fails (`xcpm.c:213`),
  `bdos_close_file` still returns 0.  The trace ends in that call: a record written,
  a disk that is full, and function 16 answering 0.
- `names_empty_ext`: for an empty extension `xcpm.c:179` deletes the `.` that, by
  its comment, was placed before; the line that placed it is commented out, so
  that `FOO` becomes the host's `FO`.
- `dasm`: the displacement of a DDCB or FDCB instruction is counted at
  `z80ex_dasm.c:80` and again at `:146`; the length returned is 5, not the 4
  bytes that `z80ex_dasm.h:37` promises, and a listing loses an instruction.

## 6. What is not modelled

- **Z180** (`z180ex.c`) and **T-states**: not compiled into `xcpm`.
- The **undocumented flags** 3 and 5 and MEMPTR: no documented instruction depends
  on them, but PUSH AF shows 3 and 5 to a guest, which `PUSH_AF` leaves open.
- In `Xcpm`, a **full disk**: it is in `BdosFiles` and its runs; and FCBs and buffers
  that reach over the end of the memory, where the C code leaves its array.  Nothing
  in XCPM raises an interrupt, so that none come there.
- **What a guest reads that has one file open through two FCBs.**  Each FCB has a
  stream with a buffer of its own, so that reads may be stale; the code promises
  nothing of it, and there is no property to state.  The table, the bytes written and
  the files' lengths are checked and proved of such guests too.
- Other processes that **write into** the files XCPM has open: in `SharedHost` they
  make and remove files.
- The **text** of a disassembly and the limit of its output buffer.
- Messages and their wording; in `BdosFiles` also the exit code, which `Xcpm` has.
- In `Z80Step`, registers other than BC and data in memory: what LD B, LD C, OR B
  and the CB pages make of BC and P/V by them is left open there.  `Z80Cpu` has
  them, and whole programs.

## 7. Plan

The order was: files (table, data, refinement), names, control of the core, start,
traps, console, arithmetic and pages, disassembler, then ports and interrupts in the
CPU and the composition of all in `Xcpm`, and `SharedHost`.  What is left:

1. *Model*: the output buffer's limit in `Z80Dasm`; a guest in `Xcpm` that uses two
   FCBs on one file, and one that meets a full disk.
2. *Prove*: that in `Xcpm` a call's answer is the one that `BdosFiles` gives, and
   with it that the invariants of the components hold in the composition.
