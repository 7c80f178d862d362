-------------------------------- MODULE Xcpm --------------------------------
(***************************************************************************)
(* The whole emulator, from its start to its end: cpm_init lays out the    *)
(* memory (CpmStart), main's loop executes the guest (Z80Cpu), and a trap  *)
(* opcode in the entry of the BDOS or in the jump table of the BIOS        *)
(* reaches z80ex_ed_cb, which finds out from PC alone which function was   *)
(* called, and does it on the guest's memory and registers (BdosFiles,     *)
(* FcbNames, ConsoleCalls).  The host may kill the process at any time.    *)
(*                                                                         *)
(* The host's disk has room; its streams read ahead, and may do anything  *)
(* to a guest that changes their direction.                                *)
(***************************************************************************)
EXTENDS Integers, Sequences, SequencesExt

CONSTANTS
  \* The layout of the memory, as in CpmStart.
  BaseLen, ExtLen, Char, MaxArg, Top, Fcb1, Fcb2, TailLength, MaxTail, LoadAddr,
  BDOS_ENTRY_ADDR, CBIOS_JUMP_TABLE_ADDR, MinProgram, MaxProgram, MaxArgs, Missing,
  FcbRest, ClearLen,   \* 0x10, 20: what open and create clear of an FCB
  RandomAt,            \* 0x21: the record number of function 33
  \* The host's files and streams, as in BdosFiles.
  HostFile, Inode, NoInode, Handle, NoHandle, MAX_OPEN_FILES, MaxFileLen,
  RecordSize, DmaAddr,
  BufSize, CountMax,   \* as in ConsoleCalls
  Sessions             \* what may be run: arguments, program, files, typed text

ASSUME FcbAssumption ==
  /\ Fcb1 + FcbRest = Fcb2 /\ Fcb2 + ClearLen = TailLength
  /\ RandomAt > FcbRest /\ RandomAt + 1 < FcbRest + ClearLen
  /\ TailLength + RecordSize = LoadAddr /\ TailLength \in DmaAddr
ASSUME WrapAssumption == 65536 % Top = 0

VARIABLES
  session,                                   \* history: what is run
  argv, file, memory, next, status,          \* CpmStart
  r, F, alt, prefix, halted, ctl, sent,      \* Z80Cpu
  fcb_table, dma_address, reg_a, process,    \* BdosFiles
  dir, content, stream,
  dma_buf,   \* BdosFiles: the record buffers in memory, as the CPU left them
  typed, stdin, stdout, p, from, before, given,  \* ConsoleCalls
  exit,      \* "no", or the exit code
  call       \* history: the last CALL 5 that has not come back, or NoCall

bootVars == <<session, argv, file, next, status>>
cpuVars == <<r, F, alt, prefix, halted, ctl, sent>>
fileVars == <<fcb_table, dma_address, reg_a, process, dir, content, stream>>
conVars == <<typed, stdin, stdout, p, from, before, given>>
xvars == <<bootVars, memory, cpuVars, fileVars, dma_buf, conVars, exit, call>>

Boot == INSTANCE CpmStart WITH
  Files <- {s.file : s \in Sessions}, Z80_PC <- r.PC, Z80_SP <- r.SP

NoRequests(m) == [INT |-> 0, NMI |-> 0]      \* nothing interrupts the CPU
Cpu == INSTANCE Z80Cpu WITH
  Program <- {}, Requests <- NoRequests, mem <- memory,
  requests <- NoRequests(memory), loaded <- file

Names == INSTANCE FcbNames WITH
  arg <- <<>>, fcb <- <<>>, a <- 0, fn <- <<>>, result <- "none"

Bdos == INSTANCE BdosFiles WITH
  Byte <- 0 .. 255, DiskFull <- FALSE, ReadAhead <- TRUE,
  SwitchOutcomes <- {"works", "fails", "dropped"}, FcbAddr <- 0 .. Top - 1, FcbName <- HostFile,
  HostName <- [f \in HostFile |-> f], InitialFile <- <<>>,
  DefaultDma <- TailLength, GuestRecord <- {}, RandomRecord <- {},
  SharedFiles <- TRUE, RemoveOpenFails <- FALSE,
  HostRefuses <- FALSE, status <- process

Con == INSTANCE ConsoleCalls WITH
  Beginning <- {}, Buffers <- {}, Start <- {}, OutChar <- {}, MaxOut <- 0

NoCall == [ret |-> -1, sp |-> -1]
Bytes(m, a, n) == [j \in 1 .. n |-> m[(a + j - 1) % Top]]
RecordBuffers(m) == [d \in DmaAddr |-> Bytes(m, d, RecordSize)]

XInit ==
  /\ session \in Sessions
  /\ argv = session.argv /\ file = session.file
  /\ Cpu!z80ex_reset /\ sent = <<>>
  /\ Boot!Init
  /\ fcb_table = [s \in Bdos!Slot |-> [addr |-> Bdos!FREE, fp |-> NoHandle]]
  /\ dma_address = TailLength /\ dma_buf = RecordBuffers(memory)
  /\ reg_a = 255 /\ process = "running"
  /\ dir = [f \in HostFile |-> IF f \in DOMAIN session.dir THEN session.dir[f]
                               ELSE NoInode]
  /\ content = session.content
  /\ stream = [h \in Handle |-> Bdos!ClosedStream]
  /\ typed = session.typed /\ stdin = typed /\ stdout = <<>> /\ before = <<>>
  /\ p = Con!Idle /\ from = Con!Idle /\ given = <<>>
  /\ exit = "no" /\ call = NoCall

(* cpm_init; main returns 1 when it refuses. *)
Start ==
  /\ process = "running"
  /\ r' \in {r, [r EXCEPT !.PC = LoadAddr, !.SP = BDOS_ENTRY_ADDR]}
  /\ Boot!Next
  /\ dma_buf' = RecordBuffers(memory')
  /\ IF status' = "refused" THEN exit' = "1" /\ process' = "exiting"
                            ELSE UNCHANGED <<exit, process>>
  /\ UNCHANGED <<session, F, alt, prefix, halted, ctl, sent, conVars, call,
                 fcb_table, dma_address, reg_a, dir, content, stream>>

-----------------------------------------------------------------------------
(* bdos_call: the parameter is in DE, the answer in A and L.               *)

DE == Cpu!Pair("DE") % Top
Answer(v) == [r EXCEPT !.A = v, !.L = v]

(* Bound: the FCBs that functions clear or ask for records are in memory.  *)
FcbInMemory == DE + FcbRest + ClearLen <= Top

(* Back from the trap, which the CPU takes for a NOP. *)
Return(regs) ==
  /\ r' = [regs EXCEPT !.PC = Cpu!Wrapped(@ + 1)]
  /\ prefix' = 0 /\ ctl' = Cpu!Stepped
  /\ UNCHANGED <<F, alt, halted, sent>>

ExitCode(code) ==
  /\ exit' = code /\ Bdos!Exit
  /\ UNCHANGED <<memory, cpuVars, conVars>>

(* The host's name of the FCB at a; of an FCB without a name, what happens *)
(* to be in a buffer nobody filled.                                        *)
fcb_to_filename(a) ==
  LET n == Bytes(memory, a + 1, BaseLen + ExtLen)
  IN  CASE Names!Ext(n) # <<>> -> {Names!HostText(n)}
        [] Names!Ext(n) = <<>> /\ Names!Base(n) # <<>> -> {Front(Names!Base(n))}
        [] OTHER -> HostFile

(* What open and create leave of the FCB at a. *)
Cleared(a) == Boot!Laid(memory, a + FcbRest, [j \in 1 .. ClearLen |-> 0])

bdos_open_file(is_create) ==
  /\ FcbInMemory
  /\ \E f \in fcb_to_filename(DE) :
       IF is_create THEN Bdos!CreateFile(DE, f) ELSE Bdos!OpenFile(DE, f)
  /\ IF process' = "exiting"
     THEN exit' = "1" /\ UNCHANGED <<memory, cpuVars>>
     ELSE /\ memory' = IF reg_a' = 0 THEN Cleared(DE) ELSE memory
          /\ Return(Answer(reg_a')) /\ UNCHANGED exit
  /\ UNCHANGED conVars

bdos_delete_file ==
  /\ \E f \in fcb_to_filename(DE) : Bdos!DeleteFile(DE, f)
  /\ Return(Answer(reg_a')) /\ UNCHANGED <<memory, conVars, exit>>

bdos_close_file ==
  Bdos!CloseFile(DE) /\ Return(Answer(reg_a')) /\ UNCHANGED <<memory, conVars, exit>>

bdos_write_next_record ==
  Bdos!WriteNext(DE) /\ Return(Answer(reg_a')) /\ UNCHANGED <<memory, conVars, exit>>

(* A record read is where the DMA address says.  Mutant: it is where the   *)
(* default one does.                                                       *)
Delivered_default == Boot!Laid(memory, TailLength, dma_buf'[dma_address])
Delivered == Boot!Laid(memory, dma_address, dma_buf'[dma_address])

bdos_read_next_record ==
  /\ Bdos!ReadNext(DE)
  /\ memory' = Delivered
  /\ Return(Answer(reg_a')) /\ UNCHANGED <<conVars, exit>>

bdos_random_access_read_record ==
  /\ FcbInMemory
  /\ Bdos!ReadRandom(DE, memory[DE + RandomAt] + 256 * memory[DE + RandomAt + 1])
  /\ memory' = Delivered
  /\ Return(Answer(reg_a')) /\ UNCHANGED <<conVars, exit>>

(* Bound: the guest's record buffers are DmaAddr. *)
SetDma ==
  /\ DE \in DmaAddr
  /\ Bdos!SetDma(DE)
  /\ Return(r) /\ UNCHANGED <<memory, conVars, exit>>

(* Functions that only answer: the version, and a drive that is not there. *)
AnswerOnly ==
  /\ \/ r.C = 12 /\ Return([Answer(34) EXCEPT !.B = 0, !.H = 0])
     \/ r.C \in {13, 14, 25} /\ Return(Answer(0))
  /\ UNCHANGED <<memory, fileVars, dma_buf, conVars, exit>>

(* putchar(Z80_E); a string, whose loop Printing runs; a line. *)
ConsoleCall ==
  /\ \/ r.C = 2 /\ Con!ConsoleOutput(r.E)
     \/ r.C = 9 /\ Con!OutputString(DE)
     \/ r.C = 10 /\ Con!BufferedInput(DE)
  /\ Return(r) /\ UNCHANGED <<fileVars, dma_buf, exit>>

Known == {2, 9, 10, 12, 13, 14, 15, 16, 19, 20, 21, 22, 25, 26, 33}
bdos_call ==
  \/ AnswerOnly
  \/ ConsoleCall
  \/ r.C = 15 /\ bdos_open_file(FALSE)
  \/ r.C = 16 /\ bdos_close_file
  \/ r.C = 19 /\ bdos_delete_file
  \/ r.C = 20 /\ bdos_read_next_record
  \/ r.C = 21 /\ bdos_write_next_record
  \/ r.C = 22 /\ bdos_open_file(TRUE)
  \/ r.C = 26 /\ SetDma
  \/ r.C = 33 /\ bdos_random_access_read_record
  \/ r.C \notin Known /\ ExitCode("1")

-----------------------------------------------------------------------------
(* z80ex_ed_cb: PC is on the opcode's next byte. *)

cbios_call(func) == ExitCode(IF func \in {-3, 0} THEN "0" ELSE "1")

(* Mutant: the offset is counted from the cold start, not from the warm    *)
(* boot.                                                                   *)
Function_plain(pc) == ((pc - CBIOS_JUMP_TABLE_ADDR) \div 3) * 3
Function(pc) == ((pc - CBIOS_JUMP_TABLE_ADDR) \div 3) * 3 - 3

z80ex_ed_cb ==
  LET pc == (r.PC + 1) % Top
  IN  \/ /\ pc > CBIOS_JUMP_TABLE_ADDR
         /\ IF (pc - CBIOS_JUMP_TABLE_ADDR) % 3 # 2 THEN ExitCode("1")
            ELSE cbios_call(Function(pc))
      \/ pc = BDOS_ENTRY_ADDR + 2 /\ bdos_call
      \/ /\ pc <= CBIOS_JUMP_TABLE_ADDR /\ pc # BDOS_ENTRY_ADDR + 2
         /\ ExitCode("1")

(* An opcode above BB behind ED traps. *)
Trapped == prefix = 237 /\ Cpu!op > 187

(* The history of calls. *)
Called ==
  CASE prefix = 0 /\ Cpu!op = 205 /\ r'.PC = 5 -> [ret |-> r.PC + 3, sp |-> r.SP]
    [] prefix = 0 /\ Cpu!op = 201 /\ r'.SP = call.sp -> NoCall
    [] OTHER -> call

Executing == status = "started" /\ process = "running" /\ p = Con!Idle
z80ex_step ==
  /\ Executing
  /\ \/ /\ ~Trapped
        /\ Cpu!z80ex_step
        /\ dma_buf' = RecordBuffers(memory')
        /\ call' = Called
        /\ UNCHANGED <<fileVars, conVars, exit>>
     \/ Trapped /\ z80ex_ed_cb /\ UNCHANGED call
  /\ UNCHANGED bootVars

(* The loop of bdos_output_string. *)
Printing ==
  /\ process = "running"
  /\ Con!Output
  /\ UNCHANGED <<bootVars, cpuVars, fileVars, dma_buf, exit, call>>

(* exit() and its flushes; the host's kill. *)
Exiting ==
  /\ (\E h \in Handle : Bdos!ExitClosesStream(h)) \/ Bdos!ExitEnds
  /\ UNCHANGED <<bootVars, memory, cpuVars, conVars, exit, call>>
Kill ==
  /\ Bdos!Kill
  /\ UNCHANGED <<bootVars, memory, cpuVars, conVars, exit, call>>

main == Start \/ z80ex_step \/ Printing \/ Exiting
XNext == main \/ Kill

(* main does nothing but initialize and step. *)
XSpec == XInit /\ [][XNext]_xvars /\ WF_xvars(main)

-----------------------------------------------------------------------------
(* Properties. *)

TrapsStand ==
  /\ \A e \in Boot!Entries : Bytes(memory, e, 3) = Boot!TrapBytes
  /\ Bytes(memory, 0, 3) = Boot!JumpTo(CBIOS_JUMP_TABLE_ADDR + 3)
  /\ Bytes(memory, 5, 3) = Boot!JumpTo(BDOS_ENTRY_ADDR)

(***************************************************************************)
(* A BDOS function that comes back, comes back to the instruction behind   *)
(* the guest's CALL 5 and with the stack pointer of before the call: after *)
(* the CALL, the jump at 5, the trap's two bytes and its RET, whatever the *)
(* function wrote into the guest's memory and registers meanwhile.         *)
(***************************************************************************)
CallsReturn ==
  [][call # NoCall /\ r.SP = call.sp - 2 /\ r.PC = BDOS_ENTRY_ADDR + 2
     /\ prefix = 0 /\ r'.PC # r.PC /\ TrapsStand
     => r'.PC = call.ret /\ r'.SP = call.sp]_xvars

(***************************************************************************)
(* CP/M programs end by a jump to 0: it always leads to exit(0), through   *)
(* the jump there, the second entry of the jump table and the trap, and to *)
(* the end of the process.                                                 *)
(***************************************************************************)
WarmBootEnds ==
  (Executing /\ r.PC = 0 /\ prefix = 0 /\ TrapsStand)
    ~> ((exit = "0" /\ process = "exited") \/ process = "killed")
=============================================================================
