------------------------------ MODULE CpmStart ------------------------------
(***************************************************************************)
(* cpm_init: how the memory of the guest is laid out before its first      *)
(* instruction.  The jump table of the BIOS and the entry of the BDOS are  *)
(* laid down first, as trap opcodes; then the arguments of the command     *)
(* line are taken one by one (into the two FCBs and the command tail);     *)
(* the program file is read over it last, and only then is its length      *)
(* looked at.                                                              *)
(*                                                                         *)
(* The regions touch each other, so that every bound matters: the tail     *)
(* ends where the program begins, and the file is read up to and over the  *)
(* first byte of the BDOS entry.  The addresses are constants, in the      *)
(* order of the code's.                                                    *)
(***************************************************************************)
EXTENDS FcbFormat

CONSTANTS
  Top,                    \* 0x10000
  Fcb1, Fcb2,             \* 0x5C, 0x6C
  TailLength,             \* 0x80: the byte before the tail
  MaxTail,                \* 0x7F
  LoadAddr,               \* 0x100
  BDOS_ENTRY_ADDR,        \* 0xFD00
  CBIOS_JUMP_TABLE_ADDR,  \* 0xFE00
  MinProgram, MaxProgram, \* 10, 0xC000
  MaxArgs,                \* bound: arguments of the guest
  Files,                  \* program files: sequences of bytes
  Missing                 \* no such file

Addr == 0 .. Top - 1
TailAddr == TailLength + 1

ASSUME LayoutAssumption ==
  /\ {Top, Fcb1, Fcb2, TailLength, MaxTail, LoadAddr, BDOS_ENTRY_ADDR,
      CBIOS_JUMP_TABLE_ADDR, MaxProgram} \subseteq Nat
  /\ 8 <= Fcb1 /\ Fcb1 + NameLen < Fcb2 /\ Fcb2 + NameLen < TailLength
  /\ TailAddr + MaxTail = LoadAddr
  /\ 0 < MaxProgram /\ LoadAddr + MaxProgram <= BDOS_ENTRY_ADDR
  /\ BDOS_ENTRY_ADDR + 3 <= CBIOS_JUMP_TABLE_ADDR
  /\ CBIOS_JUMP_TABLE_ADDR + 6 <= Top /\ Top <= 65536
(* strcat stays in the memory: one argument more than fits is looked at.   *)
ASSUME ArgumentAssumption == LoadAddr + MaxArg + 1 < Top
ASSUME FileAssumption ==
  /\ {MinProgram, MaxProgram, MaxArgs} \subseteq Nat
  /\ Files \subseteq Seq(0 .. 255) /\ Missing \notin Files

VARIABLES
  argv,      \* the arguments after the program's own name
  file,      \* the program file, or Missing
  memory,
  next,      \* the argument to be taken next
  status,    \* "arguments", "started" or "refused" (exit code 1)
  Z80_PC, Z80_SP

vars == <<argv, file, memory, next, status, Z80_PC, Z80_SP>>

CBIOS_ENTRIES == (Top - CBIOS_JUMP_TABLE_ADDR) \div 3

(* The trap that stands for a BIOS or BDOS function: ED BC, RET.           *)
TrapBytes == <<237, 188, 201>>
Entries == {CBIOS_JUMP_TABLE_ADDR + 3 * k : k \in 0 .. CBIOS_ENTRIES - 1}
             \cup {BDOS_ENTRY_ADDR}

JumpTo(a) == <<195, a % 256, a \div 256>>

(* Bytes d laid into m from the address a on. *)
Laid(m, a, d) ==
  [x \in Addr |-> IF x \in a .. a + Len(d) - 1 THEN d[x - a + 1] ELSE m[x]]

TrapMemory ==
  [x \in Addr |->
     CASE x \in 0 .. 2 -> JumpTo(CBIOS_JUMP_TABLE_ADDR + 3)[x + 1]
       [] x \in 5 .. 7 -> JumpTo(BDOS_ENTRY_ADDR)[x - 4]
       [] x \in Fcb1 + 1 .. Fcb1 + NameLen -> Blank
       [] x \in Fcb2 + 1 .. Fcb2 + NameLen -> Blank
       [] \E e \in Entries : x \in e .. e + 2 ->
            TrapBytes[x - (CHOOSE e \in Entries : x \in e .. e + 2) + 1]
       [] OTHER -> 0]

Init ==
  /\ argv \in BoundedSeq(Argument, MaxArgs)
  /\ file \in {Missing} \cup Files
  /\ memory = TrapMemory
  /\ next = 1
  /\ status = "arguments"
  /\ Z80_PC = 0 /\ Z80_SP = 65535          \* z80ex_reset

(* The C string at the address a. *)
StringAt(m, a) ==
  LET end == CHOOSE x \in a .. Top - 1 : /\ m[x] = 0
                                       /\ \A y \in a .. x - 1 : m[y] # 0
  IN  [j \in 1 .. end - a |-> m[a + j - 1]]

NUL == <<0>>
FcbBytes(arg) == <<0>> \o write_filename_to_fcb(arg)

(* The arguments 1 and 2 also name the two FCBs.  Mutant: both the first. *)
WithFcb_first(m, k) ==
  IF k <= 2 THEN Laid(m, Fcb1, FcbBytes(argv[k])) ELSE m
WithFcb(m, k) ==
  CASE k = 1 -> Laid(m, Fcb1, FcbBytes(argv[k]))
    [] k = 2 -> Laid(m, Fcb2, FcbBytes(argv[k]))
    [] OTHER -> m

(* The two strcat calls.  The length is looked at afterwards.              *)
WithTail(m, k) ==
  LET old == StringAt(m, TailAddr)
  IN  Laid(m, TailAddr, (IF old = <<>> THEN old ELSE old \o <<Blank>>)
                      \o argv[k] \o NUL)

(* Mutant: off by one. *)
TailTooLong_late(m) == Len(StringAt(m, TailAddr)) > MaxTail + 1
TailTooLong(m) == Len(StringAt(m, TailAddr)) > MaxTail

TakeArg ==
  /\ status = "arguments" /\ next <= Len(argv)
  /\ memory' = WithTail(WithFcb(memory, next), next)
  /\ next' = next + 1
  /\ status' = IF TailTooLong(memory') THEN "refused" ELSE status
  /\ UNCHANGED <<argv, file, Z80_PC, Z80_SP>>

(* fread's limit: one byte more than there is before the BDOS entry. *)
ReadLimit == BDOS_ENTRY_ADDR - LoadAddr + 1
Loaded == SubSeq(file, 1, IF Len(file) < ReadLimit THEN Len(file) ELSE ReadLimit)

(* Mutant: a file that fills the room before the BDOS is taken. *)
Fits_room(n) == n >= MinProgram /\ n <= ReadLimit
Fits(n) == n >= MinProgram /\ n <= MaxProgram

(* The tail's length first, then the program.  Mutant: the tail is written *)
(* behind the program.                                                     *)
WithProgram_early(m) ==
  Laid(Laid(m, LoadAddr, Loaded),
       TailLength, <<Len(StringAt(m, TailAddr))>> \o StringAt(m, TailAddr) \o NUL)
WithProgram(m) ==
  LET counted == Laid(m, TailLength, <<Len(StringAt(m, TailAddr))>>)
  IN  Laid(counted, LoadAddr, Loaded)

Load ==
  /\ status = "arguments" /\ next > Len(argv)
  /\ \/ /\ file = Missing
        /\ memory' = Laid(memory, TailLength, <<Len(StringAt(memory, TailAddr))>>)
        /\ status' = "refused"
        /\ UNCHANGED <<Z80_PC, Z80_SP>>
     \/ /\ file # Missing
        /\ memory' = WithProgram(memory)
        /\ IF Fits(Len(Loaded))
           THEN status' = "started" /\ Z80_PC' = LoadAddr
                /\ Z80_SP' = BDOS_ENTRY_ADDR
           ELSE status' = "refused" /\ UNCHANGED <<Z80_PC, Z80_SP>>
  /\ UNCHANGED <<argv, file, next>>

Next == TakeArg \/ Load

Spec == Init /\ [][Next]_vars

-----------------------------------------------------------------------------
Started == status = "started"
Bytes(a, n) == [j \in 1 .. n |-> memory[a + j - 1]]

(***************************************************************************)
(* The guest finds its arguments, parted by single blanks, in the tail and *)
(* their length before it: the program read over the byte behind a full    *)
(* tail has not cut it, although the arguments were appended before their  *)
(* length was looked at.                                                   *)
(***************************************************************************)
Words(args) ==
  LET first == {k \in 1 .. Len(args) : args[k] # <<>>}
      from == IF first = {} THEN Len(args) + 1
              ELSE CHOOSE k \in first : \A j \in first : k <= j
  IN  SubSeq(args, from, Len(args))
Joined(args) ==
  FoldLeft(LAMBDA text, w : IF text = <<>> THEN w ELSE text \o <<Blank>> \o w,
           <<>>, Words(args))
TailIsJoined ==
  Started => Bytes(TailLength, 1 + Len(Joined(argv)))
               = <<Len(Joined(argv))>> \o Joined(argv)

(***************************************************************************)
(* Whatever was read from the program file, a started guest finds every    *)
(* BIOS and BDOS entry a trap, and the jumps at 0 and 5 lead to the warm   *)
(* boot and the BDOS.                                                      *)
(***************************************************************************)
TrapsIntact ==
  Started => /\ \A e \in Entries : Bytes(e, 3) = TrapBytes
             /\ Bytes(0, 3) = JumpTo(CBIOS_JUMP_TABLE_ADDR + 3)
             /\ Bytes(5, 3) = JumpTo(BDOS_ENTRY_ADDR)

(***************************************************************************)
(* A started guest's program is whole, every byte of the file, also behind *)
(* a tail that used all its room.                                          *)
(***************************************************************************)
ProgramIntact ==
  Started => Bytes(LoadAddr, Len(file)) = file

(***************************************************************************)
(* The two FCBs name the first two arguments, or are blank; the tail that  *)
(* is built behind them has not spoilt them.                               *)
(***************************************************************************)
FcbsNamed ==
  Started =>
    \A k \in 1 .. 2 :
      Bytes(IF k = 1 THEN Fcb1 ELSE Fcb2, 1 + NameLen)
        = FcbBytes(IF k <= Len(argv) THEN argv[k] ELSE <<>>)
=============================================================================
