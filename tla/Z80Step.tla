------------------------------ MODULE Z80Step ------------------------------
(***************************************************************************)
(* The control of the Z80 core: z80ex_step, which executes one opcode or   *)
(* one prefix byte per call, and z80ex_int and z80ex_nmi, which the        *)
(* embedding program may call between two steps.  Prefixes, the window     *)
(* after EI, HALT (which waits by stepping back over itself), the          *)
(* repeating block instructions and the interrupt flip-flops are modelled; *)
(* registers other than BC, flags other than P/V and T-states are not.      *)
(*                                                                         *)
(* The memory holds a program over Opcode, the opcodes with an effect on   *)
(* control and a few without (other bytes are outside this model).  What   *)
(* is on the stack, and what instructions write elsewhere, is kept apart   *)
(* from the program.                                                       *)
(***************************************************************************)
EXTENDS Integers, Sequences, FiniteSets

CONSTANTS
  Top,         \* size of the address space: 65536
  Opcode,      \* the bytes that programs are made of
  Program,     \* the memories to run: a set of functions on 0 .. Top - 1
  RST38,       \* 0x38 (reduced with Top)
  NMI66,       \* 0x66
  VectorIM2,   \* where the table of interrupt mode 2 points
  BCTop,       \* size of the register pair BC: 65536
  MaxStack     \* bound: words of the stack that are remembered

Addr == 0 .. Top - 1
Modelled == {0, 69, 70, 77, 86, 87, 94, 118, 176, 201, 203, 221, 237, 243, 251, 253, 255}

ASSUME AddressAssumption ==
  /\ Top \in Nat /\ Top > 0
  /\ {RST38, NMI66, VectorIM2} \subseteq Addr
ASSUME OpcodeAssumption == Opcode \subseteq Modelled
ASSUME ProgramAssumption == Program \subseteq [Addr -> Opcode]
ASSUME CounterAssumption ==
  BCTop \in Nat /\ BCTop > 0 /\ MaxStack \in Nat

VARIABLES
  mem, PC, BC, stack,
  prefix,            \* 0, or the prefix byte last executed
  IFF1, IFF2, IM,
  PV,                \* the P/V flag
  noint_once, reset_PV_on_int, halted,
  start              \* history: the state at the last instruction boundary

cpuVars == <<mem, PC, BC, stack, prefix, IFF1, IFF2, IM, PV,
             noint_once, reset_PV_on_int, halted>>
vars == <<mem, PC, BC, stack, prefix, IFF1, IFF2, IM, PV,
          noint_once, reset_PV_on_int, halted, start>>

CB == 203
DD == 221
ED == 237
FD == 253

Plus(addr, n) == (addr + n) % Top
Boundary == [pc |-> PC, noint_once |-> noint_once, ldai |-> reset_PV_on_int]

(* z80ex_init and z80ex_reset *)
Init ==
  /\ mem \in Program
  /\ PC = 0
  /\ BC = BCTop - 1
  /\ stack = <<>>
  /\ prefix = 0
  /\ IFF1 = FALSE /\ IFF2 = FALSE
  /\ IM = 0
  /\ PV = TRUE
  /\ noint_once = FALSE /\ reset_PV_on_int = FALSE /\ halted = FALSE
  /\ start = Boundary

-----------------------------------------------------------------------------
(* One opcode: ofn, the function the tables give for it.  next is the PC   *)
(* after the fetch; every disjunct states PC, BC, stack, IFF1, IFF2, IM,   *)
(* PV, halted, noint_once and reset_PV_on_int.                             *)

(* Mutant: only the first flip-flop is set. *)
Enable_first(b) == IFF1' = b /\ UNCHANGED IFF2
Enable(b) == IFF1' = b /\ IFF2' = b

(* Mutant: the prefix is not cleared after the opcode. *)
PrefixDone_kept == UNCHANGED prefix
PrefixDone == prefix' = 0

Quiet == noint_once' = FALSE /\ reset_PV_on_int' = FALSE

(* Words deeper than MaxStack are forgotten. *)
Pushed(w) == SubSeq(<<w>> \o stack, 1,
                    IF Len(stack) < MaxStack THEN Len(stack) + 1 ELSE MaxStack)

Pop ==
  \/ /\ stack # <<>>
     /\ PC' = Head(stack) /\ stack' = Tail(stack)
  \/ /\ stack = <<>>            \* a return through forgotten words
     /\ PC' \in Addr /\ stack' = stack

(* What is loaded into B or C, and P/V where a result sets it, depend on   *)
(* registers and memory that are not modelled.                             *)
Data(loadsBC, setsPV) ==
  /\ BC' \in IF loadsBC THEN 0 .. BCTop - 1 ELSE {BC}
  /\ PV' \in IF setsPV THEN BOOLEAN ELSE {PV}

(* The base page, and the pages DD and FD, which mirror it for these. *)
Base(op, next) ==
  \/ /\ op = 118                \* HALT
     /\ PC' = Plus(next, -1)
     /\ halted' = TRUE
     /\ UNCHANGED <<BC, stack, IFF1, IFF2, IM, PV>>
     /\ Quiet
  \/ /\ op \in {243, 251}       \* DI, EI
     /\ PC' = next
     /\ Enable(op = 251)
     /\ noint_once' = (op = 251) /\ reset_PV_on_int' = FALSE
     /\ UNCHANGED <<BC, stack, IM, PV, halted>>
  \/ /\ op = 201                \* RET
     /\ Pop
     /\ UNCHANGED <<BC, IFF1, IFF2, IM, PV, halted>>
     /\ Quiet
  \/ /\ op = 255                \* RST 38h
     /\ stack' = Pushed(next)
     /\ PC' = RST38
     /\ UNCHANGED <<BC, IFF1, IFF2, IM, PV, halted>>
     /\ Quiet
  \/ /\ op \notin {118, 243, 251, 201, 255}
     /\ PC' = next
     /\ Data(op \in {69, 70, 77}, op = 176)   \* LD B,L; LD B,(HL); LD C,L; OR B
     /\ UNCHANGED <<stack, IFF1, IFF2, IM, halted>>
     /\ Quiet

(* The CB pages: RLC B, RES 6,B and SET 1,C load B or C; SET and RES leave *)
(* the flags alone.                                                        *)
Bits(op) ==
  /\ Data(op \in {0, 176, 201}, op < 128)
  /\ UNCHANGED <<stack, IFF1, IFF2, IM, halted>>
  /\ Quiet

(* Opcodes of the ED page, of which 86 and 118 are both IM 1; those        *)
(* without a function, the trapped ones included, do nothing.              *)
Extended(op, next) ==
  \/ /\ op \in {69, 77}         \* RETN, RETI
     /\ IFF1' = IFF2
     /\ Pop
     /\ UNCHANGED <<BC, IFF2, IM, PV, halted>>
     /\ Quiet
  \/ /\ op = 87                 \* LD A,I
     /\ PV' = IFF2
     /\ PC' = next
     /\ noint_once' = FALSE /\ reset_PV_on_int' = TRUE
     /\ UNCHANGED <<BC, stack, IFF1, IFF2, IM, halted>>
  \/ /\ op \in {70, 86, 94, 118}
     /\ IM' = CASE op = 70 -> 0 [] op \in {86, 118} -> 1 [] op = 94 -> 2
     /\ PC' = next
     /\ UNCHANGED <<BC, stack, IFF1, IFF2, PV, halted>>
     /\ Quiet
  \/ /\ op = 176                \* LDIR: once, and back to its prefix
     /\ BC' = (BC - 1) % BCTop
     /\ PC' = IF BC' # 0 THEN Plus(next, -2) ELSE next
     /\ PV' = (BC' # 0)
     /\ UNCHANGED <<stack, IFF1, IFF2, IM, halted>>
     /\ Quiet
  \/ /\ op \notin {69, 70, 77, 86, 87, 94, 118, 176}
     /\ PC' = next
     /\ UNCHANGED <<BC, stack, IFF1, IFF2, IM, PV, halted>>
     /\ Quiet

(* LD r,(IX+d) has a displacement that LD r,(HL) has not. *)
Displaced == {70, 86, 94}

(* A prefix byte: nothing but the prefix is noted. *)
TakePrefix(op) ==
  /\ prefix' = op
  /\ PC' = Plus(PC, 1)
  /\ UNCHANGED <<BC, stack, IFF1, IFF2, IM, PV, halted>>

(* z80ex_step *)
Step ==
  LET op == mem[PC]
      next == Plus(PC, 1)
  IN  /\ UNCHANGED mem
      /\ \/ /\ prefix = 0 /\ op \in {CB, DD, ED, FD}
            /\ TakePrefix(op)
            /\ noint_once' = TRUE /\ reset_PV_on_int' = FALSE
         \/ /\ prefix = 0 /\ op \notin {CB, DD, ED, FD}
            /\ Base(op, next)
            /\ PrefixDone
         \/ /\ prefix \in {DD, FD} /\ op \in {DD, ED, FD}
            /\ TakePrefix(op)
            /\ noint_once' = TRUE /\ reset_PV_on_int' = FALSE
         \/ /\ prefix \in {DD, FD} /\ op = CB      \* displacement, opcode
            /\ PC' = Plus(PC, 3)
            /\ Bits(mem[Plus(PC, 2)])
            /\ PrefixDone
         \/ /\ prefix \in {DD, FD} /\ op \notin {CB, DD, ED, FD}
            /\ Base(op, IF op \in Displaced THEN Plus(PC, 2) ELSE next)
            /\ PrefixDone
         \/ /\ prefix = ED
            /\ Extended(op, next)
            /\ PrefixDone
         \/ /\ prefix = CB
            /\ PC' = next
            /\ Bits(op)
            /\ PrefixDone
      /\ start' = IF prefix' = 0 THEN Boundary' ELSE start

-----------------------------------------------------------------------------
(* Interrupts. *)

(* Mutants: the window after EI is left out; the CPU still counts as       *)
(* halted.                                                                 *)
Accepts_afterEI == prefix = 0
Wake_not == UNCHANGED halted

Accepts == ~noint_once /\ prefix = 0
AfterHalt == IF halted THEN Plus(PC, 1) ELSE PC
Wake == halted' = FALSE

z80ex_nmi_possible == Accepts
z80ex_int_possible == IFF1 /\ Accepts

z80ex_nmi ==
  /\ Accepts
  /\ stack' = Pushed(AfterHalt)
  /\ PC' = NMI66
  /\ Wake
  /\ IFF1' = FALSE
  /\ UNCHANGED <<mem, BC, prefix, IFF2, IM, PV, noint_once, reset_PV_on_int>>
  /\ start' = Boundary'

(***************************************************************************)
(* Mode 0 executes the byte on the bus, which hardware.c holds at 0xFF:    *)
(* RST 38h, as mode 1 does.                                                *)
(***************************************************************************)
z80ex_int ==
  /\ IFF1 /\ Accepts
  /\ stack' = Pushed(AfterHalt)
  /\ PC' = IF IM = 2 THEN VectorIM2 ELSE RST38
  /\ Wake
  /\ Enable(FALSE)
  /\ PV' = (PV /\ ~reset_PV_on_int)
  /\ reset_PV_on_int' = FALSE
  /\ UNCHANGED <<mem, BC, prefix, IM, noint_once>>
  /\ start' = Boundary'

Next == Step \/ z80ex_nmi \/ z80ex_int

Spec == Init /\ [][Next]_vars

(* main's loop calls z80ex_step for ever. *)
FairSpec == Spec /\ WF_vars(Step)

-----------------------------------------------------------------------------
(* The types of the variables. *)
TypeOK ==
  /\ mem \in Program
  /\ PC \in Addr
  /\ BC \in 0 .. BCTop - 1
  /\ stack \in Seq(Addr)
  /\ prefix \in {0, CB, DD, ED, FD}
  /\ IFF1 \in BOOLEAN /\ IFF2 \in BOOLEAN
  /\ IM \in 0 .. 2
  /\ PV \in BOOLEAN
  /\ noint_once \in BOOLEAN /\ reset_PV_on_int \in BOOLEAN
  /\ halted \in BOOLEAN
  /\ start \in [pc : Addr, noint_once : BOOLEAN, ldai : BOOLEAN]

(***************************************************************************)
(* A halted CPU stands on a HALT at an instruction boundary, so that       *)
(* stepping again does nothing and an interrupt returns behind it.  HALT   *)
(* steps PC back and an interrupt steps it forward: the two must pair up   *)
(* through prefixes, interrupts and returns.                               *)
(***************************************************************************)
HaltStands == halted => mem[PC] = 118 /\ prefix = 0

(***************************************************************************)
(* IFF1 is never set without IFF2: what RETN restores, no NMI can have     *)
(* enabled.                                                                *)
(***************************************************************************)
IFF1NeedsIFF2 == IFF1 => IFF2

(***************************************************************************)
(* Every instruction ends: a run of prefixes is left, unless the whole     *)
(* memory is prefixes (the address wraps and no interrupt gets in).        *)
(***************************************************************************)
PrefixesEnd ==
  (\E p \in Addr : mem[p] \notin {DD, FD}) => []<>(prefix = 0)
=============================================================================
