---------------------------- MODULE Z80StepProofs ----------------------------
(***************************************************************************)
(* Proofs about Z80Step, for every memory size, program, vector address    *)
(* and stack bound: the types, HaltStands, IFF1NeedsIFF2 and the           *)
(* refinement of Z80Instr.                                                 *)
(***************************************************************************)
EXTENDS Z80ImplementsInstr, Numbers, TLAPS

-----------------------------------------------------------------------------
(* Addresses wrap at Top. *)

(* PC, and any address reached from an address, is an address. *)
LEMMA PlusType ==
  ASSUME NEW a \in Int, NEW n \in Int
  PROVE  Plus(a, n) \in Addr
  BY AddressAssumption, Division DEF Plus, Addr

(* Two moves are one. *)
LEMMA PlusPlus ==
  ASSUME NEW a \in Int, NEW m \in Int, NEW n \in Int
  PROVE  Plus(Plus(a, m), n) = Plus(a, m + n)
<1> DEFINE x == a + m
<1>1. x \in Int /\ x + n = a + (m + n)
  OBVIOUS
<1> HIDE DEF x
<1>2. ((x % Top) + n) % Top = (x + n) % Top
  BY <1>1, AddressAssumption, ReduceFirst
<1> QED
  BY <1>1, <1>2 DEF Plus, x

(* No move stays where it is. *)
LEMMA PlusZero ==
  ASSUME NEW a \in Addr
  PROVE  Plus(a, 0) = a
<1>1. (Top * 0 + a) % Top = a
  BY AddressAssumption, Remainder DEF Addr
<1> QED
  BY <1>1, AddressAssumption DEF Plus, Addr

(* Once around the address space is back at the start. *)
LEMMA PlusTop ==
  ASSUME NEW a \in Int, NEW n \in Int
  PROVE  Plus(a, n + Top) = Plus(a, n)
<1> DEFINE x == a + n
           r == x % Top
<1>1. x \in Int /\ x + Top = a + (n + Top)
  BY AddressAssumption
<1> HIDE DEF x
<1>2. r \in 0 .. Top - 1
  BY <1>1, AddressAssumption, Division
<1>3. (r + Top) % Top = (x + Top) % Top
  <2>1. Top \in Nat /\ Top > 0 /\ Top \in Int
    BY AddressAssumption
  <2> QED
    BY <1>1, <2>1, ReduceFirst, Zenon
<1> HIDE DEF r
<1>4. (Top * 1 + r) % Top = r
  BY <1>2, AddressAssumption, Remainder
<1>5. Top * 1 + r = r + Top
  BY <1>2, AddressAssumption
<1> QED
  BY <1>1, <1>3, <1>4, <1>5 DEF Plus, r, x

-----------------------------------------------------------------------------
(* The registers: TypeOK without memory, prefix and history.               *)
Registers ==
  /\ PC \in Addr
  /\ BC \in 0 .. BCTop - 1
  /\ stack \in Seq(Addr)
  /\ IFF1 \in BOOLEAN /\ IFF2 \in BOOLEAN
  /\ IM \in 0 .. 2
  /\ PV \in BOOLEAN
  /\ noint_once \in BOOLEAN /\ reset_PV_on_int \in BOOLEAN
  /\ halted \in BOOLEAN

(* The byte at PC is one of those modelled. *)
LEMMA FetchType ==
  ASSUME TypeOK
  PROVE  mem[PC] \in Modelled /\ Plus(PC, 1) \in Addr
<1>1. mem \in [Addr -> Modelled]
  BY ProgramAssumption, OpcodeAssumption DEF TypeOK
<1>2. PC \in Addr /\ PC \in Int
  BY AddressAssumption DEF TypeOK, Addr
<1> QED
  BY <1>1, <1>2, PlusType

(* What is pushed is a stack of addresses, however many words are kept. *)
LEMMA PushedType ==
  ASSUME stack \in Seq(Addr), NEW w \in Addr
  PROVE  Pushed(w) \in Seq(Addr)
<1> DEFINE s == <<w>> \o stack
           k == IF Len(stack) < MaxStack THEN Len(stack) + 1 ELSE MaxStack
<1>1. s \in Seq(Addr) /\ Len(s) = Len(stack) + 1
  OBVIOUS
<1>2. k \in Nat /\ k <= Len(s)
  BY <1>1, CounterAssumption
<1> HIDE DEF s, k
<1>3. \A i \in 1 .. k : s[i] \in Addr
  BY <1>1, <1>2
<1>4. SubSeq(s, 1, k) \in Seq(Addr)
  BY <1>1, <1>2, <1>3
<1> QED
  BY <1>4 DEF Pushed, s, k

(* A return leads to an address and leaves a stack of addresses. *)
LEMMA PopType ==
  ASSUME stack \in Seq(Addr), Pop
  PROVE  PC' \in Addr /\ stack' \in Seq(Addr)
  BY DEF Pop

(* Data from elsewhere have their types. *)
LEMMA DataType ==
  ASSUME Registers, NEW bc, NEW flag, Data(bc, flag)
  PROVE  BC' \in 0 .. BCTop - 1 /\ PV' \in BOOLEAN
  BY DEF Data, Registers

(* The base page keeps the types. *)
LEMMA BaseType ==
  ASSUME Registers, NEW op \in Nat, NEW next \in Addr, Base(op, next)
  PROVE  Registers'
<1>1. Plus(next, -1) \in Addr
  <2>1. next \in Int /\ -1 \in Int
    BY AddressAssumption DEF Addr
  <2> QED
    BY <2>1, PlusType
<1>2. RST38 \in Addr /\ Pushed(next) \in Seq(Addr)
  BY AddressAssumption, PushedType DEF Registers
<1>3. CASE op = 118
  <2>1. PC' = Plus(next, -1) /\ halted' = TRUE /\ Quiet
        /\ UNCHANGED <<BC, stack, IFF1, IFF2, IM, PV>>
    BY <1>3 DEF Base
  <2> QED
    BY <1>1, <2>1 DEF Registers, Quiet
<1>4. CASE op \in {243, 251}
  <2>1. PC' = next /\ Enable(op = 251)
        /\ noint_once' = (op = 251) /\ reset_PV_on_int' = FALSE
        /\ UNCHANGED <<BC, stack, IM, PV, halted>>
    BY <1>4 DEF Base
  <2> QED
    BY <2>1 DEF Registers, Enable
<1>5. CASE op = 201
  <2>1. Pop /\ Quiet /\ UNCHANGED <<BC, IFF1, IFF2, IM, PV, halted>>
    BY <1>5 DEF Base
  <2>2. PC' \in Addr /\ stack' \in Seq(Addr)
    BY <2>1, PopType DEF Registers
  <2> QED
    BY <2>1, <2>2 DEF Registers, Quiet
<1>6. CASE op = 255
  <2>1. stack' = Pushed(next) /\ PC' = RST38 /\ Quiet
        /\ UNCHANGED <<BC, IFF1, IFF2, IM, PV, halted>>
    BY <1>6 DEF Base
  <2> QED
    BY <1>2, <2>1 DEF Registers, Quiet
<1>7. CASE op \notin {118, 243, 251, 201, 255}
  <2>1. PC' = next /\ Data(op \in {69, 70, 77}, op = 176) /\ Quiet
        /\ UNCHANGED <<stack, IFF1, IFF2, IM, halted>>
    BY <1>7 DEF Base
  <2>2. BC' \in 0 .. BCTop - 1 /\ PV' \in BOOLEAN
    BY <2>1, DataType
  <2> QED
    BY <2>1, <2>2 DEF Registers, Quiet
<1> QED
  BY <1>3, <1>4, <1>5, <1>6, <1>7

(* The ED page keeps the types. *)
LEMMA ExtendedType ==
  ASSUME Registers, NEW op \in Nat, NEW next \in Addr, Extended(op, next)
  PROVE  Registers'
<1>1. Plus(next, -2) \in Addr
  <2>1. next \in Int /\ -2 \in Int
    BY AddressAssumption DEF Addr
  <2> QED
    BY <2>1, PlusType
<1>2. (BC - 1) % BCTop \in 0 .. BCTop - 1
  BY CounterAssumption, Division DEF Registers
<1>3. CASE op \in {69, 77}
  <2>1. IFF1' = IFF2 /\ Pop /\ Quiet
        /\ UNCHANGED <<BC, IFF2, IM, PV, halted>>
    BY <1>3 DEF Extended
  <2>2. PC' \in Addr /\ stack' \in Seq(Addr)
    BY <2>1, PopType DEF Registers
  <2> QED
    BY <2>1, <2>2 DEF Registers, Quiet
<1>4. CASE op = 87
  <2>1. PV' = IFF2 /\ PC' = next
        /\ noint_once' = FALSE /\ reset_PV_on_int' = TRUE
        /\ UNCHANGED <<BC, stack, IFF1, IFF2, IM, halted>>
    BY <1>4 DEF Extended
  <2> QED
    BY <2>1 DEF Registers
<1>5. CASE op \in {70, 86, 94, 118}
  <2>1. IM' = (CASE op = 70 -> 0 [] op \in {86, 118} -> 1 [] op = 94 -> 2)
        /\ PC' = next /\ Quiet
        /\ UNCHANGED <<BC, stack, IFF1, IFF2, PV, halted>>
    BY <1>5 DEF Extended
  <2>2. IM' \in 0 .. 2
    BY <1>5, <2>1
  <2> QED
    BY <2>1, <2>2 DEF Registers, Quiet
<1>6. CASE op = 176
  <2>1. BC' = (BC - 1) % BCTop
        /\ PC' = (IF BC' # 0 THEN Plus(next, -2) ELSE next)
        /\ PV' = (BC' # 0) /\ Quiet
        /\ UNCHANGED <<stack, IFF1, IFF2, IM, halted>>
    BY <1>6 DEF Extended
  <2> QED
    BY <1>1, <1>2, <2>1 DEF Registers, Quiet
<1>7. CASE op \notin {69, 70, 77, 86, 87, 94, 118, 176}
  BY <1>7 DEF Extended, Registers, Quiet
<1> QED
  BY <1>3, <1>4, <1>5, <1>6, <1>7

-----------------------------------------------------------------------------
Index == {DD, FD}

(* Where the opcode of Base is, and what is next to it: an indexed         *)
(* instruction may have a displacement.                                    *)
BaseNext ==
  IF prefix \in Index /\ mem[PC] \in Displaced THEN Plus(PC, 2) ELSE Plus(PC, 1)

(* What the core has before it, for each prefix it is in.                  *)
AtPrefix == /\ \/ prefix = 0 /\ mem[PC] \in {CB, DD, ED, FD}
               \/ prefix \in Index /\ mem[PC] \in {DD, ED, FD}
            /\ TakePrefix(mem[PC])
            /\ noint_once' = TRUE /\ reset_PV_on_int' = FALSE
AtBase == /\ prefix \in {0} \cup Index /\ mem[PC] \notin {CB, DD, ED, FD}
          /\ Base(mem[PC], BaseNext)
          /\ prefix' = 0
AtExtended == prefix = ED /\ Extended(mem[PC], Plus(PC, 1)) /\ prefix' = 0
AtBits == /\ \/ prefix = CB /\ PC' = Plus(PC, 1) /\ Bits(mem[PC])
             \/ /\ prefix \in Index /\ mem[PC] = CB
                /\ PC' = Plus(PC, 3) /\ Bits(mem[Plus(PC, 2)])
          /\ prefix' = 0

(* A step takes a prefix, or executes an opcode of one of the pages.       *)
LEMMA StepCases ==
  ASSUME Step
  PROVE  /\ AtPrefix \/ AtBase \/ AtExtended \/ AtBits
         /\ mem' = mem
         /\ start' = IF prefix' = 0 THEN Boundary' ELSE start
<1>1. CASE prefix = 0
  BY <1>1 DEF Step, PrefixDone, AtPrefix, AtBase, AtExtended, AtBits, BaseNext,
              Index, CB, DD, ED, FD
<1>2. CASE prefix = ED
  BY <1>2 DEF Step, PrefixDone, AtExtended, CB, DD, ED, FD
<1>3. CASE prefix = CB
  BY <1>3 DEF Step, PrefixDone, AtBits, CB, DD, ED, FD
<1>4. CASE prefix \in Index
  BY <1>4 DEF Step, PrefixDone, AtPrefix, AtBase, AtBits, BaseNext,
              Index, CB, DD, ED, FD
<1> QED
  BY <1>1, <1>2, <1>3, <1>4 DEF Step, Index

(* Every step keeps the types. *)
LEMMA StepType ==
  ASSUME TypeOK, Step
  PROVE  TypeOK'
<1>1. Registers /\ PC \in Int
  BY AddressAssumption DEF TypeOK, Registers, Addr
<1>2. mem[PC] \in Nat /\ Plus(PC, 1) \in Addr
  BY FetchType DEF Modelled
<1>3. Plus(PC, 2) \in Addr /\ Plus(PC, 3) \in Addr
  BY <1>1, PlusType
<1>4. Registers' /\ prefix' \in {0, CB, DD, ED, FD}
  <2>1. CASE AtPrefix
    BY <1>1, <1>2, <2>1 DEF AtPrefix, TakePrefix, Registers
  <2>2. CASE AtBase
    <3>1. BaseNext \in Addr
      BY <1>2, <1>3 DEF BaseNext
    <3> QED
      BY <1>1, <1>2, <2>2, <3>1, BaseType DEF AtBase
  <2>3. CASE AtExtended
    BY <1>1, <1>2, <2>3, ExtendedType DEF AtExtended
  <2>4. CASE AtBits
    <3>1. PICK b : Bits(b)
      BY <2>4 DEF AtBits
    <3>2. BC' \in 0 .. BCTop - 1 /\ PV' \in BOOLEAN
      BY <1>1, <3>1, DataType DEF Bits
    <3> QED
      BY <1>1, <1>2, <1>3, <2>4, <3>1, <3>2 DEF AtBits, Bits, Registers, Quiet
  <2> QED
    BY <2>1, <2>2, <2>3, <2>4, StepCases
<1>5. mem' \in Program
  BY StepCases DEF TypeOK
<1>6. start' \in [pc : Addr, noint_once : BOOLEAN, ldai : BOOLEAN]
  <2>1. Boundary' \in [pc : Addr, noint_once : BOOLEAN, ldai : BOOLEAN]
    BY <1>4 DEF Boundary, Registers
  <2> QED
    BY <2>1, StepCases DEF TypeOK
<1> QED
  BY <1>4, <1>5, <1>6 DEF TypeOK, Registers

(* An interrupt keeps the types. *)
LEMMA InterruptType ==
  ASSUME TypeOK, z80ex_nmi \/ z80ex_int
  PROVE  TypeOK'
<1>1. AfterHalt \in Addr
  <2>1. PC \in Addr /\ PC \in Int
    BY AddressAssumption DEF TypeOK, Addr
  <2> QED
    BY <2>1, PlusType DEF AfterHalt
<1>2. Pushed(AfterHalt) \in Seq(Addr)
  BY <1>1, PushedType DEF TypeOK
<1>3. CASE z80ex_nmi
  <2>1. Registers'
    BY <1>2, <1>3, AddressAssumption DEF z80ex_nmi, Wake, TypeOK, Registers
  <2> QED
    BY <1>3, <2>1 DEF z80ex_nmi, Boundary, TypeOK, Registers
<1>4. CASE z80ex_int
  <2>1. Registers'
    BY <1>2, <1>4, AddressAssumption
       DEF z80ex_int, Wake, Enable, TypeOK, Registers
  <2> QED
    BY <1>4, <2>1 DEF z80ex_int, Boundary, TypeOK, Registers
<1> QED
  BY <1>3, <1>4

-----------------------------------------------------------------------------
(* The flags of the control: HALT alone halts the core, where it stands;   *)
(* no opcode sets IFF1 without IFF2.                                       *)
LEMMA BaseFlags ==
  ASSUME NEW op \in Nat, NEW next, Base(op, next), IFF1NeedsIFF2
  PROVE  /\ halted' <=> (halted \/ op = 118)
         /\ op = 118 => PC' = Plus(next, -1)
         /\ IFF1NeedsIFF2'
<1>1. CASE op = 118
  BY <1>1 DEF Base, IFF1NeedsIFF2
<1>2. CASE op \in {243, 251}
  BY <1>2 DEF Base, Enable, IFF1NeedsIFF2
<1>3. CASE op \notin {118, 243, 251}
  BY <1>3 DEF Base, IFF1NeedsIFF2
<1> QED
  BY <1>1, <1>2, <1>3

LEMMA ExtendedFlags ==
  ASSUME NEW op, NEW next, Extended(op, next), IFF1NeedsIFF2
  PROVE  halted' = halted /\ IFF1NeedsIFF2'
<1>1. CASE op \in {69, 77}
  BY <1>1 DEF Extended, IFF1NeedsIFF2
<1>2. CASE op \notin {69, 77}
  BY <1>2 DEF Extended, IFF1NeedsIFF2
<1> QED
  BY <1>1, <1>2

(* The part of the inductive invariant that the flags are in. *)
Flags == TypeOK /\ HaltStands /\ IFF1NeedsIFF2

(* A halted core stands on its HALT after every step, and enables are in   *)
(* order.                                                                  *)
LEMMA StepFlags ==
  ASSUME Flags, Step
  PROVE  HaltStands' /\ IFF1NeedsIFF2'
<1> USE DEF Flags
<1>1. mem[PC] \in Nat /\ PC \in Addr /\ PC \in Int
  <2>1. mem[PC] \in Nat
    BY FetchType DEF Modelled
  <2> QED
    BY <2>1, AddressAssumption DEF TypeOK, Addr
<1>2. mem' = mem
  BY StepCases
<1>3. CASE AtPrefix
  <2>1. ~halted
    BY <1>3 DEF AtPrefix, HaltStands, Index, CB, DD, ED, FD
  <2> QED
    BY <1>3, <2>1 DEF AtPrefix, TakePrefix, HaltStands, IFF1NeedsIFF2
<1>4. CASE AtBase
  <2>1. Base(mem[PC], BaseNext) /\ prefix' = 0
    BY <1>4 DEF AtBase
  <2>2. IFF1NeedsIFF2' /\ (halted' => mem[PC] = 118)
    BY <1>1, <2>1, BaseFlags DEF HaltStands
  <2>3. mem[PC] = 118 => PC' = PC
    <3>1. mem[PC] = 118 => BaseNext = Plus(PC, 1)
      BY DEF BaseNext, Displaced
    <3>2. Plus(Plus(PC, 1), -1) = Plus(PC, 1 + (-1))
      BY <1>1, PlusPlus
    <3>3. Plus(PC, 1 + (-1)) = PC
      BY <1>1, PlusZero
    <3> QED
      BY <1>1, <2>1, <3>1, <3>2, <3>3, BaseFlags
  <2> QED
    BY <1>2, <2>1, <2>2, <2>3 DEF HaltStands
<1>5. CASE AtExtended
  <2>1. ~halted
    BY <1>5 DEF AtExtended, HaltStands, ED
  <2> QED
    BY <1>5, <2>1, ExtendedFlags DEF AtExtended, HaltStands
<1>6. CASE AtBits
  <2>1. ~halted
    BY <1>6 DEF AtBits, HaltStands, Index, CB, DD, FD
  <2> QED
    BY <1>6, <2>1 DEF AtBits, Bits, HaltStands, IFF1NeedsIFF2
<1> QED
  BY <1>3, <1>4, <1>5, <1>6, StepCases

(* An interrupt wakes the core, and disables at least the first flip-flop. *)
LEMMA InterruptFlags ==
  ASSUME TypeOK, z80ex_nmi \/ z80ex_int
  PROVE  HaltStands' /\ IFF1NeedsIFF2'
  BY DEF z80ex_nmi, z80ex_int, Wake, Enable, HaltStands, IFF1NeedsIFF2

-----------------------------------------------------------------------------
(* What the bytes between the last boundary and PC are.  n index prefixes  *)
(* begin at the boundary:                                                  *)
Run(n) == \A k \in 0 .. n - 1 : mem[Plus(start.pc, k)] \in Index

Tracks ==
  /\ prefix = 0 => start = Boundary
  /\ prefix \in Index =>
       \E n \in Nat \ {0} : Run(n) /\ PC = Plus(start.pc, n)
  /\ prefix = ED =>
       \E n \in Nat : /\ Run(n)
                      /\ mem[Plus(start.pc, n)] = ED
                      /\ PC = Plus(start.pc, n + 1)
  /\ prefix = CB => mem[start.pc] = CB /\ PC = Plus(start.pc, 1)

(* The inductive invariant: no prefix is ever taken while the core is      *)
(* halted, and between boundaries the core knows which instruction it is   *)
(* in the middle of.                                                       *)
IInv == Flags /\ Tracks

(* Every step, and every interrupt, keeps track. *)
LEMMA StepTracks ==
  ASSUME TypeOK, Tracks, Step
  PROVE  Tracks'
<1>1. PC \in Addr /\ PC \in Int /\ start.pc \in Addr /\ start.pc \in Int
  BY AddressAssumption DEF TypeOK, Addr
<1>2. mem' = mem /\ start' = IF prefix' = 0 THEN Boundary' ELSE start
  BY StepCases
<1>3. CASE AtPrefix
  <2> DEFINE op == mem[PC]
  <2>1. prefix' = op /\ PC' = Plus(PC, 1) /\ op \in {CB, DD, ED, FD}
    BY <1>3 DEF AtPrefix, TakePrefix
  <2>0. prefix = 0 \/ (prefix \in Index /\ op # CB)
    BY <1>3 DEF AtPrefix, CB, DD, ED, FD
  <2>2. start' = start
    BY <1>2, <2>1 DEF CB, DD, ED, FD
  <2>3. PICK n \in Nat : /\ Run(n)
                         /\ PC = Plus(start.pc, n)
                         /\ prefix = 0 => n = 0
    <3>1. CASE prefix = 0
      <4>1. start.pc = PC
        BY <3>1 DEF Tracks, Boundary
      <4>2. Run(0)
        BY DEF Run
      <4> QED
        BY <1>1, <3>1, <4>1, <4>2, PlusZero
    <3>2. CASE prefix \in Index
      <4>1. PICK m \in Nat \ {0} : Run(m) /\ PC = Plus(start.pc, m)
        BY <3>2 DEF Tracks
      <4> QED
        BY <3>2, <4>1 DEF Index, DD, FD
    <3> QED
      BY <2>0, <3>1, <3>2
  <2>4. PC' = Plus(start.pc, n + 1)
    <3>1. n \in Int /\ 1 \in Int
      OBVIOUS
    <3>2. Plus(Plus(start.pc, n), 1) = Plus(start.pc, n + 1)
      BY <1>1, <3>1, PlusPlus, Zenon
    <3> QED
      BY <2>1, <2>3, <3>2
  <2>5. CASE op \in Index
    <3>1. (n + 1) \in Nat \ {0}
      OBVIOUS
    <3>2. Run(n + 1)'
      <4> SUFFICES ASSUME NEW k \in 0 .. n
                   PROVE  mem[Plus(start.pc, k)] \in Index
        BY <1>2, <2>2 DEF Run, Index
      <4>1. CASE k = n
        BY <2>3, <2>5, <4>1
      <4>2. CASE k # n
        BY <2>3, <4>2 DEF Run
      <4> QED
        BY <4>1, <4>2
    <3> QED
      BY <2>1, <2>2, <2>4, <2>5, <3>1, <3>2 DEF Tracks, Index, CB, DD, ED, FD
  <2>6. CASE op = ED
    <3>1. Run(n)'
      BY <1>2, <2>2, <2>3 DEF Run, Index
    <3> QED
      BY <1>2, <2>1, <2>2, <2>3, <2>4, <2>6, <3>1
         DEF Tracks, Index, CB, DD, ED, FD
  <2>7. CASE op = CB
    <3>1. prefix = 0 /\ n = 0 /\ PC = start.pc
      BY <1>1, <2>0, <2>3, <2>7, PlusZero
    <3> QED
      BY <1>2, <2>1, <2>2, <2>7, <3>1 DEF Tracks, Index, CB, DD, ED, FD
  <2> QED
    BY <2>1, <2>5, <2>6, <2>7 DEF Index
<1>4. CASE AtBase \/ AtExtended \/ AtBits
  <2>1. prefix' = 0
    BY <1>4 DEF AtBase, AtExtended, AtBits
  <2> QED
    BY <1>2, <2>1 DEF Tracks, Index, CB, DD, ED, FD
<1> QED
  BY <1>3, <1>4, StepCases

LEMMA InterruptTracks ==
  ASSUME z80ex_nmi \/ z80ex_int
  PROVE  Tracks'
<1>1. prefix' = 0 /\ start' = Boundary'
  BY DEF z80ex_nmi, z80ex_int, Accepts
<1> QED
  BY <1>1 DEF Tracks, Index, CB, DD, ED, FD

(* The initial state. *)
LEMMA InitSound ==
  ASSUME Init
  PROVE  IInv
<1>1. 0 \in Addr /\ BCTop - 1 \in 0 .. BCTop - 1 /\ <<>> \in Seq(Addr)
  BY AddressAssumption, CounterAssumption DEF Addr
<1>2. TypeOK
  <2>1. Boundary \in [pc : Addr, noint_once : BOOLEAN, ldai : BOOLEAN]
    BY <1>1 DEF Init, Boundary
  <2>2. 0 \in 0 .. 2
    OBVIOUS
  <2> QED
    BY <1>1, <2>1, <2>2 DEF Init, TypeOK
<1>3. HaltStands /\ IFF1NeedsIFF2
  BY DEF Init, HaltStands, IFF1NeedsIFF2
<1>4. Tracks
  BY DEF Init, Tracks, Index, CB, DD, ED, FD
<1> QED
  BY <1>2, <1>3, <1>4 DEF IInv, Flags

(* IInv is an invariant: one step per action. *)
THEOREM Invariance == Spec => []IInv
<1>1. Init => IInv
  BY InitSound
<1>2. IInv /\ [Next]_vars => IInv'
  <2> SUFFICES ASSUME IInv, [Next]_vars
               PROVE  IInv'
    OBVIOUS
  <2> USE DEF IInv
  <2>1. CASE Step
    BY <2>1, StepType, StepFlags, StepTracks DEF Flags
  <2>2. CASE z80ex_nmi \/ z80ex_int
    BY <2>2, InterruptType, InterruptFlags, InterruptTracks DEF Flags
  <2>3. CASE UNCHANGED vars
    BY <2>3 DEF vars, Flags, TypeOK, HaltStands, IFF1NeedsIFF2, Tracks, Run,
                Boundary
  <2> QED
    BY <2>1, <2>2, <2>3 DEF Next
<1> QED
  BY <1>1, <1>2, PTL DEF Spec

(* The types are right in every reachable state. *)
THEOREM TypeCorrect == Spec => []TypeOK
<1>1. IInv => TypeOK
  BY DEF IInv, Flags
<1> QED
  BY <1>1, Invariance, PTL

(***************************************************************************)
(* Whatever the program and wherever interrupts come: a halted core stands *)
(* on a HALT at an instruction boundary.                                   *)
(***************************************************************************)
THEOREM HaltAlwaysStands == Spec => []HaltStands
<1>1. IInv => HaltStands
  BY DEF IInv, Flags
<1> QED
  BY <1>1, Invariance, PTL

(* No sequence of EI, DI, RETN, NMI and INT sets IFF1 without IFF2. *)
THEOREM EnablesInOrder == Spec => []IFF1NeedsIFF2
<1>1. IInv => IFF1NeedsIFF2
  BY DEF IInv, Flags
<1> QED
  BY <1>1, Invariance, PTL

-----------------------------------------------------------------------------
(* The refinement of Z80Instr.                                             *)

(* At a boundary the programmer sees the registers, behind a HALT.         *)
LEMMA AtBoundary ==
  ASSUME prefix' = 0
  PROVE  /\ InstrPC' = AfterHalt'
         /\ InstrShadow' = noint_once'
         /\ InstrLdai' = reset_PV_on_int'
  BY DEF InstrPC, InstrShadow, InstrLdai

(* The run of index prefixes before another byte is shorter than memory:   *)
(* a longer one would have met that byte before.                           *)
LEMMA RunBound ==
  ASSUME NEW p \in Int, NEW n \in Nat,
         \A k \in 0 .. n - 1 : mem[Plus(p, k)] \in Index,
         mem[Plus(p, n)] \notin Index
  PROVE  n \in 0 .. Top
<1> SUFFICES ASSUME n > Top
             PROVE  FALSE
  BY AddressAssumption
<1> DEFINE k == n - Top
<1>1. k \in 0 .. n - 1 /\ k \in Int /\ k + Top = n
  BY AddressAssumption
<1> HIDE DEF k
<1>2. Plus(p, k + Top) = Plus(p, k)
  BY <1>1, PlusTop
<1> QED
  BY <1>1, <1>2

(* Where the core is in the programmer's instruction.                      *)
LEMMA Located ==
  ASSUME IInv, ~halted
  PROVE  /\ InstrPC \in Addr
         /\ \E n \in Nat :
              /\ \A k \in 0 .. n - 1 : mem[Plus(InstrPC, k)] \in Index
              /\ prefix = 0 => n = 0 /\ PC = InstrPC
              /\ prefix \in Index => n > 0 /\ PC = Plus(InstrPC, n)
              /\ prefix = ED => /\ mem[Plus(InstrPC, n)] = ED
                               /\ PC = Plus(InstrPC, n + 1)
              /\ prefix = CB => /\ n = 0 /\ mem[InstrPC] = CB
                               /\ PC = Plus(InstrPC, 1)
<1>1. TypeOK /\ Tracks
  BY DEF IInv, Flags
<1>2. InstrPC \in Addr
  BY <1>1 DEF InstrPC, AfterHalt, TypeOK
<1>3. \A k \in 0 .. -1 : mem[Plus(InstrPC, k)] \in Index
  OBVIOUS
<1>4. CASE prefix = 0
  <2>1. PC = InstrPC
    BY <1>4 DEF InstrPC, AfterHalt
  <2>2. 0 \in Nat
    OBVIOUS
  <2> QED
    BY <1>2, <1>3, <1>4, <2>2, <2>1 DEF Index, CB, DD, ED, FD
<1>5. CASE prefix \in Index
  <2>1. PICK n \in Nat \ {0} : Run(n) /\ PC = Plus(start.pc, n)
    BY <1>1, <1>5 DEF Tracks
  <2>2. InstrPC = start.pc
    BY <1>5 DEF InstrPC, Index, DD, FD
  <2>3. n \in Nat /\ n > 0
    OBVIOUS
  <2> QED
    BY <1>2, <1>5, <2>1, <2>2, <2>3 DEF Run, Index, CB, DD, ED, FD
<1>6. CASE prefix = ED
  <2>1. PICK n \in Nat : /\ Run(n)
                         /\ mem[Plus(start.pc, n)] = ED
                         /\ PC = Plus(start.pc, n + 1)
    BY <1>1, <1>6 DEF Tracks
  <2>2. InstrPC = start.pc
    BY <1>6 DEF InstrPC, ED
  <2> QED
    BY <1>2, <1>6, <2>1, <2>2 DEF Run, Index, CB, DD, ED, FD
<1>7. CASE prefix = CB
  <2>1. mem[start.pc] = CB /\ PC = Plus(start.pc, 1)
    BY <1>1, <1>7 DEF Tracks
  <2>2. InstrPC = start.pc
    BY <1>7 DEF InstrPC, CB
  <2> QED
    BY <1>2, <1>7, <2>1, <2>2 DEF Index, CB, DD, ED, FD
<1> QED
  BY <1>1, <1>4, <1>5, <1>6, <1>7 DEF TypeOK, Index

(* Both levels write the same words on the stack. *)
LEMMA SamePush ==
  ASSUME NEW w
  PROVE  Instr!Pushed(w) = Pushed(w)
  BY DEF Instr!Pushed, Pushed

(* An opcode of the base page, behind n index prefixes. *)
LEMMA BaseImplements ==
  ASSUME TypeOK, ~halted, InstrPC \in Addr,
         NEW n \in Nat, n = 0 <=> prefix = 0, PC = Plus(InstrPC, n),
         AtBase
  PROVE  \/ Instr!Plain(n) \/ Instr!HALT(n) \/ Instr!EI(n) \/ Instr!DI(n)
         \/ Instr!RET(n) \/ Instr!RST(n)
<1> DEFINE op == mem[PC]
<1>1. InstrPC \in Int /\ n \in Int /\ 1 \in Int /\ 2 \in Int /\ -1 \in Int
  BY AddressAssumption DEF Addr
<1>2. op \in Modelled /\ op \notin {CB, DD, ED, FD}
  BY FetchType DEF AtBase
<1>3. Instr!At(n) = op
  BY DEF Instr!At, Plus
<1>4. Plus(PC, 1) = Plus(InstrPC, n + 1) /\ Plus(PC, 2) = Plus(InstrPC, n + 2)
  BY <1>1, PlusPlus, Zenon
<1>5. BaseNext = Plus(InstrPC, IF n > 0 /\ op \in Displaced THEN n + 2 ELSE n + 1)
  BY <1>4 DEF BaseNext, AtBase, Index, DD, FD
<1>6. Base(op, BaseNext) /\ prefix' = 0
  BY DEF AtBase
<1>7. /\ InstrPC' = AfterHalt'
      /\ InstrShadow' = noint_once'
      /\ InstrLdai' = reset_PV_on_int'
  BY <1>6, AtBoundary
<1>8. \A m : Instr!Go(m) <=> InstrPC' = Plus(InstrPC, m)
  BY DEF Instr!Go, Instr!Past, Plus
<1>9. CASE op = 118
  <2>1. PC' = Plus(BaseNext, -1) /\ halted' = TRUE /\ Quiet
        /\ UNCHANGED <<BC, stack, IFF1, IFF2, IM, PV>>
    BY <1>6, <1>9 DEF Base
  <2>2. BaseNext = Plus(InstrPC, n + 1)
    BY <1>5, <1>9 DEF Displaced
  <2>3. AfterHalt' = Plus(InstrPC, n + 1)
    <3>1. AfterHalt' = Plus(Plus(BaseNext, -1), 1)
      BY <2>1 DEF AfterHalt, Plus
    <3>2. BaseNext \in Addr /\ BaseNext \in Int
      BY <1>1, <2>2, PlusType, AddressAssumption DEF Addr
    <3>3. Plus(Plus(BaseNext, -1), 1) = Plus(BaseNext, -1 + 1)
      BY <1>1, <3>2, PlusPlus, Zenon
    <3>4. -1 + 1 = 0
      OBVIOUS
    <3> QED
      BY <2>2, <3>1, <3>2, <3>3, <3>4, PlusZero
  <2>4. Instr!HALT(n)
    BY <1>3, <1>7, <1>8, <1>9, <2>1, <2>3 DEF Instr!HALT, Instr!Calm, Quiet
  <2> QED
    BY <2>4
<1>10. CASE op = 251
  <2>0. PC' = BaseNext /\ Enable(op = 251)
        /\ noint_once' = (op = 251) /\ reset_PV_on_int' = FALSE
        /\ UNCHANGED <<BC, stack, IM, PV, halted>>
    BY <1>6, <1>10 DEF Base
  <2>1. PC' = BaseNext /\ IFF1' = TRUE /\ IFF2' = TRUE
        /\ noint_once' = TRUE /\ reset_PV_on_int' = FALSE
        /\ UNCHANGED <<BC, stack, IM, PV, halted>>
    BY <1>10, <2>0 DEF Enable
  <2>2. InstrPC' = Plus(InstrPC, n + 1)
    BY <1>5, <1>7, <1>10, <2>1 DEF AfterHalt, Displaced
  <2>3. Instr!EI(n)
    BY <1>3, <1>7, <1>8, <1>10, <2>1, <2>2 DEF Instr!EI
  <2> QED
    BY <2>3
<1>11. CASE op = 243
  <2>0. PC' = BaseNext /\ Enable(op = 251)
        /\ noint_once' = (op = 251) /\ reset_PV_on_int' = FALSE
        /\ UNCHANGED <<BC, stack, IM, PV, halted>>
    BY <1>6, <1>11 DEF Base
  <2>1. PC' = BaseNext /\ IFF1' = FALSE /\ IFF2' = FALSE
        /\ noint_once' = FALSE /\ reset_PV_on_int' = FALSE
        /\ UNCHANGED <<BC, stack, IM, PV, halted>>
    <3>1. (op = 251) = FALSE
      BY <1>11
    <3> QED
      BY <2>0, <3>1, Zenon DEF Enable
  <2>2. InstrPC' = Plus(InstrPC, n + 1)
    BY <1>5, <1>7, <1>11, <2>1 DEF AfterHalt, Displaced
  <2>3. Instr!DI(n)
    BY <1>3, <1>7, <1>8, <1>11, <2>1, <2>2 DEF Instr!DI, Instr!Calm
  <2> QED
    BY <2>3
<1>12. CASE op = 201
  <2>1. Pop /\ Quiet /\ UNCHANGED <<BC, IFF1, IFF2, IM, PV, halted>>
    BY <1>6, <1>12 DEF Base
  <2>2. InstrPC' = PC'
    BY <1>7, <2>1 DEF AfterHalt
  <2>3. Instr!Return
    BY <2>1, <2>2 DEF Pop, Instr!Return, Instr!Addr, Addr
  <2>4. Instr!RET(n)
    BY <1>3, <1>7, <1>12, <2>1, <2>3 DEF Instr!RET, Instr!Calm, Quiet
  <2> QED
    BY <2>4
<1>13. CASE op = 255
  <2>1. stack' = Pushed(BaseNext) /\ PC' = RST38 /\ Quiet
        /\ UNCHANGED <<BC, IFF1, IFF2, IM, PV, halted>>
    BY <1>6, <1>13 DEF Base
  <2>2. BaseNext = Instr!Past(n + 1)
    BY <1>5, <1>13 DEF Displaced, Instr!Past, Plus
  <2>3. InstrPC' = RST38
    BY <1>7, <2>1 DEF AfterHalt
  <2>4. Instr!RST(n)
    BY <1>3, <1>7, <1>13, <2>1, <2>2, <2>3, SamePush
       DEF Instr!RST, Instr!Calm, Quiet
  <2> QED
    BY <2>4
<1>14. CASE op \notin {118, 243, 251, 201, 255}
  <2>1. PC' = BaseNext /\ Data(op \in {69, 70, 77}, op = 176) /\ Quiet
        /\ UNCHANGED <<stack, IFF1, IFF2, IM, halted>>
    BY <1>6, <1>14 DEF Base
  <2>2. Instr!Go(IF n > 0 /\ op \in {70, 86, 94} THEN n + 2 ELSE n + 1)
    BY <1>5, <1>7, <1>8, <2>1 DEF AfterHalt, Displaced
  <2>3. op \notin {118, 201, 203, 237, 243, 251, 255}
    BY <1>2, <1>14 DEF CB, ED
  <2>4. Instr!Data(op \in {69, 70, 77}, op = 176)
    BY <2>1 DEF Data, Instr!Data
  <2>5. Instr!Plain(n)
    BY <1>3, <1>7, <2>1, <2>2, <2>3, <2>4 DEF Instr!Plain, Instr!Calm, Quiet
  <2> QED
    BY <2>5
<1> QED
  BY <1>9, <1>10, <1>11, <1>12, <1>13, <1>14

(* An opcode of the ED page, behind n index prefixes and ED. *)
LEMMA ExtendedImplements ==
  ASSUME TypeOK, ~halted, InstrPC \in Addr,
         NEW n \in Nat, mem[Plus(InstrPC, n)] = ED,
         PC = Plus(InstrPC, n + 1),
         AtExtended
  PROVE  \/ Instr!Plain(n) \/ Instr!RETN(n) \/ Instr!LD_A_I(n) \/ Instr!LDIR(n)
         \/ \E m \in 0 .. 2 : Instr!SetIM(n, m)
<1> DEFINE op == mem[PC]
<1>1. InstrPC \in Int /\ n \in Int /\ n + 1 \in Int /\ 1 \in Int /\ -2 \in Int
  BY AddressAssumption DEF Addr
<1>2. Instr!At(n) = 237 /\ Instr!At(n + 1) = op
  BY DEF Instr!At, Plus, ED
<1>3. Plus(PC, 1) = Plus(InstrPC, n + 2)
  <2>1. Plus(PC, 1) = Plus(InstrPC, (n + 1) + 1)
    BY <1>1, PlusPlus, Zenon
  <2>2. (n + 1) + 1 = n + 2
    OBVIOUS
  <2> QED
    BY <2>1, <2>2
<1>4. Extended(op, Plus(PC, 1)) /\ prefix' = 0
  BY DEF AtExtended
<1>5. /\ InstrPC' = AfterHalt'
      /\ InstrShadow' = noint_once'
      /\ InstrLdai' = reset_PV_on_int'
  BY <1>4, AtBoundary
<1>6. \A m : Instr!Go(m) <=> InstrPC' = Plus(InstrPC, m)
  BY DEF Instr!Go, Instr!Past, Plus
<1>7. CASE op \in {69, 77}
  <2>1. IFF1' = IFF2 /\ Pop /\ Quiet
        /\ UNCHANGED <<BC, IFF2, IM, PV, halted>>
    BY <1>4, <1>7 DEF Extended
  <2>2. InstrPC' = PC'
    BY <1>5, <2>1 DEF AfterHalt
  <2>3. Instr!Return
    BY <2>1, <2>2 DEF Pop, Instr!Return, Instr!Addr, Addr
  <2>4. Instr!RETN(n)
    BY <1>2, <1>5, <1>7, <2>1, <2>3 DEF Instr!RETN, Instr!Calm, Quiet
  <2> QED
    BY <2>4
<1>8. CASE op = 87
  <2>1. PV' = IFF2 /\ PC' = Plus(PC, 1)
        /\ noint_once' = FALSE /\ reset_PV_on_int' = TRUE
        /\ UNCHANGED <<BC, stack, IFF1, IFF2, IM, halted>>
    BY <1>4, <1>8 DEF Extended
  <2>2. Instr!Go(n + 2)
    BY <1>3, <1>5, <1>6, <2>1 DEF AfterHalt
  <2>3. Instr!LD_A_I(n)
    BY <1>2, <1>5, <1>8, <2>1, <2>2 DEF Instr!LD_A_I
  <2> QED
    BY <2>3
<1>9. CASE op \in {70, 86, 94, 118}
  <2>1. IM' = (CASE op = 70 -> 0 [] op \in {86, 118} -> 1 [] op = 94 -> 2)
        /\ PC' = Plus(PC, 1) /\ Quiet
        /\ UNCHANGED <<BC, stack, IFF1, IFF2, PV, halted>>
    BY <1>4, <1>9 DEF Extended
  <2>2. Instr!Go(n + 2)
    BY <1>3, <1>5, <1>6, <2>1 DEF AfterHalt
  <2>3. /\ IM' \in 0 .. 2
        /\ op \in CASE IM' = 0 -> {70} [] IM' = 1 -> {86, 118} [] IM' = 2 -> {94}
    BY <1>9, <2>1
  <2>4. Instr!SetIM(n, IM')
    BY <1>2, <1>5, <2>1, <2>2, <2>3 DEF Instr!SetIM, Instr!Calm, Quiet
  <2> QED
    BY <2>3, <2>4
<1>10. CASE op = 176
  <2>1. BC' = (BC - 1) % BCTop
        /\ PC' = (IF BC' # 0 THEN Plus(Plus(PC, 1), -2) ELSE Plus(PC, 1))
        /\ PV' = (BC' # 0) /\ Quiet
        /\ UNCHANGED <<stack, IFF1, IFF2, IM, halted>>
    BY <1>4, <1>10 DEF Extended
  <2>2. Plus(Plus(PC, 1), -2) = Plus(InstrPC, n)
    <3>1. n + 2 \in Int /\ (n + 2) + (-2) = n
      OBVIOUS
    <3>2. Plus(Plus(InstrPC, n + 2), -2) = Plus(InstrPC, (n + 2) + (-2))
      BY <1>1, <3>1, PlusPlus, Zenon
    <3> QED
      BY <1>3, <3>1, <3>2
  <2>3. Instr!Go(IF BC' = 0 THEN n + 2 ELSE n)
    BY <1>3, <1>5, <1>6, <2>1, <2>2 DEF AfterHalt
  <2>4. Instr!LDIR(n)
    BY <1>2, <1>5, <1>10, <2>1, <2>3 DEF Instr!LDIR, Instr!Calm, Quiet
  <2> QED
    BY <2>4
<1>11. CASE op \notin {69, 70, 77, 86, 87, 94, 118, 176}
  <2>1. PC' = Plus(PC, 1) /\ Quiet
        /\ UNCHANGED <<BC, stack, IFF1, IFF2, IM, PV, halted>>
    BY <1>4, <1>11 DEF Extended
  <2>2. Instr!Go(n + 2)
    BY <1>3, <1>5, <1>6, <2>1 DEF AfterHalt
  <2>3. Instr!Plain(n)
    BY <1>2, <1>5, <1>11, <2>1, <2>2 DEF Instr!Plain, Instr!Calm, Quiet
  <2> QED
    BY <2>3
<1> QED
  BY <1>7, <1>8, <1>9, <1>10, <1>11

(* A CB opcode, with or without n index prefixes. *)
LEMMA BitsImplements ==
  ASSUME TypeOK, ~halted, InstrPC \in Addr,
         NEW n \in Nat, mem[Plus(InstrPC, n)] = CB,
         \/ n = 0 /\ PC = Plus(InstrPC, 1) /\ prefix = CB
         \/ n > 0 /\ PC = Plus(InstrPC, n) /\ prefix \in Index,
         AtBits
  PROVE  Instr!Plain(n)
<1>1. InstrPC \in Int /\ n \in Int /\ 1 \in Int /\ 2 \in Int /\ 3 \in Int
  BY AddressAssumption DEF Addr
<1>2. Instr!At(n) = 203
  BY DEF Instr!At, Plus, CB
<1>3. InstrPC' = PC' /\ InstrShadow' = FALSE /\ InstrLdai' = FALSE
  BY AtBoundary DEF AtBits, Bits, AfterHalt, Quiet
<1>4. PC' = Plus(InstrPC, IF n = 0 THEN 2 ELSE n + 3)
  <2>1. CASE n = 0
    <3>1. Plus(Plus(InstrPC, 1), 1) = Plus(InstrPC, 1 + 1)
      BY <1>1, PlusPlus, Zenon
    <3> QED
      BY <2>1, <3>1 DEF AtBits, Index, CB, DD, FD
  <2>2. CASE n > 0
    <3>1. Plus(Plus(InstrPC, n), 3) = Plus(InstrPC, n + 3)
      BY <1>1, PlusPlus, Zenon
    <3> QED
      BY <2>2, <3>1 DEF AtBits, Index, CB, DD, FD
  <2> QED
    BY <2>1, <2>2
<1> DEFINE op == mem[Plus(InstrPC, IF n = 0 THEN 1 ELSE n + 2)]
<1>5. Bits(op)
  <2>1. CASE n = 0
    BY <2>1 DEF AtBits, Index, CB, DD, FD
  <2>2. CASE n > 0
    <3>1. Plus(Plus(InstrPC, n), 2) = Plus(InstrPC, n + 2)
      BY <1>1, PlusPlus, Zenon
    <3> QED
      BY <2>2, <3>1 DEF AtBits, Index, CB, DD, FD
  <2> QED
    BY <2>1, <2>2
<1>6. op = Instr!At(IF n = 0 THEN 1 ELSE n + 2)
  BY DEF Instr!At, Plus
<1>7. Instr!Data(op \in {0, 176, 201}, op < 128)
  BY <1>5 DEF Bits, Data, Instr!Data
<1>8. Instr!Go(IF n = 0 THEN 2 ELSE n + 3)
  BY <1>3, <1>4 DEF Instr!Go, Instr!Past, Plus
<1>9. Instr!Calm /\ UNCHANGED <<stack, IFF1, IFF2, IM, halted>>
  BY <1>3, <1>5 DEF Bits, Instr!Calm
<1> QED
  BY <1>2, <1>6, <1>7, <1>8, <1>9 DEF Instr!Plain

(* Executing an opcode ends one instruction of the programmer's; a halted  *)
(* core waits.                                                             *)
LEMMA OpcodeImplements ==
  ASSUME IInv, Step, AtBase \/ AtExtended \/ AtBits
  PROVE  Instr!Instruction \/ Instr!Wait
<1>1. TypeOK /\ HaltStands /\ mem' = mem /\ PC \in Addr
  BY StepCases DEF IInv, Flags, TypeOK
<1>2. CASE halted
  <2>1. mem[PC] = 118 /\ prefix = 0
    BY <1>1, <1>2 DEF HaltStands
  <2>2. AtBase
    BY <2>1 DEF AtExtended, AtBits, Index, CB, DD, ED, FD
  <2>3. /\ PC' = Plus(Plus(PC, 1), -1) /\ halted' = TRUE /\ Quiet
        /\ UNCHANGED <<BC, stack, IFF1, IFF2, IM, PV>>
    BY <2>1, <2>2 DEF AtBase, BaseNext, Displaced, Base
  <2>4. PC' = PC
    <3>1. PC \in Int /\ 1 \in Int /\ -1 \in Int /\ 1 + (-1) = 0
      BY <1>1, AddressAssumption DEF Addr
    <3>2. Plus(Plus(PC, 1), -1) = Plus(PC, 1 + (-1))
      BY <3>1, PlusPlus, Zenon
    <3> QED
      BY <1>1, <2>3, <3>1, <3>2, PlusZero
  <2>5. InstrPC' = InstrPC
    BY <1>2, <2>1, <2>2, <2>3, <2>4 DEF AtBase, InstrPC, AfterHalt
  <2>6. InstrShadow' = FALSE /\ InstrLdai' = FALSE
    BY <2>2, <2>3, AtBoundary DEF AtBase, Quiet
  <2>7. halted' = halted
    BY <1>1, <1>2, <2>3 DEF TypeOK
  <2> QED
    BY <1>1, <1>2, <2>3, <2>5, <2>6, <2>7 DEF Instr!Wait, Instr!Calm
<1>3. CASE ~halted
  <2>1. InstrPC \in Addr /\ InstrPC \in Int
    BY <1>3, Located, AddressAssumption DEF Addr
  <2>2. PICK n \in Nat :
              /\ \A k \in 0 .. n - 1 : mem[Plus(InstrPC, k)] \in Index
              /\ prefix = 0 => n = 0 /\ PC = InstrPC
              /\ prefix \in Index => n > 0 /\ PC = Plus(InstrPC, n)
              /\ prefix = ED => /\ mem[Plus(InstrPC, n)] = ED
                               /\ PC = Plus(InstrPC, n + 1)
              /\ prefix = CB => /\ n = 0 /\ mem[InstrPC] = CB
                               /\ PC = Plus(InstrPC, 1)
    BY <1>3, Located
  <2>3. ASSUME mem[Plus(InstrPC, n)] \notin Index
        PROVE  n \in 0 .. Top /\ Instr!Indexed(n)
    <3>1. n \in 0 .. Top
      BY <2>1, <2>2, <2>3, RunBound
    <3> QED
      BY <2>2, <2>3, <3>1 DEF Instr!Indexed, Instr!At, Plus, Index, DD, FD
  <2>4. CASE AtBase
    <3>1. (n = 0 <=> prefix = 0) /\ PC = Plus(InstrPC, n)
      BY <2>1, <2>2, <2>4, PlusZero DEF AtBase, Index, DD, FD
    <3>2. mem[Plus(InstrPC, n)] \notin Index
      BY <2>4, <3>1 DEF AtBase, Index
    <3>3. \/ Instr!Plain(n) \/ Instr!HALT(n) \/ Instr!EI(n) \/ Instr!DI(n)
          \/ Instr!RET(n) \/ Instr!RST(n)
      BY <1>1, <1>3, <2>1, <2>4, <3>1, BaseImplements
    <3> QED
      BY <1>1, <1>3, <2>3, <3>2, <3>3 DEF Instr!Instruction
  <2>5. CASE AtExtended
    <3>1. mem[Plus(InstrPC, n)] = ED /\ PC = Plus(InstrPC, n + 1)
      BY <2>2, <2>5 DEF AtExtended
    <3>2. \/ Instr!Plain(n) \/ Instr!RETN(n) \/ Instr!LD_A_I(n) \/ Instr!LDIR(n)
          \/ \E m \in 0 .. 2 : Instr!SetIM(n, m)
      BY <1>1, <1>3, <2>1, <2>5, <3>1, ExtendedImplements
    <3>3. mem[Plus(InstrPC, n)] \notin Index
      BY <3>1 DEF Index, DD, ED, FD
    <3> QED
      BY <1>1, <1>3, <2>3, <3>2, <3>3 DEF Instr!Instruction
  <2>6. CASE AtBits
    <3>1. /\ mem[Plus(InstrPC, n)] = CB
          /\ \/ n = 0 /\ PC = Plus(InstrPC, 1) /\ prefix = CB
             \/ n > 0 /\ PC = Plus(InstrPC, n) /\ prefix \in Index
      BY <2>1, <2>2, <2>6, PlusZero DEF AtBits
    <3>2. Instr!Plain(n)
      BY <1>1, <1>3, <2>1, <2>6, <3>1, BitsImplements
    <3>3. mem[Plus(InstrPC, n)] \notin Index
      BY <3>1 DEF Index, CB, DD, FD
    <3> QED
      BY <1>1, <1>3, <2>3, <3>2, <3>3 DEF Instr!Instruction
  <2> QED
    BY <2>4, <2>5, <2>6
<1> QED
  BY <1>2, <1>3

(* Taking a prefix changes nothing the programmer sees. *)
LEMMA PrefixImplements ==
  ASSUME IInv, Step, AtPrefix
  PROVE  UNCHANGED Instr!vars
<1>1. TypeOK /\ HaltStands /\ Tracks /\ mem' = mem
  BY StepCases DEF IInv, Flags
<1>2. prefix' = mem[PC] /\ prefix' \in {CB, DD, ED, FD} /\ prefix' # 0
      /\ UNCHANGED <<BC, stack, IFF1, IFF2, IM, PV, halted>>
  BY DEF AtPrefix, TakePrefix, CB, DD, ED, FD
<1>3. start' = start
  BY <1>2, StepCases
<1>4. InstrPC' = start.pc /\ InstrShadow' = start.noint_once
      /\ InstrLdai' = start.ldai
  BY <1>2, <1>3 DEF InstrPC, InstrShadow, InstrLdai
<1>5. InstrPC = start.pc /\ InstrShadow = start.noint_once
      /\ InstrLdai = start.ldai
  <2>1. CASE prefix = 0
    <3>1. ~halted
      BY <1>1, <1>2 DEF HaltStands, CB, DD, ED, FD
    <3> QED
      BY <1>1, <2>1, <3>1
         DEF Tracks, Boundary, InstrPC, InstrShadow, InstrLdai, AfterHalt
  <2>2. CASE prefix # 0
    BY <2>2 DEF InstrPC, InstrShadow, InstrLdai
  <2> QED
    BY <2>1, <2>2
<1> QED
  BY <1>1, <1>2, <1>4, <1>5 DEF Instr!vars

(* An interrupt is one of the programmer's. *)
LEMMA InterruptImplements ==
  ASSUME IInv, z80ex_nmi \/ z80ex_int
  PROVE  Instr!NMI \/ Instr!INT
<1>1. prefix = 0 /\ prefix' = 0 /\ halted' = FALSE /\ noint_once = FALSE
  BY DEF IInv, Flags, TypeOK, z80ex_nmi, z80ex_int, Accepts, Wake
<1>2. /\ InstrPC = AfterHalt
      /\ InstrShadow = noint_once
      /\ InstrLdai = reset_PV_on_int
  BY <1>1 DEF InstrPC, InstrShadow, InstrLdai
<1>3. /\ InstrPC' = PC'
      /\ InstrShadow' = noint_once'
      /\ InstrLdai' = reset_PV_on_int'
  BY <1>1, AtBoundary DEF AfterHalt
<1>4. CASE z80ex_nmi
  BY <1>1, <1>2, <1>3, <1>4, SamePush
     DEF z80ex_nmi, Instr!NMI, Instr!Interrupt
<1>5. CASE z80ex_int
  BY <1>1, <1>2, <1>3, <1>5, SamePush
     DEF z80ex_int, Enable, Instr!INT, Instr!Interrupt
<1> QED
  BY <1>4, <1>5

(***************************************************************************)
(* Stepping by bytes implements stepping by instructions, for every        *)
(* memory, every program over the modelled opcodes and every placement of  *)
(* interrupts: no instruction is split, none is taken right after EI, and  *)
(* every return address is that of the next instruction.                   *)
(***************************************************************************)
THEOREM Implementation == Spec => ImplementsInstr
<1>1. Init => Instr!Init
  BY DEF Init, Instr!Init, InstrPC, InstrShadow, InstrLdai, AfterHalt
<1>2. IInv /\ [Next]_vars => [Instr!Next]_Instr!vars
  <2> SUFFICES ASSUME IInv, [Next]_vars
               PROVE  Instr!Next \/ UNCHANGED Instr!vars
    OBVIOUS
  <2>1. CASE Step
    BY <2>1, StepCases, PrefixImplements, OpcodeImplements DEF Instr!Next
  <2>2. CASE z80ex_nmi \/ z80ex_int
    BY <2>2, InterruptImplements DEF Instr!Next
  <2>3. CASE UNCHANGED vars
    BY <2>3 DEF vars, Instr!vars, InstrPC, InstrShadow, InstrLdai, AfterHalt
  <2> QED
    BY <2>1, <2>2, <2>3 DEF Next
<1> QED
  BY <1>1, <1>2, Invariance, PTL DEF Spec, ImplementsInstr, Instr!Spec
=============================================================================
