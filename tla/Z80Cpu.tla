------------------------------- MODULE Z80Cpu -------------------------------
(***************************************************************************)
(* The Z80 core: z80ex_step on the opcode pages of z80ex/opcodes_*.c, with *)
(* registers, flags, memory and ports, and the interrupts the embedding    *)
(* program may raise between two steps.  One action is one instruction's   *)
(* function on one page; a prefix byte is a step of its own.  The flags 3  *)
(* and 5, MEMPTR and T-states are left out.                                *)
(***************************************************************************)
EXTENDS Z80Alu

CONSTANTS
  Top,         \* bytes of memory: 65536; addresses wrap to it
  Program,     \* the memories to run: a set of functions on 0 .. Top - 1
  Requests(_)  \* bound: the interrupts that come while a memory runs

ASSUME MemoryAssumption ==
  /\ Top \in Nat /\ Top > 0
  /\ Program \subseteq [0 .. Top - 1 -> Byte]

ASSUME RequestsAssumption ==
  \A m \in Program : Requests(m) \in [{"INT", "NMI"} -> Nat]

VARIABLES
  r,         \* the registers, PC and SP
  F,         \* the flags
  alt,       \* AF' BC' DE' HL'
  mem,
  prefix,    \* 0, or the prefix byte last executed
  halted,
  ctl,       \* flip-flops, interrupt mode, I, R and R7, one-shot flags
  requests,  \* the interrupts still to come, by kind
  sent,      \* history: what was written to ports
  loaded     \* history: the memory at the start

vars == <<r, F, alt, mem, prefix, halted, ctl, requests, sent, loaded>>

Half == {"A", "B", "C", "D", "E", "H", "L"}
Register == Half \cup {"IXH", "IXL", "IYH", "IYL"}

(* Of the word R the seven lower bits are all that is ever read. *)
z80ex_reset ==
  /\ r = [n \in Register \cup {"PC", "SP"} |->
            CASE n = "PC" -> 0 [] n = "SP" -> 65535 [] OTHER -> 255]
  /\ F = Flag
  /\ alt = [n \in Half \cup {"F"} |-> IF n = "F" THEN Flag ELSE 255]
  /\ prefix = 0
  /\ halted = FALSE
  /\ ctl = [IFF1 |-> FALSE, IFF2 |-> FALSE, IM |-> 0, I |-> 0, R |-> 0, R7 |-> 0,
            noint_once |-> FALSE, reset_PV_on_int |-> FALSE]

Init ==
  /\ mem \in Program /\ loaded = mem
  /\ z80ex_reset
  /\ requests = Requests(mem) /\ sent = <<>>

-----------------------------------------------------------------------------
(* Memory and operand bytes. *)

Wrapped(w) == w % 65536
Read(a) == mem[a % Top]
Word16(a) == Read(a) + 256 * Read(Wrapped(a + 1))
op == Read(r.PC)
Next8(n) == Read(Wrapped(r.PC + n))
Next16(n) == Word16(Wrapped(r.PC + n))
Signed(b) == IF b < 128 THEN b ELSE b - 256

(* The fields of an opcode: xx yyy zzz, where yyy is pp q. *)
y == (op \div 8) % 8
z == op % 8

(* The opcodes with a function of their own on the pages DD and FD: those  *)
(* with HL, H, L or (HL), but for EX DE,HL and EXX.  All others are found  *)
(* on the base page.                                                       *)
OwnIndexed ==
  {\h09, \h19, \h29, \h39, \h34, \h35, \h36} \cup \h21 .. \h26 \cup \h2A .. \h2E
  \cup {8 * d + s : d \in 8 .. 13 \cup {15}, s \in 4 .. 6}
  \cup \h60 .. \h6F \cup (\h70 .. \h77 \ {\h76})
  \cup {8 * d + s : d \in 16 .. 23, s \in 4 .. 6}
  \cup {\hE1, \hE3, \hE5, \hE9, \hF9}

(* The pair that HL stands for. *)
OwnDDCB == prefix \in {\hDD, \hFD} /\ op = \hCB
ix == IF prefix = \hDD /\ (op \in OwnIndexed \/ OwnDDCB) THEN "IX"
      ELSE IF prefix = \hFD /\ (op \in OwnIndexed \/ OwnDDCB) THEN "IY" ELSE "HL"

Halves ==
  [BC |-> <<"B", "C">>, DE |-> <<"D", "E">>, HL |-> <<"H", "L">>,
   IX |-> <<"IXH", "IXL">>, IY |-> <<"IYH", "IYL">>]
Pair(p) == IF p = "SP" THEN r.SP ELSE 256 * r[Halves[p][1]] + r[Halves[p][2]]
WithPair(regs, p, w) ==
  IF p = "SP" THEN [regs EXCEPT !.SP = w]
  ELSE [regs EXCEPT ![Halves[p][1]] = w \div 256, ![Halves[p][2]] = w % 256]
RP == <<"BC", "DE", ix, "SP">>[1 + y \div 2]

(* A register by its number; plain: H and L even under an index prefix.    *)
Plain(n) == <<"B", "C", "D", "E", "H", "L", "(HL)", "A">>[n + 1]
Named(n) == IF n \in {4, 5} THEN Halves[ix][n - 3] ELSE Plain(n)

(* (HL), or (IX+d) with its displacement behind the opcode. *)
M == IF ix = "HL" THEN Pair("HL") ELSE Wrapped(Pair(ix) + Signed(Next8(1)))
Displacement == IF ix = "HL" THEN 0 ELSE 1
Source(n) == IF n = 6 THEN Read(M) ELSE r[Named(n)]
SizeOf(n) == IF n = 6 THEN 1 + Displacement ELSE 1

-----------------------------------------------------------------------------
(* What a step changes. *)
After(n) == [r EXCEPT !.PC = Wrapped(@ + n)]
Jumped(a) == [r EXCEPT !.PC = a]

Base(codes) == prefix \in {0, \hDD, \hFD} /\ op \in codes
CB(row) == prefix = \hCB /\ op \div 8 = row
ED(codes) == prefix = \hED /\ op \in codes

(* z80ex_step's beginning: R counts the opcode fetches, the one-shot flags *)
(* last for one step.  Mutant: it counts instructions.                     *)
Stepped_whole ==
  [ctl EXCEPT !.R = IF prefix = 0 THEN (@ + 1) % 128 ELSE @,
              !.noint_once = FALSE, !.reset_PV_on_int = FALSE]
Stepped ==
  [ctl EXCEPT !.R = (@ + 1) % 128,
              !.noint_once = FALSE, !.reset_PV_on_int = FALSE]

Rest == prefix' = 0 /\ UNCHANGED <<halted, requests, loaded>>
Done == ctl' = Stepped /\ UNCHANGED sent /\ Rest
To(regs, flags) == r' = regs /\ F' = flags /\ UNCHANGED <<alt, mem>> /\ Done
Store(regs, flags, a, v) ==
  r' = regs /\ F' = flags /\ mem' = [mem EXCEPT ![a % Top] = v]
  /\ UNCHANGED alt /\ Done
(* Mutant: the upper byte first. *)
Store16_swapped(regs, flags, a, w) ==
  /\ r' = regs /\ F' = flags
  /\ mem' = [mem EXCEPT ![a % Top] = w \div 256, ![Wrapped(a + 1) % Top] = w % 256]
  /\ UNCHANGED alt /\ Done
Store16(regs, flags, a, w) ==
  /\ r' = regs /\ F' = flags
  /\ mem' = [mem EXCEPT ![a % Top] = w % 256, ![Wrapped(a + 1) % Top] = w \div 256]
  /\ UNCHANGED alt /\ Done

(* Operand n becomes res.v. *)
Update(n, size, res) ==
  IF n = 6 THEN Store(After(size), res.f, M, res.v)
           ELSE To([After(size) EXCEPT ![Named(n)] = res.v], res.f)
Accumulate(size, res) == To([After(size) EXCEPT !.A = res.v], res.f)

(* NZ Z NC C PO PE P M *)
Condition(n) == (<<"Z", "C", "P", "S">>[1 + n \div 2] \in F) <=> (n % 2 = 1)

-----------------------------------------------------------------------------
(* The base page, 00 to 3F, and its mirrors under DD and FD. *)
NOP == Base({0}) /\ To(After(1), F)
LD_rp_nn == Base({\h01, \h11, \h21, \h31}) /\ To(WithPair(After(3), RP, Next16(1)), F)
LD_rp_A == Base({\h02, \h12}) /\ Store(After(1), F, Pair(RP), r.A)
LD_A_rp == Base({\h0A, \h1A}) /\ To([After(1) EXCEPT !.A = Read(Pair(RP))], F)
LD_nn_HL == Base({\h22}) /\ Store16(After(3), F, Next16(1), Pair(ix))
LD_HL_nn == Base({\h2A}) /\ To(WithPair(After(3), ix, Word16(Next16(1))), F)
LD_nn_A == Base({\h32}) /\ Store(After(3), F, Next16(1), r.A)
LD_A_nn == Base({\h3A}) /\ To([After(3) EXCEPT !.A = Read(Next16(1))], F)
INC16 == /\ Base({\h03, \h13, \h23, \h33})
         /\ To(WithPair(After(1), RP, Wrapped(Pair(RP) + 1)), F)
DEC16 == /\ Base({\h0B, \h1B, \h2B, \h3B})
         /\ To(WithPair(After(1), RP, Wrapped(Pair(RP) - 1)), F)
ADD_HL == /\ Base({\h09, \h19, \h29, \h39})
          /\ LET sum == ADD16(Pair(ix), Pair(RP), F)
             IN  To(WithPair(After(1), ix, sum.v), sum.f)
INC_r == Base({8 * k + 4 : k \in 0 .. 7}) /\ Update(y, SizeOf(y), INC(Source(y), F))
DEC_r == Base({8 * k + 5 : k \in 0 .. 7}) /\ Update(y, SizeOf(y), DEC(Source(y), F))
LD_r_n == /\ Base({8 * k + 6 : k \in 0 .. 7})
          /\ Update(y, 1 + SizeOf(y), [v |-> Next8(SizeOf(y)), f |-> F])
RotateA == /\ Base({\h07, \h0F, \h17, \h1F})
           /\ Accumulate(1, Rotated(CASE y = 0 -> RLC(r.A, F) [] y = 1 -> RRC(r.A, F)
                                      [] y = 2 -> RL(r.A, F) [] y = 3 -> RR(r.A, F), F))
DAA_A == Base({\h27}) /\ Accumulate(1, DAA(r.A, F))
CPL_A == Base({\h2F}) /\ Accumulate(1, CPL(r.A, F))
SetCarry == Base({\h37, \h3F}) /\ To(After(1), IF op = \h37 THEN SCF(F) ELSE CCF(F))
EX_AF == /\ Base({\h08})
         /\ r' = [After(1) EXCEPT !.A = alt.A] /\ F' = alt.F
         /\ alt' = [alt EXCEPT !.A = r.A, !.F = F]
         /\ UNCHANGED mem /\ Done
Relative == Wrapped(r.PC + 2 + Signed(Next8(1)))

DJNZ == /\ Base({\h10})
        /\ LET b == (r.B - 1) % 256
           IN  To([(IF b # 0 THEN Jumped(Relative) ELSE After(2)) EXCEPT !.B = b], F)
JR == /\ Base({\h18, \h20, \h28, \h30, \h38})
      /\ To(IF op = \h18 \/ Condition(y - 4) THEN Jumped(Relative) ELSE After(2), F)

(* 40 to BF *)
LD_r_r == /\ Base(\h40 .. \h7F) /\ y # 6 /\ z # 6
          /\ To([After(1) EXCEPT ![Named(y)] = r[Named(z)]], F)

(* Mutant: H and L are those of the index register here as well. *)
LD_r_M_named == /\ Base(\h40 .. \h7F) /\ y # 6 /\ z = 6
                /\ To([After(SizeOf(6)) EXCEPT ![Named(y)] = Read(M)], F)
LD_r_M == /\ Base(\h40 .. \h7F) /\ y # 6 /\ z = 6
          /\ To([After(SizeOf(6)) EXCEPT ![Plain(y)] = Read(M)], F)
LD_M_r == /\ Base(\h40 .. \h7F) /\ y = 6 /\ z # 6
          /\ Store(After(SizeOf(6)), F, M, r[Plain(z)])

(* Mutant: nobody is told. *)
HALT_silent == Base({\h76}) /\ To(r, F)

(* Bound: HALT, on which PC stays, is executed once; again, it would only  *)
(* count R.                                                                *)
HALT == /\ Base({\h76}) /\ ~halted
        /\ halted' = TRUE /\ prefix' = 0 /\ ctl' = Stepped
        /\ UNCHANGED <<r, F, alt, mem, requests, sent, loaded>>

(* A row of eight, or the same with the byte behind the opcode. *)
Alu(row) == Base(8 * row .. 8 * row + 7) \/ Base({8 * row + 70})
Operand == IF op < \hC0 THEN Source(z) ELSE Next8(1)
Size == IF op < \hC0 THEN SizeOf(z) ELSE 2
ADD_A == Alu(16) /\ Accumulate(Size, ADD(r.A, Operand))
ADC_A == Alu(17) /\ Accumulate(Size, ADC(r.A, Operand, Carry(F)))
SUB_A == Alu(18) /\ Accumulate(Size, SUB(r.A, Operand))
SBC_A == Alu(19) /\ Accumulate(Size, SBC(r.A, Operand, Carry(F)))
AND_A == Alu(20) /\ Accumulate(Size, AND(r.A, Operand))
XOR_A == Alu(21) /\ Accumulate(Size, XOR(r.A, Operand))
OR_A == Alu(22) /\ Accumulate(Size, OR(r.A, Operand))
CP_A == Alu(23) /\ Accumulate(Size, CP(r.A, Operand))

-----------------------------------------------------------------------------
(* C0 to FF *)

Push(regs, w) == Store16([regs EXCEPT !.SP = Wrapped(@ - 2)], F, Wrapped(r.SP - 2), w)
Popped(regs) == [regs EXCEPT !.SP = Wrapped(@ + 2)]

Bits == [C |-> 1, N |-> 2, P |-> 4, H |-> 16, Z |-> 64, S |-> 128]
FlagsOf(b) == {f \in Flag : (b \div Bits[f]) % 2 = 1}

PUSH == Base({\hC5, \hD5, \hE5}) /\ Push(After(1), Pair(RP))
POP == Base({\hC1, \hD1, \hE1}) /\ To(WithPair(Popped(After(1)), RP, Word16(r.SP)), F)

(* The flags 3 and 5 go to the stack as they happen to be. *)
PUSH_AF ==
  /\ Base({\hF5})
  /\ \E b \in Byte : FlagsOf(b) = F /\ Push(After(1), 256 * r.A + b)
POP_AF ==
  /\ Base({\hF1})
  /\ To([Popped(After(1)) EXCEPT !.A = Read(Wrapped(r.SP + 1))], FlagsOf(Read(r.SP)))

JP == /\ Base({\hC3} \cup {8 * k + \hC2 : k \in 0 .. 7})
      /\ To(IF op = \hC3 \/ Condition(y) THEN Jumped(Next16(1)) ELSE After(3), F)
CALL == /\ Base({\hCD} \cup {8 * k + \hC4 : k \in 0 .. 7})
        /\ IF op = \hCD \/ Condition(y)
           THEN Push(Jumped(Next16(1)), Wrapped(r.PC + 3)) ELSE To(After(3), F)
RET == /\ Base({\hC9} \cup {8 * k + \hC0 : k \in 0 .. 7})
       /\ To(IF op = \hC9 \/ Condition(y) THEN Popped(Jumped(Word16(r.SP)))
                                          ELSE After(1), F)
RST == Base({8 * k + \hC7 : k \in 0 .. 7}) /\ Push(Jumped(8 * y), Wrapped(r.PC + 1))

JP_HL == Base({\hE9}) /\ To(Jumped(Pair(ix)), F)
LD_SP_HL == Base({\hF9}) /\ To(WithPair(After(1), "SP", Pair(ix)), F)
EX_SP_HL == /\ Base({\hE3})
            /\ Store16(WithPair(After(1), ix, Word16(r.SP)), F, r.SP, Pair(ix))
EX_DE_HL == /\ Base({\hEB})
            /\ To(WithPair(WithPair(After(1), "DE", Pair("HL")), "HL", Pair("DE")), F)

(* Mutant: BC is not exchanged. *)
EXX_DE_HL == /\ Base({\hD9})
             /\ r' = [n \in DOMAIN r |-> IF n \in {"D", "E", "H", "L"} THEN alt[n]
                                        ELSE After(1)[n]]
             /\ alt' = [n \in DOMAIN alt |-> IF n \in {"D", "E", "H", "L"} THEN r[n]
                                            ELSE alt[n]]
             /\ UNCHANGED <<F, mem>> /\ Done
EXX == /\ Base({\hD9})
       /\ r' = [n \in DOMAIN r |-> IF n \in Half \ {"A"} THEN alt[n] ELSE After(1)[n]]
       /\ alt' = [n \in DOMAIN alt |-> IF n \in Half \ {"A"} THEN r[n] ELSE alt[n]]
       /\ UNCHANGED <<F, mem>> /\ Done

-----------------------------------------------------------------------------
(* The page CB, *)
RLC_r == CB(0) /\ Update(z, 1, RLC(Source(z), F))
RRC_r == CB(1) /\ Update(z, 1, RRC(Source(z), F))
RL_r == CB(2) /\ Update(z, 1, RL(Source(z), F))
RR_r == CB(3) /\ Update(z, 1, RR(Source(z), F))
SLA_r == CB(4) /\ Update(z, 1, SLA(Source(z), F))
SRA_r == CB(5) /\ Update(z, 1, SRA(Source(z), F))
SLL_r == CB(6) /\ Update(z, 1, SLL(Source(z), F))
SRL_r == CB(7) /\ Update(z, 1, SRL(Source(z), F))
BIT_r == /\ prefix = \hCB /\ op \in \h40 .. \h7F
         /\ To(After(1), BIT(y, Source(z), F))
RES_r == /\ prefix = \hCB /\ op \in \h80 .. \hBF
         /\ Update(z, 1, [v |-> RES(y, Source(z)), f |-> F])
SET_r == /\ prefix = \hCB /\ op \in \hC0 .. \hFF
         /\ Update(z, 1, [v |-> SET(y, Source(z)), f |-> F])

(* and its counterparts DDCB and FDCB: displacement, opcode; a copy of the *)
(* result goes to a register.                                              *)
Indexed(codes) == OwnDDCB /\ Next8(2) \in codes
Number == (Next8(2) \div 8) % 8
Copied(res) ==
  LET n == Next8(2) % 8
  IN  Store(IF n = 6 THEN After(3) ELSE [After(3) EXCEPT ![Plain(n)] = res.v],
            res.f, M, res.v)
RLC_d == Indexed(\h00 .. \h07) /\ Copied(RLC(Read(M), F))
RRC_d == Indexed(\h08 .. \h0F) /\ Copied(RRC(Read(M), F))
RL_d == Indexed(\h10 .. \h17) /\ Copied(RL(Read(M), F))
RR_d == Indexed(\h18 .. \h1F) /\ Copied(RR(Read(M), F))
SLA_d == Indexed(\h20 .. \h27) /\ Copied(SLA(Read(M), F))
SRA_d == Indexed(\h28 .. \h2F) /\ Copied(SRA(Read(M), F))
SLL_d == Indexed(\h30 .. \h37) /\ Copied(SLL(Read(M), F))
SRL_d == Indexed(\h38 .. \h3F) /\ Copied(SRL(Read(M), F))
BIT_d == Indexed(\h40 .. \h7F) /\ To(After(3), BIT(Number, Read(M), F))
RES_d == Indexed(\h80 .. \hBF) /\ Copied([v |-> RES(Number, Read(M)), f |-> F])
SET_d == Indexed(\hC0 .. \hFF) /\ Copied([v |-> SET(Number, Read(M)), f |-> F])

-----------------------------------------------------------------------------
(* The page ED. *)
SBC_HL == /\ ED({\h42, \h52, \h62, \h72})
          /\ LET d == SBC16(Pair("HL"), Pair(RP), F)
             IN  To(WithPair(After(1), "HL", d.v), d.f)
ADC_HL == /\ ED({\h4A, \h5A, \h6A, \h7A})
          /\ LET s == ADC16(Pair("HL"), Pair(RP), F)
             IN  To(WithPair(After(1), "HL", s.v), s.f)
LD_nn_rp == ED({\h43, \h53, \h63, \h73}) /\ Store16(After(3), F, Next16(1), Pair(RP))
LD_rp_mm == /\ ED({\h4B, \h5B, \h6B, \h7B})
            /\ To(WithPair(After(3), RP, Word16(Next16(1))), F)
NEG_A == ED({8 * k + 4 : k \in 8 .. 15}) /\ Accumulate(1, NEG(r.A))

(* A digit moves between A and (HL). *)
Digits(a, b) ==
  Store([After(1) EXCEPT !.A = a], (F \cap {"C"}) \cup szp(a), Pair("HL"), b)
High(b) == b \div 16
Low(b) == b % 16
RRD == /\ ED({\h67})
       /\ LET b == Read(Pair("HL"))
          IN  Digits(16 * High(r.A) + Low(b), 16 * Low(r.A) + High(b))
RLD == /\ ED({\h6F})
       /\ LET b == Read(Pair("HL"))
          IN  Digits(16 * High(r.A) + High(b), 16 * Low(b) + Low(r.A))

(* Block instructions; repeated, they step PC back over themselves. *)
Moved(regs, p, n) == WithPair(regs, p, Wrapped(Pair(p) + n))

(* Mutant: DE goes up whatever the direction. *)
Copy_up(step, repeated) ==
  LET left == Wrapped(Pair("BC") - 1)
      regs == After(IF repeated /\ left # 0 THEN -1 ELSE 1)
  IN  Store(Moved(Moved(Moved(regs, "HL", step), "DE", 1), "BC", -1),
            (F \cap {"C", "Z", "S"}) \cup On("P", left # 0),
            Pair("DE"), Read(Pair("HL")))
Copy(step, repeated) ==
  LET left == Wrapped(Pair("BC") - 1)
      regs == After(IF repeated /\ left # 0 THEN -1 ELSE 1)
  IN  Store(Moved(Moved(Moved(regs, "HL", step), "DE", step), "BC", -1),
            (F \cap {"C", "Z", "S"}) \cup On("P", left # 0),
            Pair("DE"), Read(Pair("HL")))

(* Mutant: a search goes on past what it looks for. *)
Compare_on(step, repeated) ==
  LET left == Wrapped(Pair("BC") - 1)
      cp == CP(r.A, Read(Pair("HL"))).f
  IN  To(Moved(Moved(After(IF repeated /\ left # 0 THEN -1 ELSE 1),
                     "HL", step), "BC", -1),
         (F \cap {"C"}) \cup (cp \cap {"N", "H", "Z", "S"}) \cup On("P", left # 0))
Compare(step, repeated) ==
  LET left == Wrapped(Pair("BC") - 1)
      cp == CP(r.A, Read(Pair("HL"))).f
      regs == After(IF repeated /\ left # 0 /\ "Z" \notin cp THEN -1 ELSE 1)
  IN  To(Moved(Moved(regs, "HL", step), "BC", -1),
         (F \cap {"C"}) \cup (cp \cap {"N", "H", "Z", "S"}) \cup On("P", left # 0))

LDI == ED({\hA0}) /\ Copy(1, FALSE)
LDD == ED({\hA8}) /\ Copy(-1, FALSE)
LDIR == ED({\hB0}) /\ Copy(1, TRUE)
LDDR == ED({\hB8}) /\ Copy(-1, TRUE)
CPI == ED({\hA1}) /\ Compare(1, FALSE)
CPD == ED({\hA9}) /\ Compare(-1, FALSE)
CPIR == ED({\hB1}) /\ Compare(1, TRUE)
CPDR == ED({\hB9}) /\ Compare(-1, TRUE)

(***************************************************************************)
(* Ports (hardware.c): every one reads 0xFF, what is written goes nowhere. *)
(***************************************************************************)
z80ex_pread_cb(port) == 255
Send(regs, flags, port, v) ==
  /\ r' = regs /\ F' = flags
  /\ sent' = Append(sent, <<port, v>>)
  /\ ctl' = Stepped
  /\ UNCHANGED <<alt, mem>> /\ Rest

IN_A_n == /\ Base({\hDB})
          /\ To([After(2) EXCEPT !.A = z80ex_pread_cb(256 * r.A + Next8(1))], F)
OUT_n_A == Base({\hD3}) /\ Send(After(2), F, 256 * r.A + Next8(1), r.A)
IN_r_C ==
  /\ ED({8 * k + \h40 : k \in 0 .. 7})
  /\ LET v == z80ex_pread_cb(Pair("BC"))
     IN  To(IF y = 6 THEN After(1) ELSE [After(1) EXCEPT ![Plain(y)] = v],
            (F \cap {"C"}) \cup szp(v))
OUT_C_r == /\ ED({8 * k + \h41 : k \in 0 .. 7})
           /\ Send(After(1), F, Pair("BC"), IF y = 6 THEN 0 ELSE r[Plain(y)])

(* The flags of the block forms: k is L, or C and the step. *)
PortFlags(v, b, k) ==
  On("N", v >= 128) \cup sz(b)
    \cup (IF v + k > 255 THEN {"C", "H"} ELSE {})
    \cup parity(XOR((v + k) % 8, b).v)

InBlock(step, repeated) ==
  LET v == z80ex_pread_cb(Pair("BC"))
      b == (r.B - 1) % 256
      regs == [After(IF repeated /\ b # 0 THEN -1 ELSE 1) EXCEPT !.B = b]
  IN  Store(Moved(regs, "HL", step), PortFlags(v, b, (r.C + step) % 256),
            Pair("HL"), v)

(* B counts before the port is written, and is its upper half.  Mutant: it *)
(* counts afterwards.                                                      *)
OutBlock_early(step, repeated) ==
  LET v == Read(Pair("HL"))
      b == (r.B - 1) % 256
      regs == [After(IF repeated /\ b # 0 THEN -1 ELSE 1) EXCEPT !.B = b]
  IN  Send(Moved(regs, "HL", step), PortFlags(v, b, (r.L + step) % 256),
           Pair("BC"), v)
OutBlock(step, repeated) ==
  LET v == Read(Pair("HL"))
      b == (r.B - 1) % 256
      regs == [After(IF repeated /\ b # 0 THEN -1 ELSE 1) EXCEPT !.B = b]
  IN  Send(Moved(regs, "HL", step), PortFlags(v, b, (r.L + step) % 256),
           256 * b + r.C, v)

INI == ED({\hA2}) /\ InBlock(1, FALSE)
IND == ED({\hAA}) /\ InBlock(-1, FALSE)
INIR == ED({\hB2}) /\ InBlock(1, TRUE)
INDR == ED({\hBA}) /\ InBlock(-1, TRUE)
OUTI == ED({\hA3}) /\ OutBlock(1, FALSE)
OUTD == ED({\hAB}) /\ OutBlock(-1, FALSE)
OTIR == ED({\hB3}) /\ OutBlock(1, TRUE)
OTDR == ED({\hBB}) /\ OutBlock(-1, TRUE)

-----------------------------------------------------------------------------
(* Flip-flops, modes, I and R. *)

Control(regs, c) == r' = regs /\ ctl' = c /\ UNCHANGED <<F, alt, mem, sent>> /\ Rest

DI == /\ Base({\hF3})
      /\ Control(After(1), [Stepped EXCEPT !.IFF1 = FALSE, !.IFF2 = FALSE])
EI == /\ Base({\hFB})
      /\ Control(After(1), [Stepped EXCEPT !.IFF1 = TRUE, !.IFF2 = TRUE,
                                           !.noint_once = TRUE])
IM == \/ ED({\h46, \h4E, \h66, \h6E}) /\ Control(After(1), [Stepped EXCEPT !.IM = 0])
      \/ ED({\h56, \h76}) /\ Control(After(1), [Stepped EXCEPT !.IM = 1])
      \/ ED({\h5E, \h7E}) /\ Control(After(1), [Stepped EXCEPT !.IM = 2])

(* Mutant: RETN is a plain return. *)
RETN_plain == /\ ED({8 * k + 5 : k \in 8 .. 15})
              /\ Control(Popped(Jumped(Word16(r.SP))), Stepped)
(* RETN, and RETI, which tells nobody. *)
RETN == /\ ED({8 * k + 5 : k \in 8 .. 15})
        /\ Control(Popped(Jumped(Word16(r.SP))), [Stepped EXCEPT !.IFF1 = ctl.IFF2])

LD_I_A == ED({\h47}) /\ Control(After(1), [Stepped EXCEPT !.I = r.A])
LD_R_A == /\ ED({\h4F})
          /\ Control(After(1), [Stepped EXCEPT !.R = r.A % 128, !.R7 = r.A])

(* P/V shows IFF2, unless an interrupt comes next. *)
LoadA(v) ==
  /\ r' = [After(1) EXCEPT !.A = v]
  /\ F' = (F \cap {"C"}) \cup sz(v) \cup On("P", ctl.IFF2)
  /\ ctl' = [Stepped EXCEPT !.reset_PV_on_int = TRUE]
  /\ UNCHANGED <<alt, mem, sent>> /\ Rest
LD_A_I == ED({\h57}) /\ LoadA(ctl.I)
LD_A_R == ED({\h5F}) /\ LoadA(Stepped.R + 128 * Bit(ctl.R7, 7))

(* All other opcodes of the page, the trapped ones among them.             *)
HaveFunction ==
  (\h40 .. \h7F \ {\h77, \h7F})
    \cup {8 * row + k : row \in 20 .. 23, k \in 0 .. 3}
NOP_ED == ED(Byte \ HaveFunction) /\ To(After(1), F)

(* A prefix byte. *)
Prefix ==
  /\ \/ prefix = 0 /\ op \in {\hCB, \hDD, \hED, \hFD}
     \/ prefix \in {\hDD, \hFD} /\ op \in {\hDD, \hED, \hFD}
  /\ prefix' = op
  /\ r' = After(1)
  /\ ctl' = [Stepped EXCEPT !.noint_once = TRUE]
  /\ UNCHANGED <<F, alt, mem, halted, requests, sent, loaded>>

z80ex_step ==
  \/ Prefix
  \/ NOP \/ LD_rp_nn \/ LD_rp_A \/ LD_A_rp \/ LD_nn_HL \/ LD_HL_nn \/ LD_nn_A
  \/ LD_A_nn \/ INC16 \/ DEC16 \/ ADD_HL \/ INC_r \/ DEC_r \/ LD_r_n \/ RotateA
  \/ DAA_A \/ CPL_A \/ SetCarry \/ EX_AF \/ DJNZ \/ JR
  \/ LD_r_r \/ LD_r_M \/ LD_M_r \/ HALT
  \/ ADD_A \/ ADC_A \/ SUB_A \/ SBC_A \/ AND_A \/ XOR_A \/ OR_A \/ CP_A
  \/ PUSH \/ POP \/ PUSH_AF \/ POP_AF \/ JP \/ CALL \/ RET \/ RST
  \/ JP_HL \/ LD_SP_HL \/ EX_SP_HL \/ EX_DE_HL \/ EXX
  \/ RLC_r \/ RRC_r \/ RL_r \/ RR_r \/ SLA_r \/ SRA_r \/ SLL_r \/ SRL_r
  \/ BIT_r \/ RES_r \/ SET_r
  \/ RLC_d \/ RRC_d \/ RL_d \/ RR_d \/ SLA_d \/ SRA_d \/ SLL_d \/ SRL_d
  \/ BIT_d \/ RES_d \/ SET_d
  \/ SBC_HL \/ ADC_HL \/ LD_nn_rp \/ LD_rp_mm \/ NEG_A \/ RRD \/ RLD
  \/ LDI \/ LDD \/ LDIR \/ LDDR \/ CPI \/ CPD \/ CPIR \/ CPDR
  \/ IN_A_n \/ OUT_n_A \/ IN_r_C \/ OUT_C_r
  \/ INI \/ IND \/ INIR \/ INDR \/ OUTI \/ OUTD \/ OTIR \/ OTDR
  \/ DI \/ EI \/ IM \/ RETN \/ LD_I_A \/ LD_R_A \/ LD_A_I \/ LD_A_R \/ NOP_ED

-----------------------------------------------------------------------------
(* Interrupts: requests that are refused now may come again.               *)

Accepts == ~ctl.noint_once /\ prefix = 0

(* PC steps off the HALT. *)
Resume == IF halted THEN Wrapped(r.PC + 1) ELSE r.PC
Interrupted(kind) ==
  /\ requests[kind] > 0 /\ requests' = [requests EXCEPT ![kind] = @ - 1]
  /\ mem' = [mem EXCEPT ![Wrapped(r.SP - 2) % Top] = Resume % 256,
                        ![Wrapped(r.SP - 1) % Top] = Resume \div 256]
  /\ halted' = FALSE
  /\ UNCHANGED <<alt, prefix, sent, loaded>>
Entering(a) == [Jumped(a) EXCEPT !.SP = Wrapped(@ - 2)]

z80ex_nmi ==
  /\ Accepts
  /\ Interrupted("NMI")
  /\ r' = Entering(\h66)
  /\ ctl' = [ctl EXCEPT !.IFF1 = FALSE, !.R = (@ + 1) % 128]
  /\ UNCHANGED F

(***************************************************************************)
(* Mode 0 executes the byte on the bus, which hardware.c holds at 0xFF:    *)
(* RST 38h, as mode 1 does.  In mode 2 the bus byte and I find the routine *)
(* in memory, which has the pushed PC already.                             *)
(***************************************************************************)
Vector == 256 * ctl.I + 255
z80ex_int ==
  /\ ctl.IFF1 /\ Accepts
  /\ Interrupted("INT")
  /\ r' = Entering(IF ctl.IM = 2
                   THEN mem'[Vector % Top] + 256 * mem'[Wrapped(Vector + 1) % Top]
                   ELSE \h38)
  /\ F' = IF ctl.reset_PV_on_int THEN F \ {"P"} ELSE F
  /\ ctl' = [ctl EXCEPT !.IFF1 = FALSE, !.IFF2 = FALSE, !.R = (@ + 1) % 128,
                        !.reset_PV_on_int = FALSE]

Next == z80ex_step \/ z80ex_nmi \/ z80ex_int

(* main steps the CPU for ever. *)
Spec == Init /\ [][Next]_vars /\ WF_vars(z80ex_step)

-----------------------------------------------------------------------------
(* The types of the variables. *)
TypeOK ==
  /\ \A n \in Register : r[n] \in Byte
  /\ r.PC \in Word /\ r.SP \in Word
  /\ F \subseteq Flag
  /\ alt.F \subseteq Flag /\ \A n \in Half : alt[n] \in Byte
  /\ {mem, loaded} \subseteq [0 .. Top - 1 -> Byte]
  /\ prefix \in {0, \hCB, \hDD, \hED, \hFD}
  /\ halted \in BOOLEAN
  /\ ctl \in [IFF1 : BOOLEAN, IFF2 : BOOLEAN, IM : 0 .. 2, I : Byte, R : 0 .. 127,
              R7 : Byte, noint_once : BOOLEAN, reset_PV_on_int : BOOLEAN]
  /\ requests \in [{"INT", "NMI"} -> Nat]
  /\ sent \in Seq(Word \X Byte)
=============================================================================
