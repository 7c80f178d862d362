------------------------------- MODULE Z80Alu -------------------------------
(***************************************************************************)
(* The arithmetic of the Z80 core: what the instruction macros of          *)
(* z80ex/macros.h and the tables of z80ex/ptables.c compute.  A result is  *)
(* a value v and the set f of the flags that are on, named by the letters  *)
(* of FLAG_C, FLAG_N, FLAG_P (V is the same bit), FLAG_H, FLAG_Z, FLAG_S.  *)
(* The undocumented flags 3 and 5 are left out.                            *)
(***************************************************************************)
EXTENDS Integers, Sequences, FiniteSets

Byte == 0 .. 255
Word == 0 .. 65535
Flag == {"C", "N", "P", "H", "Z", "S"}

Bit(x, k) == (x \div 2^k) % 2
OfBits(b) == b[0] + 2 * b[1] + 4 * b[2] + 8 * b[3]
             + 16 * b[4] + 32 * b[5] + 64 * b[6] + 128 * b[7]
On(flag, holds) == IF holds THEN {flag} ELSE {}

(* The flags that depend on the value alone. *)
parity(v) == On("P", Cardinality({k \in 0 .. 7 : Bit(v, k) = 1}) % 2 = 0)
sz(v) == On("S", v >= 128) \cup On("Z", v = 0)
szp(v) == sz(v) \cup parity(v)

(* Half carry and overflow are read from one bit each of the two operands  *)
(* and of the result.                                                      *)
halfcarry_add == <<0, 1, 1, 1, 0, 0, 0, 1>>
halfcarry_sub == <<0, 0, 1, 0, 1, 0, 1, 1>>
overflow_add == <<0, 0, 0, 1, 1, 0, 0, 0>>
overflow_sub == <<0, 1, 0, 0, 0, 0, 1, 0>>
Lookup(table, a, v, t, k) == table[1 + Bit(a, k) + 2 * Bit(v, k) + 4 * Bit(t, k)] = 1

Carry(F) == IF "C" \in F THEN 1 ELSE 0

-----------------------------------------------------------------------------
(* Eight bits. *)

(* Mutant: the carry is not added. *)
ADC_plain(a, v, c) ==
  LET t == a + v
  IN  [v |-> t % 256,
       f |-> sz(t % 256) \cup On("C", Bit(t, 8) = 1)
             \cup On("H", Lookup(halfcarry_add, a, v, t, 3))
             \cup On("P", Lookup(overflow_add, a, v, t, 7))]

ADC(a, v, c) ==
  LET t == a + v + c
  IN  [v |-> t % 256,
       f |-> sz(t % 256) \cup On("C", Bit(t, 8) = 1)
             \cup On("H", Lookup(halfcarry_add, a, v, t, 3))
             \cup On("P", Lookup(overflow_add, a, v, t, 7))]

(* The difference is a 16-bit word: a borrow shows in its bit 8. *)
SBC(a, v, c) ==
  LET t == (a - v - c) % 65536
  IN  [v |-> t % 256,
       f |-> {"N"} \cup sz(t % 256) \cup On("C", Bit(t, 8) = 1)
             \cup On("H", Lookup(halfcarry_sub, a, v, t, 3))
             \cup On("P", Lookup(overflow_sub, a, v, t, 7))]

ADD(a, v) == ADC(a, v, 0)
SUB(a, v) == SBC(a, v, 0)
NEG(a) == SUB(0, a)

CP(a, v) ==
  LET t == (a - v) % 65536
  IN  [v |-> a,
       f |-> {"N"} \cup On("C", Bit(t, 8) = 1) \cup On("Z", t = 0)
             \cup On("S", Bit(t, 7) = 1)
             \cup On("H", Lookup(halfcarry_sub, a, v, t, 3))
             \cup On("P", Lookup(overflow_sub, a, v, t, 7))]

Logic(a, v, Op(_, _)) == OfBits([k \in 0 .. 7 |-> Op(Bit(a, k), Bit(v, k))])
Result(v, more) == [v |-> v, f |-> szp(v) \cup more]

AND(a, v) == Result(Logic(a, v, LAMBDA x, y : x * y), {"H"})
OR(a, v) == Result(Logic(a, v, LAMBDA x, y : IF x + y > 0 THEN 1 ELSE 0), {})
XOR(a, v) == Result(Logic(a, v, LAMBDA x, y : (x + y) % 2), {})

INC(v, F) ==
  LET t == (v + 1) % 256
  IN  [v |-> t, f |-> (F \cap {"C"}) \cup sz(t) \cup On("P", t = 128)
                      \cup On("H", t % 16 = 0)]

DEC(v, F) ==
  LET t == (v - 1) % 256
  IN  [v |-> t, f |-> (F \cap {"C"}) \cup sz(t) \cup {"N"} \cup On("P", t = 127)
                      \cup On("H", v % 16 = 0)]

-----------------------------------------------------------------------------
(* Rotations and shifts; the bit that leaves is the carry. *)
Out(v, k) == On("C", Bit(v, k) = 1)
Left(v) == (2 * v) % 256

RLC(v, F) == Result(Left(v) + Bit(v, 7), Out(v, 7))
RRC(v, F) == Result(v \div 2 + 128 * Bit(v, 0), Out(v, 0))
RL(v, F) == Result(Left(v) + Carry(F), Out(v, 7))

(* Mutant: the bit that leaves comes in again. *)
RR_own(v, F) == Result(v \div 2 + 128 * Bit(v, 0), Out(v, 0))
RR(v, F) == Result(v \div 2 + 128 * Carry(F), Out(v, 0))
SLA(v, F) == Result(Left(v), Out(v, 7))
SRA(v, F) == Result(v \div 2 + 128 * Bit(v, 7), Out(v, 0))
SLL(v, F) == Result(Left(v) + 1, Out(v, 7))
SRL(v, F) == Result(v \div 2, Out(v, 0))

(* RLCA, RRCA, RLA, RRA: S, Z and P stay. *)
Rotated(res, F) == [v |-> res.v, f |-> (F \cap {"P", "Z", "S"}) \cup (res.f \cap {"C"})]

(* The bit tested alone decides S, Z and P. *)
BIT(b, v, F) == (F \cap {"C"}) \cup {"H"} \cup szp(2^b * Bit(v, b))
SET(b, v) == v + 2^b * (1 - Bit(v, b))
RES(b, v) == v - 2^b * Bit(v, b)

CPL(a, F) == [v |-> 255 - a, f |-> (F \cap {"C", "P", "Z", "S"}) \cup {"N", "H"}]
SCF(F) == (F \cap {"P", "Z", "S"}) \cup {"C"}
CCF(F) == (F \cap {"P", "Z", "S"}) \cup (IF "C" \in F THEN {"H"} ELSE {"C"})

(* The rule that the 2048 entries of daatab follow. *)
DAA(a, F) ==
  LET high == "C" \in F \/ a > 153
      low == "H" \in F \/ a % 16 > 9
      correction == (IF low THEN 6 ELSE 0) + (IF high THEN 96 ELSE 0)
      v == (IF "N" \in F THEN a - correction ELSE a + correction) % 256
  IN  [v |-> v,
       f |-> szp(v) \cup (F \cap {"N"}) \cup On("C", high)
             \cup On("H", IF "N" \in F THEN "H" \in F /\ a % 16 < 6
                                       ELSE a % 16 > 9)]

-----------------------------------------------------------------------------
(* Sixteen bits: half carry out of bit 11, overflow out of bit 15. *)

ADD16(x, y, F) ==
  LET t == x + y
  IN  [v |-> t % 65536,
       f |-> (F \cap {"P", "Z", "S"}) \cup On("C", Bit(t, 16) = 1)
             \cup On("H", Lookup(halfcarry_add, x, y, t, 11))]

Signs16(t) == On("C", Bit(t, 16) = 1) \cup On("S", Bit(t, 15) = 1)
              \cup On("Z", t % 65536 = 0)

ADC16(x, y, F) ==
  LET t == x + y + Carry(F)
  IN  [v |-> t % 65536,
       f |-> Signs16(t) \cup On("H", Lookup(halfcarry_add, x, y, t, 11))
             \cup On("P", Lookup(overflow_add, x, y, t, 15))]

SBC16(x, y, F) ==
  LET t == (x - y - Carry(F)) % 2^17      \* of 32 bits, those that are read
  IN  [v |-> t % 65536,
       f |-> {"N"} \cup Signs16(t)
             \cup On("H", Lookup(halfcarry_sub, x, y, t, 11))
             \cup On("P", Lookup(overflow_sub, x, y, t, 15))]
=============================================================================
