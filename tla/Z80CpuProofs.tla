---------------------------- MODULE Z80CpuProofs ----------------------------
(***************************************************************************)
(* Proofs about the arithmetic and the pages of the Z80 core.              *)
(*                                                                         *)
(* First the ALU, for all operands: additions, subtractions, compares and  *)
(* counting on bytes and words, column by column of their bits, since the  *)
(* flags are looked up from single bits; then DAA, on pairs of digits; the *)
(* shifts and rotations; and the single bits.                              *)
(*                                                                         *)
(* Then the machine: CInv holds between two steps, which types the state   *)
(* and orders the interrupts.  Almost every instruction is one of five     *)
(* shapes (Loads, Stores, Stores16, Sends, Controls), shown page by page,  *)
(* and a step of one of these shapes preserves CInv.  Last, the words that *)
(* calls, pushes and interrupts leave in memory.                           *)
(***************************************************************************)
EXTENDS Z80Cpu, Numbers

-----------------------------------------------------------------------------
(* Bits.  The powers of two that the operators name, ...                   *)
LEMMA Powers ==
  /\ 2^3 = 8 /\ 2^7 = 128 /\ 2^8 = 256 /\ 2^11 = 2048
  /\ 2^15 = 32768 /\ 2^16 = 65536 /\ 2^17 = 131072
  OBVIOUS

(* ... m is the weight of bit k, ...                                       *)
Weight(m, k) == m \in Nat /\ m > 0 /\ m = 2^k

(* ... and bit k is the last of the quotient.                              *)
LEMMA BitAt ==
  ASSUME NEW k, NEW m, Weight(m, k),
         NEW p \in Int, NEW e \in 0 .. m - 1
  PROVE  Bit(m * p + e, k) = p % 2
BY Quotient DEF Bit, Weight

(* A number is cut below its bit k.                                        *)
Splits(x, k, m, p, e) ==
  /\ p \in Int /\ e \in 0 .. m - 1 /\ x = m * p + e
  /\ Bit(x, k) = p % 2 /\ x % (2 * m) = m * (p % 2) + e

(* It can be, and up to bit k it is that bit and the rest.                 *)
LEMMA Columns ==
  ASSUME NEW k, NEW m, Weight(m, k), NEW x \in Int
  PROVE  \E p, e : Splits(x, k, m, p, e)
<1> USE DEF Weight
<1>1. PICK p \in Int, e \in 0 .. m - 1 : x = m * p + e
  BY Division
<1>2. Bit(x, k) = p % 2
  BY <1>1, BitAt
<1>3. p = 2 * (p \div 2) + (p % 2) /\ p \div 2 \in Int /\ p % 2 \in 0 .. 1
  BY Division
<1>4. PICK q \in Int, b \in 0 .. 1 : p = 2 * q + b /\ b = p % 2
  BY <1>3
<1>5. PICK n \in Nat : n = 2 * m /\ n > 0
  OBVIOUS
<1>6. PICK d \in 0 .. n - 1 : d = m * b + e
  BY <1>5
<1>7. x = n * q + d
  BY <1>1, <1>4, <1>5, <1>6
<1>8. x % n = d
  BY <1>5, <1>7, Remainder
<1> QED
  BY <1>1, <1>2, <1>4, <1>5, <1>6, <1>8 DEF Splits

(* What the four tables say of the bits of two operands and a result.      *)
LEMMA Tables ==
  ASSUME NEW a, NEW v, NEW t, NEW k,
         NEW b \in 0 .. 1, NEW d \in 0 .. 1, NEW g \in 0 .. 1,
         Bit(a, k) = b, Bit(v, k) = d, Bit(t, k) = g
  PROVE  /\ Lookup(halfcarry_add, a, v, t, k) <=> b + d + (1 - g) >= 2
         /\ Lookup(overflow_add, a, v, t, k) <=> b = d /\ b # g
         /\ Lookup(halfcarry_sub, a, v, t, k) <=> b - d - g < 0
         /\ Lookup(overflow_sub, a, v, t, k) <=> b # d /\ b # g
<1> DEFINE i == 1 + b + 2 * d + 4 * g
<1>1. i \in 1 .. 8
  OBVIOUS
<1>2. \A table : Lookup(table, a, v, t, k) <=> table[i] = 1
  BY DEF Lookup
<1>3. /\ i = 1 <=> b = 0 /\ d = 0 /\ g = 0
      /\ i = 2 <=> b = 1 /\ d = 0 /\ g = 0
      /\ i = 3 <=> b = 0 /\ d = 1 /\ g = 0
      /\ i = 4 <=> b = 1 /\ d = 1 /\ g = 0
      /\ i = 5 <=> b = 0 /\ d = 0 /\ g = 1
      /\ i = 6 <=> b = 1 /\ d = 0 /\ g = 1
      /\ i = 7 <=> b = 0 /\ d = 1 /\ g = 1
      /\ i = 8 <=> b = 1 /\ d = 1 /\ g = 1
  OBVIOUS
<1>4. /\ halfcarry_add[i] = 1 <=> i \in {2, 3, 4, 8}
      /\ halfcarry_sub[i] = 1 <=> i \in {3, 5, 7, 8}
      /\ overflow_add[i] = 1 <=> i \in {4, 5}
      /\ overflow_sub[i] = 1 <=> i \in {2, 7}
  <2> HIDE DEF i
  <2> QED
    BY <1>1 DEF halfcarry_add, halfcarry_sub, overflow_add, overflow_sub
<1>5. \A x \in 0 .. 1 : x = 0 \/ x = 1
  OBVIOUS
<1> HIDE DEF i
<1>6. Lookup(halfcarry_add, a, v, t, k) <=> b + d + (1 - g) >= 2
  BY <1>2, <1>3, <1>4, <1>5
<1>7. Lookup(overflow_add, a, v, t, k) <=> b = d /\ b # g
  BY <1>2, <1>3, <1>4, <1>5
<1>8. Lookup(halfcarry_sub, a, v, t, k) <=> b - d - g < 0
  BY <1>2, <1>3, <1>4, <1>5
<1>9. Lookup(overflow_sub, a, v, t, k) <=> b # d /\ b # g
  BY <1>2, <1>3, <1>4, <1>5
<1> QED
  BY <1>6, <1>7, <1>8, <1>9

(* Column k of a sum: u is carried into it, and what the tables find there *)
(* is the carry out of it, or that this is not the one into it.            *)
SumsTo(k, m, a, v, c, t, u) ==
  /\ u \in 0 .. 1 /\ (u = 1 <=> (a % m) + (v % m) + c >= m)
  /\ Bit(a, k) \in 0 .. 1 /\ Bit(v, k) \in 0 .. 1
  /\ Bit(t, k) = (Bit(a, k) + Bit(v, k) + u) % 2
  /\ Lookup(halfcarry_add, a, v, t, k) <=> Bit(a, k) + Bit(v, k) + u >= 2
  /\ Lookup(halfcarry_add, a, v, t, k)
        <=> (a % (2 * m)) + (v % (2 * m)) + c >= 2 * m
  /\ Lookup(overflow_add, a, v, t, k)
        <=> Bit(a, k) = Bit(v, k) /\ Bit(t, k) # Bit(a, k)

(* So it is in every sum.                                                  *)
LEMMA SumBits ==
  ASSUME NEW k, NEW m, Weight(m, k),
         NEW a \in Int, NEW v \in Int, NEW c \in 0 .. 1
  PROVE  \E u : SumsTo(k, m, a, v, c, a + v + c, u)
<1> DEFINE t == a + v + c
           in == IF (a % m) + (v % m) + c >= m THEN 1 ELSE 0
<1>0. m \in Nat /\ m > 0
  BY DEF Weight
<1>a. (\E p, e : Splits(a, k, m, p, e)) /\ (\E q, f : Splits(v, k, m, q, f))
  BY Columns
<1>1. PICK p \in Int, e \in 0 .. m - 1 :
        a = m * p + e /\ Bit(a, k) = p % 2 /\ a % (2 * m) = m * (p % 2) + e
  BY <1>a DEF Splits
<1>2. PICK q \in Int, f \in 0 .. m - 1 :
        v = m * q + f /\ Bit(v, k) = q % 2 /\ v % (2 * m) = m * (q % 2) + f
  BY <1>a DEF Splits
<1>3. a % m = e /\ v % m = f
  BY <1>0, <1>1, <1>2, Remainder
<1>4. PICK u \in 0 .. 1 : u = in /\ e + f + c - m * u \in 0 .. m - 1
                       /\ (e + f + c >= m <=> u = 1)
  BY <1>0, <1>3
<1>5. PICK s \in Int : s = p + q + u
  OBVIOUS
<1>6. PICK g \in 0 .. m - 1 : g = e + f + c - m * u
  BY <1>0, <1>4
<1>7. t = m * s + g
  BY <1>0, <1>1, <1>2, <1>5, <1>6
<1>8. Bit(t, k) = s % 2
  BY <1>7, BitAt
<1>9. PICK b \in 0 .. 1, d \in 0 .. 1, h \in 0 .. 1 :
        /\ b = p % 2 /\ d = q % 2 /\ h = s % 2 /\ h = (b + d + u) % 2
  BY <1>5
<1> HIDE DEF t, in
<1>10. /\ Lookup(halfcarry_add, a, v, t, k) <=> b + d + (1 - h) >= 2
       /\ Lookup(overflow_add, a, v, t, k) <=> b = d /\ b # h
  BY <1>1, <1>2, <1>8, <1>9, Tables
<1>11. b + d + (1 - h) >= 2 <=> b + d + u >= 2
  BY <1>9
<1>12. b + d + u >= 2 <=> (m * b + e) + (m * d + f) + c >= 2 * m
  <2>1. \A x \in 0 .. 1 : x = 0 \/ x = 1
    OBVIOUS
  <2>2. m * 0 = 0 /\ m * 1 = m
    BY <1>0
  <2>3. e \in Int /\ f \in Int /\ 0 <= e /\ e < m /\ 0 <= f /\ f < m /\ 0 <= c /\ c <= 1
    BY <1>0
  <2> QED
    BY <1>0, <1>4, <2>1, <2>2, <2>3
<1>13. SumsTo(k, m, a, v, c, t, u)
  BY <1>1, <1>2, <1>3, <1>4, <1>8, <1>9, <1>10, <1>11, <1>12 DEF SumsTo
<1> QED
  BY <1>13 DEF t

(* The number that x stands for when bit m is its sign.                    *)
AsSigned(x, m) == IF x < m THEN x ELSE x - 2 * m

(* The sign is the upper one of two halves.                                *)
LEMMA SignBit ==
  ASSUME NEW k, NEW m, Weight(m, k), NEW x \in 0 .. 2 * m - 1
  PROVE  \/ Bit(x, k) = 0 /\ x % m = x /\ x % (2 * m) = x /\ AsSigned(x, m) = x /\ x < m
         \/ Bit(x, k) = 1 /\ x % m = x - m /\ x % (2 * m) = x
               /\ AsSigned(x, m) = x - 2 * m /\ x >= m
<1>0. m \in Nat /\ m > 0 /\ x \in Int
  BY DEF Weight
<1>1. x % (2 * m) = x
  <2>1. PICK n \in Nat : n = 2 * m
    BY <1>0
  <2> QED
    BY <1>0, <2>1
<1>2. CASE x < m
  <2>1. x \div m = 0 /\ x % m = x
    BY <1>0, <1>2
  <2>2. Bit(x, k) = 0
    BY <2>1 DEF Bit, Weight
  <2> QED
    BY <1>1, <1>2, <2>1, <2>2 DEF AsSigned
<1>3. CASE x >= m
  <2>1. PICK e \in 0 .. m - 1 : e = x - m
    BY <1>0, <1>3
  <2>a. PICK i \in Int : i = 1
    OBVIOUS
  <2>2. x = m * i + e
    BY <1>0, <2>1, <2>a
  <2>b. (m * i + e) % m = e /\ Bit(m * i + e, k) = i % 2
    BY <1>0, Remainder, BitAt
  <2>3. x % m = e /\ Bit(x, k) = 1
    BY <2>a, <2>2, <2>b
  <2> QED
    BY <1>0, <1>1, <1>3, <2>1, <2>3 DEF AsSigned
<1> QED
  BY <1>0, <1>2, <1>3

(* The table of overflows finds the sums that are no signed number.        *)
LEMMA SumOverflow ==
  ASSUME NEW k, NEW m, Weight(m, k),
         NEW a \in 0 .. 2 * m - 1, NEW v \in 0 .. 2 * m - 1, NEW c \in 0 .. 1
  PROVE  Lookup(overflow_add, a, v, a + v + c, k)
           <=> AsSigned(a, m) + AsSigned(v, m) + c \notin -m .. m - 1
<1>0. m \in Nat /\ m > 0 /\ a \in Int /\ v \in Int
  BY DEF Weight
<1> DEFINE t == a + v + c
<1>a. \E u : SumsTo(k, m, a, v, c, t, u)
  BY <1>0, SumBits
<1>1. PICK u \in 0 .. 1 : SumsTo(k, m, a, v, c, t, u)
  BY <1>a DEF SumsTo
<1> HIDE DEF t
<1>2. /\ u = 1 <=> (a % m) + (v % m) + c >= m
      /\ Bit(a, k) \in 0 .. 1 /\ Bit(v, k) \in 0 .. 1
      /\ Bit(t, k) = (Bit(a, k) + Bit(v, k) + u) % 2
      /\ Lookup(overflow_add, a, v, t, k)
           <=> Bit(a, k) = Bit(v, k) /\ Bit(t, k) # Bit(a, k)
  BY <1>1 DEF SumsTo
<1>4. Lookup(overflow_add, a, v, t, k)
        <=> AsSigned(a, m) + AsSigned(v, m) + c \notin -m .. m - 1
  <2>1. \/ Bit(a, k) = 0 /\ a % m = a /\ AsSigned(a, m) = a /\ a < m
        \/ Bit(a, k) = 1 /\ a % m = a - m /\ AsSigned(a, m) = a - 2 * m /\ a >= m
    BY SignBit
  <2>2. \/ Bit(v, k) = 0 /\ v % m = v /\ AsSigned(v, m) = v /\ v < m
        \/ Bit(v, k) = 1 /\ v % m = v - m /\ AsSigned(v, m) = v - 2 * m /\ v >= m
    BY SignBit
  <2>3. u = 0 \/ u = 1
    OBVIOUS
  <2> QED
    BY <1>0, <1>2, <2>1, <2>2, <2>3
<1> QED
  BY <1>4 DEF t

(* Column k of a difference, with u borrowed from it by those below.       *)
DiffersBy(k, m, a, v, c, t, u) ==
  /\ u \in 0 .. 1 /\ (u = 1 <=> (a % m) - (v % m) - c < 0)
  /\ Bit(a, k) \in 0 .. 1 /\ Bit(v, k) \in 0 .. 1
  /\ Bit(t, k) = (Bit(a, k) - Bit(v, k) - u) % 2
  /\ Lookup(halfcarry_sub, a, v, t, k)
        <=> (a % (2 * m)) - (v % (2 * m)) - c < 0
  /\ Lookup(overflow_sub, a, v, t, k)
        <=> Bit(a, k) # Bit(v, k) /\ Bit(t, k) # Bit(a, k)

(* So it is in every difference, also if only some bits of it are kept.    *)
LEMMA DifferenceBits ==
  ASSUME NEW k, NEW m, Weight(m, k),
         NEW a \in Int, NEW v \in Int, NEW c \in 0 .. 1, NEW t,
         Bit(t, k) = Bit(a - v - c, k)
  PROVE  \E u : DiffersBy(k, m, a, v, c, t, u)
<1>0. m \in Nat /\ m > 0
  BY DEF Weight
<1>a. (\E p, e : Splits(a, k, m, p, e)) /\ (\E q, f : Splits(v, k, m, q, f))
  BY Columns
<1>1. PICK p \in Int, e \in 0 .. m - 1 :
        a = m * p + e /\ Bit(a, k) = p % 2 /\ a % (2 * m) = m * (p % 2) + e
  BY <1>a DEF Splits
<1>2. PICK q \in Int, f \in 0 .. m - 1 :
        v = m * q + f /\ Bit(v, k) = q % 2 /\ v % (2 * m) = m * (q % 2) + f
  BY <1>a DEF Splits
<1>3. a % m = e /\ v % m = f
  BY <1>0, <1>1, <1>2, Remainder
<1>4. PICK u \in 0 .. 1 : /\ e - f - c + m * u \in 0 .. m - 1
                         /\ (e - f - c < 0 <=> u = 1)
  <2>1. CASE e - f - c < 0
    BY <1>0, <2>1
  <2>2. CASE ~(e - f - c < 0)
    BY <1>0, <2>2
  <2> QED
    BY <2>1, <2>2
<1>5. PICK s \in Int : s = p - q - u
  OBVIOUS
<1>6. PICK g \in 0 .. m - 1 : g = e - f - c + m * u
  BY <1>0, <1>4
<1>7. a - v - c = m * s + g
  BY <1>0, <1>1, <1>2, <1>5, <1>6
<1>8. Bit(t, k) = s % 2
  <2>1. Bit(m * s + g, k) = s % 2
    BY BitAt
  <2> QED
    BY <1>7, <2>1
<1>9. PICK b \in 0 .. 1, d \in 0 .. 1, h \in 0 .. 1 :
        /\ b = p % 2 /\ d = q % 2 /\ h = s % 2 /\ h = (b - d - u) % 2
  BY <1>5
<1>10. /\ Lookup(halfcarry_sub, a, v, t, k) <=> b - d - h < 0
       /\ Lookup(overflow_sub, a, v, t, k) <=> b # d /\ b # h
  BY <1>1, <1>2, <1>8, <1>9, Tables
<1>11. b - d - h < 0 <=> b - d - u < 0
  BY <1>9
<1>12. b - d - u < 0 <=> (m * b + e) - (m * d + f) - c < 0
  <2>1. \A x \in 0 .. 1 : x = 0 \/ x = 1
    OBVIOUS
  <2>2. m * 0 = 0 /\ m * 1 = m
    BY <1>0
  <2>3. e \in Int /\ f \in Int /\ 0 <= e /\ e < m /\ 0 <= f /\ f < m /\ 0 <= c /\ c <= 1
    BY <1>0
  <2> QED
    BY <1>0, <1>4, <2>1, <2>2, <2>3
<1>13. DiffersBy(k, m, a, v, c, t, u)
  BY <1>1, <1>2, <1>3, <1>4, <1>8, <1>9, <1>10, <1>11, <1>12 DEF DiffersBy
<1> QED
  BY <1>13

(* The other table finds the differences that are no signed number.        *)
LEMMA DifferenceOverflow ==
  ASSUME NEW k, NEW m, Weight(m, k),
         NEW a \in 0 .. 2 * m - 1, NEW v \in 0 .. 2 * m - 1, NEW c \in 0 .. 1,
         NEW t, Bit(t, k) = Bit(a - v - c, k)
  PROVE  Lookup(overflow_sub, a, v, t, k)
           <=> AsSigned(a, m) - AsSigned(v, m) - c \notin -m .. m - 1
<1>0. m \in Nat /\ m > 0 /\ a \in Int /\ v \in Int
  BY DEF Weight
<1>a. \E u : DiffersBy(k, m, a, v, c, t, u)
  BY <1>0, DifferenceBits
<1>1. PICK u \in 0 .. 1 : DiffersBy(k, m, a, v, c, t, u)
  BY <1>a DEF DiffersBy
<1>2. /\ u = 1 <=> (a % m) - (v % m) - c < 0
      /\ Bit(a, k) \in 0 .. 1 /\ Bit(v, k) \in 0 .. 1
      /\ Bit(t, k) = (Bit(a, k) - Bit(v, k) - u) % 2
      /\ Lookup(overflow_sub, a, v, t, k)
           <=> Bit(a, k) # Bit(v, k) /\ Bit(t, k) # Bit(a, k)
  BY <1>1 DEF DiffersBy
<1>3. \/ Bit(a, k) = 0 /\ a % m = a /\ AsSigned(a, m) = a /\ a < m
      \/ Bit(a, k) = 1 /\ a % m = a - m /\ AsSigned(a, m) = a - 2 * m /\ a >= m
  BY SignBit
<1>4. \/ Bit(v, k) = 0 /\ v % m = v /\ AsSigned(v, m) = v /\ v < m
      \/ Bit(v, k) = 1 /\ v % m = v - m /\ AsSigned(v, m) = v - 2 * m /\ v >= m
  BY SignBit
<1>5. u = 0 \/ u = 1
  OBVIOUS
<1>6. \A b \in 0 .. 1, d \in 0 .. 1 : (b - d - u) % 2 # b <=> d # u
  BY <1>5
<1>7. Lookup(overflow_sub, a, v, t, k) <=> Bit(a, k) # Bit(v, k) /\ Bit(v, k) # u
  BY <1>2, <1>6
<1>8. u = 0 <=> (a % m) - (v % m) - c >= 0
  <2>1. a % m \in Int /\ v % m \in Int
    BY <1>0
  <2> QED
    BY <1>2, <1>5, <2>1
<1> QED
  BY <1>0, <1>2, <1>3, <1>4, <1>5, <1>7, <1>8

(* A word of W values has the bit of weight m.                             *)
Covers(W, m) == W \in Nat /\ W > 0 /\ \E n \in Nat : W = 2 * m * n

(* It is the same in the word.                                             *)
LEMMA BitWraps ==
  ASSUME NEW k, NEW m, Weight(m, k), NEW W, Covers(W, m), NEW x \in Int
  PROVE  Bit(x % W, k) = Bit(x, k)
<1>0. m \in Nat /\ m > 0
  BY DEF Weight
<1>1. PICK n \in Nat : W = 2 * m * n
  BY DEF Covers
<1>2. W \in Nat /\ W > 0
  BY DEF Covers
<1>3. PICK g \in Int, d \in 0 .. W - 1 : x = W * g + d /\ d = x % W
  BY <1>2, Division
<1>a. d \in Int
  BY <1>2
<1>4. PICK p \in Int, e \in 0 .. m - 1 : d = m * p + e
  BY <1>0, <1>a, Division
<1>5. PICK q \in Int : q = n * g
  OBVIOUS
<1>6. PICK s \in Int : s = 2 * q + p
  OBVIOUS
<1>7. x = m * s + e
  <2>1. W * g = m * (2 * q)
    BY <1>0, <1>1, <1>5
  <2>2. m * s = m * (2 * q) + m * p
    BY <1>0, <1>6
  <2>3. /\ d \in Int /\ e \in Int /\ m * (2 * q) \in Int /\ m * p \in Int
        /\ m * s \in Int
    BY <1>0, <1>a
  <2>4. x = W * g + d
    BY <1>3
  <2>5. x = m * (2 * q) + (m * p + e)
    BY <1>4, <2>1, <2>4
  <2> DEFINE A == m * (2 * q)
             B == m * p
             C == m * s
  <2>6. /\ x = A + (B + e) /\ C = A + B
        /\ A \in Int /\ B \in Int /\ C \in Int /\ e \in Int
    BY <2>2, <2>3, <2>5
  <2> HIDE DEF A, B, C
  <2>7. x = C + e
    BY <2>6
  <2> QED
    BY <2>7 DEF C
<1>8. Bit(m * s + e, k) = s % 2 /\ Bit(m * p + e, k) = p % 2
  BY BitAt
<1>9. s % 2 = p % 2
  BY <1>6
<1> QED
  BY <1>1, <1>3, <1>4, <1>7, <1>8, <1>9

-----------------------------------------------------------------------------
(* Sums and differences.  What a result of the weight m in its sign bit    *)
(* should be: the flags tell what is missing in the value, if the lower    *)
(* digits carried, if the sum of the signed numbers is one, and which sign *)
(* the value has.                                                          *)
IsSum(res, a, v, c, m) ==
  /\ res.v \in 0 .. 2 * m - 1 /\ res.f \subseteq Flag
  /\ a + v + c = res.v + 2 * m * Carry(res.f)
  /\ "H" \in res.f <=> (a % (m \div 8)) + (v % (m \div 8)) + c >= m \div 8
  /\ "P" \in res.f <=> AsSigned(a, m) + AsSigned(v, m) + c \notin -m .. m - 1
  /\ "S" \in res.f <=> AsSigned(res.v, m) < 0
  /\ "Z" \in res.f <=> res.v = 0
  /\ "N" \notin res.f

IsDifference(res, a, v, c, m) ==
  /\ res.v \in 0 .. 2 * m - 1 /\ res.f \subseteq Flag
  /\ a - v - c = res.v - 2 * m * Carry(res.f)
  /\ "H" \in res.f <=> (a % (m \div 8)) - (v % (m \div 8)) - c < 0
  /\ "P" \in res.f <=> AsSigned(a, m) - AsSigned(v, m) - c \notin -m .. m - 1
  /\ "S" \in res.f <=> AsSigned(res.v, m) < 0
  /\ "Z" \in res.f <=> res.v = 0
  /\ "N" \in res.f

(* Bits 3 and 7 of bytes, 11 and 15 of words.                              *)
LEMMA Weights == Weight(8, 3) /\ Weight(128, 7) /\ Weight(2048, 11) /\ Weight(32768, 15)
  BY Powers DEF Weight

(* The flags as the code finds them, in the value and in the tables, ...   *)
SumFlags(f, a, v, t, w, m, j, k) ==
  \A x : x \in f <=> \/ (x = "S" /\ w >= m)
                   \/ (x = "Z" /\ w = 0)
                   \/ (x = "C" /\ t >= 2 * m)
                   \/ (x = "H" /\ Lookup(halfcarry_add, a, v, t, j))
                   \/ (x = "P" /\ Lookup(overflow_add, a, v, t, k))

Adding(f, w, a, v, c, t, m, h, j, k) ==
  /\ Weight(m, k) /\ Weight(h, j) /\ m = 16 * h
  /\ a \in 0 .. 2 * m - 1 /\ v \in 0 .. 2 * m - 1 /\ c \in 0 .. 1
  /\ t = a + v + c /\ w = t % (2 * m)
  /\ SumFlags(f, a, v, t, w, m, j, k)

DifferenceFlags(f, a, v, d, t, w, m, j, k) ==
  \A x : x \in f <=> \/ x = "N"
                   \/ (x = "S" /\ w >= m)
                   \/ (x = "Z" /\ w = 0)
                   \/ (x = "C" /\ d < 0)
                   \/ (x = "H" /\ Lookup(halfcarry_sub, a, v, t, j))
                   \/ (x = "P" /\ Lookup(overflow_sub, a, v, t, k))

Subtracting(f, w, a, v, c, d, t, m, h, j, k) ==
  /\ Weight(m, k) /\ Weight(h, j) /\ m = 16 * h
  /\ a \in 0 .. 2 * m - 1 /\ v \in 0 .. 2 * m - 1 /\ c \in 0 .. 1
  /\ d = a - v - c /\ Bit(t, j) = Bit(d, j) /\ Bit(t, k) = Bit(d, k)
  /\ w = IF d < 0 THEN d + 2 * m ELSE d
  /\ DifferenceFlags(f, a, v, d, t, w, m, j, k)

(* ... are those of the sum, ...                                           *)
LEMMA SumResult ==
  ASSUME NEW f, NEW w, NEW a, NEW v, NEW c, NEW t, NEW m, NEW h, NEW j, NEW k,
         Adding(f, w, a, v, c, t, m, h, j, k)
  PROVE  IsSum([v |-> w, f |-> f], a, v, c, m)
<1> USE DEF Adding
<1>1. /\ m \in Nat /\ m > 0 /\ h \in Nat /\ h > 0
      /\ a \in Int /\ v \in Int /\ m \div 8 = 2 * h
  BY DEF Weight
<1>2. Lookup(halfcarry_add, a, v, t, j)
        <=> (a % (m \div 8)) + (v % (m \div 8)) + c >= m \div 8
  <2>1. \E u : SumsTo(j, h, a, v, c, a + v + c, u)
    BY <1>1, SumBits
  <2>2. Lookup(halfcarry_add, a, v, a + v + c, j)
          <=> (a % (2 * h)) + (v % (2 * h)) + c >= 2 * h
    BY <2>1 DEF SumsTo
  <2> QED
    BY <1>1, <2>2
<1>3. Lookup(overflow_add, a, v, t, k)
        <=> AsSigned(a, m) + AsSigned(v, m) + c \notin -m .. m - 1
  BY SumOverflow
<1>4. PICK n \in Nat : n = 2 * m /\ n > 0
  BY <1>1
<1>5. t \in Int /\ 0 <= t /\ t < 2 * n
  BY <1>1, <1>4
<1>6. w \in 0 .. n - 1 /\ t = IF t >= n THEN w + n ELSE w
  <2>1. w = t % n
    BY <1>4
  <2>2. CASE t >= n
    <3>1. PICK q \in Int, e \in 0 .. n - 1 : q = 1 /\ e = t - n
      BY <1>4, <1>5, <2>2
    <3>2. t = n * q + e
      BY <1>4, <1>5, <3>1
    <3>3. t % n = e
      BY <1>4, <3>2, Remainder
    <3> QED
      BY <1>4, <1>5, <2>1, <2>2, <3>1, <3>3
  <2>3. CASE t < n
    <3>1. t % n = t
      BY <1>4, <1>5, <2>3
    <3> QED
      BY <1>4, <1>5, <2>1, <2>3, <3>1
  <2> QED
    BY <1>4, <1>5, <2>2, <2>3
<1>7. f \subseteq Flag
  BY DEF Flag, SumFlags
<1>8. /\ "C" \in f <=> t >= n
      /\ "H" \in f <=> Lookup(halfcarry_add, a, v, t, j)
      /\ "P" \in f <=> Lookup(overflow_add, a, v, t, k)
      /\ "S" \in f <=> w >= m
      /\ "Z" \in f <=> w = 0
      /\ "N" \notin f
  BY <1>4 DEF SumFlags
<1>9. t = w + 2 * m * Carry(f)
  <2>1. CASE t >= n
    <3>1. Carry(f) = 1
      BY <1>8, <2>1 DEF Carry
    <3> QED
      BY <1>1, <1>4, <1>6, <2>1, <3>1
  <2>2. CASE ~(t >= n)
    <3>1. Carry(f) = 0
      BY <1>8, <2>2 DEF Carry
    <3> QED
      BY <1>1, <1>4, <1>6, <2>2, <3>1
  <2> QED
    BY <2>1, <2>2
<1>10. w >= m <=> AsSigned(w, m) < 0
  BY <1>1, <1>4, <1>6 DEF AsSigned
<1> QED
  BY <1>2, <1>3, <1>4, <1>6, <1>7, <1>8, <1>9, <1>10 DEF IsSum

(* ... or of the difference.                                               *)
LEMMA DifferenceResult ==
  ASSUME NEW f, NEW w, NEW a, NEW v, NEW c, NEW d, NEW t, NEW m, NEW h, NEW j, NEW k,
         Subtracting(f, w, a, v, c, d, t, m, h, j, k)
  PROVE  IsDifference([v |-> w, f |-> f], a, v, c, m)
<1> USE DEF Subtracting
<1>1. /\ m \in Nat /\ m > 0 /\ h \in Nat /\ h > 0
      /\ a \in Int /\ v \in Int /\ m \div 8 = 2 * h
  BY DEF Weight
<1>2. Lookup(halfcarry_sub, a, v, t, j)
        <=> (a % (m \div 8)) - (v % (m \div 8)) - c < 0
  <2>1. \E u : DiffersBy(j, h, a, v, c, t, u)
    BY <1>1, DifferenceBits
  <2>2. Lookup(halfcarry_sub, a, v, t, j) <=> (a % (2 * h)) - (v % (2 * h)) - c < 0
    BY <2>1 DEF DiffersBy
  <2> QED
    BY <1>1, <2>2
<1>3. Lookup(overflow_sub, a, v, t, k)
        <=> AsSigned(a, m) - AsSigned(v, m) - c \notin -m .. m - 1
  BY DifferenceOverflow
<1>4. PICK n \in Nat : n = 2 * m /\ n > 0
  BY <1>1
<1>5. d \in Int /\ -n <= d /\ d < n
  BY <1>1, <1>4
<1>6. w \in 0 .. n - 1 /\ d = IF d < 0 THEN w - n ELSE w
  BY <1>4, <1>5
<1>7. f \subseteq Flag
  BY DEF Flag, DifferenceFlags
<1>8. /\ "C" \in f <=> d < 0
      /\ "H" \in f <=> Lookup(halfcarry_sub, a, v, t, j)
      /\ "P" \in f <=> Lookup(overflow_sub, a, v, t, k)
      /\ "S" \in f <=> w >= m
      /\ "Z" \in f <=> w = 0
      /\ "N" \in f
  BY DEF DifferenceFlags
<1>9. d = w - 2 * m * Carry(f)
  <2>1. CASE d < 0
    <3>1. Carry(f) = 1
      BY <1>8, <2>1 DEF Carry
    <3> QED
      BY <1>1, <1>4, <1>6, <2>1, <3>1
  <2>2. CASE ~(d < 0)
    <3>1. Carry(f) = 0
      BY <1>8, <2>2 DEF Carry
    <3> QED
      BY <1>1, <1>4, <1>6, <2>2, <3>1
  <2> QED
    BY <2>1, <2>2
<1>10. w >= m <=> AsSigned(w, m) < 0
  BY <1>1, <1>4, <1>6 DEF AsSigned
<1> QED
  BY <1>2, <1>3, <1>4, <1>6, <1>7, <1>8, <1>9, <1>10 DEF IsDifference

(* 131072 is 2^17, of which SBC16 keeps the bits. *)
LEMMA Widths ==
  /\ Covers(65536, 8) /\ Covers(65536, 128)
  /\ Covers(131072, 2048) /\ Covers(131072, 32768)
<1>1. 65536 = 2 * 8 * 4096 /\ 65536 = 2 * 128 * 256
  OBVIOUS
<1>2. 131072 = 2 * 2048 * 32 /\ 131072 = 2 * 32768 * 2
  OBVIOUS
<1> QED
  BY <1>1, <1>2 DEF Covers

LEMMA IsByte == \A x : x \in Byte <=> x \in Int /\ 0 <= x /\ x <= 255
  BY DEF Byte

LEMMA IsWord == \A x : x \in Word <=> x \in Int /\ 0 <= x /\ x < 65536
<1>1. PICK m \in Nat : m = 65536
  OBVIOUS
<1>2. Word = 0 .. m - 1
  BY <1>1 DEF Word
<1>3. \A x : x \in Word <=> x \in Int /\ 0 <= x /\ x < m
  BY <1>2
<1> QED
  BY <1>1, <1>3

(* Half of the words are below 32768. *)
Halves16(m) == Word = 0 .. 2 * m - 1

LEMMA WordHalves == Halves16(32768)
<1>1. PICK m \in Nat : m = 32768
  OBVIOUS
<1>2. Word = 0 .. 2 * m - 1
  BY <1>1 DEF Word
<1>3. Halves16(m)
  BY <1>2 DEF Halves16
<1> QED
  BY <1>1, <1>3

LEMMA ADCExact ==
  ASSUME NEW a \in Byte, NEW v \in Byte, NEW c \in 0 .. 1
  PROVE  IsSum(ADC(a, v, c), a, v, c, 128)
<1>1. PICK m, h : m = 128 /\ h = 8 /\ Weight(m, 7) /\ Weight(h, 3) /\ m = 16 * h
  BY Weights
<1>2. a \in 0 .. 2 * m - 1 /\ v \in 0 .. 2 * m - 1 /\ a \in Int /\ v \in Int
  BY <1>1 DEF Byte
<1> DEFINE t == a + v + c
           w == t % 256
           f == sz(w) \cup On("C", Bit(t, 8) = 1)
                  \cup On("H", Lookup(halfcarry_add, a, v, t, 3))
                  \cup On("P", Lookup(overflow_add, a, v, t, 7))
<1>3. ADC(a, v, c) = [v |-> w, f |-> f]
  BY DEF ADC
<1>4. Bit(t, 8) = 1 <=> t >= 2 * m
  <2>1. t \in 0 .. 511
    BY <1>1, <1>2
  <2> HIDE DEF t
  <2> QED
    BY <1>1, <2>1, Powers DEF Bit
<1>5. w = t % (2 * m)
  BY <1>1
<1> HIDE DEF w
<1>6. SumFlags(f, a, v, t, w, m, 3, 7)
  <2>1. w >= 128 <=> w >= m
    BY <1>1
  <2> HIDE DEF t
  <2> QED
    BY <1>4, <2>1 DEF On, sz, SumFlags
<1>7. t = a + v + c
  OBVIOUS
<1> HIDE DEF t, f
<1>8. IsSum([v |-> w, f |-> f], a, v, c, m)
  <2>1. Adding(f, w, a, v, c, t, m, h, 3, 7)
    BY <1>1, <1>2, <1>5, <1>6, <1>7 DEF Adding
  <2> QED
    BY <2>1, SumResult
<1> QED
  BY <1>1, <1>3, <1>8

LEMMA ADC16Exact ==
  ASSUME NEW a \in Word, NEW v \in Word, NEW G \in SUBSET Flag
  PROVE  IsSum(ADC16(a, v, G), a, v, Carry(G), 32768)
<1>0. PICK m, h : /\ m = 32768 /\ h = 2048 /\ m = 16 * h
                  /\ Weight(m, 15) /\ Weight(h, 11) /\ Halves16(m)
  BY Weights, WordHalves
<1>1. /\ m = 16 * h /\ Weight(m, 15) /\ Weight(h, 11) /\ m \in Nat /\ m > 0
      /\ Halves16(m)
  BY <1>0 DEF Weight
<1>2. /\ a \in 0 .. 2 * m - 1 /\ v \in 0 .. 2 * m - 1
      /\ a \in Int /\ v \in Int /\ 0 <= a /\ a < 2 * m /\ 0 <= v /\ v < 2 * m
  <2>1. Word = 0 .. 2 * m - 1
    BY <1>1 DEF Halves16
  <2> QED
    BY <1>1, <2>1
<1>3. PICK c \in 0 .. 1 : c = Carry(G)
  BY DEF Carry
<1> DEFINE t == a + v + c
           w == t % 65536
           f == Signs16(t) \cup On("H", Lookup(halfcarry_add, a, v, t, 11))
                  \cup On("P", Lookup(overflow_add, a, v, t, 15))
<1>4. ADC16(a, v, G) = [v |-> w, f |-> f]
  BY <1>3 DEF ADC16
<1>5. w = t % (2 * m)
  BY <1>0
<1>6. (Bit(t, 16) = 1 <=> t >= 2 * m) /\ (Bit(t, 15) = 1 <=> w >= m)
  <2>1. t \in Int /\ 0 <= t /\ t < 4 * m
    BY <1>1, <1>2
  <2>2. Bit(t, 16) = (t \div 65536) % 2 /\ Bit(t, 15) = (t \div 32768) % 2
    BY Powers DEF Bit
  <2>3. t \in Int /\ 0 <= t /\ t < 131072 /\ m = 32768
    BY <1>0, <2>1
  <2> HIDE DEF t
  <2> QED
    BY <2>2, <2>3
<1>7. SumFlags(f, a, v, t, w, m, 11, 15)
  <2> HIDE DEF t
  <2> QED
    BY <1>6 DEF On, Signs16, SumFlags
<1>8. t = a + v + c
  OBVIOUS
<1> HIDE DEF t, f, w
<1>9. IsSum([v |-> w, f |-> f], a, v, c, m)
  <2>1. Adding(f, w, a, v, c, t, m, h, 11, 15)
    BY <1>1, <1>2, <1>5, <1>7, <1>8 DEF Adding
  <2> QED
    BY <2>1, SumResult
<1> QED
  BY <1>0, <1>3, <1>4, <1>9

LEMMA SBCExact ==
  ASSUME NEW a \in Byte, NEW v \in Byte, NEW c \in 0 .. 1
  PROVE  IsDifference(SBC(a, v, c), a, v, c, 128)
<1>1. PICK m, h : m = 128 /\ h = 8 /\ Weight(m, 7) /\ Weight(h, 3) /\ m = 16 * h
  BY Weights
<1>2. a \in 0 .. 2 * m - 1 /\ v \in 0 .. 2 * m - 1 /\ a \in Int /\ v \in Int
  BY <1>1 DEF Byte
<1> DEFINE d == a - v - c
           t == d % 65536
           w == t % 256
           f == {"N"} \cup sz(w) \cup On("C", Bit(t, 8) = 1)
                  \cup On("H", Lookup(halfcarry_sub, a, v, t, 3))
                  \cup On("P", Lookup(overflow_sub, a, v, t, 7))
<1>3. SBC(a, v, c) = [v |-> w, f |-> f]
  BY DEF SBC
<1>4. d \in Int /\ -256 <= d /\ d < 256 /\ d = a - v - c
  BY <1>1, <1>2
<1> HIDE DEF d
<1>5. Bit(t, 3) = Bit(d, 3) /\ Bit(t, 7) = Bit(d, 7)
  BY <1>4, Weights, Widths, BitWraps
<1>6. t = IF d < 0 THEN d + 65536 ELSE d
  BY <1>4
<1> HIDE DEF t
<1>7. (Bit(t, 8) = 1 <=> d < 0) /\ w = IF d < 0 THEN d + 2 * m ELSE d
  <2>1. Bit(t, 8) = (t \div 256) % 2
    BY Powers DEF Bit
  <2>2. CASE d < 0
    BY <1>1, <1>4, <1>6, <2>1, <2>2
  <2>3. CASE d >= 0
    BY <1>1, <1>4, <1>6, <2>1, <2>3
  <2> QED
    BY <1>4, <2>2, <2>3
<1> HIDE DEF w
<1>8. DifferenceFlags(f, a, v, d, t, w, m, 3, 7)
  <2>1. w >= 128 <=> w >= m
    BY <1>1
  <2> QED
    BY <1>7, <2>1 DEF On, sz, DifferenceFlags
<1> HIDE DEF f
<1>9. IsDifference([v |-> w, f |-> f], a, v, c, m)
  <2>1. Subtracting(f, w, a, v, c, d, t, m, h, 3, 7)
    BY <1>1, <1>2, <1>4, <1>5, <1>7, <1>8 DEF Subtracting
  <2> QED
    BY <2>1, DifferenceResult
<1> QED
  BY <1>1, <1>3, <1>9

LEMMA SBC16Exact ==
  ASSUME NEW a \in Word, NEW v \in Word, NEW G \in SUBSET Flag
  PROVE  IsDifference(SBC16(a, v, G), a, v, Carry(G), 32768)
<1>0. PICK m, h : /\ m = 32768 /\ h = 2048 /\ m = 16 * h
                  /\ Weight(m, 15) /\ Weight(h, 11) /\ Halves16(m)
  BY Weights, WordHalves
<1>1. /\ m = 16 * h /\ Weight(m, 15) /\ Weight(h, 11) /\ m \in Nat /\ m > 0
      /\ Halves16(m)
  BY <1>0 DEF Weight
<1>2. /\ a \in 0 .. 2 * m - 1 /\ v \in 0 .. 2 * m - 1
      /\ a \in Int /\ v \in Int /\ 0 <= a /\ a < 2 * m /\ 0 <= v /\ v < 2 * m
  <2>1. Word = 0 .. 2 * m - 1
    BY <1>1 DEF Halves16
  <2> QED
    BY <1>1, <2>1
<1>3. PICK c \in 0 .. 1 : c = Carry(G)
  BY DEF Carry
<1> DEFINE d == a - v - c
           t == d % 131072
           w == t % 65536
           f == {"N"} \cup Signs16(t)
                  \cup On("H", Lookup(halfcarry_sub, a, v, t, 11))
                  \cup On("P", Lookup(overflow_sub, a, v, t, 15))
<1>4. SBC16(a, v, G) = [v |-> w, f |-> f]
  BY <1>3, Powers DEF SBC16
<1>5. d \in Int /\ -2 * m <= d /\ d < 2 * m /\ d = a - v - c
  BY <1>1, <1>2
<1> HIDE DEF d
<1>6. Bit(t, 11) = Bit(d, 11) /\ Bit(t, 15) = Bit(d, 15)
  BY <1>5, Weights, Widths, BitWraps
<1>a. d \in Int /\ -65536 <= d /\ d < 65536 /\ m = 32768
  BY <1>0, <1>5
<1>7. t = IF d < 0 THEN d + 131072 ELSE d
  BY <1>a
<1> HIDE DEF t
<1>8. /\ Bit(t, 16) = 1 <=> d < 0
      /\ w = IF d < 0 THEN d + 2 * m ELSE d
      /\ Bit(t, 15) = 1 <=> w >= m
  <2>1. Bit(t, 16) = (t \div 65536) % 2 /\ Bit(t, 15) = (t \div 32768) % 2
    BY Powers DEF Bit
  <2>2. CASE d < 0
    BY <1>a, <1>7, <2>1, <2>2
  <2>3. CASE d >= 0
    BY <1>a, <1>7, <2>1, <2>3
  <2> QED
    BY <1>5, <2>2, <2>3
<1>9. DifferenceFlags(f, a, v, d, t, w, m, 11, 15)
  BY <1>8 DEF On, Signs16, DifferenceFlags
<1> HIDE DEF f, w
<1>10. IsDifference([v |-> w, f |-> f], a, v, c, m)
  <2>1. Subtracting(f, w, a, v, c, d, t, m, h, 11, 15)
    BY <1>1, <1>2, <1>5, <1>6, <1>8, <1>9 DEF Subtracting
  <2> QED
    BY <2>1, DifferenceResult
<1> QED
  BY <1>0, <1>3, <1>4, <1>10

(* ADD HL leaves the other flags. *)
LEMMA ADD16Flags ==
  ASSUME NEW a \in Word, NEW v \in Word, NEW G \in SUBSET Flag
  PROVE  /\ ADD16(a, v, G).v = ADC16(a, v, {}).v
         /\ ADD16(a, v, G).f = (G \cap {"P", "Z", "S"})
                                 \cup (ADC16(a, v, {}).f \cap {"C", "H"})
<1>1. a \in Int /\ v \in Int
  BY IsWord
<1>2. PICK t : t = a + v
  OBVIOUS
<1>3. a + v + Carry({}) = t
  BY <1>1, <1>2 DEF Carry
<1>4. /\ ADC16(a, v, {}).v = t % 65536
      /\ ADC16(a, v, {}).f = Signs16(t) \cup On("H", Lookup(halfcarry_add, a, v, t, 11))
                               \cup On("P", Lookup(overflow_add, a, v, t, 15))
  BY <1>3 DEF ADC16
<1>5. /\ ADD16(a, v, G).v = t % 65536
      /\ ADD16(a, v, G).f = (G \cap {"P", "Z", "S"}) \cup On("C", Bit(t, 16) = 1)
                              \cup On("H", Lookup(halfcarry_add, a, v, t, 11))
  BY <1>2 DEF ADD16
<1>6. Signs16(t) = On("C", Bit(t, 16) = 1) \cup On("S", Bit(t, 15) = 1)
                    \cup On("Z", t % 65536 = 0)
  BY DEF Signs16
<1>7. \A n, p : On(n, p) \subseteq {n}
  BY DEF On
<1> QED
  BY <1>4, <1>5, <1>6, <1>7

(* ADC, ADD and ADC16 of macros.h, with the tables of ptables.c: on every  *)
(* two operands and every carry the result is the sum modulo its width, C  *)
(* the carry out of it, H the one out of the lower half, P/V the signed    *)
(* overflow, and Z, S and N are right.  ADD16 is ADC16 without a carry in, *)
(* and leaves P/V, Z and S.                                                *)
THEOREM SumsAreExact ==
  /\ \A a, v \in Byte, c \in 0 .. 1 : IsSum(ADC(a, v, c), a, v, c, 128)
  /\ \A a, v \in Byte : IsSum(ADD(a, v), a, v, 0, 128)
  /\ \A a, v \in Word, G \in SUBSET Flag :
       IsSum(ADC16(a, v, G), a, v, Carry(G), 32768)
  /\ \A a, v \in Word, G \in SUBSET Flag :
       /\ ADD16(a, v, G).v = ADC16(a, v, {}).v
       /\ ADD16(a, v, G).f = (G \cap {"P", "Z", "S"})
                               \cup (ADC16(a, v, {}).f \cap {"C", "H"})
BY ADCExact, ADC16Exact, ADD16Flags DEF ADD

(* SBC, SUB, NEG and SBC16 of macros.h: the same of differences, with the  *)
(* borrows.                                                                *)
THEOREM DifferencesAreExact ==
  /\ \A a, v \in Byte, c \in 0 .. 1 : IsDifference(SBC(a, v, c), a, v, c, 128)
  /\ \A a, v \in Byte : IsDifference(SUB(a, v), a, v, 0, 128)
  /\ \A a \in Byte : IsDifference(NEG(a), 0, a, 0, 128)
  /\ \A a, v \in Word, G \in SUBSET Flag :
       IsDifference(SBC16(a, v, G), a, v, Carry(G), 32768)
<1>1. 0 \in Byte
  BY DEF Byte
<1> QED
  BY <1>1, SBCExact, SBC16Exact DEF SUB, NEG

(* CP leaves A, and finds the flags of SUB in another way. *)
LEMMA CPFlags ==
  ASSUME NEW a \in Byte, NEW v \in Byte
  PROVE  CP(a, v).v = a /\ CP(a, v).f = SUB(a, v).f
<1> DEFINE d == a - v
           t == d % 65536
<1>1. d \in -255 .. 255
  BY DEF Byte
<1>2. SUB(a, v).f = {"N"} \cup sz(t % 256) \cup On("C", Bit(t, 8) = 1)
                      \cup On("H", Lookup(halfcarry_sub, a, v, t, 3))
                      \cup On("P", Lookup(overflow_sub, a, v, t, 7))
  <2>1. a - v - 0 = d
    BY DEF Byte
  <2> QED
    BY <2>1 DEF SUB, SBC
<1>3. /\ CP(a, v).v = a
      /\ CP(a, v).f = {"N"} \cup On("C", Bit(t, 8) = 1) \cup On("Z", t = 0)
                        \cup On("S", Bit(t, 7) = 1)
                        \cup On("H", Lookup(halfcarry_sub, a, v, t, 3))
                        \cup On("P", Lookup(overflow_sub, a, v, t, 7))
  BY DEF CP
<1>4. t = IF d < 0 THEN d + 65536 ELSE d
  <2> HIDE DEF d
  <2> QED
    BY <1>1
<1> HIDE DEF d, t
<1>5. Bit(t, 7) = (t \div 128) % 2
  BY Powers DEF Bit
<1>6. (Bit(t, 7) = 1 <=> t % 256 >= 128) /\ (t = 0 <=> t % 256 = 0)
  <2>1. CASE d < 0
    BY <1>1, <1>4, <1>5, <2>1
  <2>2. CASE d >= 0
    BY <1>1, <1>4, <1>5, <2>2
  <2> QED
    BY <1>1, <2>1, <2>2
<1>7. /\ On("S", Bit(t, 7) = 1) = On("S", t % 256 >= 128)
      /\ On("Z", t = 0) = On("Z", t % 256 = 0)
  BY <1>6 DEF On
<1> QED
  BY <1>2, <1>3, <1>7 DEF sz

(* CP of macros.h changes no register and sets the flags programs branch   *)
(* on: Z when equal, C when below, and S and P/V differ exactly when the   *)
(* accumulator is below as a signed number.                                *)
THEOREM ComparesExactly ==
  \A a, v \in Byte :
    /\ CP(a, v).v = a /\ CP(a, v).f = SUB(a, v).f
    /\ "Z" \in CP(a, v).f <=> a = v
    /\ "C" \in CP(a, v).f <=> a < v
    /\ ("S" \in CP(a, v).f) # ("P" \in CP(a, v).f) <=> Signed(a) < Signed(v)
<1> SUFFICES ASSUME NEW a \in Byte, NEW v \in Byte
             PROVE  /\ CP(a, v).v = a /\ CP(a, v).f = SUB(a, v).f
                    /\ "Z" \in CP(a, v).f <=> a = v
                    /\ "C" \in CP(a, v).f <=> a < v
                    /\ ("S" \in CP(a, v).f) # ("P" \in CP(a, v).f)
                         <=> Signed(a) < Signed(v)
  OBVIOUS
<1>1. CP(a, v).v = a /\ CP(a, v).f = SUB(a, v).f
  BY CPFlags
<1>2. IsDifference(SUB(a, v), a, v, 0, 128)
  BY SBCExact DEF SUB
<1>3. PICK w, f : w = SUB(a, v).v /\ f = SUB(a, v).f
  OBVIOUS
<1>4. a \in 0 .. 255 /\ v \in 0 .. 255 /\ w \in 0 .. 255
  BY <1>2, <1>3 DEF IsDifference, Byte
<1>5. /\ a - v = w - 256 * Carry(f)
      /\ "P" \in f <=> AsSigned(a, 128) - AsSigned(v, 128) \notin -128 .. 127
      /\ "S" \in f <=> w >= 128
      /\ "Z" \in f <=> w = 0
  <2>1. AsSigned(w, 128) < 0 <=> w >= 128
    BY <1>4 DEF AsSigned
  <2>2. AsSigned(a, 128) \in Int /\ AsSigned(v, 128) \in Int
    BY <1>4 DEF AsSigned
  <2> QED
    BY <1>2, <1>3, <1>4, <2>1, <2>2 DEF IsDifference, Carry
<1>6. AsSigned(a, 128) = Signed(a) /\ AsSigned(v, 128) = Signed(v)
  BY <1>4 DEF AsSigned, Signed
<1>7. "C" \in f <=> a < v
  BY <1>4, <1>5 DEF Carry
<1>8. "Z" \in f <=> a = v
  BY <1>4, <1>5 DEF Carry
<1>9. ("S" \in f) # ("P" \in f) <=> Signed(a) < Signed(v)
  <2>1. a - v = w \/ a - v = w - 256
    BY <1>4, <1>5 DEF Carry
  <2>2. PICK x, u : x = AsSigned(a, 128) /\ u = AsSigned(v, 128)
    OBVIOUS
  <2>3. /\ (x = a /\ a < 128) \/ (x = a - 256 /\ a >= 128)
        /\ (u = v /\ v < 128) \/ (u = v - 256 /\ v >= 128)
    BY <1>4, <2>2 DEF AsSigned
  <2>4. "P" \in f <=> x - u \notin -128 .. 127
    BY <1>5, <2>2
  <2>5. ("S" \in f) # ("P" \in f) <=> x < u
    BY <1>4, <1>5, <2>1, <2>3, <2>4
  <2> QED
    BY <1>6, <2>2, <2>5
<1> QED
  BY <1>1, <1>3, <1>7, <1>8, <1>9

(* INC and DEC of macros.h, which find H and P/V from the result, add and  *)
(* subtract 1 as ADD and SUB do, and leave C.                              *)
THEOREM CountsExactly ==
  \A v \in Byte, G \in SUBSET Flag :
    /\ INC(v, G).v = ADD(v, 1).v
    /\ INC(v, G).f = (G \cap {"C"}) \cup (ADD(v, 1).f \ {"C"})
    /\ DEC(v, G).v = SUB(v, 1).v
    /\ DEC(v, G).f = (G \cap {"C"}) \cup (SUB(v, 1).f \ {"C"})
<1> SUFFICES ASSUME NEW v \in Byte, NEW G \in SUBSET Flag
             PROVE  /\ INC(v, G).v = ADD(v, 1).v
                    /\ INC(v, G).f = (G \cap {"C"}) \cup (ADD(v, 1).f \ {"C"})
                    /\ DEC(v, G).v = SUB(v, 1).v
                    /\ DEC(v, G).f = (G \cap {"C"}) \cup (SUB(v, 1).f \ {"C"})
  OBVIOUS
<1>1. v \in 0 .. 255 /\ 1 \in Byte
  BY DEF Byte
<1>2. /\ INC(v, G).v = ADD(v, 1).v
      /\ INC(v, G).f = (G \cap {"C"}) \cup (ADD(v, 1).f \ {"C"})
  <2>1. IsSum(ADD(v, 1), v, 1, 0, 128)
    BY <1>1, ADCExact DEF ADD
  <2>2. PICK w, f : w = ADD(v, 1).v /\ f = ADD(v, 1).f
    OBVIOUS
  <2>3. /\ w \in 0 .. 255 /\ v + 1 = w + 256 * Carry(f) /\ f \subseteq Flag
        /\ "H" \in f <=> (v % 16) + 1 >= 16
        /\ "P" \in f <=> AsSigned(v, 128) + 1 \notin -128 .. 127
        /\ "S" \in f <=> w >= 128
        /\ "Z" \in f <=> w = 0
        /\ "N" \notin f
    <3>1. w \in 0 .. 255 => (AsSigned(w, 128) < 0 <=> w >= 128)
      BY DEF AsSigned
    <3>2. AsSigned(v, 128) \in Int /\ AsSigned(1, 128) = 1
      BY <1>1 DEF AsSigned
    <3> QED
      BY <1>1, <2>1, <2>2, <3>1, <3>2 DEF IsSum, Carry
  <2>4. w = (v + 1) % 256
    BY <1>1, <2>3 DEF Carry
  <2>5. ("H" \in f <=> w % 16 = 0) /\ ("P" \in f <=> w = 128)
    <3>1. "P" \in f <=> v = 127
      BY <1>1, <2>3 DEF AsSigned
    <3>2. v = 127 <=> w = 128
      BY <1>1, <2>4
    <3>3. (v % 16) + 1 >= 16 <=> w % 16 = 0
      BY <1>1, <2>4
    <3> QED
      BY <2>3, <3>1, <3>2, <3>3
  <2>6. INC(v, G).v = w
        /\ INC(v, G).f = (G \cap {"C"}) \cup sz(w) \cup On("P", w = 128)
                           \cup On("H", w % 16 = 0)
    BY <2>4 DEF INC
  <2>7. \A x : x \in INC(v, G).f <=> \/ (x = "C" /\ x \in G) \/ (x = "S" /\ w >= 128)
                                     \/ (x = "Z" /\ w = 0) \/ (x = "P" /\ w = 128)
                                     \/ (x = "H" /\ w % 16 = 0)
    BY <2>6 DEF sz, On
  <2>8. \A x : x \in f => x \in {"C", "N", "P", "H", "Z", "S"}
    BY <2>3 DEF Flag
  <2>9. \A x : x \in INC(v, G).f <=> x \in (G \cap {"C"}) \cup (f \ {"C"})
    BY <2>3, <2>5, <2>7, <2>8
  <2> QED
    BY <2>2, <2>6, <2>9
<1>3. /\ DEC(v, G).v = SUB(v, 1).v
      /\ DEC(v, G).f = (G \cap {"C"}) \cup (SUB(v, 1).f \ {"C"})
  <2>1. IsDifference(SUB(v, 1), v, 1, 0, 128)
    BY <1>1, SBCExact DEF SUB
  <2>2. PICK w, f : w = SUB(v, 1).v /\ f = SUB(v, 1).f
    OBVIOUS
  <2>3. /\ w \in 0 .. 255 /\ v - 1 = w - 256 * Carry(f) /\ f \subseteq Flag
        /\ "H" \in f <=> (v % 16) - 1 < 0
        /\ "P" \in f <=> AsSigned(v, 128) - 1 \notin -128 .. 127
        /\ "S" \in f <=> w >= 128
        /\ "Z" \in f <=> w = 0
        /\ "N" \in f
    <3>1. w \in 0 .. 255 => (AsSigned(w, 128) < 0 <=> w >= 128)
      BY DEF AsSigned
    <3>2. AsSigned(v, 128) \in Int /\ AsSigned(1, 128) = 1
      BY <1>1 DEF AsSigned
    <3> QED
      BY <1>1, <2>1, <2>2, <3>1, <3>2 DEF IsDifference, Carry
  <2>4. w = (v - 1) % 256
    BY <1>1, <2>3 DEF Carry
  <2>5. ("H" \in f <=> v % 16 = 0) /\ ("P" \in f <=> w = 127)
    <3>1. "P" \in f <=> v = 128
      BY <1>1, <2>3 DEF AsSigned
    <3>2. v = 128 <=> w = 127
      BY <1>1, <2>4
    <3>3. (v % 16) - 1 < 0 <=> v % 16 = 0
      BY <1>1
    <3> QED
      BY <2>3, <3>1, <3>2, <3>3
  <2>6. DEC(v, G).v = w
        /\ DEC(v, G).f = (G \cap {"C"}) \cup sz(w) \cup {"N"} \cup On("P", w = 127)
                           \cup On("H", v % 16 = 0)
    BY <2>4 DEF DEC
  <2>7. \A x : x \in DEC(v, G).f <=> \/ (x = "C" /\ x \in G) \/ (x = "S" /\ w >= 128)
                                     \/ (x = "Z" /\ w = 0) \/ (x = "P" /\ w = 127)
                                     \/ (x = "H" /\ v % 16 = 0) \/ x = "N"
    BY <2>6 DEF sz, On
  <2>8. \A x : x \in f => x \in {"C", "N", "P", "H", "Z", "S"}
    BY <2>3 DEF Flag
  <2>9. \A x : x \in DEC(v, G).f <=> x \in (G \cap {"C"}) \cup (f \ {"C"})
    BY <2>3, <2>5, <2>7, <2>8
  <2> QED
    BY <2>2, <2>6, <2>9
<1> QED
  BY <1>2, <1>3

-----------------------------------------------------------------------------
(* Decimal digits.                                                         *)
IsDecimal(b) == b \in Byte /\ High(b) < 10 /\ Low(b) < 10
Decimal(b) == 10 * High(b) + Low(b)

(* The two digits of a byte.                                              *)
TwoDigits(b, p, i) == p \in 0 .. 9 /\ i \in 0 .. 9 /\ b = 16 * p + i

LEMMA DecimalDigits ==
  ASSUME NEW b, IsDecimal(b)
  PROVE  \E p, i : TwoDigits(b, p, i)
<1>1. b \in Int /\ 0 <= b
  BY DEF IsDecimal, Byte
<1>2. b \div 16 \in 0 .. 9 /\ b % 16 \in 0 .. 9 /\ b = 16 * (b \div 16) + (b % 16)
  BY <1>1 DEF IsDecimal, High, Low
<1> QED
  BY <1>2 DEF TwoDigits

LEMMA DigitsTogether ==
  ASSUME NEW b, NEW p, NEW i, TwoDigits(b, p, i)
  PROVE  IsDecimal(b) /\ Decimal(b) = 10 * p + i
<1>1. b \div 16 = p /\ b % 16 = i
  BY DEF TwoDigits
<1>2. b \in Byte
  BY DEF TwoDigits, Byte
<1> QED
  BY <1>1, <1>2 DEF TwoDigits, IsDecimal, Decimal, High, Low

(* What DAA adds to a sum, and takes from a difference: x and u.           *)
Corrects(w, f, daa, x, u) ==
  /\ x = IF "H" \in f \/ w % 16 > 9 THEN 6 ELSE 0
  /\ u = IF "C" \in f \/ w > 153 THEN 96 ELSE 0
  /\ "N" \in f => daa.v = (w - (x + u)) % 256
  /\ "N" \notin f => daa.v = (w + (x + u)) % 256
  /\ "C" \in daa.f <=> u = 96

LEMMA DAAResult ==
  ASSUME NEW w \in Byte, NEW f
  PROVE  \E x, u : Corrects(w, f, DAA(w, f), x, u)
<1>1. PICK x, u : /\ x = IF "H" \in f \/ w % 16 > 9 THEN 6 ELSE 0
                  /\ u = IF "C" \in f \/ w > 153 THEN 96 ELSE 0
  OBVIOUS
<1>2. DAA(w, f).v = (IF "N" \in f THEN w - (x + u) ELSE w + (x + u)) % 256
  BY <1>1 DEF DAA
<1>3. "C" \in DAA(w, f).f <=> "C" \in f \/ w > 153
  BY DEF DAA, szp, sz, parity, On
<1>4. /\ "N" \in f => DAA(w, f).v = (w - (x + u)) % 256
      /\ "N" \notin f => DAA(w, f).v = (w + (x + u)) % 256
  BY <1>2
<1> HIDE DEF DAA
<1>5. Corrects(w, f, DAA(w, f), x, u)
  BY <1>1, <1>3, <1>4 DEF Corrects
<1> QED
  BY <1>5

LEMMA DecimalSum ==
  ASSUME NEW a, NEW v, NEW c \in 0 .. 1, IsDecimal(a), IsDecimal(v)
  PROVE  LET sum == ADC(a, v, c)
             daa == DAA(sum.v, sum.f)
         IN  /\ IsDecimal(daa.v)
             /\ Decimal(daa.v) + 100 * Carry(daa.f) = Decimal(a) + Decimal(v) + c
<1>1. PICK p, i : /\ TwoDigits(a, p, i) /\ Decimal(a) = 10 * p + i
               /\ p \in 0 .. 9 /\ i \in 0 .. 9 /\ a = 16 * p + i
  BY DecimalDigits, DigitsTogether DEF TwoDigits
<1>2. PICK q, j : /\ TwoDigits(v, q, j) /\ Decimal(v) = 10 * q + j
               /\ q \in 0 .. 9 /\ j \in 0 .. 9 /\ v = 16 * q + j
  BY DecimalDigits, DigitsTogether DEF TwoDigits
<1>3. PICK w, f : w = ADC(a, v, c).v /\ f = ADC(a, v, c).f
  OBVIOUS
<1>4. /\ w \in Byte /\ "N" \notin f
      /\ a + v + c = w + 256 * Carry(f)
      /\ "H" \in f <=> i + j + c >= 16
  <2>1. IsSum(ADC(a, v, c), a, v, c, 128)
    BY ADCExact DEF IsDecimal
  <2>2. a % 16 = i /\ v % 16 = j
    BY <1>1, <1>2
  <2> QED
    BY <1>3, <2>1, <2>2 DEF IsSum, Byte
<1>5. PICK x, u : /\ x = IF "H" \in f \/ w % 16 > 9 THEN 6 ELSE 0
                  /\ u = IF "C" \in f \/ w > 153 THEN 96 ELSE 0
                  /\ DAA(w, f).v = (w + (x + u)) % 256
                  /\ "C" \in DAA(w, f).f <=> u = 96
  <2>1. PICK x, u : Corrects(w, f, DAA(w, f), x, u)
    BY <1>4, DAAResult
  <2> QED
    BY <1>4, <2>1 DEF Corrects
<1>6. PICK n, l : n = p + q /\ l = i + j + c
  OBVIOUS
<1>7. /\ n \in 0 .. 18 /\ l \in 0 .. 19
      /\ w = 16 * n + l \/ w = 16 * n + l - 256
      /\ w \in 0 .. 255
      /\ "C" \in f <=> w = 16 * n + l - 256
      /\ "H" \in f <=> l >= 16
  BY <1>1, <1>2, <1>4, <1>6 DEF Carry, Byte
<1>8. x = 6 <=> l >= 10
  BY <1>5, <1>7
<1>9. u = 96 <=> 16 * n + l > 153
  BY <1>5, <1>7
<1>10. PICK e, g \in 0 .. 1 : (e = 1 <=> l >= 10) /\ (g = 1 <=> n + e >= 10)
  <2>1. PICK e \in 0 .. 1 : e = 1 <=> l >= 10
    <3>1. CASE l >= 10
      BY <3>1
    <3>2. CASE ~(l >= 10)
      BY <3>2
    <3> QED
      BY <3>1, <3>2
  <2>2. PICK g \in 0 .. 1 : g = 1 <=> n + e >= 10
    <3>1. CASE n + e >= 10
      BY <3>1
    <3>2. CASE ~(n + e >= 10)
      BY <3>2
    <3> QED
      BY <3>1, <3>2
  <2> QED
    BY <2>1, <2>2
<1>11. x = 6 * e /\ u = 96 * g
  <2>1. 16 * n + l > 153 <=> n + e >= 10
    BY <1>7, <1>10
  <2> QED
    BY <1>5, <1>8, <1>9, <1>10, <2>1
<1>12. DAA(w, f).v = 16 * (n + e - 10 * g) + (l - 10 * e)
  <2>1. PICK k \in -2 .. 2 : w + (x + u) = 16 * (n + e - 10 * g) + (l - 10 * e) + 256 * k
    BY <1>7, <1>10, <1>11
  <2>2. 16 * (n + e - 10 * g) + (l - 10 * e) \in 0 .. 255
    BY <1>7, <1>10
  <2>3. PICK s : s = 16 * (n + e - 10 * g) + (l - 10 * e)
    OBVIOUS
  <2>4. s \in 0 .. 255 /\ (s + 256 * k) % 256 = s
    BY <2>2, <2>3
  <2> QED
    BY <1>5, <2>1, <2>3, <2>4
<1>13. n + e - 10 * g \in 0 .. 9 /\ l - 10 * e \in 0 .. 9
  BY <1>7, <1>10
<1>14. PICK P, I : /\ TwoDigits(DAA(w, f).v, P, I)
                  /\ P = n + e - 10 * g /\ I = l - 10 * e
  BY <1>12, <1>13 DEF TwoDigits
<1>15. IsDecimal(DAA(w, f).v) /\ Decimal(DAA(w, f).v) = 10 * P + I
  BY <1>14, DigitsTogether
<1>16. Carry(DAA(w, f).f) = g
  BY <1>5, <1>10, <1>11 DEF Carry
<1>17. 10 * P + I + 100 * g = Decimal(a) + Decimal(v) + c
  BY <1>1, <1>2, <1>6, <1>7, <1>10, <1>14
<1> QED
  BY <1>3, <1>15, <1>16, <1>17

LEMMA DecimalDifference ==
  ASSUME NEW a, NEW v, NEW c \in 0 .. 1, IsDecimal(a), IsDecimal(v)
  PROVE  LET difference == SBC(a, v, c)
             daa == DAA(difference.v, difference.f)
         IN  /\ IsDecimal(daa.v)
             /\ Decimal(daa.v) - 100 * Carry(daa.f) = Decimal(a) - Decimal(v) - c
<1>1. PICK p, i : /\ TwoDigits(a, p, i) /\ Decimal(a) = 10 * p + i
               /\ p \in 0 .. 9 /\ i \in 0 .. 9 /\ a = 16 * p + i
  BY DecimalDigits, DigitsTogether DEF TwoDigits
<1>2. PICK q, j : /\ TwoDigits(v, q, j) /\ Decimal(v) = 10 * q + j
               /\ q \in 0 .. 9 /\ j \in 0 .. 9 /\ v = 16 * q + j
  BY DecimalDigits, DigitsTogether DEF TwoDigits
<1>3. PICK w, f : w = SBC(a, v, c).v /\ f = SBC(a, v, c).f
  OBVIOUS
<1>4. /\ w \in Byte /\ "N" \in f
      /\ a - v - c = w - 256 * Carry(f)
      /\ "H" \in f <=> i - j - c < 0
  <2>1. IsDifference(SBC(a, v, c), a, v, c, 128)
    BY SBCExact DEF IsDecimal
  <2>2. a % 16 = i /\ v % 16 = j
    BY <1>1, <1>2
  <2> QED
    BY <1>3, <2>1, <2>2 DEF IsDifference, Byte
<1>5. PICK x, u : /\ x = IF "H" \in f \/ w % 16 > 9 THEN 6 ELSE 0
                  /\ u = IF "C" \in f \/ w > 153 THEN 96 ELSE 0
                  /\ DAA(w, f).v = (w - (x + u)) % 256
                  /\ "C" \in DAA(w, f).f <=> u = 96
  <2>1. PICK x, u : Corrects(w, f, DAA(w, f), x, u)
    BY <1>4, DAAResult
  <2> QED
    BY <1>4, <2>1 DEF Corrects
<1>6. PICK n, l : n = p - q /\ l = i - j - c
  OBVIOUS
<1>7. /\ n \in -9 .. 9 /\ l \in -10 .. 9
      /\ w = 16 * n + l \/ w = 16 * n + l + 256
      /\ w \in 0 .. 255
      /\ "C" \in f <=> w = 16 * n + l + 256
      /\ "H" \in f <=> l < 0
  BY <1>1, <1>2, <1>4, <1>6 DEF Carry, Byte
<1>8. x = 6 <=> l < 0
  BY <1>5, <1>7
<1>9. u = 96 <=> 16 * n + l < 0
  BY <1>5, <1>7
<1>10. PICK e, g \in 0 .. 1 : (e = 1 <=> l < 0) /\ (g = 1 <=> n - e < 0)
  <2>1. PICK e \in 0 .. 1 : e = 1 <=> l < 0
    <3>1. CASE l < 0
      BY <3>1
    <3>2. CASE ~(l < 0)
      BY <3>2
    <3> QED
      BY <3>1, <3>2
  <2>2. PICK g \in 0 .. 1 : g = 1 <=> n - e < 0
    <3>1. CASE n - e < 0
      BY <3>1
    <3>2. CASE ~(n - e < 0)
      BY <3>2
    <3> QED
      BY <3>1, <3>2
  <2> QED
    BY <2>1, <2>2
<1>11. x = 6 * e /\ u = 96 * g
  <2>1. 16 * n + l < 0 <=> n - e < 0
    BY <1>7, <1>10
  <2> QED
    BY <1>5, <1>8, <1>9, <1>10, <2>1
<1>12. DAA(w, f).v = 16 * (n - e + 10 * g) + (l + 10 * e)
  <2>1. PICK k \in -2 .. 2 : w - (x + u) = 16 * (n - e + 10 * g) + (l + 10 * e) + 256 * k
    BY <1>7, <1>10, <1>11
  <2>2. 16 * (n - e + 10 * g) + (l + 10 * e) \in 0 .. 255
    BY <1>7, <1>10
  <2>3. PICK s : s = 16 * (n - e + 10 * g) + (l + 10 * e)
    OBVIOUS
  <2>4. s \in 0 .. 255 /\ (s + 256 * k) % 256 = s
    BY <2>2, <2>3
  <2> QED
    BY <1>5, <2>1, <2>3, <2>4
<1>13. n - e + 10 * g \in 0 .. 9 /\ l + 10 * e \in 0 .. 9
  BY <1>7, <1>10
<1>14. PICK P, I : /\ TwoDigits(DAA(w, f).v, P, I)
                  /\ P = n - e + 10 * g /\ I = l + 10 * e
  BY <1>12, <1>13 DEF TwoDigits
<1>15. IsDecimal(DAA(w, f).v) /\ Decimal(DAA(w, f).v) = 10 * P + I
  BY <1>14, DigitsTogether
<1>16. Carry(DAA(w, f).f) = g
  BY <1>5, <1>10, <1>11 DEF Carry
<1>17. (10 * P + I) - 100 * g = Decimal(a) - Decimal(v) - c
  BY <1>1, <1>2, <1>6, <1>7, <1>10, <1>14
<1> QED
  BY <1>3, <1>15, <1>16, <1>17

(* The macro DAA with its 2048 entries (macros.h, opcodes_base.c) after    *)
(* ADD, ADC, SUB or SBC of two bytes of two decimal digits each: the       *)
(* digits of the decimal sum or difference, and C is its hundred.  With it *)
(* as the next carry, decimal numbers of any length are added byte by      *)
(* byte.                                                                   *)
THEOREM DAAIsDecimal ==
  \A a, v, c :
    IsDecimal(a) /\ IsDecimal(v) /\ c \in 0 .. 1 =>
      LET sum == ADC(a, v, c)
          difference == SBC(a, v, c)
          up == DAA(sum.v, sum.f)
          down == DAA(difference.v, difference.f)
      IN  /\ IsDecimal(up.v) /\ IsDecimal(down.v)
          /\ Decimal(up.v) + 100 * Carry(up.f) = Decimal(a) + Decimal(v) + c
          /\ Decimal(down.v) - 100 * Carry(down.f) = Decimal(a) - Decimal(v) - c
BY DecimalSum, DecimalDifference

-----------------------------------------------------------------------------
(* Shifts and rotations.  The carry out makes each of them exact; c comes  *)
(* in at the other end.                                                    *)
IsLeftShift(res, v, c) ==
  /\ res.v \in Byte /\ 2 * v + c = res.v + 256 * Carry(res.f)
  /\ "S" \in res.f <=> res.v >= 128
  /\ "Z" \in res.f <=> res.v = 0

IsRightShift(res, v, c) ==
  /\ res.v \in Byte /\ v + 256 * c = 2 * res.v + Carry(res.f)
  /\ "S" \in res.f <=> res.v >= 128
  /\ "Z" \in res.f <=> res.v = 0

(* The two bits that leave.                                                *)
LEMMA OuterBits ==
  ASSUME NEW v \in Byte
  PROVE  /\ Bit(v, 0) = v % 2 /\ Bit(v, 7) = IF v >= 128 THEN 1 ELSE 0
         /\ Carry(Out(v, 0)) = Bit(v, 0) /\ Carry(Out(v, 7)) = Bit(v, 7)
<1>1. v \in 0 .. 255
  BY DEF Byte
<1>2. Bit(v, 0) = (v \div 1) % 2 /\ Bit(v, 7) = (v \div 128) % 2
  BY Powers DEF Bit
<1>3. Bit(v, 0) = v % 2
  BY <1>1, <1>2
<1>4. Bit(v, 7) = IF v >= 128 THEN 1 ELSE 0
  BY <1>1, <1>2
<1> HIDE DEF Bit
<1>5. Bit(v, 0) = 0 \/ Bit(v, 0) = 1
  BY <1>1, <1>3
<1>6. Bit(v, 7) = 0 \/ Bit(v, 7) = 1
  BY <1>4
<1> QED
  BY <1>3, <1>4, <1>5, <1>6 DEF Out, On, Carry

(* The flags of a result beside those that it is given.                    *)
LEMMA ResultFlags ==
  ASSUME NEW w, NEW more, more \subseteq {"C"}
  PROVE  /\ Result(w, more).v = w
         /\ Carry(Result(w, more).f) = Carry(more)
         /\ "S" \in Result(w, more).f <=> w >= 128
         /\ "Z" \in Result(w, more).f <=> w = 0
BY DEF Result, Carry, szp, sz, parity, On

LEMMA ShiftedLeft ==
  ASSUME NEW v \in Byte, NEW c \in 0 .. 1
  PROVE  IsLeftShift(Result(Left(v) + c, Out(v, 7)), v, c)
<1>1. v \in 0 .. 255 /\ Carry(Out(v, 7)) = IF v >= 128 THEN 1 ELSE 0
  BY OuterBits DEF Byte
<1>2. PICK w : w = Left(v) + c
  OBVIOUS
<1>3. w \in Byte /\ 2 * v + c = w + 256 * Carry(Out(v, 7))
  BY <1>1, <1>2 DEF Left, Byte
<1>4. Out(v, 7) \subseteq {"C"}
  BY DEF Out, On
<1> QED
  BY <1>2, <1>3, <1>4, ResultFlags DEF IsLeftShift

LEMMA ShiftedRight ==
  ASSUME NEW v \in Byte, NEW c \in 0 .. 1
  PROVE  IsRightShift(Result(v \div 2 + 128 * c, Out(v, 0)), v, c)
<1>1. v \in 0 .. 255 /\ Carry(Out(v, 0)) = v % 2
  BY OuterBits DEF Byte
<1>2. PICK w : w = v \div 2 + 128 * c
  OBVIOUS
<1>3. w \in Byte /\ v + 256 * c = 2 * w + Carry(Out(v, 0))
  BY <1>1, <1>2 DEF Byte
<1>4. Out(v, 0) \subseteq {"C"}
  BY DEF Out, On
<1> QED
  BY <1>2, <1>3, <1>4, ResultFlags DEF IsRightShift

(* The eight shifts of the page CB (macros.h): twice the value is what     *)
(* comes out with the carry above it, and half of it with the carry below; *)
(* so words of any length are shifted from byte to byte through C.  SRA    *)
(* halves signed numbers, downwards.                                       *)
THEOREM ShiftsAreExact ==
  \A v \in Byte, G \in SUBSET Flag :
    /\ IsLeftShift(SLA(v, G), v, 0)
    /\ IsLeftShift(SLL(v, G), v, 1)
    /\ IsLeftShift(RL(v, G), v, Carry(G))
    /\ IsLeftShift(RLC(v, G), v, Bit(v, 7))
    /\ IsRightShift(SRL(v, G), v, 0)
    /\ IsRightShift(RR(v, G), v, Carry(G))
    /\ IsRightShift(RRC(v, G), v, Bit(v, 0))
    /\ IsRightShift(SRA(v, G), v, Bit(v, 7))
    /\ Signed(v) = 2 * Signed(SRA(v, G).v) + Carry(SRA(v, G).f)
<1> SUFFICES ASSUME NEW v \in Byte, NEW G \in SUBSET Flag
             PROVE  /\ IsLeftShift(SLA(v, G), v, 0)
                    /\ IsLeftShift(SLL(v, G), v, 1)
                    /\ IsLeftShift(RL(v, G), v, Carry(G))
                    /\ IsLeftShift(RLC(v, G), v, Bit(v, 7))
                    /\ IsRightShift(SRL(v, G), v, 0)
                    /\ IsRightShift(RR(v, G), v, Carry(G))
                    /\ IsRightShift(RRC(v, G), v, Bit(v, 0))
                    /\ IsRightShift(SRA(v, G), v, Bit(v, 7))
                    /\ Signed(v) = 2 * Signed(SRA(v, G).v) + Carry(SRA(v, G).f)
  OBVIOUS
<1>1. /\ Carry(G) \in 0 .. 1 /\ Bit(v, 0) \in 0 .. 1 /\ Bit(v, 7) \in 0 .. 1
      /\ v \in Int /\ 0 \in 0 .. 1 /\ 1 \in 0 .. 1
  BY OuterBits DEF Carry, Byte
<1>2. Left(v) = Left(v) + 0 /\ v \div 2 = (v \div 2) + 128 * 0
  BY <1>1 DEF Left
<1>3. /\ IsLeftShift(SLL(v, G), v, 1)
      /\ IsLeftShift(RL(v, G), v, Carry(G))
      /\ IsLeftShift(RLC(v, G), v, Bit(v, 7))
  BY <1>1, ShiftedLeft DEF SLL, RL, RLC
<1>4. IsLeftShift(SLA(v, G), v, 0)
  <2>1. SLA(v, G) = Result(Left(v) + 0, Out(v, 7))
    BY <1>2 DEF SLA
  <2> QED
    BY <1>1, <2>1, ShiftedLeft
<1>5. /\ IsRightShift(RR(v, G), v, Carry(G))
      /\ IsRightShift(RRC(v, G), v, Bit(v, 0))
      /\ IsRightShift(SRA(v, G), v, Bit(v, 7))
  BY <1>1, ShiftedRight DEF RR, RRC, SRA
<1>6. IsRightShift(SRL(v, G), v, 0)
  <2>1. SRL(v, G) = Result((v \div 2) + 128 * 0, Out(v, 0))
    BY <1>2 DEF SRL
  <2> QED
    BY <1>1, <2>1, ShiftedRight
<1>7. Signed(v) = 2 * Signed(SRA(v, G).v) + Carry(SRA(v, G).f)
  <2>1. PICK w, c : w = SRA(v, G).v /\ c = Carry(SRA(v, G).f)
    OBVIOUS
  <2>2. /\ w \in 0 .. 255 /\ v \in 0 .. 255 /\ c \in 0 .. 1
        /\ v + 256 * Bit(v, 7) = 2 * w + c
        /\ Bit(v, 7) = IF v >= 128 THEN 1 ELSE 0
    BY <1>5, <2>1, OuterBits DEF IsRightShift, Byte, Carry
  <2>3. Signed(v) = 2 * Signed(w) + c
    BY <2>2 DEF Signed
  <2> QED
    BY <2>1, <2>3
<1> QED
  BY <1>3, <1>4, <1>5, <1>6, <1>7

(* A bit that leaves at one end and comes in at the other is the carry.    *)
LEMMA Upper ==
  ASSUME NEW v \in 0 .. 255, NEW w \in 0 .. 255, NEW c \in 0 .. 1, NEW d \in 0 .. 1,
         d = 1 <=> v >= 128, 2 * v + d = w + 256 * c
  PROVE  c = d
OBVIOUS

LEMMA Lower ==
  ASSUME NEW v \in 0 .. 255, NEW w \in 0 .. 255, NEW c \in 0 .. 1, NEW d \in 0 .. 1,
         d = v % 2, v + 256 * d = 2 * w + c
  PROVE  c = d
<1>1. PICK n \in 0 .. 127 : v = 2 * n + d
  <2>1. v \div 2 \in 0 .. 127 /\ v = 2 * (v \div 2) + (v % 2)
    OBVIOUS
  <2> QED
    BY <2>1
<1> QED
  BY <1>1

(* A rotation one way is undone by the one the other way (macros.h), with  *)
(* the carry if it goes through it: nothing is lost.                       *)
THEOREM RotationsUndo ==
  \A v \in Byte, G, E \in SUBSET Flag :
    /\ RRC(RLC(v, G).v, E).v = v /\ RLC(RRC(v, G).v, E).v = v
    /\ RR(RL(v, G).v, RL(v, G).f).v = v
    /\ RL(RR(v, G).v, RR(v, G).f).v = v
    /\ Carry(RR(RL(v, G).v, RL(v, G).f).f) = Carry(G)
    /\ Carry(RL(RR(v, G).v, RR(v, G).f).f) = Carry(G)
<1> SUFFICES ASSUME NEW v \in Byte, NEW G \in SUBSET Flag, NEW E \in SUBSET Flag
             PROVE  /\ RRC(RLC(v, G).v, E).v = v /\ RLC(RRC(v, G).v, E).v = v
                    /\ RR(RL(v, G).v, RL(v, G).f).v = v
                    /\ RL(RR(v, G).v, RR(v, G).f).v = v
                    /\ Carry(RR(RL(v, G).v, RL(v, G).f).f) = Carry(G)
                    /\ Carry(RL(RR(v, G).v, RR(v, G).f).f) = Carry(G)
  OBVIOUS
<1>1. \A u \in Byte, D \in SUBSET Flag :
        /\ Result(u, {}).v = u
        /\ IsLeftShift(RL(u, D), u, Carry(D)) /\ IsRightShift(RR(u, D), u, Carry(D))
        /\ IsLeftShift(RLC(u, D), u, Bit(u, 7)) /\ IsRightShift(RRC(u, D), u, Bit(u, 0))
        /\ Bit(u, 0) = u % 2 /\ Bit(u, 7) = IF u >= 128 THEN 1 ELSE 0
  BY ShiftsAreExact, OuterBits DEF Result
<1>2. \A D : Carry(D) \in 0 .. 1
  BY DEF Carry
<1>3. \A u, D : RL(u, D).f \subseteq Flag /\ RR(u, D).f \subseteq Flag
  BY DEF RL, RR, Result, szp, sz, parity, Out, On, Flag
<1>4. \A u \in Byte : u \in 0 .. 255
  BY DEF Byte
<1>5. RRC(RLC(v, G).v, E).v = v
  <2>1. PICK w, x, b, d, c, e : /\ w = RLC(v, G).v /\ c = Carry(RLC(v, G).f)
                                /\ x = RRC(w, E).v /\ e = Carry(RRC(w, E).f)
                                /\ b = Bit(v, 7) /\ d = Bit(w, 0)
    OBVIOUS
  <2>2. w \in Byte /\ 2 * v + b = w + 256 * c
    BY <1>1, <2>1 DEF IsLeftShift
  <2>3. x \in Byte /\ w + 256 * d = 2 * x + e
    BY <1>1, <2>1, <2>2 DEF IsRightShift
  <2>4. c \in 0 .. 1 /\ e \in 0 .. 1 /\ b \in 0 .. 1 /\ (b = 1 <=> v >= 128)
        /\ d \in 0 .. 1 /\ d = w % 2
    <3>1. b = IF v >= 128 THEN 1 ELSE 0
      BY <1>1, <2>1
    <3>2. d = w % 2 /\ w \in 0 .. 255
      BY <1>1, <1>4, <2>1, <2>2
    <3>3. d \in 0 .. 1
      BY <3>2
    <3> QED
      BY <1>2, <2>1, <3>1, <3>2, <3>3
  <2>5. v \in 0 .. 255 /\ w \in 0 .. 255 /\ x \in 0 .. 255
    BY <1>4, <2>2, <2>3
  <2>6. b = c /\ d = e
    BY <2>2, <2>3, <2>4, <2>5, Upper, Lower
  <2>7. 2 * v + c = 2 * x + c
    <3>1. d = c
      BY <2>2, <2>4, <2>5, <2>6
    <3> QED
      BY <2>2, <2>3, <2>4, <2>5, <2>6, <3>1
  <2>8. x = v
    BY <2>4, <2>5, <2>7
  <2> QED
    BY <2>1, <2>8
<1>6. RLC(RRC(v, G).v, E).v = v
  <2>1. PICK w, x, b, d, c, e : /\ w = RRC(v, G).v /\ c = Carry(RRC(v, G).f)
                                /\ x = RLC(w, E).v /\ e = Carry(RLC(w, E).f)
                                /\ b = Bit(v, 0) /\ d = Bit(w, 7)
    OBVIOUS
  <2>2. w \in Byte /\ v + 256 * b = 2 * w + c
    BY <1>1, <2>1 DEF IsRightShift
  <2>3. x \in Byte /\ 2 * w + d = x + 256 * e
    BY <1>1, <2>1, <2>2 DEF IsLeftShift
  <2>4. c \in 0 .. 1 /\ e \in 0 .. 1 /\ d \in 0 .. 1 /\ (d = 1 <=> w >= 128)
        /\ b \in 0 .. 1 /\ b = v % 2
    <3>1. d = IF w >= 128 THEN 1 ELSE 0
      BY <1>1, <2>1, <2>2
    <3>2. b = v % 2 /\ v \in 0 .. 255
      BY <1>1, <1>4, <2>1
    <3>3. b \in 0 .. 1
      BY <3>2
    <3> QED
      BY <1>2, <2>1, <3>1, <3>2, <3>3
  <2>5. v \in 0 .. 255 /\ w \in 0 .. 255 /\ x \in 0 .. 255
    BY <1>4, <2>2, <2>3
  <2>6. b = c /\ d = e
    BY <2>2, <2>3, <2>4, <2>5, Upper, Lower
  <2>7. d = b
    <3>1. v + 256 * b = 2 * w + b
      BY <2>2, <2>6
    <3> QED
      BY <2>4, <2>5, <3>1
  <2>8. v + 256 * b = x + 256 * b
    BY <2>2, <2>3, <2>4, <2>5, <2>6, <2>7
  <2>9. x = v
    BY <2>4, <2>5, <2>8
  <2> QED
    BY <2>1, <2>9
<1>7. /\ RR(RL(v, G).v, RL(v, G).f).v = v
      /\ Carry(RR(RL(v, G).v, RL(v, G).f).f) = Carry(G)
  <2>1. PICK w, D, x, c, d, e : /\ w = RL(v, G).v /\ D = RL(v, G).f /\ d = Carry(G)
                                /\ x = RR(w, D).v /\ c = Carry(RR(w, D).f)
                                /\ e = Carry(D)
    OBVIOUS
  <2>2. w \in Byte /\ 2 * v + d = w + 256 * e /\ D \subseteq Flag
    BY <1>1, <1>3, <2>1 DEF IsLeftShift
  <2>3. x \in Byte /\ w + 256 * e = 2 * x + c
    BY <1>1, <2>1, <2>2 DEF IsRightShift
  <2>4. 2 * v + d = 2 * x + c
    BY <2>2, <2>3
  <2>5. v \in 0 .. 255 /\ x \in 0 .. 255 /\ c \in 0 .. 1 /\ d \in 0 .. 1
    BY <1>2, <1>4, <2>1, <2>3
  <2>6. x = v /\ c = d
    BY <2>4, <2>5
  <2> QED
    BY <2>1, <2>6
<1>8. /\ RL(RR(v, G).v, RR(v, G).f).v = v
      /\ Carry(RL(RR(v, G).v, RR(v, G).f).f) = Carry(G)
  <2>1. PICK w, D, x, c, d, e : /\ w = RR(v, G).v /\ D = RR(v, G).f /\ d = Carry(G)
                                /\ x = RL(w, D).v /\ c = Carry(RL(w, D).f)
                                /\ e = Carry(D)
    OBVIOUS
  <2>2. w \in Byte /\ v + 256 * d = 2 * w + e /\ D \subseteq Flag
    BY <1>1, <1>3, <2>1 DEF IsRightShift
  <2>3. x \in Byte /\ 2 * w + e = x + 256 * c
    BY <1>1, <2>1, <2>2 DEF IsLeftShift
  <2>4. v + 256 * d = x + 256 * c
    BY <2>2, <2>3
  <2>5. v \in 0 .. 255 /\ x \in 0 .. 255 /\ c \in 0 .. 1 /\ d \in 0 .. 1
    BY <1>2, <1>4, <2>1, <2>3
  <2>6. x = v /\ c = d
    BY <2>4, <2>5
  <2> QED
    BY <2>1, <2>6
<1> QED
  BY <1>5, <1>6, <1>7, <1>8

-----------------------------------------------------------------------------
(* Single bits.  A byte is the sum of its bits, and no other.              *)
HasBits(x, b) == b \in [0 .. 7 -> 0 .. 1] /\ x = OfBits(b)

LEMMA TwoPowers ==
  /\ 2^0 = 1 /\ 2^1 = 2 /\ 2^2 = 4 /\ 2^3 = 8
  /\ 2^4 = 16 /\ 2^5 = 32 /\ 2^6 = 64 /\ 2^7 = 128
  OBVIOUS

LEMMA BitsOf ==
  ASSUME NEW x, NEW b, HasBits(x, b)
  PROVE  x \in Byte /\ \A k \in 0 .. 7 : Bit(x, k) = b[k]
<1>1. PICK b0, b1, b2, b3, b4, b5, b6, b7 \in 0 .. 1 :
        /\ b[0] = b0 /\ b[1] = b1 /\ b[2] = b2 /\ b[3] = b3
        /\ b[4] = b4 /\ b[5] = b5 /\ b[6] = b6 /\ b[7] = b7
  BY DEF HasBits
<1>2. x = b0 + 2 * b1 + 4 * b2 + 8 * b3 + 16 * b4 + 32 * b5 + 64 * b6 + 128 * b7
  BY <1>1 DEF HasBits, OfBits
<1>3. x \in Byte
  BY <1>2 DEF Byte
<1>4. /\ Bit(x, 0) = b0 /\ Bit(x, 1) = b1 /\ Bit(x, 2) = b2 /\ Bit(x, 3) = b3
      /\ Bit(x, 4) = b4 /\ Bit(x, 5) = b5 /\ Bit(x, 6) = b6 /\ Bit(x, 7) = b7
  <2>1. Bit(x, 0) = b0
    BY <1>2, TwoPowers DEF Bit
  <2>2. Bit(x, 1) = b1
    BY <1>2, TwoPowers DEF Bit
  <2>3. Bit(x, 2) = b2
    BY <1>2, TwoPowers DEF Bit
  <2>4. Bit(x, 3) = b3
    BY <1>2, TwoPowers DEF Bit
  <2>5. Bit(x, 4) = b4
    BY <1>2, TwoPowers DEF Bit
  <2>6. Bit(x, 5) = b5
    BY <1>2, TwoPowers DEF Bit
  <2>7. Bit(x, 6) = b6
    BY <1>2, TwoPowers DEF Bit
  <2>8. Bit(x, 7) = b7
    BY <1>2, TwoPowers DEF Bit
  <2> QED
    BY <2>1, <2>2, <2>3, <2>4, <2>5, <2>6, <2>7, <2>8
<1>5. ASSUME NEW k \in 0 .. 7
      PROVE  Bit(x, k) = b[k]
  BY <1>1, <1>4
<1> QED
  BY <1>3, <1>5

LEMMA OwnBits ==
  ASSUME NEW v \in Byte
  PROVE  HasBits(v, [k \in 0 .. 7 |-> Bit(v, k)])
<1> DEFINE b == [k \in 0 .. 7 |-> Bit(v, k)]
<1>1. v \in 0 .. 255
  BY DEF Byte
<1>2. PICK b0, b1, b2, b3, b4, b5, b6, b7 :
        /\ b0 = v % 2 /\ b1 = (v \div 2) % 2
        /\ b2 = (v \div 4) % 2 /\ b3 = (v \div 8) % 2
        /\ b4 = (v \div 16) % 2 /\ b5 = (v \div 32) % 2
        /\ b6 = (v \div 64) % 2 /\ b7 = (v \div 128) % 2
  OBVIOUS
<1>3. /\ Bit(v, 0) = b0 /\ Bit(v, 1) = b1 /\ Bit(v, 2) = b2 /\ Bit(v, 3) = b3
      /\ Bit(v, 4) = b4 /\ Bit(v, 5) = b5 /\ Bit(v, 6) = b6 /\ Bit(v, 7) = b7
  <2>1. v \div 1 = v
    BY <1>1
  <2> QED
    BY <1>2, <2>1, TwoPowers DEF Bit
<1>4. /\ b0 \in 0 .. 1 /\ b1 \in 0 .. 1 /\ b2 \in 0 .. 1 /\ b3 \in 0 .. 1
      /\ b4 \in 0 .. 1 /\ b5 \in 0 .. 1 /\ b6 \in 0 .. 1 /\ b7 \in 0 .. 1
  BY <1>1, <1>2
<1>5. v = b0 + 2 * b1 + 4 * b2 + 8 * b3 + 16 * b4 + 32 * b5 + 64 * b6 + 128 * b7
  BY <1>1, <1>2
<1> HIDE DEF Bit
<1>6. /\ b[0] = b0 /\ b[1] = b1 /\ b[2] = b2 /\ b[3] = b3
      /\ b[4] = b4 /\ b[5] = b5 /\ b[6] = b6 /\ b[7] = b7
  BY <1>3
<1>7. b \in [0 .. 7 -> 0 .. 1]
  <2>1. ASSUME NEW k \in 0 .. 7
        PROVE  Bit(v, k) \in 0 .. 1
    BY <1>3, <1>4
  <2> QED
    BY <2>1
<1> HIDE DEF b
<1>8. v = OfBits(b)
  BY <1>5, <1>6 DEF OfBits
<1> QED
  BY <1>7, <1>8 DEF HasBits, b

(* An operation on the bits of two bytes.                                  *)
LEMMA BitwiseBits ==
  ASSUME NEW b, b \in [0 .. 7 -> 0 .. 1], NEW more
  PROVE  /\ Result(OfBits(b), more).v \in Byte
         /\ \A k \in 0 .. 7 : Bit(Result(OfBits(b), more).v, k) = b[k]
<1>1. HasBits(OfBits(b), b)
  BY DEF HasBits
<1>2. Result(OfBits(b), more).v = OfBits(b)
  BY DEF Result
<1> QED
  BY <1>1, <1>2, BitsOf

LEMMA BitValues ==
  ASSUME NEW v \in Byte, NEW k \in 0 .. 7
  PROVE  Bit(v, k) = 0 \/ Bit(v, k) = 1
<1>1. [j \in 0 .. 7 |-> Bit(v, j)] \in [0 .. 7 -> 0 .. 1]
  BY OwnBits DEF HasBits
<1>2. Bit(v, k) \in 0 .. 1
  BY <1>1
<1> QED
  BY <1>2

LEMMA PowerValues ==
  ASSUME NEW b \in 0 .. 7
  PROVE  2^b \in Nat /\ 2^b > 0
<1>1. CASE b = 0
  BY <1>1, TwoPowers
<1>2. CASE b = 1
  BY <1>2, TwoPowers
<1>3. CASE b = 2
  BY <1>3, TwoPowers
<1>4. CASE b = 3
  BY <1>4, TwoPowers
<1>5. CASE b = 4
  BY <1>5, TwoPowers
<1>6. CASE b = 5
  BY <1>6, TwoPowers
<1>7. CASE b = 6
  BY <1>7, TwoPowers
<1>8. CASE b = 7
  BY <1>8, TwoPowers
<1> QED
  BY <1>1, <1>2, <1>3, <1>4, <1>5, <1>6, <1>7, <1>8

(* One bit changed, to n.                                                  *)
Changes(v, b, n, w) == n \in 0 .. 1 /\ w = v + 2^b * (n - Bit(v, b))

LEMMA ChangedBit ==
  ASSUME NEW v \in Byte, NEW b \in 0 .. 7, NEW n, NEW w, Changes(v, b, n, w)
  PROVE  /\ w \in Byte
         /\ \A k \in 0 .. 7 : Bit(w, k) = IF k = b THEN n ELSE Bit(v, k)
<1> DEFINE d == [k \in 0 .. 7 |-> Bit(v, k)]
           e == [d EXCEPT ![b] = n]
<1>0. n \in 0 .. 1 /\ w = v + 2^b * (n - Bit(v, b))
  BY DEF Changes
<1>1. d \in [0 .. 7 -> 0 .. 1] /\ v = OfBits(d)
  BY OwnBits DEF HasBits
<1>2. \A k \in 0 .. 7 : d[k] = Bit(v, k)
  OBVIOUS
<1> HIDE DEF d
<1>3. e \in [0 .. 7 -> 0 .. 1] /\ \A k \in 0 .. 7 : e[k] = IF k = b THEN n ELSE d[k]
  BY <1>0, <1>1
<1> HIDE DEF e
<1>4. v + 2^b * (n - d[b]) = OfBits(e)
  <2>1. PICK d0, d1, d2, d3, d4, d5, d6, d7 \in 0 .. 1 :
          /\ d[0] = d0 /\ d[1] = d1 /\ d[2] = d2 /\ d[3] = d3
          /\ d[4] = d4 /\ d[5] = d5 /\ d[6] = d6 /\ d[7] = d7
    BY <1>1
  <2>2. v = d0 + 2 * d1 + 4 * d2 + 8 * d3 + 16 * d4 + 32 * d5 + 64 * d6 + 128 * d7
    BY <1>1, <2>1 DEF OfBits
  <2>3. CASE b = 0
    <3>1. /\ e[0] = n /\ e[1] = d1 /\ e[2] = d2 /\ e[3] = d3
          /\ e[4] = d4 /\ e[5] = d5 /\ e[6] = d6 /\ e[7] = d7
      BY <1>3, <2>1, <2>3
    <3> QED
      BY <1>0, <2>1, <2>2, <2>3, <3>1, TwoPowers DEF OfBits
  <2>4. CASE b = 1
    <3>1. /\ e[0] = d0 /\ e[1] = n /\ e[2] = d2 /\ e[3] = d3
          /\ e[4] = d4 /\ e[5] = d5 /\ e[6] = d6 /\ e[7] = d7
      BY <1>3, <2>1, <2>4
    <3> QED
      BY <1>0, <2>1, <2>2, <2>4, <3>1, TwoPowers DEF OfBits
  <2>5. CASE b = 2
    <3>1. /\ e[0] = d0 /\ e[1] = d1 /\ e[2] = n /\ e[3] = d3
          /\ e[4] = d4 /\ e[5] = d5 /\ e[6] = d6 /\ e[7] = d7
      BY <1>3, <2>1, <2>5
    <3> QED
      BY <1>0, <2>1, <2>2, <2>5, <3>1, TwoPowers DEF OfBits
  <2>6. CASE b = 3
    <3>1. /\ e[0] = d0 /\ e[1] = d1 /\ e[2] = d2 /\ e[3] = n
          /\ e[4] = d4 /\ e[5] = d5 /\ e[6] = d6 /\ e[7] = d7
      BY <1>3, <2>1, <2>6
    <3> QED
      BY <1>0, <2>1, <2>2, <2>6, <3>1, TwoPowers DEF OfBits
  <2>7. CASE b = 4
    <3>1. /\ e[0] = d0 /\ e[1] = d1 /\ e[2] = d2 /\ e[3] = d3
          /\ e[4] = n /\ e[5] = d5 /\ e[6] = d6 /\ e[7] = d7
      BY <1>3, <2>1, <2>7
    <3> QED
      BY <1>0, <2>1, <2>2, <2>7, <3>1, TwoPowers DEF OfBits
  <2>8. CASE b = 5
    <3>1. /\ e[0] = d0 /\ e[1] = d1 /\ e[2] = d2 /\ e[3] = d3
          /\ e[4] = d4 /\ e[5] = n /\ e[6] = d6 /\ e[7] = d7
      BY <1>3, <2>1, <2>8
    <3> QED
      BY <1>0, <2>1, <2>2, <2>8, <3>1, TwoPowers DEF OfBits
  <2>9. CASE b = 6
    <3>1. /\ e[0] = d0 /\ e[1] = d1 /\ e[2] = d2 /\ e[3] = d3
          /\ e[4] = d4 /\ e[5] = d5 /\ e[6] = n /\ e[7] = d7
      BY <1>3, <2>1, <2>9
    <3> QED
      BY <1>0, <2>1, <2>2, <2>9, <3>1, TwoPowers DEF OfBits
  <2>10. CASE b = 7
    <3>1. /\ e[0] = d0 /\ e[1] = d1 /\ e[2] = d2 /\ e[3] = d3
          /\ e[4] = d4 /\ e[5] = d5 /\ e[6] = d6 /\ e[7] = n
      BY <1>3, <2>1, <2>10
    <3> QED
      BY <1>0, <2>1, <2>2, <2>10, <3>1, TwoPowers DEF OfBits
  <2> QED
    BY <2>3, <2>4, <2>5, <2>6, <2>7, <2>8, <2>9, <2>10
<1>5. HasBits(w, e)
  BY <1>0, <1>2, <1>3, <1>4 DEF HasBits
<1> QED
  BY <1>2, <1>3, <1>5, BitsOf

LEMMA SetAndReset ==
  ASSUME NEW v \in Byte, NEW b \in 0 .. 7
  PROVE  /\ SET(b, v) \in Byte /\ RES(b, v) \in Byte
         /\ \A k \in 0 .. 7 :
              /\ Bit(SET(b, v), k) = IF k = b THEN 1 ELSE Bit(v, k)
              /\ Bit(RES(b, v), k) = IF k = b THEN 0 ELSE Bit(v, k)
<1>1. PICK m \in Nat : m = 2^b
  BY PowerValues
<1>2. PICK c \in 0 .. 1 : c = Bit(v, b)
  BY BitValues
<1>3. v \in Int
  BY DEF Byte
<1>4. v + m * (0 - c) = v - m * c
  BY <1>1, <1>2, <1>3
<1>5. SET(b, v) = v + 2^b * (1 - Bit(v, b)) /\ RES(b, v) = v + 2^b * (0 - Bit(v, b))
  BY <1>1, <1>2, <1>4 DEF SET, RES
<1>6. Changes(v, b, 1, SET(b, v)) /\ Changes(v, b, 0, RES(b, v))
  BY <1>5 DEF Changes
<1> QED
  BY <1>6, ChangedBit

(* AND, OR, XOR, CPL, SET, RES and BIT (macros.h) do to every bit of a     *)
(* byte what their names say and nothing to its neighbours, though in the  *)
(* model they are sums of powers of two: a mask clears, a complement is    *)
(* its own inverse, and Z after BIT is the bit tested.                     *)
THEOREM BitsAreExact ==
  \A a, v \in Byte, G \in SUBSET Flag : \A b, k \in 0 .. 7 :
    /\ Bit(AND(a, v).v, k) = 1 <=> Bit(a, k) = 1 /\ Bit(v, k) = 1
    /\ Bit(OR(a, v).v, k) = 1 <=> Bit(a, k) = 1 \/ Bit(v, k) = 1
    /\ Bit(XOR(a, v).v, k) = 1 <=> Bit(a, k) # Bit(v, k)
    /\ Bit(CPL(v, G).v, k) = 1 <=> Bit(v, k) = 0
    /\ Bit(SET(b, v), k) = 1 <=> k = b \/ Bit(v, k) = 1
    /\ Bit(RES(b, v), k) = 1 <=> k # b /\ Bit(v, k) = 1
    /\ "Z" \in BIT(b, v, G) <=> Bit(v, b) = 0
    /\ {AND(a, v).v, OR(a, v).v, XOR(a, v).v, CPL(v, G).v, SET(b, v), RES(b, v)}
         \subseteq Byte
<1> SUFFICES ASSUME NEW a \in Byte, NEW v \in Byte, NEW G \in SUBSET Flag,
                    NEW b \in 0 .. 7, NEW k \in 0 .. 7
             PROVE  /\ Bit(AND(a, v).v, k) = 1 <=> Bit(a, k) = 1 /\ Bit(v, k) = 1
                    /\ Bit(OR(a, v).v, k) = 1 <=> Bit(a, k) = 1 \/ Bit(v, k) = 1
                    /\ Bit(XOR(a, v).v, k) = 1 <=> Bit(a, k) # Bit(v, k)
                    /\ Bit(CPL(v, G).v, k) = 1 <=> Bit(v, k) = 0
                    /\ Bit(SET(b, v), k) = 1 <=> k = b \/ Bit(v, k) = 1
                    /\ Bit(RES(b, v), k) = 1 <=> k # b /\ Bit(v, k) = 1
                    /\ "Z" \in BIT(b, v, G) <=> Bit(v, b) = 0
                    /\ {AND(a, v).v, OR(a, v).v, XOR(a, v).v, CPL(v, G).v,
                        SET(b, v), RES(b, v)} \subseteq Byte
  OBVIOUS
<1>1. \A j \in 0 .. 7 : /\ Bit(a, j) = 0 \/ Bit(a, j) = 1
                        /\ Bit(v, j) = 0 \/ Bit(v, j) = 1
  BY BitValues
<1>2. AND(a, v).v \in Byte /\ (Bit(AND(a, v).v, k) = 1 <=> Bit(a, k) = 1 /\ Bit(v, k) = 1)
  <2> DEFINE d == [j \in 0 .. 7 |-> Bit(a, j) * Bit(v, j)]
  <2>1. AND(a, v) = Result(OfBits(d), {"H"})
    BY DEF AND, Logic
  <2>2. d \in [0 .. 7 -> 0 .. 1]
    <3>1. ASSUME NEW j \in 0 .. 7
          PROVE  Bit(a, j) * Bit(v, j) \in 0 .. 1
      BY <1>1
    <3> QED
      BY <3>1
  <2>3. d[k] = 1 <=> Bit(a, k) = 1 /\ Bit(v, k) = 1
    BY <1>1
  <2> HIDE DEF d
  <2> QED
    BY <2>1, <2>2, <2>3, BitwiseBits
<1>3. OR(a, v).v \in Byte /\ (Bit(OR(a, v).v, k) = 1 <=> Bit(a, k) = 1 \/ Bit(v, k) = 1)
  <2> DEFINE d == [j \in 0 .. 7 |-> IF Bit(a, j) + Bit(v, j) > 0 THEN 1 ELSE 0]
  <2>1. OR(a, v) = Result(OfBits(d), {})
    BY DEF OR, Logic
  <2>2. d \in [0 .. 7 -> 0 .. 1]
    OBVIOUS
  <2>3. d[k] = 1 <=> Bit(a, k) = 1 \/ Bit(v, k) = 1
    BY <1>1
  <2> HIDE DEF d
  <2> QED
    BY <2>1, <2>2, <2>3, BitwiseBits
<1>4. XOR(a, v).v \in Byte /\ (Bit(XOR(a, v).v, k) = 1 <=> Bit(a, k) # Bit(v, k))
  <2> DEFINE d == [j \in 0 .. 7 |-> (Bit(a, j) + Bit(v, j)) % 2]
  <2>1. XOR(a, v) = Result(OfBits(d), {})
    BY DEF XOR, Logic
  <2>2. d \in [0 .. 7 -> 0 .. 1]
    <3>1. ASSUME NEW j \in 0 .. 7
          PROVE  (Bit(a, j) + Bit(v, j)) % 2 \in 0 .. 1
      BY <1>1
    <3> QED
      BY <3>1
  <2>3. d[k] = 1 <=> Bit(a, k) # Bit(v, k)
    BY <1>1
  <2> HIDE DEF d
  <2> QED
    BY <2>1, <2>2, <2>3, BitwiseBits
<1>5. CPL(v, G).v \in Byte /\ (Bit(CPL(v, G).v, k) = 1 <=> Bit(v, k) = 0)
  <2> DEFINE d == [j \in 0 .. 7 |-> Bit(v, j)]
             e == [j \in 0 .. 7 |-> 1 - Bit(v, j)]
  <2>1. d \in [0 .. 7 -> 0 .. 1] /\ v = OfBits(d)
    BY OwnBits DEF HasBits
  <2>2. \A j \in 0 .. 7 : d[j] = Bit(v, j) /\ e[j] = 1 - d[j]
    OBVIOUS
  <2>3. e \in [0 .. 7 -> 0 .. 1]
    <3>1. ASSUME NEW j \in 0 .. 7
          PROVE  1 - Bit(v, j) \in 0 .. 1
      BY <1>1
    <3> QED
      BY <3>1
  <2> HIDE DEF d, e
  <2>4. 255 - v = OfBits(e)
    <3>1. PICK d0, d1, d2, d3, d4, d5, d6, d7 \in 0 .. 1 :
            /\ d[0] = d0 /\ d[1] = d1 /\ d[2] = d2 /\ d[3] = d3
            /\ d[4] = d4 /\ d[5] = d5 /\ d[6] = d6 /\ d[7] = d7
      BY <2>1
    <3>2. v = d0 + 2 * d1 + 4 * d2 + 8 * d3 + 16 * d4 + 32 * d5 + 64 * d6 + 128 * d7
      BY <2>1, <3>1 DEF OfBits
    <3>3. /\ e[0] = 1 - d0 /\ e[1] = 1 - d1 /\ e[2] = 1 - d2 /\ e[3] = 1 - d3
          /\ e[4] = 1 - d4 /\ e[5] = 1 - d5 /\ e[6] = 1 - d6 /\ e[7] = 1 - d7
      BY <2>2, <3>1
    <3> QED
      BY <3>2, <3>3 DEF OfBits
  <2>5. CPL(v, G).v \in Byte /\ Bit(CPL(v, G).v, k) = e[k]
    <3>1. HasBits(CPL(v, G).v, e)
      BY <2>3, <2>4 DEF CPL, HasBits
    <3> QED
      BY <3>1, BitsOf
  <2> QED
    BY <1>1, <2>2, <2>5
<1>6. "Z" \in BIT(b, v, G) <=> Bit(v, b) = 0
  <2>1. PICK m : m = 2^b * Bit(v, b)
    OBVIOUS
  <2>2. m = 0 <=> Bit(v, b) = 0
    <3>1. PICK p, c : p = 2^b /\ c = Bit(v, b)
      OBVIOUS
    <3>2. p \in Nat /\ p > 0 /\ (c = 0 \/ c = 1) /\ m = p * c
      BY <1>1, <2>1, <3>1, PowerValues
    <3>3. CASE c = 0
      BY <3>1, <3>2, <3>3
    <3>4. CASE c = 1
      BY <3>1, <3>2, <3>4
    <3> QED
      BY <3>2, <3>3, <3>4
  <2>3. "Z" \in BIT(b, v, G) <=> m = 0
    <3>1. BIT(b, v, G) = (G \cap {"C"}) \cup {"H"} \cup szp(m)
      BY <2>1 DEF BIT
    <3> QED
      BY <3>1 DEF szp, sz, parity, On
  <2> QED
    BY <2>2, <2>3
<1> QED
  BY <1>1, <1>2, <1>3, <1>4, <1>5, <1>6, SetAndReset

-----------------------------------------------------------------------------
(* What the operations return, for all operands.                           *)
IsResult(res) == res.v \in Byte /\ res.f \subseteq Flag
IsResult16(res) == res.v \in Word /\ res.f \subseteq Flag

LEMMA FlagSets ==
  /\ \A v : szp(v) \subseteq Flag /\ sz(v) \subseteq Flag /\ parity(v) \subseteq Flag
  /\ \A n \in Flag : \A p : On(n, p) \subseteq Flag
  /\ {"C", "N", "P", "H", "Z", "S"} \subseteq Flag
BY DEF szp, sz, parity, On, Flag

LEMMA Wraps == \A x \in Int : Wrapped(x) \in Word
<1>1. PICK m \in Nat : m = 65536
  OBVIOUS
<1>2. ASSUME NEW x \in Int
      PROVE  Wrapped(x) \in 0 .. m - 1
  BY <1>1, Division DEF Wrapped
<1>3. Word = 0 .. m - 1
  BY <1>1 DEF Word
<1> QED
  BY <1>2, <1>3

LEMMA ByteWraps == \A x \in Int : x % 256 \in Byte
  BY DEF Byte

LEMMA SumTypes ==
  ASSUME NEW a \in Byte, NEW v \in Byte, NEW c \in 0 .. 1, NEW G \in SUBSET Flag
  PROVE  /\ IsResult(ADC(a, v, c)) /\ IsResult(SBC(a, v, c))
         /\ IsResult(ADD(a, v)) /\ IsResult(SUB(a, v)) /\ IsResult(NEG(a))
         /\ IsResult(CP(a, v)) /\ IsResult(INC(v, G)) /\ IsResult(DEC(v, G))
<1>1. \A u, w \in Byte, d \in 0 .. 1 : IsResult(ADC(u, w, d)) /\ IsResult(SBC(u, w, d))
  <2> SUFFICES ASSUME NEW u \in Byte, NEW w \in Byte, NEW d \in 0 .. 1
               PROVE  IsResult(ADC(u, w, d)) /\ IsResult(SBC(u, w, d))
    OBVIOUS
  <2>1. IsSum(ADC(u, w, d), u, w, d, 128) /\ IsDifference(SBC(u, w, d), u, w, d, 128)
    BY ADCExact, SBCExact
  <2> QED
    BY <2>1 DEF IsSum, IsDifference, IsResult, Byte
<1>2. 0 \in Byte /\ 1 \in Byte /\ 0 \in 0 .. 1
  BY DEF Byte
<1>3. IsResult(ADD(a, v)) /\ IsResult(SUB(a, v)) /\ IsResult(NEG(a))
  BY <1>1, <1>2 DEF ADD, SUB, NEG
<1>4. IsResult(CP(a, v))
  BY <1>3, CPFlags DEF IsResult
<1>5. IsResult(INC(v, G)) /\ IsResult(DEC(v, G))
  <2>1. IsResult(ADD(v, 1)) /\ IsResult(SUB(v, 1))
    BY <1>1, <1>2 DEF ADD, SUB
  <2> QED
    BY <2>1, CountsExactly DEF IsResult
<1> QED
  BY <1>1, <1>3, <1>4, <1>5

LEMMA BitTypes ==
  ASSUME NEW a \in Byte, NEW v \in Byte, NEW G \in SUBSET Flag, NEW b \in 0 .. 7
  PROVE  /\ IsResult(AND(a, v)) /\ IsResult(OR(a, v)) /\ IsResult(XOR(a, v))
         /\ IsResult(CPL(v, G)) /\ SET(b, v) \in Byte /\ RES(b, v) \in Byte
         /\ BIT(b, v, G) \subseteq Flag
<1>1. /\ AND(a, v).v \in Byte /\ OR(a, v).v \in Byte /\ XOR(a, v).v \in Byte
      /\ CPL(v, G).v \in Byte /\ SET(b, v) \in Byte /\ RES(b, v) \in Byte
  <2>1. {AND(a, v).v, OR(a, v).v, XOR(a, v).v, CPL(v, G).v, SET(b, v), RES(b, v)}
          \subseteq Byte
    BY BitsAreExact
  <2> QED
    BY <2>1
<1>2. \A w : Result(w, {}).f \subseteq Flag /\ Result(w, {"H"}).f \subseteq Flag
  BY FlagSets DEF Result
<1>3. /\ AND(a, v).f \subseteq Flag /\ OR(a, v).f \subseteq Flag
      /\ XOR(a, v).f \subseteq Flag
  BY <1>2 DEF AND, OR, XOR
<1>4. CPL(v, G).f \subseteq Flag /\ BIT(b, v, G) \subseteq Flag
  BY FlagSets DEF CPL, BIT
<1> QED
  BY <1>1, <1>3, <1>4 DEF IsResult

LEMMA ShiftTypes ==
  ASSUME NEW v \in Byte, NEW G \in SUBSET Flag
  PROVE  /\ IsResult(RLC(v, G)) /\ IsResult(RRC(v, G)) /\ IsResult(RL(v, G))
         /\ IsResult(RR(v, G)) /\ IsResult(SLA(v, G)) /\ IsResult(SRA(v, G))
         /\ IsResult(SLL(v, G)) /\ IsResult(SRL(v, G)) /\ IsResult(DAA(v, G))
         /\ SCF(G) \subseteq Flag /\ CCF(G) \subseteq Flag
         /\ \A res : IsResult(res) => IsResult(Rotated(res, G))
<1>1. /\ RLC(v, G).v \in Byte /\ RRC(v, G).v \in Byte /\ RL(v, G).v \in Byte
      /\ RR(v, G).v \in Byte /\ SLA(v, G).v \in Byte /\ SRA(v, G).v \in Byte
      /\ SLL(v, G).v \in Byte /\ SRL(v, G).v \in Byte
  BY ShiftsAreExact DEF IsLeftShift, IsRightShift
<1>2. \A w, k : Result(w, Out(v, k)).f \subseteq Flag
  BY FlagSets DEF Result, Out
<1>3. /\ RLC(v, G).f \subseteq Flag /\ RRC(v, G).f \subseteq Flag
      /\ RL(v, G).f \subseteq Flag /\ RR(v, G).f \subseteq Flag
      /\ SLA(v, G).f \subseteq Flag /\ SRA(v, G).f \subseteq Flag
      /\ SLL(v, G).f \subseteq Flag /\ SRL(v, G).f \subseteq Flag
  BY <1>2 DEF RLC, RRC, RL, RR, SLA, SRA, SLL, SRL
<1>4. IsResult(DAA(v, G))
  <2>1. PICK x, u : Corrects(v, G, DAA(v, G), x, u)
    BY DAAResult
  <2>2. x \in Int /\ u \in Int /\ v \in Int
    BY <2>1 DEF Corrects, Byte
  <2>3. DAA(v, G).v \in Byte
    BY <2>1, <2>2, ByteWraps DEF Corrects
  <2>4. DAA(v, G).f \subseteq Flag
    BY FlagSets DEF DAA
  <2> QED
    BY <2>3, <2>4 DEF IsResult
<1>5. SCF(G) \subseteq Flag /\ CCF(G) \subseteq Flag
  BY DEF SCF, CCF, Flag
<1>6. \A res : IsResult(res) => IsResult(Rotated(res, G))
  BY DEF IsResult, Rotated, Flag
<1> QED
  BY <1>1, <1>3, <1>4, <1>5, <1>6 DEF IsResult

LEMMA WideTypes ==
  ASSUME NEW a \in Word, NEW v \in Word, NEW G \in SUBSET Flag
  PROVE  /\ IsResult16(ADD16(a, v, G)) /\ IsResult16(ADC16(a, v, G))
         /\ IsResult16(SBC16(a, v, G))
<1>0. PICK m : m = 32768 /\ Halves16(m)
  BY WordHalves
<1>1. Halves16(m)
  BY <1>0
<1>2. \A E \in SUBSET Flag : IsResult16(ADC16(a, v, E))
  <2> SUFFICES ASSUME NEW E \in SUBSET Flag
               PROVE  IsResult16(ADC16(a, v, E))
    OBVIOUS
  <2>1. IsSum(ADC16(a, v, E), a, v, Carry(E), m)
    BY <1>0, ADC16Exact
  <2>2. ADC16(a, v, E).v \in Word /\ ADC16(a, v, E).f \subseteq Flag
    BY <1>1, <2>1 DEF IsSum, Halves16
  <2> QED
    BY <2>2 DEF IsResult16
<1>3. IsResult16(SBC16(a, v, G))
  <2>1. IsDifference(SBC16(a, v, G), a, v, Carry(G), m)
    BY <1>0, SBC16Exact
  <2>2. SBC16(a, v, G).v \in Word /\ SBC16(a, v, G).f \subseteq Flag
    BY <1>1, <2>1 DEF IsDifference, Halves16
  <2> QED
    BY <2>2 DEF IsResult16
<1>4. IsResult16(ADD16(a, v, G))
  BY <1>2, ADD16Flags DEF IsResult16
<1> QED
  BY <1>2, <1>3, <1>4

-----------------------------------------------------------------------------
(* The machine between two steps.                                          *)
(* The types, with the domains of the registers and of the other bank, ... *)
RegistersOK(regs) ==
  /\ DOMAIN regs = Register \cup {"PC", "SP"}
  /\ \A n \in Register : regs[n] \in Byte
  /\ regs.PC \in Word /\ regs.SP \in Word

BankOK(bank) ==
  /\ DOMAIN bank = Half \cup {"F"}
  /\ \A n \in Half : bank[n] \in Byte
  /\ bank.F \subseteq Flag

ControlOK(c) ==
  c \in [IFF1 : BOOLEAN, IFF2 : BOOLEAN, IM : 0 .. 2, I : Byte, R : 0 .. 127,
         R7 : Byte, noint_once : BOOLEAN, reset_PV_on_int : BOOLEAN]

(* ... and what holds between the flip-flops, the prefix, and a HALT.      *)
Masked == ctl.IFF1 => ctl.IFF2
Undivided == prefix # 0 => ctl.noint_once
Waiting == halted => prefix = 0 /\ op = \h76

CInv ==
  /\ RegistersOK(r) /\ F \subseteq Flag /\ BankOK(alt)
  /\ mem \in [0 .. Top - 1 -> Byte] /\ loaded \in [0 .. Top - 1 -> Byte]
  /\ prefix \in {0, \hCB, \hDD, \hED, \hFD} /\ halted \in BOOLEAN
  /\ ControlOK(ctl)
  /\ requests \in [{"INT", "NMI"} -> Nat]
  /\ sent \in Seq(Word \X Byte)
  /\ Masked /\ Undivided /\ Waiting

(* The registers after a change of one of them, ...                        *)
PairName == {"BC", "DE", "HL", "IX", "IY", "SP"}

LEMMA RegisterNames ==
  /\ "PC" \notin Register /\ "SP" \notin Register /\ "PC" # "SP"
  /\ Half \subseteq Register /\ "A" \in Half /\ "B" \in Half /\ "F" \notin Half
  /\ {"A", "B", "C", "D", "E", "H", "L"} \subseteq Register
  /\ \A p \in PairName \ {"SP"} :
       /\ Halves[p][1] \in Register /\ Halves[p][2] \in Register
       /\ Halves[p][1] # Halves[p][2]
<1>1. /\ "PC" \notin Register /\ "SP" \notin Register /\ "PC" # "SP"
      /\ Half \subseteq Register /\ "A" \in Half /\ "B" \in Half /\ "F" \notin Half
      /\ {"A", "B", "C", "D", "E", "H", "L"} \subseteq Register
  BY DEF Register, Half
<1>2. ASSUME NEW p \in PairName \ {"SP"}
      PROVE  /\ Halves[p][1] \in Register /\ Halves[p][2] \in Register
             /\ Halves[p][1] # Halves[p][2]
  BY DEF PairName, Halves, Register, Half
<1> QED
  BY <1>1, <1>2

LEMMA WordParts ==
  /\ \A w \in Word : w \div 256 \in Byte /\ w % 256 \in Byte
  /\ \A u, v \in Byte : 256 * u + v \in Word /\ u + 256 * v \in Word
  /\ Byte \subseteq Word /\ Word \subseteq Int
<1>1. ASSUME NEW w \in Word
      PROVE  w \div 256 \in Byte /\ w % 256 \in Byte
  <2>1. w \in Int /\ 0 <= w /\ w < 65536
    BY IsWord
  <2> QED
    BY <2>1 DEF Byte
<1>2. ASSUME NEW u \in Byte, NEW v \in Byte
      PROVE  256 * u + v \in Word /\ u + 256 * v \in Word
  <2>1. u \in Int /\ 0 <= u /\ u <= 255 /\ v \in Int /\ 0 <= v /\ v <= 255
    BY IsByte
  <2> QED
    BY <2>1, IsWord
<1>3. Byte \subseteq Word
  BY IsByte, IsWord
<1>4. Word \subseteq Int
  BY IsWord
<1> QED
  BY <1>1, <1>2, <1>3, <1>4

LEMMA SetRegister ==
  ASSUME NEW regs, RegistersOK(regs)
  PROVE  /\ \A n \in Register, v \in Byte : RegistersOK([regs EXCEPT ![n] = v])
         /\ \A w \in Word : /\ RegistersOK([regs EXCEPT !.PC = w])
                            /\ RegistersOK([regs EXCEPT !.SP = w])
         /\ RegistersOK([regs EXCEPT !.SP = Wrapped(@ - 2)])
         /\ RegistersOK(Popped(regs))
         /\ \A p \in PairName, w \in Word : RegistersOK(WithPair(regs, p, w))
<1>1. \A n \in Register, v \in Byte : RegistersOK([regs EXCEPT ![n] = v])
  BY RegisterNames DEF RegistersOK
<1>2. \A w \in Word : /\ RegistersOK([regs EXCEPT !.PC = w])
                      /\ RegistersOK([regs EXCEPT !.SP = w])
  BY RegisterNames DEF RegistersOK
<1>3. /\ RegistersOK([regs EXCEPT !.SP = Wrapped(@ - 2)])
      /\ RegistersOK(Popped(regs))
  <2>1. regs.SP \in Int
    BY WordParts DEF RegistersOK
  <2>2. Wrapped(regs.SP - 2) \in Word /\ Wrapped(regs.SP + 2) \in Word
    BY <2>1, Wraps
  <2> QED
    BY <1>2, <2>2 DEF Popped
<1>4. ASSUME NEW p \in PairName, NEW w \in Word
      PROVE  RegistersOK(WithPair(regs, p, w))
  <2>1. CASE p = "SP"
    BY <1>2, <2>1 DEF WithPair
  <2>2. CASE p # "SP"
    <3>1. PICK h, l \in Register : h = Halves[p][1] /\ l = Halves[p][2] /\ h # l
      BY <2>2, RegisterNames
    <3>2. PICK u, v \in Byte : u = w \div 256 /\ v = w % 256
      BY WordParts
    <3>3. RegistersOK([regs EXCEPT ![h] = u, ![l] = v])
      BY RegisterNames DEF RegistersOK
    <3> QED
      BY <2>2, <3>1, <3>2, <3>3 DEF WithPair
  <2> QED
    BY <2>1, <2>2
<1> QED
  BY <1>1, <1>2, <1>3, <1>4

(* ... and the operands of an instruction.                                 *)
LEMMA Fetches ==
  ASSUME CInv
  PROVE  /\ \A a \in Int : Read(a) \in Byte /\ Word16(a) \in Word
         /\ \A n \in Int : /\ Next8(n) \in Byte /\ Next16(n) \in Word
                           /\ RegistersOK(After(n))
         /\ \A a \in Word : RegistersOK(Jumped(a))
         /\ op \in Byte /\ y \in 0 .. 7 /\ z \in 0 .. 7
         /\ r.PC \in Int /\ r.SP \in Int
         /\ \A n \in Register : r[n] \in Byte
<1>1. r.PC \in Int /\ r.SP \in Int /\ RegistersOK(r) /\ mem \in [0 .. Top - 1 -> Byte]
      /\ r.PC \in Word
  <2>1. RegistersOK(r) /\ mem \in [0 .. Top - 1 -> Byte]
    BY DEF CInv
  <2>2. r.PC \in Word /\ r.SP \in Word
    BY <2>1 DEF RegistersOK
  <2> QED
    BY <2>1, <2>2, WordParts
<1>2. ASSUME NEW a \in Int
      PROVE  Read(a) \in Byte
  <2>1. a % Top \in 0 .. Top - 1
    BY Division, MemoryAssumption
  <2> QED
    BY <1>1, <2>1 DEF Read
<1>3. ASSUME NEW a \in Int
      PROVE  Word16(a) \in Word
  <2>0. Wrapped(a + 1) \in Word
    BY Wraps
  <2>1. Wrapped(a + 1) \in Int
    BY <2>0, WordParts
  <2>2. Read(a) \in Byte /\ Read(Wrapped(a + 1)) \in Byte
    BY <1>2, <2>1
  <2> QED
    BY <2>2, WordParts DEF Word16
<1>4. ASSUME NEW n \in Int
      PROVE  /\ Next8(n) \in Byte /\ Next16(n) \in Word
             /\ RegistersOK(After(n))
  <2>1. Wrapped(r.PC + n) \in Word
    BY <1>1, Wraps
  <2>2. Wrapped(r.PC + n) \in Int
    BY <2>1, WordParts
  <2>3. Next8(n) \in Byte /\ Next16(n) \in Word
    BY <1>2, <1>3, <2>2 DEF Next8, Next16
  <2>4. RegistersOK(After(n))
    BY <1>1, <2>1, SetRegister DEF After
  <2> QED
    BY <2>3, <2>4
<1>5. \A a \in Word : RegistersOK(Jumped(a))
  BY <1>1, SetRegister DEF Jumped
<1>6. op \in Byte
  BY <1>1, <1>2 DEF op
<1>7. y \in 0 .. 7 /\ z \in 0 .. 7
  BY <1>6 DEF y, z, Byte
<1>8. \A n \in Register : r[n] \in Byte
  BY <1>1 DEF RegistersOK
<1> QED
  BY <1>1, <1>2, <1>3, <1>4, <1>5, <1>6, <1>7, <1>8

LEMMA Operands ==
  ASSUME CInv
  PROVE  /\ ix \in PairName \ {"SP"} /\ RP \in PairName
         /\ \A p \in PairName : Pair(p) \in Word
         /\ M \in Word /\ M \in Int
         /\ \A n \in 0 .. 7 : /\ SizeOf(n) \in Int /\ Source(n) \in Byte
                              /\ n # 6 => Named(n) \in Register /\ Plain(n) \in Register
         /\ Operand \in Byte /\ Size \in Int /\ Number \in 0 .. 7 /\ Relative \in Word
<1> USE Fetches
<1>1. ix \in {"HL", "IX", "IY"}
  BY DEF ix
<1>2. ix \in PairName \ {"SP"}
  BY <1>1 DEF PairName
<1>3. RP \in PairName
  <2>1. 1 + (y \div 2) \in {1, 2, 3, 4}
    OBVIOUS
  <2>2. PICK k \in {1, 2, 3, 4} : RP = <<"BC", "DE", ix, "SP">>[k]
    BY <2>1 DEF RP
  <2> QED
    BY <1>2, <2>2 DEF PairName
<1>4. ASSUME NEW p \in PairName
      PROVE  Pair(p) \in Word
  <2>1. CASE p = "SP"
    BY <2>1 DEF Pair, CInv, RegistersOK
  <2>2. CASE p # "SP"
    <3>1. PICK h, l \in Register : h = Halves[p][1] /\ l = Halves[p][2]
      BY <2>2, RegisterNames
    <3>2. Pair(p) = 256 * r[h] + r[l]
      BY <2>2, <3>1 DEF Pair
    <3> QED
      BY <3>2, WordParts
  <2> QED
    BY <2>1, <2>2
<1>5. \A b \in Byte : Signed(b) \in Int
  BY DEF Signed, Byte
<1>6. M \in Word /\ M \in Int
  <2>1. Pair("HL") \in Word /\ Pair(ix) \in Int
    BY <1>1, <1>4, WordParts DEF PairName
  <2>2. Signed(Next8(1)) \in Int
    BY <1>5
  <2>3. M \in Word
    BY <2>1, <2>2, Wraps DEF M
  <2> QED
    BY <2>3, WordParts
<1>7. ASSUME NEW n \in 0 .. 7
      PROVE  /\ SizeOf(n) \in Int /\ Source(n) \in Byte
             /\ n # 6 => Named(n) \in Register /\ Plain(n) \in Register
  <2>1. n # 6 => Plain(n) \in Register
    <3>1. PICK k \in {1, 2, 3, 4, 5, 6, 7, 8} : k = n + 1
      OBVIOUS
    <3>2. Plain(n) = <<"B", "C", "D", "E", "H", "L", "(HL)", "A">>[k]
      BY <3>1 DEF Plain
    <3>3. k # 7 => Plain(n) \in {"A", "B", "C", "D", "E", "H", "L"}
      BY <3>2
    <3> QED
      BY <3>1, <3>3, RegisterNames
  <2>2. n # 6 => Named(n) \in Register
    <3>1. CASE n \in {4, 5}
      <4>1. n - 3 = 1 \/ n - 3 = 2
        BY <3>1
      <4>2. Named(n) = Halves[ix][n - 3]
        BY <3>1 DEF Named
      <4> QED
        BY <1>2, <4>1, <4>2, RegisterNames
    <3>2. CASE n \notin {4, 5}
      BY <2>1, <3>2 DEF Named
    <3> QED
      BY <3>1, <3>2
  <2>3. SizeOf(n) \in Int
    BY DEF SizeOf, Displacement
  <2>4. Source(n) \in Byte
    BY <1>6, <2>2 DEF Source
  <2> QED
    BY <2>1, <2>2, <2>3, <2>4
<1>8. Operand \in Byte /\ Size \in Int
  BY <1>7 DEF Operand, Size
<1>9. Number \in 0 .. 7
  BY DEF Number, Byte
<1>10. Relative \in Word
  BY <1>5, Wraps DEF Relative
<1> QED
  BY <1>2, <1>3, <1>4, <1>6, <1>7, <1>8, <1>9, <1>10

(* Most instructions change the registers and flags, ...                   *)
Loads ==
  \E regs, flags : RegistersOK(regs) /\ flags \subseteq Flag /\ To(regs, flags)

(* ... a byte or a word in memory, ...                                     *)
Stores ==
  \E regs, flags, a, v : /\ RegistersOK(regs) /\ flags \subseteq Flag
                         /\ a \in Int /\ v \in Byte /\ Store(regs, flags, a, v)
Stores16 ==
  \E regs, flags, a, w : /\ RegistersOK(regs) /\ flags \subseteq Flag
                         /\ a \in Int /\ w \in Word /\ Store16(regs, flags, a, w)

(* ... a port, or how the next ones are interrupted.                       *)
Sends ==
  \E regs, flags, port, v : /\ RegistersOK(regs) /\ flags \subseteq Flag
                            /\ port \in Word /\ v \in Byte
                            /\ Send(regs, flags, port, v)
Controls ==
  \E regs, c : /\ RegistersOK(regs) /\ ControlOK(c) /\ (c.IFF1 => c.IFF2)
               /\ Control(regs, c)

Shape == ~halted /\ (Loads \/ Stores \/ Stores16 \/ Sends \/ Controls)


LEMMA Stepping ==
  ASSUME CInv
  PROVE  /\ ControlOK(Stepped) /\ Stepped.IFF1 = ctl.IFF1 /\ Stepped.IFF2 = ctl.IFF2
         /\ Stepped.R \in 0 .. 127
<1>1. ControlOK(ctl)
  BY DEF CInv
<1>2. (ctl.R + 1) % 128 \in 0 .. 127
  BY <1>1 DEF ControlOK
<1> QED
  BY <1>1, <1>2 DEF ControlOK, Stepped

(* An operand or the accumulator becomes a result.                         *)
LEMMA Updates ==
  ASSUME CInv, ~halted, NEW n \in 0 .. 7, NEW size \in Int, NEW res, IsResult(res),
         Update(n, size, res)
  PROVE  Shape
<1>1. CASE n = 6
  <2>1. Store(After(size), res.f, M, res.v)
    BY <1>1 DEF Update
  <2> QED
    BY <2>1, Fetches, Operands DEF IsResult, Stores, Shape
<1>2. CASE n # 6
  <2>1. To([After(size) EXCEPT ![Named(n)] = res.v], res.f)
    BY <1>2 DEF Update
  <2>2. RegistersOK([After(size) EXCEPT ![Named(n)] = res.v])
    BY <1>2, Fetches, Operands, SetRegister DEF IsResult
  <2> QED
    BY <2>1, <2>2 DEF IsResult, Loads, Shape
<1> QED
  BY <1>1, <1>2

LEMMA Accumulates ==
  ASSUME CInv, ~halted, NEW size \in Int, NEW res, IsResult(res), Accumulate(size, res)
  PROVE  Shape
<1>1. To([After(size) EXCEPT !.A = res.v], res.f)
  BY DEF Accumulate
<1>2. RegistersOK([After(size) EXCEPT !.A = res.v])
  BY Fetches, SetRegister, RegisterNames DEF IsResult
<1> QED
  BY <1>1, <1>2 DEF IsResult, Loads, Shape

LEMMA Copies ==
  ASSUME CInv, ~halted, NEW res, IsResult(res), Copied(res)
  PROVE  Shape
<1>1. PICK n \in 0 .. 7 : n = Next8(2) % 8
  <2>1. Next8(2) \in Byte
    BY Fetches
  <2> QED
    BY <2>1 DEF Byte
<1>2. PICK regs : /\ regs = IF n = 6 THEN After(3)
                            ELSE [After(3) EXCEPT ![Plain(n)] = res.v]
                  /\ Store(regs, res.f, M, res.v)
  BY <1>1 DEF Copied
<1>3. RegistersOK(regs)
  <2>1. RegistersOK(After(3))
    BY Fetches
  <2>2. CASE n = 6
    BY <1>2, <2>1, <2>2
  <2>3. CASE n # 6
    <3>1. Plain(n) \in Register /\ res.v \in Byte
      BY <2>3, Operands DEF IsResult
    <3> QED
      BY <1>2, <2>1, <2>3, <3>1, SetRegister
  <2> QED
    BY <2>2, <2>3
<1> QED
  BY <1>2, <1>3, Operands DEF IsResult, Stores, Shape

LEMMA Pushes ==
  ASSUME CInv, ~halted, NEW regs, RegistersOK(regs), NEW w \in Word, Push(regs, w)
  PROVE  Shape
<1>1. Wrapped(r.SP - 2) \in Int
  <2>1. Wrapped(r.SP - 2) \in Word
    BY Fetches, Wraps
  <2> QED
    BY <2>1, WordParts
<1>2. RegistersOK([regs EXCEPT !.SP = Wrapped(@ - 2)]) /\ F \subseteq Flag
  BY SetRegister DEF CInv
<1> QED
  BY <1>1, <1>2 DEF Push, Stores16, Shape

(* A pair counts.                                                          *)
LEMMA Moves ==
  ASSUME CInv, NEW regs, RegistersOK(regs), NEW p \in PairName, NEW n \in Int
  PROVE  RegistersOK(Moved(regs, p, n))
<1>1. Pair(p) \in Int
  BY Operands, WordParts
<1>2. Wrapped(Pair(p) + n) \in Word
  BY <1>1, Wraps
<1> QED
  BY <1>2, SetRegister DEF Moved


(* Only HALT itself runs on a HALT.                                        *)
LEMMA Runs76 ==
  ASSUME CInv
  PROVE  /\ \A codes : Base(codes) /\ 118 \notin codes => ~halted
         /\ \A codes : ED(codes) => ~halted
         /\ \A row : CB(row) => ~halted
         /\ \A codes : Indexed(codes) => ~halted
         /\ prefix = \hCB => ~halted
<1>1. halted => prefix = 0 /\ op = 118
  BY DEF CInv, Waiting
<1> QED
  BY <1>1 DEF Base, ED, CB, Indexed, OwnDDCB

LEMMA BaseLow ==
  ASSUME CInv,
         \/ NOP \/ LD_rp_nn \/ LD_rp_A \/ LD_A_rp \/ LD_nn_HL \/ LD_HL_nn \/ LD_nn_A
         \/ LD_A_nn \/ INC16 \/ DEC16 \/ ADD_HL \/ INC_r \/ DEC_r \/ LD_r_n \/ RotateA
         \/ DAA_A \/ CPL_A \/ SetCarry \/ DJNZ \/ JR
  PROVE  Shape
<1> USE Fetches, Operands
<1>0. /\ F \subseteq Flag /\ F \in SUBSET Flag /\ RegistersOK(After(1))
      /\ RegistersOK(After(2)) /\ RegistersOK(After(3))
      /\ Next16(1) \in Word /\ Next16(1) \in Int /\ r.A \in Byte
  <2>1. Next16(1) \in Word
    OBVIOUS
  <2>2. Next16(1) \in Int
    BY <2>1, WordParts
  <2>3. F \subseteq Flag
    BY DEF CInv
  <2>4. r.A \in Byte
    BY RegisterNames
  <2> QED
    BY <2>1, <2>2, <2>3, <2>4
<1>1. CASE NOP
  <2>1. ~halted
    BY <1>1, Runs76 DEF NOP
  <2> QED
    BY <1>0, <1>1, <2>1 DEF NOP, Loads, Shape
<1>2. CASE LD_rp_nn
  <2>1. ~halted
    BY <1>2, Runs76 DEF LD_rp_nn
  <2>2. RegistersOK(WithPair(After(3), RP, Next16(1)))
    BY <1>0, SetRegister
  <2> QED
    BY <1>0, <1>2, <2>1, <2>2 DEF LD_rp_nn, Loads, Shape
<1>3. CASE LD_rp_A
  <2>1. ~halted
    BY <1>3, Runs76 DEF LD_rp_A
  <2>2. Pair(RP) \in Int
    BY WordParts
  <2> QED
    BY <1>0, <1>3, <2>1, <2>2 DEF LD_rp_A, Stores, Shape
<1>4. CASE LD_A_rp
  <2>1. ~halted
    BY <1>4, Runs76 DEF LD_A_rp
  <2>2. Pair(RP) \in Int
    BY WordParts
  <2>3. RegistersOK([After(1) EXCEPT !.A = Read(Pair(RP))])
    BY <1>0, <2>2, SetRegister, RegisterNames
  <2> QED
    BY <1>0, <1>4, <2>1, <2>3 DEF LD_A_rp, Loads, Shape
<1>5. CASE LD_nn_HL
  <2>1. ~halted
    BY <1>5, Runs76 DEF LD_nn_HL
  <2> QED
    BY <1>0, <1>5, <2>1 DEF LD_nn_HL, Stores16, Shape
<1>6. CASE LD_HL_nn
  <2>1. ~halted
    BY <1>6, Runs76 DEF LD_HL_nn
  <2>2. RegistersOK(WithPair(After(3), ix, Word16(Next16(1))))
    BY <1>0, SetRegister
  <2> QED
    BY <1>0, <1>6, <2>1, <2>2 DEF LD_HL_nn, Loads, Shape
<1>7. CASE LD_nn_A
  <2>1. ~halted
    BY <1>7, Runs76 DEF LD_nn_A
  <2> QED
    BY <1>0, <1>7, <2>1 DEF LD_nn_A, Stores, Shape
<1>8. CASE LD_A_nn
  <2>1. ~halted
    BY <1>8, Runs76 DEF LD_A_nn
  <2>2. RegistersOK([After(3) EXCEPT !.A = Read(Next16(1))])
    BY <1>0, SetRegister, RegisterNames
  <2> QED
    BY <1>0, <1>8, <2>1, <2>2 DEF LD_A_nn, Loads, Shape
<1>9. CASE INC16 \/ DEC16
  <2>1. ~halted
    BY <1>9, Runs76 DEF INC16, DEC16
  <2>2. Pair(RP) \in Int
    BY WordParts
  <2>3. Wrapped(Pair(RP) + 1) \in Word /\ Wrapped(Pair(RP) - 1) \in Word
    BY <2>2, Wraps
  <2>4. /\ RegistersOK(WithPair(After(1), RP, Wrapped(Pair(RP) + 1)))
        /\ RegistersOK(WithPair(After(1), RP, Wrapped(Pair(RP) - 1)))
    BY <1>0, <2>3, SetRegister
  <2> QED
    BY <1>0, <1>9, <2>1, <2>4 DEF INC16, DEC16, Loads, Shape
<1>10. CASE ADD_HL
  <2>1. ~halted
    BY <1>10, Runs76 DEF ADD_HL
  <2>2. PICK sum : sum = ADD16(Pair(ix), Pair(RP), F)
    OBVIOUS
  <2>3. sum.v \in Word /\ sum.f \subseteq Flag
    BY <1>0, <2>2, WideTypes DEF IsResult16
  <2>4. RegistersOK(WithPair(After(1), ix, sum.v))
    BY <1>0, <2>3, SetRegister
  <2>5. To(WithPair(After(1), ix, sum.v), sum.f)
    BY <1>10, <2>2 DEF ADD_HL
  <2> QED
    BY <2>1, <2>3, <2>4, <2>5 DEF Loads, Shape
<1>11. CASE INC_r \/ DEC_r \/ LD_r_n
  <2>1. ~halted
    <3>1. \A k \in 0 .. 7 : 118 # 8 * k + 4 /\ 118 # 8 * k + 5
      OBVIOUS
    <3>2. ASSUME LD_r_n
          PROVE  ~halted
      <4>1. Base({8 * k + 6 : k \in 0 .. 7})
        BY <3>2 DEF LD_r_n
      <4>2. 118 \notin {8 * k + 6 : k \in 0 .. 7}
        OBVIOUS
      <4> QED
        BY <4>1, <4>2, Runs76
    <3> QED
      BY <1>11, <3>1, <3>2, Runs76 DEF INC_r, DEC_r
  <2>2. IsResult(INC(Source(y), F)) /\ IsResult(DEC(Source(y), F))
    <3>1. 0 \in 0 .. 1
      OBVIOUS
    <3> QED
      BY <1>0, <3>1, SumTypes
  <2>3. IsResult([v |-> Next8(SizeOf(y)), f |-> F]) /\ 1 + SizeOf(y) \in Int
    BY <1>0 DEF IsResult
  <2> QED
    BY <1>11, <2>1, <2>2, <2>3, Updates DEF INC_r, DEC_r, LD_r_n
<1>12. CASE RotateA
  <2>1. ~halted
    BY <1>12, Runs76 DEF RotateA
  <2>2. PICK res \in {RLC(r.A, F), RRC(r.A, F), RL(r.A, F), RR(r.A, F)} :
          Accumulate(1, Rotated(res, F))
    <3>1. op \in {7, 15, 23, 31}
      BY <1>12 DEF RotateA, Base
    <3>2. y = 0 \/ y = 1 \/ y = 2 \/ y = 3
      BY <3>1 DEF y
    <3> QED
      BY <1>12, <3>2 DEF RotateA
  <2>3. IsResult(Rotated(res, F))
    BY <1>0, <2>2, ShiftTypes
  <2> QED
    BY <2>1, <2>2, <2>3, Accumulates
<1>13. CASE DAA_A \/ CPL_A
  <2>1. ~halted
    BY <1>13, Runs76 DEF DAA_A, CPL_A
  <2>2. IsResult(DAA(r.A, F)) /\ IsResult(CPL(r.A, F))
    <3>1. 0 \in 0 .. 7
      OBVIOUS
    <3> QED
      BY <1>0, <3>1, ShiftTypes, BitTypes
  <2> QED
    BY <1>13, <2>1, <2>2, Accumulates DEF DAA_A, CPL_A
<1>14. CASE SetCarry
  <2>1. ~halted
    BY <1>14, Runs76 DEF SetCarry
  <2>2. SCF(F) \subseteq Flag /\ CCF(F) \subseteq Flag
    BY <1>0, ShiftTypes
  <2>3. To(After(1), SCF(F)) \/ To(After(1), CCF(F))
    BY <1>14 DEF SetCarry
  <2> QED
    BY <1>0, <2>1, <2>2, <2>3 DEF Loads, Shape
<1>15. CASE DJNZ
  <2>1. ~halted
    BY <1>15, Runs76 DEF DJNZ
  <2>2. PICK b, regs : /\ b = (r.B - 1) % 256
                       /\ regs = IF b # 0 THEN Jumped(Relative) ELSE After(2)
                       /\ To([regs EXCEPT !.B = b], F)
    BY <1>15 DEF DJNZ
  <2>3. b \in Byte
    <3>1. r.B \in Byte
      BY RegisterNames
    <3>2. r.B - 1 \in Int
      BY <3>1 DEF Byte
    <3> QED
      BY <2>2, <3>2, ByteWraps
  <2>4. RegistersOK(regs)
    BY <1>0, <2>2
  <2>5. RegistersOK([regs EXCEPT !.B = b])
    BY <2>3, <2>4, SetRegister, RegisterNames
  <2> QED
    BY <1>0, <2>1, <2>2, <2>5 DEF Loads, Shape
<1>16. CASE JR
  <2>1. ~halted
    BY <1>16, Runs76 DEF JR
  <2>2. To(Jumped(Relative), F) \/ To(After(2), F)
    BY <1>16 DEF JR
  <2>3. RegistersOK(Jumped(Relative))
    OBVIOUS
  <2> QED
    BY <1>0, <2>1, <2>2, <2>3 DEF Loads, Shape
<1> QED
  BY <1>1, <1>2, <1>3, <1>4, <1>5, <1>6, <1>7, <1>8, <1>9, <1>10, <1>11, <1>12,
     <1>13, <1>14, <1>15, <1>16


LEMMA BaseMiddle ==
  ASSUME CInv,
         \/ LD_r_r \/ LD_r_M \/ LD_M_r
         \/ ADD_A \/ ADC_A \/ SUB_A \/ SBC_A \/ AND_A \/ XOR_A \/ OR_A \/ CP_A
  PROVE  Shape
<1> USE Fetches, Operands
<1>0. /\ F \subseteq Flag /\ F \in SUBSET Flag /\ r.A \in Byte /\ Carry(F) \in 0 .. 1
      /\ 0 \in 0 .. 1 /\ 0 \in 0 .. 7
  <2>1. F \subseteq Flag
    BY DEF CInv
  <2>2. r.A \in Byte
    BY RegisterNames
  <2>3. Carry(F) \in 0 .. 1
    BY DEF Carry
  <2> QED
    BY <2>1, <2>2, <2>3
<1>1. op = 118 => y = 6 /\ z = 6
  BY DEF y, z
<1>2. CASE LD_r_r
  <2>1. ~halted
    BY <1>1, <1>2 DEF LD_r_r, CInv, Waiting
  <2>2. RegistersOK([After(1) EXCEPT ![Named(y)] = r[Named(z)]])
    <3>1. Named(y) \in Register /\ r[Named(z)] \in Byte
      BY <1>2 DEF LD_r_r
    <3>2. RegistersOK(After(1))
      OBVIOUS
    <3> QED
      BY <3>1, <3>2, SetRegister
  <2> QED
    BY <1>0, <1>2, <2>1, <2>2 DEF LD_r_r, Loads, Shape
<1>3. CASE LD_r_M
  <2>1. ~halted
    BY <1>1, <1>3 DEF LD_r_M, CInv, Waiting
  <2>2. SizeOf(6) \in Int
    OBVIOUS
  <2>3. RegistersOK([After(SizeOf(6)) EXCEPT ![Plain(y)] = Read(M)])
    BY <1>3, <2>2, SetRegister DEF LD_r_M
  <2> QED
    BY <1>0, <1>3, <2>1, <2>3 DEF LD_r_M, Loads, Shape
<1>4. CASE LD_M_r
  <2>1. ~halted
    BY <1>1, <1>4 DEF LD_M_r, CInv, Waiting
  <2>2. RegistersOK(After(SizeOf(6))) /\ r[Plain(z)] \in Byte
    BY <1>4 DEF LD_M_r
  <2> QED
    BY <1>0, <1>4, <2>1, <2>2 DEF LD_M_r, Stores, Shape
<1>5. ASSUME NEW row \in 16 .. 23, Alu(row)
      PROVE  ~halted
  <2>1. 118 \notin 8 * row .. 8 * row + 7 /\ 118 \notin {8 * row + 70}
    OBVIOUS
  <2> QED
    BY <1>5, <2>1, Runs76 DEF Alu
<1>6. /\ IsResult(ADD(r.A, Operand)) /\ IsResult(ADC(r.A, Operand, Carry(F)))
      /\ IsResult(SUB(r.A, Operand)) /\ IsResult(SBC(r.A, Operand, Carry(F)))
      /\ IsResult(AND(r.A, Operand)) /\ IsResult(XOR(r.A, Operand))
      /\ IsResult(OR(r.A, Operand)) /\ IsResult(CP(r.A, Operand))
  BY <1>0, SumTypes, BitTypes
<1>7. CASE ADD_A
  BY <1>5, <1>6, <1>7, Accumulates DEF ADD_A
<1>8. CASE ADC_A
  BY <1>5, <1>6, <1>8, Accumulates DEF ADC_A
<1>9. CASE SUB_A
  BY <1>5, <1>6, <1>9, Accumulates DEF SUB_A
<1>10. CASE SBC_A
  BY <1>5, <1>6, <1>10, Accumulates DEF SBC_A
<1>11. CASE AND_A
  BY <1>5, <1>6, <1>11, Accumulates DEF AND_A
<1>12. CASE XOR_A
  BY <1>5, <1>6, <1>12, Accumulates DEF XOR_A
<1>13. CASE OR_A
  BY <1>5, <1>6, <1>13, Accumulates DEF OR_A
<1>14. CASE CP_A
  BY <1>5, <1>6, <1>14, Accumulates DEF CP_A
<1> QED
  BY <1>2, <1>3, <1>4, <1>7, <1>8, <1>9, <1>10, <1>11, <1>12, <1>13, <1>14

LEMMA BaseHigh ==
  ASSUME CInv,
         \/ PUSH \/ POP \/ PUSH_AF \/ POP_AF \/ JP \/ CALL \/ RET \/ RST
         \/ JP_HL \/ LD_SP_HL \/ EX_SP_HL \/ EX_DE_HL
  PROVE  Shape
<1> USE Fetches, Operands
<1>0. /\ F \subseteq Flag /\ RegistersOK(After(1)) /\ RegistersOK(After(3))
      /\ Next16(1) \in Word /\ r.A \in Byte /\ Word16(r.SP) \in Word
      /\ Wrapped(r.PC + 1) \in Word /\ Wrapped(r.PC + 3) \in Word
  <2>1. Next16(1) \in Word /\ r.PC + 1 \in Int /\ r.PC + 3 \in Int
    OBVIOUS
  <2>2. F \subseteq Flag
    BY DEF CInv
  <2>3. r.A \in Byte
    BY RegisterNames
  <2>4. Wrapped(r.PC + 1) \in Word /\ Wrapped(r.PC + 3) \in Word
    BY <2>1, Wraps
  <2> QED
    BY <2>1, <2>2, <2>3, <2>4
<1>1. CASE PUSH
  <2>1. ~halted
    BY <1>1, Runs76 DEF PUSH
  <2> QED
    BY <1>0, <1>1, <2>1, Pushes DEF PUSH
<1>2. CASE POP
  <2>1. ~halted
    BY <1>2, Runs76 DEF POP
  <2>2. RegistersOK(Popped(After(1)))
    BY <1>0, SetRegister
  <2>3. RegistersOK(WithPair(Popped(After(1)), RP, Word16(r.SP)))
    BY <1>0, <2>2, SetRegister
  <2> QED
    BY <1>0, <1>2, <2>1, <2>3 DEF POP, Loads, Shape
<1>3. CASE PUSH_AF
  <2>1. ~halted
    BY <1>3, Runs76 DEF PUSH_AF
  <2>2. PICK b \in Byte : Push(After(1), 256 * r.A + b)
    BY <1>3 DEF PUSH_AF
  <2>3. 256 * r.A + b \in Word
    BY <1>0, WordParts
  <2> QED
    BY <1>0, <2>1, <2>2, <2>3, Pushes
<1>4. CASE POP_AF
  <2>1. ~halted
    BY <1>4, Runs76 DEF POP_AF
  <2>2. Read(Wrapped(r.SP + 1)) \in Byte
    <3>1. Wrapped(r.SP + 1) \in Word
      BY Wraps
    <3>2. Wrapped(r.SP + 1) \in Int
      BY <3>1, WordParts
    <3> QED
      BY <3>2
  <2>3. RegistersOK(Popped(After(1)))
    BY <1>0, SetRegister
  <2>4. RegistersOK([Popped(After(1)) EXCEPT !.A = Read(Wrapped(r.SP + 1))])
    BY <2>2, <2>3, SetRegister, RegisterNames
  <2>5. FlagsOf(Read(r.SP)) \subseteq Flag
    BY DEF FlagsOf
  <2> QED
    BY <1>4, <2>1, <2>4, <2>5 DEF POP_AF, Loads, Shape
<1>5. CASE JP
  <2>1. ~halted
    <3>1. 118 \notin {\hC3} \cup {8 * k + \hC2 : k \in 0 .. 7}
      OBVIOUS
    <3> QED
      BY <1>5, <3>1, Runs76 DEF JP
  <2>2. To(Jumped(Next16(1)), F) \/ To(After(3), F)
    BY <1>5 DEF JP
  <2>3. RegistersOK(Jumped(Next16(1)))
    BY <1>0
  <2> QED
    BY <1>0, <2>1, <2>2, <2>3 DEF Loads, Shape
<1>6. CASE CALL
  <2>1. ~halted
    <3>1. 118 \notin {\hCD} \cup {8 * k + \hC4 : k \in 0 .. 7}
      OBVIOUS
    <3> QED
      BY <1>6, <3>1, Runs76 DEF CALL
  <2>2. Push(Jumped(Next16(1)), Wrapped(r.PC + 3)) \/ To(After(3), F)
    BY <1>6 DEF CALL
  <2>3. RegistersOK(Jumped(Next16(1)))
    BY <1>0
  <2>4. CASE Push(Jumped(Next16(1)), Wrapped(r.PC + 3))
    BY <1>0, <2>1, <2>3, <2>4, Pushes
  <2>5. CASE To(After(3), F)
    BY <1>0, <2>1, <2>5 DEF Loads, Shape
  <2> QED
    BY <2>2, <2>4, <2>5
<1>7. CASE RET
  <2>1. ~halted
    <3>1. 118 \notin {\hC9} \cup {8 * k + \hC0 : k \in 0 .. 7}
      OBVIOUS
    <3> QED
      BY <1>7, <3>1, Runs76 DEF RET
  <2>2. To(Popped(Jumped(Word16(r.SP))), F) \/ To(After(1), F)
    BY <1>7 DEF RET
  <2>3. RegistersOK(Jumped(Word16(r.SP)))
    BY <1>0
  <2>4. RegistersOK(Popped(Jumped(Word16(r.SP))))
    BY <2>3, SetRegister
  <2> QED
    BY <1>0, <2>1, <2>2, <2>4 DEF Loads, Shape
<1>8. CASE RST
  <2>1. ~halted
    <3>1. 118 \notin {8 * k + \hC7 : k \in 0 .. 7}
      OBVIOUS
    <3> QED
      BY <1>8, <3>1, Runs76 DEF RST
  <2>2. 8 * y \in Word
    <3>1. 8 * y \in Byte
      BY DEF Byte
    <3> QED
      BY <3>1, WordParts
  <2>3. RegistersOK(Jumped(8 * y))
    BY <2>2
  <2> QED
    BY <1>0, <1>8, <2>1, <2>3, Pushes DEF RST
<1>9. CASE JP_HL \/ LD_SP_HL
  <2>1. ~halted
    BY <1>9, Runs76 DEF JP_HL, LD_SP_HL
  <2>2. Pair(ix) \in Word /\ "SP" \in PairName
    BY DEF PairName
  <2>3. RegistersOK(Jumped(Pair(ix))) /\ RegistersOK(WithPair(After(1), "SP", Pair(ix)))
    BY <1>0, <2>2, SetRegister
  <2> QED
    BY <1>0, <1>9, <2>1, <2>3 DEF JP_HL, LD_SP_HL, Loads, Shape
<1>10. CASE EX_SP_HL
  <2>1. ~halted
    BY <1>10, Runs76 DEF EX_SP_HL
  <2>2. Pair(ix) \in Word
    OBVIOUS
  <2>3. RegistersOK(WithPair(After(1), ix, Word16(r.SP)))
    BY <1>0, SetRegister
  <2> QED
    BY <1>0, <1>10, <2>1, <2>2, <2>3 DEF EX_SP_HL, Stores16, Shape
<1>11. CASE EX_DE_HL
  <2>1. ~halted
    BY <1>11, Runs76 DEF EX_DE_HL
  <2>2. "DE" \in PairName /\ "HL" \in PairName
    BY DEF PairName
  <2>3. RegistersOK(WithPair(After(1), "DE", Pair("HL")))
    BY <1>0, <2>2, SetRegister
  <2>4. RegistersOK(WithPair(WithPair(After(1), "DE", Pair("HL")), "HL", Pair("DE")))
    BY <2>2, <2>3, SetRegister
  <2> QED
    BY <1>0, <1>11, <2>1, <2>4 DEF EX_DE_HL, Loads, Shape
<1> QED
  BY <1>1, <1>2, <1>3, <1>4, <1>5, <1>6, <1>7, <1>8, <1>9, <1>10, <1>11


LEMMA PageCB ==
  ASSUME CInv,
         \/ RLC_r \/ RRC_r \/ RL_r \/ RR_r \/ SLA_r \/ SRA_r \/ SLL_r \/ SRL_r
         \/ BIT_r \/ RES_r \/ SET_r
  PROVE  Shape
<1> USE Fetches, Operands
<1>0. F \subseteq Flag /\ F \in SUBSET Flag /\ Source(z) \in Byte /\ 1 \in Int
  <2>1. F \subseteq Flag
    BY DEF CInv
  <2>2. Source(z) \in Byte
    OBVIOUS
  <2> QED
    BY <2>1, <2>2
<1>1. ~halted
  BY Runs76 DEF RLC_r, RRC_r, RL_r, RR_r, SLA_r, SRA_r, SLL_r, SRL_r, BIT_r, RES_r, SET_r
<1>2. /\ IsResult(RLC(Source(z), F)) /\ IsResult(RRC(Source(z), F))
      /\ IsResult(RL(Source(z), F)) /\ IsResult(RR(Source(z), F))
      /\ IsResult(SLA(Source(z), F)) /\ IsResult(SRA(Source(z), F))
      /\ IsResult(SLL(Source(z), F)) /\ IsResult(SRL(Source(z), F))
  BY <1>0, ShiftTypes
<1>3. /\ IsResult([v |-> RES(y, Source(z)), f |-> F])
      /\ IsResult([v |-> SET(y, Source(z)), f |-> F])
      /\ BIT(y, Source(z), F) \subseteq Flag
  BY <1>0, BitTypes DEF IsResult
<1>4. CASE BIT_r
  BY <1>1, <1>3, <1>4 DEF BIT_r, Loads, Shape
<1>5. CASE RES_r \/ SET_r
  BY <1>0, <1>1, <1>3, <1>5, Updates DEF RES_r, SET_r
<1>6. CASE RLC_r \/ RRC_r \/ RL_r \/ RR_r
  BY <1>0, <1>1, <1>2, <1>6, Updates DEF RLC_r, RRC_r, RL_r, RR_r
<1>7. CASE SLA_r \/ SRA_r \/ SLL_r \/ SRL_r
  BY <1>0, <1>1, <1>2, <1>7, Updates DEF SLA_r, SRA_r, SLL_r, SRL_r
<1> QED
  BY <1>4, <1>5, <1>6, <1>7

LEMMA PagesDDCB ==
  ASSUME CInv,
         \/ RLC_d \/ RRC_d \/ RL_d \/ RR_d \/ SLA_d \/ SRA_d \/ SLL_d \/ SRL_d
         \/ BIT_d \/ RES_d \/ SET_d
  PROVE  Shape
<1> USE Fetches, Operands
<1>0. F \subseteq Flag /\ F \in SUBSET Flag /\ Read(M) \in Byte
  <2>1. F \subseteq Flag
    BY DEF CInv
  <2>2. Read(M) \in Byte
    OBVIOUS
  <2> QED
    BY <2>1, <2>2
<1>1. ~halted
  BY Runs76 DEF RLC_d, RRC_d, RL_d, RR_d, SLA_d, SRA_d, SLL_d, SRL_d, BIT_d, RES_d, SET_d
<1>2. /\ IsResult(RLC(Read(M), F)) /\ IsResult(RRC(Read(M), F))
      /\ IsResult(RL(Read(M), F)) /\ IsResult(RR(Read(M), F))
      /\ IsResult(SLA(Read(M), F)) /\ IsResult(SRA(Read(M), F))
      /\ IsResult(SLL(Read(M), F)) /\ IsResult(SRL(Read(M), F))
  BY <1>0, ShiftTypes
<1>3. /\ IsResult([v |-> RES(Number, Read(M)), f |-> F])
      /\ IsResult([v |-> SET(Number, Read(M)), f |-> F])
      /\ BIT(Number, Read(M), F) \subseteq Flag
  BY <1>0, BitTypes DEF IsResult
<1>4. CASE BIT_d
  BY <1>1, <1>3, <1>4 DEF BIT_d, Loads, Shape
<1>5. CASE RES_d \/ SET_d
  BY <1>1, <1>3, <1>5, Copies DEF RES_d, SET_d
<1>6. CASE RLC_d \/ RRC_d \/ RL_d \/ RR_d
  BY <1>1, <1>2, <1>6, Copies DEF RLC_d, RRC_d, RL_d, RR_d
<1>7. CASE SLA_d \/ SRA_d \/ SLL_d \/ SRL_d
  BY <1>1, <1>2, <1>7, Copies DEF SLA_d, SRA_d, SLL_d, SRL_d
<1> QED
  BY <1>4, <1>5, <1>6, <1>7

LEMMA PageED ==
  ASSUME CInv,
         \/ SBC_HL \/ ADC_HL \/ LD_nn_rp \/ LD_rp_mm \/ NEG_A \/ RRD \/ RLD
         \/ IN_A_n \/ OUT_n_A \/ IN_r_C \/ OUT_C_r \/ NOP_ED
  PROVE  Shape
<1> USE Fetches, Operands
<1>0. /\ F \subseteq Flag /\ F \in SUBSET Flag /\ r.A \in Byte
      /\ RegistersOK(After(1)) /\ RegistersOK(After(2)) /\ RegistersOK(After(3))
      /\ Next16(1) \in Word /\ Next16(1) \in Int /\ Next8(1) \in Byte
      /\ Pair("HL") \in Word /\ Pair("HL") \in Int /\ Pair("BC") \in Word
      /\ Pair(RP) \in Word
  <2>1. Next16(1) \in Word /\ Next8(1) \in Byte /\ Pair(RP) \in Word
    OBVIOUS
  <2>2. F \subseteq Flag
    BY DEF CInv
  <2>3. r.A \in Byte
    BY RegisterNames
  <2>4. Pair("HL") \in Word /\ Pair("BC") \in Word
    BY DEF PairName
  <2>5. Next16(1) \in Int /\ Pair("HL") \in Int
    BY <2>1, <2>4, WordParts
  <2> QED
    BY <2>1, <2>2, <2>3, <2>4, <2>5
<1>1. CASE SBC_HL
  <2>1. PICK d : d = SBC16(Pair("HL"), Pair(RP), F)
    OBVIOUS
  <2>2. ~halted /\ To(WithPair(After(1), "HL", d.v), d.f)
    BY <1>1, <2>1, Runs76 DEF SBC_HL
  <2>3. d.v \in Word /\ d.f \subseteq Flag
    BY <1>0, <2>1, WideTypes DEF IsResult16
  <2>4. RegistersOK(WithPair(After(1), "HL", d.v))
    BY <1>0, <2>3, SetRegister DEF PairName
  <2> QED
    BY <2>2, <2>3, <2>4 DEF Loads, Shape
<1>2. CASE ADC_HL
  <2>1. PICK s : s = ADC16(Pair("HL"), Pair(RP), F)
    OBVIOUS
  <2>2. ~halted /\ To(WithPair(After(1), "HL", s.v), s.f)
    BY <1>2, <2>1, Runs76 DEF ADC_HL
  <2>3. s.v \in Word /\ s.f \subseteq Flag
    BY <1>0, <2>1, WideTypes DEF IsResult16
  <2>4. RegistersOK(WithPair(After(1), "HL", s.v))
    BY <1>0, <2>3, SetRegister DEF PairName
  <2> QED
    BY <2>2, <2>3, <2>4 DEF Loads, Shape
<1>3. CASE LD_nn_rp
  <2>1. ~halted
    BY <1>3, Runs76 DEF LD_nn_rp
  <2> QED
    BY <1>0, <1>3, <2>1 DEF LD_nn_rp, Stores16, Shape
<1>4. CASE LD_rp_mm
  <2>1. ~halted
    BY <1>4, Runs76 DEF LD_rp_mm
  <2>2. RegistersOK(WithPair(After(3), RP, Word16(Next16(1))))
    BY <1>0, SetRegister
  <2> QED
    BY <1>0, <1>4, <2>1, <2>2 DEF LD_rp_mm, Loads, Shape
<1>5. CASE NEG_A
  <2>1. ~halted
    BY <1>5, Runs76 DEF NEG_A
  <2>2. IsResult(NEG(r.A))
    <3>1. 0 \in 0 .. 1
      OBVIOUS
    <3> QED
      BY <1>0, <3>1, SumTypes
  <2> QED
    BY <1>5, <2>1, <2>2, Accumulates DEF NEG_A
<1>6. CASE RRD \/ RLD
  <2>1. ~halted
    BY <1>6, Runs76 DEF RRD, RLD
  <2>2. PICK a, b \in Byte : Digits(a, b)
    <3>1. PICK m, n \in Byte : m = Read(Pair("HL")) /\ n = r.A
      BY <1>0
    <3>2. /\ 16 * High(n) + Low(m) \in Byte /\ 16 * Low(n) + High(m) \in Byte
          /\ 16 * High(n) + High(m) \in Byte /\ 16 * Low(m) + Low(n) \in Byte
      <4>1. m \in 0 .. 255 /\ n \in 0 .. 255
        BY DEF Byte
      <4>2. /\ High(m) \in 0 .. 15 /\ Low(m) \in 0 .. 15
            /\ High(n) \in 0 .. 15 /\ Low(n) \in 0 .. 15
        BY <4>1 DEF High, Low
      <4>3. \A p, q \in 0 .. 15 : 16 * p + q \in Byte
        BY DEF Byte
      <4> QED
        BY <4>2, <4>3
    <3> QED
      BY <1>6, <3>1, <3>2 DEF RRD, RLD
  <2>3. PICK regs, flags : /\ regs = [After(1) EXCEPT !.A = a]
                           /\ flags = (F \cap {"C"}) \cup szp(a)
                           /\ Store(regs, flags, Pair("HL"), b)
    BY <2>2 DEF Digits
  <2>4. RegistersOK(regs) /\ flags \subseteq Flag
    BY <1>0, <2>3, SetRegister, RegisterNames, FlagSets
  <2> QED
    BY <1>0, <2>1, <2>3, <2>4 DEF Stores, Shape
<1>7. /\ 256 * r.A + Next8(1) \in Word /\ 255 \in Byte
      /\ \A w : z80ex_pread_cb(w) = 255
  <2>1. 255 \in Byte
    BY DEF Byte
  <2> QED
    BY <1>0, <2>1, WordParts DEF z80ex_pread_cb
<1>8. CASE IN_A_n
  <2>1. ~halted
    BY <1>8, Runs76 DEF IN_A_n
  <2>2. To([After(2) EXCEPT !.A = 255], F)
    BY <1>7, <1>8 DEF IN_A_n
  <2>3. RegistersOK([After(2) EXCEPT !.A = 255])
    BY <1>0, <1>7, SetRegister, RegisterNames
  <2> QED
    BY <1>0, <2>1, <2>2, <2>3 DEF Loads, Shape
<1>9. CASE OUT_n_A
  <2>1. ~halted
    BY <1>9, Runs76 DEF OUT_n_A
  <2> QED
    BY <1>0, <1>7, <1>9, <2>1 DEF OUT_n_A, Sends, Shape
<1>10. CASE IN_r_C
  <2>1. ~halted
    BY <1>10, Runs76 DEF IN_r_C
  <2>2. PICK regs, flags :
          /\ regs = IF y = 6 THEN After(1) ELSE [After(1) EXCEPT ![Plain(y)] = 255]
          /\ flags = (F \cap {"C"}) \cup szp(255)
          /\ To(regs, flags)
    BY <1>7, <1>10 DEF IN_r_C
  <2>3. RegistersOK(regs)
    <3>1. CASE y = 6
      BY <1>0, <2>2, <3>1
    <3>2. CASE y # 6
      BY <1>0, <1>7, <2>2, <3>2, SetRegister
    <3> QED
      BY <3>1, <3>2
  <2>4. flags \subseteq Flag
    BY <1>0, <2>2, FlagSets
  <2> QED
    BY <2>1, <2>2, <2>3, <2>4 DEF Loads, Shape
<1>11. CASE OUT_C_r
  <2>1. ~halted
    BY <1>11, Runs76 DEF OUT_C_r
  <2>2. PICK v : /\ v = IF y = 6 THEN 0 ELSE r[Plain(y)]
                 /\ Send(After(1), F, Pair("BC"), v)
    BY <1>11 DEF OUT_C_r
  <2>3. v \in Byte
    <3>1. 0 \in Byte
      BY DEF Byte
    <3> QED
      BY <2>2, <3>1
  <2> QED
    BY <1>0, <2>1, <2>2, <2>3 DEF Sends, Shape
<1>12. CASE NOP_ED
  <2>1. ~halted
    BY <1>12, Runs76 DEF NOP_ED
  <2> QED
    BY <1>0, <1>12, <2>1 DEF NOP_ED, Loads, Shape
<1> QED
  BY <1>1, <1>2, <1>3, <1>4, <1>5, <1>6, <1>8, <1>9, <1>10, <1>11, <1>12


(* The block instructions.                                                 *)
LEMMA Repeats ==
  ASSUME CInv, NEW again
  PROVE  RegistersOK(After(IF again THEN -1 ELSE 1))
<1>1. (IF again THEN -1 ELSE 1) \in Int
  OBVIOUS
<1> QED
  BY <1>1, Fetches

LEMMA BlockCopies ==
  ASSUME CInv, ~halted, NEW step \in {1, -1}, NEW repeated, Copy(step, repeated)
  PROVE  Shape
<1>1. PICK left, regs, flags :
        /\ regs = After(IF repeated /\ left # 0 THEN -1 ELSE 1)
        /\ flags = (F \cap {"C", "Z", "S"}) \cup On("P", left # 0)
        /\ Store(Moved(Moved(Moved(regs, "HL", step), "DE", step), "BC", -1), flags,
                 Pair("DE"), Read(Pair("HL")))
  BY DEF Copy
<1>2. RegistersOK(regs)
  BY <1>1, Repeats
<1>3. "HL" \in PairName /\ "DE" \in PairName /\ "BC" \in PairName
  BY DEF PairName
<1>4. RegistersOK(Moved(Moved(Moved(regs, "HL", step), "DE", step), "BC", -1))
  <2>1. RegistersOK(Moved(regs, "HL", step))
    BY <1>2, <1>3, Moves
  <2>2. RegistersOK(Moved(Moved(regs, "HL", step), "DE", step))
    BY <1>3, <2>1, Moves
  <2> QED
    BY <1>3, <2>2, Moves
<1>5. flags \subseteq Flag
  <2>1. F \subseteq Flag
    BY DEF CInv
  <2> QED
    BY <1>1, <2>1 DEF On, Flag
<1>6. Pair("DE") \in Int /\ Read(Pair("HL")) \in Byte
  BY <1>3, Operands, WordParts, Fetches
<1> QED
  BY <1>1, <1>4, <1>5, <1>6 DEF Stores, Shape

LEMMA BlockCompares ==
  ASSUME CInv, ~halted, NEW step \in {1, -1}, NEW repeated, Compare(step, repeated)
  PROVE  Shape
<1>1. PICK left, cp, regs, flags :
        /\ cp = CP(r.A, Read(Pair("HL"))).f
        /\ regs = After(IF repeated /\ left # 0 /\ "Z" \notin cp THEN -1 ELSE 1)
        /\ flags = (F \cap {"C"}) \cup (cp \cap {"N", "H", "Z", "S"})
                     \cup On("P", left # 0)
        /\ To(Moved(Moved(regs, "HL", step), "BC", -1), flags)
  BY DEF Compare
<1>2. RegistersOK(regs)
  BY <1>1, Repeats
<1>3. "HL" \in PairName /\ "BC" \in PairName
  BY DEF PairName
<1>4. RegistersOK(Moved(Moved(regs, "HL", step), "BC", -1))
  <2>1. RegistersOK(Moved(regs, "HL", step))
    BY <1>2, <1>3, Moves
  <2> QED
    BY <1>3, <2>1, Moves
<1>5. flags \subseteq Flag
  <2>1. F \subseteq Flag
    BY DEF CInv
  <2> QED
    BY <1>1, <2>1 DEF On, Flag
<1> QED
  BY <1>1, <1>4, <1>5 DEF Loads, Shape

LEMMA PortFlagTypes ==
  ASSUME NEW v, NEW b, NEW k
  PROVE  PortFlags(v, b, k) \subseteq Flag
<1>1. (IF v + k > 255 THEN {"C", "H"} ELSE {}) \subseteq Flag
  BY DEF Flag
<1>2. "N" \in Flag
  BY DEF Flag
<1>3. On("N", v >= 128) \subseteq Flag /\ sz(b) \subseteq Flag
  BY <1>2, FlagSets
<1>4. parity(XOR((v + k) % 8, b).v) \subseteq Flag
  BY FlagSets
<1> QED
  BY <1>1, <1>3, <1>4 DEF PortFlags

LEMMA Counts ==
  ASSUME CInv
  PROVE  /\ (r.B - 1) % 256 \in Byte /\ r.C \in Byte
         /\ \A regs, b : RegistersOK(regs) /\ b \in Byte =>
                         RegistersOK([regs EXCEPT !.B = b])
<1>1. r.B \in Byte /\ r.C \in Byte
  BY Fetches, RegisterNames
<1>2. r.B - 1 \in Int
  BY <1>1 DEF Byte
<1>3. (r.B - 1) % 256 \in Byte
  BY <1>2, ByteWraps
<1> QED
  BY <1>1, <1>3, SetRegister, RegisterNames

LEMMA BlocksIn ==
  ASSUME CInv, ~halted, NEW step \in {1, -1}, NEW repeated, InBlock(step, repeated)
  PROVE  Shape
<1>1. PICK v, b, regs, flags :
        /\ v = z80ex_pread_cb(Pair("BC")) /\ b = (r.B - 1) % 256
        /\ regs = [After(IF repeated /\ b # 0 THEN -1 ELSE 1) EXCEPT !.B = b]
        /\ flags = PortFlags(v, b, (r.C + step) % 256)
        /\ Store(Moved(regs, "HL", step), flags, Pair("HL"), v)
  BY DEF InBlock
<1>2. RegistersOK(regs) /\ flags \subseteq Flag /\ v \in Byte
  <2>1. v = 255
    BY <1>1 DEF z80ex_pread_cb
  <2>2. RegistersOK(After(IF repeated /\ b # 0 THEN -1 ELSE 1))
    BY Repeats
  <2>3. RegistersOK(regs)
    BY <1>1, <2>2, Counts
  <2>4. flags \subseteq Flag
    BY <1>1, PortFlagTypes
  <2> QED
    BY <2>1, <2>3, <2>4 DEF Byte
<1>3. "HL" \in PairName
  BY DEF PairName
<1>4. RegistersOK(Moved(regs, "HL", step))
  BY <1>2, <1>3, Moves
<1>5. Pair("HL") \in Int
  BY <1>3, Operands, WordParts
<1> QED
  BY <1>1, <1>2, <1>4, <1>5 DEF Stores, Shape

LEMMA BlocksOut ==
  ASSUME CInv, ~halted, NEW step \in {1, -1}, NEW repeated, OutBlock(step, repeated)
  PROVE  Shape
<1>1. PICK v, b, regs, flags :
        /\ v = Read(Pair("HL")) /\ b = (r.B - 1) % 256
        /\ regs = [After(IF repeated /\ b # 0 THEN -1 ELSE 1) EXCEPT !.B = b]
        /\ flags = PortFlags(v, b, (r.L + step) % 256)
        /\ Send(Moved(regs, "HL", step), flags, 256 * b + r.C, v)
  BY DEF OutBlock
<1>2. "HL" \in PairName
  BY DEF PairName
<1>3. RegistersOK(regs) /\ flags \subseteq Flag
  <2>1. RegistersOK(After(IF repeated /\ b # 0 THEN -1 ELSE 1))
    BY Repeats
  <2>2. RegistersOK(regs)
    BY <1>1, <2>1, Counts
  <2> QED
    BY <1>1, <2>2, PortFlagTypes
<1>4. v \in Byte /\ 256 * b + r.C \in Word
  <2>1. Pair("HL") \in Int
    BY <1>2, Operands, WordParts
  <2>2. b \in Byte /\ r.C \in Byte
    BY <1>1, Counts
  <2> QED
    BY <1>1, <2>1, <2>2, Fetches, WordParts
<1>5. RegistersOK(Moved(regs, "HL", step))
  BY <1>2, <1>3, Moves
<1> QED
  BY <1>1, <1>3, <1>4, <1>5 DEF Sends, Shape

LEMMA PageEDBlocks ==
  ASSUME CInv,
         \/ LDI \/ LDD \/ LDIR \/ LDDR \/ CPI \/ CPD \/ CPIR \/ CPDR
         \/ INI \/ IND \/ INIR \/ INDR \/ OUTI \/ OUTD \/ OTIR \/ OTDR
  PROVE  Shape
<1>1. ~halted
  BY Runs76 DEF LDI, LDD, LDIR, LDDR, CPI, CPD, CPIR, CPDR,
                INI, IND, INIR, INDR, OUTI, OUTD, OTIR, OTDR
<1>2. 1 \in {1, -1} /\ -1 \in {1, -1}
  OBVIOUS
<1>3. CASE LDI \/ LDD \/ LDIR \/ LDDR
  BY <1>1, <1>2, <1>3, BlockCopies DEF LDI, LDD, LDIR, LDDR
<1>4. CASE CPI \/ CPD \/ CPIR \/ CPDR
  BY <1>1, <1>2, <1>4, BlockCompares DEF CPI, CPD, CPIR, CPDR
<1>5. CASE INI \/ IND \/ INIR \/ INDR
  BY <1>1, <1>2, <1>5, BlocksIn DEF INI, IND, INIR, INDR
<1>6. CASE OUTI \/ OUTD \/ OTIR \/ OTDR
  BY <1>1, <1>2, <1>6, BlocksOut DEF OUTI, OUTD, OTIR, OTDR
<1> QED
  BY <1>3, <1>4, <1>5, <1>6

(* Flip-flops and modes: interrupts are on only if they were to be.        *)
LEMMA FlipFlops ==
  ASSUME CInv, DI \/ EI \/ IM \/ RETN \/ LD_I_A \/ LD_R_A
  PROVE  Shape
<1>0. /\ RegistersOK(After(1)) /\ r.A \in Byte /\ ControlOK(Stepped)
      /\ Stepped.IFF1 => Stepped.IFF2
  BY Fetches, RegisterNames, Stepping DEF CInv, Masked
<1>1. ~halted
  <2>1. DI \/ EI => ~halted
    BY Runs76 DEF DI, EI
  <2> QED
    BY <2>1, Runs76 DEF IM, RETN, LD_I_A, LD_R_A
<1>2. CASE DI
  <2>1. PICK c : c = [Stepped EXCEPT !.IFF1 = FALSE, !.IFF2 = FALSE] /\ Control(After(1), c)
    BY <1>2 DEF DI
  <2>2. ControlOK(c) /\ ~c.IFF1
    BY <1>0, <2>1 DEF ControlOK
  <2> QED
    BY <1>0, <1>1, <2>1, <2>2 DEF Controls, Shape
<1>3. CASE EI
  <2>1. PICK c : /\ c = [Stepped EXCEPT !.IFF1 = TRUE, !.IFF2 = TRUE, !.noint_once = TRUE]
                 /\ Control(After(1), c)
    BY <1>3 DEF EI
  <2>2. ControlOK(c) /\ c.IFF2
    BY <1>0, <2>1 DEF ControlOK
  <2> QED
    BY <1>0, <1>1, <2>1, <2>2 DEF Controls, Shape
<1>4. CASE IM
  <2>1. PICK n \in 0 .. 2 : \E c : c = [Stepped EXCEPT !.IM = n] /\ Control(After(1), c)
    <3>1. 0 \in 0 .. 2 /\ 1 \in 0 .. 2 /\ 2 \in 0 .. 2
      OBVIOUS
    <3> QED
      BY <1>4, <3>1 DEF IM
  <2>2. PICK c : c = [Stepped EXCEPT !.IM = n] /\ Control(After(1), c)
    BY <2>1
  <2>3. ControlOK(c) /\ (c.IFF1 => c.IFF2)
    BY <1>0, <2>2 DEF ControlOK
  <2> QED
    BY <1>0, <1>1, <2>2, <2>3 DEF Controls, Shape
<1>5. CASE RETN
  <2>1. PICK c, regs : /\ c = [Stepped EXCEPT !.IFF1 = ctl.IFF2]
                       /\ regs = Popped(Jumped(Word16(r.SP)))
                       /\ Control(regs, c)
    BY <1>5 DEF RETN
  <2>2. ControlOK(c) /\ (c.IFF1 => c.IFF2)
    <3>1. ctl.IFF2 \in BOOLEAN /\ Stepped.IFF2 = ctl.IFF2
      BY Stepping DEF CInv, ControlOK
    <3> QED
      BY <1>0, <2>1, <3>1 DEF ControlOK
  <2>3. RegistersOK(regs)
    <3>1. Word16(r.SP) \in Word
      BY Fetches
    <3>2. RegistersOK(Jumped(Word16(r.SP)))
      BY <3>1, Fetches
    <3> QED
      BY <2>1, <3>2, SetRegister
  <2> QED
    BY <1>1, <2>1, <2>2, <2>3 DEF Controls, Shape
<1>6. CASE LD_I_A
  <2>1. PICK c : c = [Stepped EXCEPT !.I = r.A] /\ Control(After(1), c)
    BY <1>6 DEF LD_I_A
  <2>2. ControlOK(c) /\ (c.IFF1 => c.IFF2)
    BY <1>0, <2>1 DEF ControlOK
  <2> QED
    BY <1>0, <1>1, <2>1, <2>2 DEF Controls, Shape
<1>7. CASE LD_R_A
  <2>1. PICK c : c = [Stepped EXCEPT !.R = r.A % 128, !.R7 = r.A] /\ Control(After(1), c)
    BY <1>7 DEF LD_R_A
  <2>2. r.A % 128 \in 0 .. 127
    BY <1>0 DEF Byte
  <2>3. ControlOK(c) /\ (c.IFF1 => c.IFF2)
    BY <1>0, <2>1, <2>2 DEF ControlOK
  <2> QED
    BY <1>0, <1>1, <2>1, <2>3 DEF Controls, Shape
<1> QED
  BY <1>2, <1>3, <1>4, <1>5, <1>6, <1>7


(* Every such step leaves the machine in order.                            *)
LEMMA Afterwards ==
  ASSUME CInv, Shape
  PROVE  CInv'
<1>0. /\ ~halted /\ RegistersOK(r) /\ F \subseteq Flag /\ BankOK(alt)
      /\ mem \in [0 .. Top - 1 -> Byte] /\ loaded \in [0 .. Top - 1 -> Byte]
      /\ ControlOK(ctl) /\ requests \in [{"INT", "NMI"} -> Nat]
      /\ sent \in Seq(Word \X Byte) /\ (ctl.IFF1 => ctl.IFF2)
      /\ ControlOK(Stepped) /\ (Stepped.IFF1 => Stepped.IFF2)
  BY Stepping DEF CInv, Shape, Masked
<1>1. ASSUME Rest, RegistersOK(r'), F' \subseteq Flag, alt' = alt,
             mem' \in [0 .. Top - 1 -> Byte], ControlOK(ctl'), ctl'.IFF1 => ctl'.IFF2,
             sent' \in Seq(Word \X Byte)
      PROVE  CInv'
  <2>1. /\ prefix' = 0 /\ halted' = halted /\ requests' = requests /\ loaded' = loaded
    BY <1>1 DEF Rest
  <2>2. RegistersOK(r)' /\ BankOK(alt)' /\ ControlOK(ctl)' /\ Masked'
    BY <1>0, <1>1 DEF RegistersOK, BankOK, ControlOK, Masked
  <2>3. Undivided' /\ Waiting'
    BY <1>0, <2>1 DEF Undivided, Waiting
  <2> QED
    BY <1>0, <1>1, <2>1, <2>2, <2>3 DEF CInv
<1>2. \A a \in Int : a % Top \in 0 .. Top - 1
  BY Division, MemoryAssumption
<1>3. CASE Loads
  <2>1. PICK regs, flags : RegistersOK(regs) /\ flags \subseteq Flag /\ To(regs, flags)
    BY <1>3 DEF Loads
  <2>2. /\ r' = regs /\ F' = flags /\ alt' = alt /\ mem' = mem /\ ctl' = Stepped
        /\ sent' = sent /\ Rest
    BY <2>1 DEF To, Done
  <2> QED
    BY <1>0, <1>1, <2>1, <2>2
<1>4. CASE Stores
  <2>1. PICK regs, flags, a, v : /\ RegistersOK(regs) /\ flags \subseteq Flag
                                 /\ a \in Int /\ v \in Byte /\ Store(regs, flags, a, v)
    BY <1>4 DEF Stores
  <2>2. /\ r' = regs /\ F' = flags /\ alt' = alt /\ mem' = [mem EXCEPT ![a % Top] = v]
        /\ ctl' = Stepped /\ sent' = sent /\ Rest
    BY <2>1 DEF Store, Done
  <2>3. mem' \in [0 .. Top - 1 -> Byte]
    BY <1>0, <2>1, <2>2
  <2> QED
    BY <1>0, <1>1, <2>1, <2>2, <2>3
<1>5. CASE Stores16
  <2>1. PICK regs, flags, a, w : /\ RegistersOK(regs) /\ flags \subseteq Flag
                                 /\ a \in Int /\ w \in Word
                                 /\ Store16(regs, flags, a, w)
    BY <1>5 DEF Stores16
  <2>2. PICK b, u, v : /\ b = Wrapped(a + 1) % Top /\ u = w % 256 /\ v = w \div 256
                       /\ mem' = [mem EXCEPT ![a % Top] = u, ![b] = v]
    BY <2>1 DEF Store16
  <2>3. /\ r' = regs /\ F' = flags /\ alt' = alt /\ ctl' = Stepped /\ sent' = sent /\ Rest
    BY <2>1 DEF Store16, Done
  <2>4. u \in Byte /\ v \in Byte
    BY <2>1, <2>2, WordParts
  <2>5. mem' \in [0 .. Top - 1 -> Byte]
    BY <1>0, <2>2, <2>4
  <2> QED
    BY <1>0, <1>1, <2>1, <2>3, <2>5
<1>6. CASE Sends
  <2>1. PICK regs, flags, port, v : /\ RegistersOK(regs) /\ flags \subseteq Flag
                                    /\ port \in Word /\ v \in Byte
                                    /\ Send(regs, flags, port, v)
    BY <1>6 DEF Sends
  <2>2. /\ r' = regs /\ F' = flags /\ alt' = alt /\ mem' = mem /\ ctl' = Stepped
        /\ sent' = Append(sent, <<port, v>>) /\ Rest
    BY <2>1 DEF Send
  <2>3. <<port, v>> \in Word \X Byte
    BY <2>1
  <2>4. sent' \in Seq(Word \X Byte)
    BY <1>0, <2>2, <2>3
  <2> QED
    BY <1>0, <1>1, <2>1, <2>2, <2>4
<1>7. CASE Controls
  <2>1. PICK regs, c : /\ RegistersOK(regs) /\ ControlOK(c) /\ (c.IFF1 => c.IFF2)
                       /\ Control(regs, c)
    BY <1>7 DEF Controls
  <2>2. /\ r' = regs /\ F' = F /\ alt' = alt /\ mem' = mem /\ ctl' = c
        /\ sent' = sent /\ Rest
    BY <2>1 DEF Control
  <2> QED
    BY <1>0, <1>1, <2>1, <2>2
<1> QED
  BY <1>3, <1>4, <1>5, <1>6, <1>7 DEF Shape

(* The other instructions, which exchange, stop, show a flip-flop, ...     *)
Kept == UNCHANGED <<alt, mem, requests, sent, loaded>>

LEMMA Exchanges ==
  ASSUME CInv, EX_AF \/ EXX
  PROVE  CInv'
<1>0. /\ RegistersOK(r) /\ F \subseteq Flag /\ BankOK(alt)
      /\ mem \in [0 .. Top - 1 -> Byte] /\ loaded \in [0 .. Top - 1 -> Byte]
      /\ requests \in [{"INT", "NMI"} -> Nat] /\ sent \in Seq(Word \X Byte)
      /\ (ctl.IFF1 => ctl.IFF2)
  BY DEF CInv, Masked
<1>1. ~halted
  BY Runs76 DEF EX_AF, EXX
<1>2. /\ mem' = mem /\ loaded' = loaded /\ sent' = sent /\ requests' = requests
      /\ prefix' = 0 /\ halted' = FALSE /\ ctl' = Stepped
  BY <1>0, <1>1 DEF EX_AF, EXX, Done, Rest, CInv
<1>3. RegistersOK(r') /\ F' \subseteq Flag /\ BankOK(alt')
  <2>1. RegistersOK(After(1))
    BY Fetches
  <2>2. CASE EX_AF
    <3>1. /\ r' = [After(1) EXCEPT !.A = alt.A] /\ F' = alt.F
          /\ alt' = [alt EXCEPT !.A = r.A, !.F = F]
      BY <2>2 DEF EX_AF
    <3>2. alt.A \in Byte /\ alt.F \subseteq Flag /\ r.A \in Byte
      BY <1>0, RegisterNames DEF BankOK, RegistersOK
    <3>3. RegistersOK(r')
      BY <2>1, <3>1, <3>2, SetRegister, RegisterNames
    <3>4. BankOK(alt')
      BY <1>0, <3>1, <3>2, RegisterNames DEF BankOK
    <3> QED
      BY <3>1, <3>2, <3>3, <3>4
  <2>3. CASE EXX
    <3>1. /\ r' = [n \in DOMAIN r |-> IF n \in Half \ {"A"} THEN alt[n] ELSE After(1)[n]]
          /\ alt' = [n \in DOMAIN alt |-> IF n \in Half \ {"A"} THEN r[n] ELSE alt[n]]
          /\ F' = F
      BY <2>3 DEF EXX
    <3>2. /\ DOMAIN r = Register \cup {"PC", "SP"} /\ DOMAIN alt = Half \cup {"F"}
          /\ \A n \in Half : alt[n] \in Byte /\ r[n] \in Byte
      BY <1>0, RegisterNames DEF RegistersOK, BankOK
    <3>3. RegistersOK(r')
      BY <2>1, <3>1, <3>2, RegisterNames DEF RegistersOK
    <3>4. BankOK(alt')
      BY <1>0, <3>1, <3>2, RegisterNames DEF BankOK
    <3> QED
      BY <1>0, <3>1, <3>3, <3>4
  <2> QED
    BY <2>2, <2>3
<1>4. RegistersOK(r)' /\ BankOK(alt)' /\ ControlOK(ctl)' /\ Masked'
  BY <1>0, <1>2, <1>3, Stepping DEF RegistersOK, BankOK, ControlOK, Masked
<1>5. Undivided' /\ Waiting'
  BY <1>2 DEF Undivided, Waiting
<1> QED
  BY <1>0, <1>2, <1>3, <1>4, <1>5 DEF CInv

(* A step on the registers, flags and flip-flops alone, the prefix and the *)
(* HALT among them.                                                        *)
LEMMA KeepsMemory ==
  ASSUME CInv, Kept, RegistersOK(r'), F' \subseteq Flag, ControlOK(ctl'),
         ctl'.IFF1 => ctl'.IFF2,
         prefix' \in {0, \hCB, \hDD, \hED, \hFD}, halted' \in BOOLEAN,
         Undivided', Waiting'
  PROVE  CInv'
<1>1. /\ BankOK(alt) /\ mem \in [0 .. Top - 1 -> Byte]
      /\ loaded \in [0 .. Top - 1 -> Byte]
      /\ requests \in [{"INT", "NMI"} -> Nat] /\ sent \in Seq(Word \X Byte)
  BY DEF CInv
<1>2. /\ alt' = alt /\ mem' = mem /\ loaded' = loaded
      /\ requests' = requests /\ sent' = sent
  BY DEF Kept
<1>3. RegistersOK(r)' /\ BankOK(alt)' /\ ControlOK(ctl)' /\ Masked'
  BY <1>1, <1>2 DEF RegistersOK, BankOK, ControlOK, Masked
<1> QED
  BY <1>1, <1>2, <1>3 DEF CInv

LEMMA StopsAndShows ==
  ASSUME CInv, HALT \/ LD_A_I \/ LD_A_R \/ Prefix
  PROVE  CInv'
<1>0. /\ RegistersOK(r) /\ F \subseteq Flag /\ ControlOK(ctl)
      /\ RegistersOK(After(1)) /\ (ctl.IFF1 => ctl.IFF2)
      /\ ControlOK(Stepped) /\ (Stepped.IFF1 => Stepped.IFF2)
      /\ prefix \in {0, \hCB, \hDD, \hED, \hFD} /\ halted \in BOOLEAN
      /\ Stepped.R \in 0 .. 127
  BY Fetches, Stepping DEF CInv, Masked
<1>1. CASE HALT
  <2>1. /\ Kept /\ r' = r /\ F' = F /\ ctl' = Stepped /\ prefix' = 0 /\ halted' = TRUE
        /\ op = \h76
    BY <1>1 DEF HALT, Kept, Base
  <2>2. Undivided'
    BY <2>1 DEF Undivided
  <2>3. op' = op
    BY <2>1 DEF op, Read, Kept
  <2>4. Waiting'
    BY <2>1, <2>3 DEF Waiting
  <2> QED
    BY <1>0, <2>1, <2>2, <2>4, KeepsMemory
<1>2. CASE Prefix
  <2>1. /\ Kept /\ r' = After(1) /\ F' = F /\ halted' = halted
        /\ ctl' = [Stepped EXCEPT !.noint_once = TRUE]
        /\ prefix' = op /\ op \in {\hCB, \hDD, \hED, \hFD}
    BY <1>2 DEF Prefix, Kept
  <2>2. ~halted
    BY <1>2, <2>1 DEF CInv, Waiting
  <2>3. ControlOK(ctl') /\ ctl'.noint_once /\ (ctl'.IFF1 => ctl'.IFF2)
    BY <1>0, <2>1 DEF ControlOK
  <2>4. Undivided' /\ Waiting'
    BY <2>1, <2>2, <2>3 DEF Undivided, Waiting
  <2> QED
    BY <1>0, <2>1, <2>3, <2>4, KeepsMemory
<1>3. ASSUME NEW v \in Byte, LoadA(v), ~halted
      PROVE  CInv'
  <2>1. /\ Kept /\ r' = [After(1) EXCEPT !.A = v]
        /\ F' = (F \cap {"C"}) \cup sz(v) \cup On("P", ctl.IFF2)
        /\ ctl' = [Stepped EXCEPT !.reset_PV_on_int = TRUE]
        /\ prefix' = 0 /\ halted' = FALSE
    BY <1>0, <1>3 DEF LoadA, Rest, Kept
  <2>2. RegistersOK(r')
    <3>1. \A n \in Register, b \in Byte : RegistersOK([After(1) EXCEPT ![n] = b])
      BY <1>0, SetRegister
    <3>2. "A" \in Register
      BY RegisterNames
    <3> QED
      BY <1>3, <2>1, <3>1, <3>2
  <2>3. F' \subseteq Flag
    <3>1. "P" \in Flag
      BY DEF Flag
    <3>2. sz(v) \subseteq Flag /\ On("P", ctl.IFF2) \subseteq Flag
      BY <3>1, FlagSets
    <3> QED
      BY <1>0, <2>1, <3>2
  <2>4. ControlOK(ctl') /\ (ctl'.IFF1 => ctl'.IFF2)
    BY <1>0, <2>1 DEF ControlOK
  <2>5. Undivided' /\ Waiting'
    BY <2>1 DEF Undivided, Waiting
  <2> QED
    BY <2>1, <2>2, <2>3, <2>4, <2>5, KeepsMemory
<1>4. CASE LD_A_I
  BY <1>0, <1>3, <1>4, Runs76 DEF LD_A_I, ControlOK
<1>5. CASE LD_A_R
  <2>1. Bit(ctl.R7, 7) \in 0 .. 1
    <3>1. ctl.R7 \in Int
      BY <1>0 DEF ControlOK, Byte
    <3>2. PICK q \in Int : q = ctl.R7 \div 2 ^ 7
      BY <3>1, Powers
    <3> QED
      BY <3>2 DEF Bit
  <2>2. PICK u \in 0 .. 127, v \in 0 .. 1 : u = Stepped.R /\ v = Bit(ctl.R7, 7)
    BY <1>0, <2>1
  <2>3. u + 128 * v \in Byte
    BY DEF Byte
  <2> QED
    BY <1>3, <1>5, <2>2, <2>3, Runs76 DEF LD_A_R
<1> QED
  BY <1>1, <1>2, <1>4, <1>5

LEMMA EveryStep ==
  ASSUME CInv, z80ex_step
  PROVE  CInv'
<1> HIDE DEF CInv
<1>1. Shape => CInv'
  BY Afterwards
<1>2. \/ Prefix \/ HALT \/ LD_A_I \/ LD_A_R \/ EX_AF \/ EXX
      \/ NOP \/ LD_rp_nn \/ LD_rp_A \/ LD_A_rp \/ LD_nn_HL \/ LD_HL_nn \/ LD_nn_A
         \/ LD_A_nn \/ INC16 \/ DEC16 \/ ADD_HL \/ INC_r \/ DEC_r \/ LD_r_n \/ RotateA
         \/ DAA_A \/ CPL_A \/ SetCarry \/ DJNZ \/ JR
      \/ LD_r_r \/ LD_r_M \/ LD_M_r
         \/ ADD_A \/ ADC_A \/ SUB_A \/ SBC_A \/ AND_A \/ XOR_A \/ OR_A \/ CP_A
      \/ PUSH \/ POP \/ PUSH_AF \/ POP_AF \/ JP \/ CALL \/ RET \/ RST
         \/ JP_HL \/ LD_SP_HL \/ EX_SP_HL \/ EX_DE_HL
      \/ RLC_r \/ RRC_r \/ RL_r \/ RR_r \/ SLA_r \/ SRA_r \/ SLL_r \/ SRL_r
         \/ BIT_r \/ RES_r \/ SET_r
      \/ RLC_d \/ RRC_d \/ RL_d \/ RR_d \/ SLA_d \/ SRA_d \/ SLL_d \/ SRL_d
         \/ BIT_d \/ RES_d \/ SET_d
      \/ SBC_HL \/ ADC_HL \/ LD_nn_rp \/ LD_rp_mm \/ NEG_A \/ RRD \/ RLD
         \/ IN_A_n \/ OUT_n_A \/ IN_r_C \/ OUT_C_r \/ NOP_ED
      \/ LDI \/ LDD \/ LDIR \/ LDDR \/ CPI \/ CPD \/ CPIR \/ CPDR
         \/ INI \/ IND \/ INIR \/ INDR \/ OUTI \/ OUTD \/ OTIR \/ OTDR
      \/ DI \/ EI \/ IM \/ RETN \/ LD_I_A \/ LD_R_A
  BY DEF z80ex_step
<1> QED
  BY <1>1, <1>2, BaseLow, BaseMiddle, BaseHigh, PageCB, PagesDDCB, PageED, PageEDBlocks,
     FlipFlops, StopsAndShows, Exchanges

(* ... and the interrupts.                                                 *)
LEMMA Interrupting ==
  ASSUME CInv, NEW kind \in {"INT", "NMI"}, Interrupted(kind)
  PROVE  /\ BankOK(alt') /\ mem' \in [0 .. Top - 1 -> Byte]
         /\ loaded' \in [0 .. Top - 1 -> Byte]
         /\ requests' \in [{"INT", "NMI"} -> Nat] /\ sent' \in Seq(Word \X Byte)
         /\ prefix' = prefix /\ halted' = FALSE
<1>1. /\ BankOK(alt) /\ mem \in [0 .. Top - 1 -> Byte]
      /\ loaded \in [0 .. Top - 1 -> Byte]
      /\ requests \in [{"INT", "NMI"} -> Nat] /\ sent \in Seq(Word \X Byte)
      /\ r.PC \in Word
  BY DEF CInv, RegistersOK
<1>2. requests[kind] > 0 /\ requests' = [requests EXCEPT ![kind] = requests[kind] - 1]
  BY DEF Interrupted
<1>3. requests' \in [{"INT", "NMI"} -> Nat]
  <2>1. requests[kind] \in Nat
    BY <1>1
  <2>2. requests[kind] - 1 \in Nat
    BY <1>2, <2>1
  <2> QED
    BY <1>1, <1>2, <2>2
<1>4. Resume \in Word
  <2>1. Wrapped(r.PC + 1) \in Word
    BY Fetches, Wraps
  <2> QED
    BY <1>1, <2>1 DEF Resume
<1>5. PICK u, v \in Byte : u = Resume % 256 /\ v = Resume \div 256
  BY <1>4, WordParts
<1>6. mem' \in [0 .. Top - 1 -> Byte]
  <2>1. PICK a, b : mem' = [mem EXCEPT ![a] = u, ![b] = v]
    BY <1>5 DEF Interrupted
  <2> QED
    BY <1>1, <2>1
<1> QED
  BY <1>1, <1>3, <1>6 DEF Interrupted

LEMMA InterruptStep ==
  ASSUME CInv, z80ex_nmi \/ z80ex_int
  PROVE  CInv'
<1>0. /\ RegistersOK(r) /\ F \subseteq Flag /\ ControlOK(ctl)
  BY DEF CInv
<1>1. PICK kind \in {"INT", "NMI"} : Interrupted(kind)
  BY DEF z80ex_nmi, z80ex_int
<1>2. /\ BankOK(alt') /\ mem' \in [0 .. Top - 1 -> Byte]
      /\ loaded' \in [0 .. Top - 1 -> Byte]
      /\ requests' \in [{"INT", "NMI"} -> Nat] /\ sent' \in Seq(Word \X Byte)
      /\ prefix' = 0 /\ halted' = FALSE
  <2>1. prefix = 0
    BY DEF z80ex_nmi, z80ex_int, Accepts
  <2> QED
    BY <1>1, <2>1, Interrupting
<1>3. ASSUME NEW a \in Word
      PROVE  RegistersOK(Entering(a))
  <2>1. RegistersOK(Jumped(a))
    BY <1>3, Fetches
  <2> QED
    BY <2>1, SetRegister DEF Entering
<1>4. RegistersOK(r')
  <2>1. \h38 \in Word /\ \h66 \in Word
    BY WordParts DEF Byte
  <2>2. CASE z80ex_nmi
    BY <1>3, <2>1, <2>2 DEF z80ex_nmi
  <2>3. CASE z80ex_int
    <3>1. Vector \in Int
      BY <1>0 DEF Vector, ControlOK, Byte
    <3>2. Wrapped(Vector + 1) \in Int
      <4>1. Wrapped(Vector + 1) \in Word
        BY <3>1, Wraps
      <4> QED
        BY <4>1, WordParts
    <3>3. Vector % Top \in 0 .. Top - 1 /\ Wrapped(Vector + 1) % Top \in 0 .. Top - 1
      BY <3>1, <3>2, Division, MemoryAssumption
    <3>4. PICK u, v \in Byte : /\ u = mem'[Vector % Top]
                               /\ v = mem'[Wrapped(Vector + 1) % Top]
      BY <1>2, <3>3
    <3>5. PICK a \in Word : r' = Entering(a)
      <4>1. u + 256 * v \in Word
        BY WordParts
      <4>2. r' = Entering(IF ctl.IM = 2 THEN u + 256 * v ELSE \h38)
        BY <2>3, <3>4 DEF z80ex_int
      <4> QED
        BY <2>1, <4>1, <4>2
    <3> QED
      BY <1>3, <3>5
  <2> QED
    BY <2>2, <2>3
<1>5. F' \subseteq Flag
  BY <1>0 DEF z80ex_nmi, z80ex_int
<1>6. ControlOK(ctl') /\ (ctl'.IFF1 => ctl'.IFF2)
  <2>1. (ctl.R + 1) % 128 \in 0 .. 127
    BY <1>0 DEF ControlOK
  <2>2. CASE z80ex_nmi
    BY <1>0, <2>1, <2>2 DEF z80ex_nmi, ControlOK
  <2>3. CASE z80ex_int
    BY <1>0, <2>1, <2>3 DEF z80ex_int, ControlOK
  <2> QED
    BY <2>2, <2>3
<1>7. RegistersOK(r)' /\ BankOK(alt)' /\ ControlOK(ctl)' /\ Masked'
  BY <1>2, <1>4, <1>6 DEF RegistersOK, BankOK, ControlOK, Masked
<1>8. Undivided' /\ Waiting'
  BY <1>2 DEF Undivided, Waiting
<1> QED
  BY <1>2, <1>5, <1>7, <1>8 DEF CInv

LEMMA Beginning ==
  ASSUME Init
  PROVE  CInv
<1>1. /\ mem \in [0 .. Top - 1 -> Byte] /\ loaded \in [0 .. Top - 1 -> Byte]
      /\ requests \in [{"INT", "NMI"} -> Nat]
  BY MemoryAssumption, RequestsAssumption DEF Init
<1>2. sent \in Seq(Word \X Byte)
  BY DEF Init
<1>3. /\ r = [n \in Register \cup {"PC", "SP"} |->
                CASE n = "PC" -> 0 [] n = "SP" -> 65535 [] OTHER -> 255]
      /\ F = Flag
      /\ alt = [n \in Half \cup {"F"} |-> IF n = "F" THEN Flag ELSE 255]
      /\ prefix = 0 /\ halted = FALSE
      /\ ctl = [IFF1 |-> FALSE, IFF2 |-> FALSE, IM |-> 0, I |-> 0, R |-> 0, R7 |-> 0,
                noint_once |-> FALSE, reset_PV_on_int |-> FALSE]
  BY DEF Init, z80ex_reset
<1>4. 0 \in Byte /\ 255 \in Byte
  BY DEF Byte
<1>5. 0 \in Word /\ 65535 \in Word
  BY IsWord
<1>6. RegistersOK(r)
  BY <1>3, <1>4, <1>5, RegisterNames DEF RegistersOK
<1>7. BankOK(alt)
  BY <1>3, <1>4, RegisterNames DEF BankOK
<1>8. ControlOK(ctl) /\ Masked
  BY <1>3, <1>4 DEF ControlOK, Masked
<1>9. Undivided /\ Waiting
  BY <1>3 DEF Undivided, Waiting
<1>10. F = Flag /\ prefix = 0 /\ halted = FALSE
  BY DEF Init, z80ex_reset
<1>11. /\ F \subseteq Flag /\ prefix \in {0, \hCB, \hDD, \hED, \hFD}
       /\ halted \in BOOLEAN
  BY <1>10
<1> QED
  BY <1>1, <1>2, <1>6, <1>7, <1>8, <1>9, <1>11 DEF CInv

LEMMA Invariance == Spec => []CInv
<1>1. Init => CInv
  BY Beginning
<1>2. CInv /\ [Next]_vars => CInv'
  <2> SUFFICES ASSUME CInv, [Next]_vars
               PROVE  CInv'
    OBVIOUS
  <2>1. CASE z80ex_step
    BY <2>1, EveryStep
  <2>2. CASE z80ex_nmi \/ z80ex_int
    BY <2>2, InterruptStep
  <2>3. CASE UNCHANGED vars
    BY <2>3 DEF vars, CInv, RegistersOK, BankOK, ControlOK, Masked, Undivided, Waiting,
                op, Read
  <2> QED
    BY <2>1, <2>2, <2>3 DEF Next
<1> QED
  BY <1>1, <1>2, PTL DEF Spec

(* Every instruction, on every page and for every program and operands,    *)
(* leaves bytes in the registers, words in PC and SP, flags in F and bytes *)
(* in a memory of the same size: no result of the ALU, no address, no      *)
(* counter of a block instruction leaves its width.                        *)
THEOREM TypeCorrect == Spec => []TypeOK
<1>1. CInv => TypeOK
  BY DEF CInv, TypeOK, RegistersOK, BankOK, ControlOK
<1> QED
  BY <1>1, Invariance, PTL

(* The interrupt logic of z80ex.c.  IFF1 is never set without IFF2, so     *)
(* RETN, which copies IFF2 to IFF1, never turns off interrupts that were   *)
(* on.  While a prefix is pending the one-shot flag is set, though every   *)
(* step clears it first: a sequence of prefixes of any length cannot be    *)
(* interrupted before its opcode.  And while the CPU waits, the byte under *)
(* PC is the HALT, with no prefix: the program, which cannot write to      *)
(* memory then, cannot take it away, and the PC an interrupt saves, one    *)
(* further, is behind it.                                                  *)
THEOREM InterruptsInOrder == Spec => [](Masked /\ Undivided /\ Waiting)
<1>1. CInv => Masked /\ Undivided /\ Waiting
  BY DEF CInv
<1> QED
  BY <1>1, Invariance, PTL

-----------------------------------------------------------------------------
(* Words in memory, which may lie across its end.                          *)

(* Copies of the memory, of more than a byte, fill the 64K of addresses.   *)
Tiled == Top > 1 /\ 65536 % Top = 0

(* Two neighbours are two bytes, also where addresses wrap at 65536 or at  *)
(* the end of the memory.                                                  *)
LEMMA Neighbours ==
  ASSUME Tiled, NEW a \in Int
  PROVE  Wrapped(a + 1) % Top = (a + 1) % Top /\ (a + 1) % Top # a % Top
<1>1. Top \in Nat /\ Top > 1 /\ Top > 0
  BY MemoryAssumption DEF Tiled
<1>2. PICK m \in Nat : m = 65536 /\ m > 0
  OBVIOUS
<1>3. m > 0 /\ m % Top = 0
  BY <1>2 DEF Tiled
<1>7. \A x \in Int : (x % m) % Top = x % Top
  <2> SUFFICES ASSUME NEW x \in Int
               PROVE  (x % m) % Top = x % Top
    OBVIOUS
  <2>1. \E k \in Int : x = Top * k + (x % m)
    BY <1>1, <1>3, MultipleLess
  <2>2. x % m \in Int
    BY <1>3, Division
  <2>3. PICK k \in Int, s \in Int : x = Top * k + s /\ s = x % m
    BY <2>1, <2>2
  <2>4. (Top * k + s) % Top = s % Top
    BY <1>1, MultipleGone
  <2> QED
    BY <2>3, <2>4
<1>4. a + 1 \in Int
  OBVIOUS
<1>5. Wrapped(a + 1) % Top = (a + 1) % Top
  BY <1>2, <1>7, <1>4 DEF Wrapped
<1>6. (a + 1) % Top # a % Top
  <2> SUFFICES ASSUME (a + 1) % Top = a % Top
               PROVE  FALSE
    OBVIOUS
  <2>1. PICK q \in Int, p \in Int, d \in 0 .. Top - 1 :
          a = Top * q + d /\ a + 1 = Top * p + d
    BY <1>1, Division
  <2>2. Top * (p - q) = 1
    BY <1>1, <2>1
  <2>3. p - q = 0
    BY <1>1, <2>2, SmallMultiple
  <2> QED
    BY <1>1, <2>2, <2>3
<1> QED
  BY <1>5, <1>6

WordIn(m, a) == m[a % Top] + 256 * m[Wrapped(a + 1) % Top]
Stored(a, w) ==
  mem' = [mem EXCEPT ![a % Top] = w % 256, ![Wrapped(a + 1) % Top] = w \div 256]

(* A stored word is there.                                                 *)
LEMMA WordsStand ==
  ASSUME CInv, Tiled, NEW a \in Int, NEW w \in Word, Stored(a, w)
  PROVE  WordIn(mem', a) = w
<1>1. PICK j, k \in 0 .. Top - 1 : j = a % Top /\ k = Wrapped(a + 1) % Top /\ j # k
  <2>1. a % Top \in 0 .. Top - 1 /\ (a + 1) % Top \in 0 .. Top - 1
    BY MemoryAssumption, Division
  <2> QED
    BY <2>1, Neighbours
<1>2. PICK u, v \in Byte : u = w % 256 /\ v = w \div 256
  BY WordParts
<1>3. mem \in [0 .. Top - 1 -> Byte]
  BY DEF CInv
<1>4. mem' = [mem EXCEPT ![j] = u, ![k] = v]
  BY <1>1, <1>2 DEF Stored
<1>5. mem'[j] = u /\ mem'[k] = v
  BY <1>1, <1>3, <1>4
<1>6. w = 256 * v + u
  <2>1. w \in Int /\ 256 \in Nat
    BY WordParts
  <2>2. w = 256 * (w \div 256) + (w % 256)
    BY <2>1, Division
  <2> QED
    BY <1>2, <2>2
<1>7. u \in Int /\ v \in Int
  BY IsByte
<1> QED
  BY <1>1, <1>5, <1>6, <1>7 DEF WordIn

(* A step pushes w: SP is two lower, and finds w.                          *)
Pushed(w) ==
  /\ r'.SP = Wrapped(r.SP - 2) /\ Wrapped(r'.SP + 2) = r.SP
  /\ WordIn(mem', r'.SP) = w

LEMMA PushedWord ==
  ASSUME CInv, Tiled, NEW w \in Word,
         r'.SP = Wrapped(r.SP - 2), Stored(Wrapped(r.SP - 2), w)
  PROVE  Pushed(w)
<1>1. r.SP \in Word /\ r.SP \in Int
  BY Fetches DEF CInv, RegistersOK
<1>2. Wrapped(r.SP - 2) \in Int
  <2>1. Wrapped(r.SP - 2) \in Word
    BY <1>1, Wraps
  <2>2. PICK w0 \in Word : w0 = Wrapped(r.SP - 2)
    BY <2>1
  <2>3. w0 \in Int
    BY WordParts
  <2> QED
    BY <2>2, <2>3
<1>3. Wrapped(Wrapped(r.SP - 2) + 2) = r.SP
  <2>1. PICK m \in Nat : m = 65536 /\ m > 0
    OBVIOUS
  <2>2. Word = 0 .. m - 1
    BY <2>1 DEF Word
  <2>3. PICK x \in 0 .. m - 1 : x = r.SP
    BY <1>1, <2>2
  <2>4. (((x - 2) % m) + 2) % m = x
    <3>1. PICK s \in Int : s = x - 2 /\ s + 2 = x
      OBVIOUS
    <3>2. ((s % m) + 2) % m = (s + 2) % m
      BY <2>1, <3>1, ReduceFirst
    <3>3. m > 0
      BY <2>1
    <3>4. (m * 0 + x) % m = x
      BY <3>3, Remainder
    <3>5. m * 0 + x = x
      OBVIOUS
    <3> QED
      BY <3>1, <3>2, <3>4, <3>5
  <2>5. \A v : Wrapped(v) = v % m
    BY <2>1 DEF Wrapped
  <2>6. Wrapped(Wrapped(x - 2) + 2) = x
    BY <2>4, <2>5
  <2> QED
    BY <2>3, <2>6
<1> QED
  BY <1>2, <1>3, WordsStand DEF Pushed

(* PUSH, CALL, RST, EX (SP),HL and the interrupts find again what they put *)
(* on the stack, and so do LD (nn),HL and LD (nn),rp behind them.          *)
StackKeeps ==
  /\ PUSH => Pushed(Pair(RP))
  /\ CALL /\ (op = \hCD \/ Condition(y)) => Pushed(Wrapped(r.PC + 3))
  /\ RST => Pushed(Wrapped(r.PC + 1))
  /\ z80ex_nmi \/ z80ex_int => Pushed(IF halted THEN Wrapped(r.PC + 1) ELSE r.PC)
  /\ EX_SP_HL => r'.SP = r.SP /\ WordIn(mem', r'.SP) = Pair(ix)
  /\ LD_nn_HL => WordIn(mem', Next16(1)) = Pair(ix)
  /\ LD_nn_rp => WordIn(mem', Next16(1)) = Pair(RP)

LEMMA StackStep ==
  ASSUME CInv, Tiled
  PROVE  StackKeeps
<1>1. /\ r.PC \in Int /\ r.SP \in Int /\ ix \in PairName /\ RP \in PairName
      /\ \A p \in PairName : Pair(p) \in Word
      /\ Next16(1) \in Int /\ r.PC \in Word
  <2>1. Next16(1) \in Word
    BY Fetches
  <2>2. Word \subseteq Int
    BY WordParts
  <2>3. r.PC \in Word
    BY DEF CInv, RegistersOK
  <2>4. r.PC \in Int /\ r.SP \in Int
    BY Fetches
  <2>5. ix \in PairName /\ RP \in PairName /\ \A p \in PairName : Pair(p) \in Word
    BY Operands
  <2>6. Next16(1) \in Int
    <3>1. PICK w \in Word : w = Next16(1)
      BY <2>1
    <3>2. w \in Int
      BY WordParts
    <3> QED
      BY <3>1, <3>2
  <2> QED
    BY <2>1, <2>3, <2>4, <2>5, <2>6
<1>2. ASSUME NEW regs, RegistersOK(regs), regs.SP = r.SP, NEW w \in Word, Push(regs, w)
      PROVE  Pushed(w)
  <2>1. r' = [regs EXCEPT !.SP = Wrapped(r.SP - 2)] /\ Stored(Wrapped(r.SP - 2), w)
    BY <1>2 DEF Push, Store16, Stored
  <2>2. r'.SP = Wrapped(r.SP - 2)
    BY <1>2, <2>1 DEF RegistersOK
  <2> QED
    BY <2>1, <2>2, PushedWord
<1>0. \A w : [r EXCEPT !.PC = w].SP = r.SP
  BY DEF CInv, RegistersOK
<1>3. \A n \in Int : RegistersOK(After(n)) /\ After(n).SP = r.SP
  <2>1. \A n \in Int : RegistersOK(After(n))
    BY Fetches
  <2>2. \A n \in Int : After(n).SP = r.SP
    BY <1>0 DEF After
  <2> QED
    BY <2>1, <2>2
<1>4. \A a \in Word : RegistersOK(Jumped(a)) /\ Jumped(a).SP = r.SP
  BY <1>0, Fetches DEF Jumped
<1>5. Wrapped(r.PC + 1) \in Word /\ Wrapped(r.PC + 3) \in Word
  BY <1>1, Wraps
<1>6. PUSH => Pushed(Pair(RP))
  BY <1>1, <1>2, <1>3 DEF PUSH
<1>7. CALL /\ (op = \hCD \/ Condition(y)) => Pushed(Wrapped(r.PC + 3))
  <2>1. Next16(1) \in Word
    BY Fetches
  <2> QED
    BY <1>2, <1>4, <1>5, <2>1 DEF CALL
<1>8. RST => Pushed(Wrapped(r.PC + 1))
  <2>1. 8 * y \in Word
    <3>1. y \in 0 .. 7
      BY Fetches
    <3>2. 8 * y \in Byte
      BY <3>1 DEF Byte
    <3>3. Byte \subseteq Word
      BY WordParts
    <3> QED
      BY <3>2, <3>3
  <2> QED
    BY <1>2, <1>4, <1>5, <2>1 DEF RST
<1>9. z80ex_nmi \/ z80ex_int => Pushed(IF halted THEN Wrapped(r.PC + 1) ELSE r.PC)
  <2> SUFFICES ASSUME z80ex_nmi \/ z80ex_int
               PROVE  Pushed(Resume)
    BY DEF Resume
  <2>1. PICK h : r' = Entering(h)
    BY DEF z80ex_nmi, z80ex_int
  <2>2. r'.SP = Wrapped(r.SP - 2)
    BY <2>1 DEF Entering, Jumped, CInv, RegistersOK
  <2>3. Resume \in Word
    BY <1>1, <1>5 DEF Resume
  <2>4. Wrapped(Wrapped(r.SP - 2) + 1) = Wrapped(r.SP - 1)
    <3>1. PICK m \in Nat : m = 65536 /\ m > 0
      OBVIOUS
    <3>2. PICK s \in Int : s = r.SP - 2 /\ s + 1 = r.SP - 1
      BY <1>1
    <3>3. ((s % m) + 1) % m = (s + 1) % m
      BY <3>1, ReduceFirst
    <3> QED
      BY <3>1, <3>2, <3>3 DEF Wrapped
  <2>5. PICK kind : Interrupted(kind)
    BY DEF z80ex_nmi, z80ex_int
  <2>6. Stored(Wrapped(r.SP - 2), Resume)
    <3>1. PICK a, b : /\ a = Wrapped(r.SP - 2) /\ b = Wrapped(r.SP - 1)
                      /\ b = Wrapped(a + 1)
      BY <2>4
    <3>2. mem' = [mem EXCEPT ![a % Top] = Resume % 256, ![b % Top] = Resume \div 256]
      BY <2>5, <3>1 DEF Interrupted
    <3> QED
      BY <3>1, <3>2 DEF Stored
  <2> QED
    BY <2>2, <2>3, <2>6, PushedWord
<1>10. ASSUME EX_SP_HL
       PROVE  r'.SP = r.SP /\ WordIn(mem', r'.SP) = Pair(ix)
  <2>1. PICK regs : /\ regs = WithPair(After(1), ix, Word16(r.SP))
                    /\ Store16(regs, F, r.SP, Pair(ix))
    BY <1>10 DEF EX_SP_HL
  <2>2. r' = regs /\ Stored(r.SP, Pair(ix))
    BY <2>1 DEF Store16, Stored
  <2>3. regs.SP = r.SP
    <3>1. /\ ix # "SP" /\ Halves[ix][1] \in Register /\ Halves[ix][2] \in Register
          /\ "SP" \notin Register
      BY Operands, RegisterNames
    <3>2. After(1).SP = r.SP /\ DOMAIN After(1) = Register \cup {"PC", "SP"}
      BY <1>3 DEF RegistersOK
    <3> QED
      BY <2>1, <3>1, <3>2 DEF WithPair
  <2> QED
    BY <1>1, <2>2, <2>3, WordsStand
<1>11. LD_nn_HL => WordIn(mem', Next16(1)) = Pair(ix)
  <2>1. LD_nn_HL => Stored(Next16(1), Pair(ix))
    BY DEF LD_nn_HL, Store16, Stored
  <2> QED
    BY <1>1, <2>1, WordsStand
<1>12. LD_nn_rp => WordIn(mem', Next16(1)) = Pair(RP)
  <2>1. LD_nn_rp => Stored(Next16(1), Pair(RP))
    BY DEF LD_nn_rp, Store16, Stored
  <2> QED
    BY <1>1, <2>1, WordsStand
<1> QED
  BY <1>6, <1>7, <1>8, <1>9, <1>10, <1>11, <1>12 DEF StackKeeps

(* Store16, PUSH and the interrupts of z80ex.c, for every memory whose     *)
(* size divides 65536: the two bytes of a word never fall on one, also     *)
(* when SP or the address wraps, so that a RET, POP or LD HL,(nn) that     *)
(* comes before another write finds the word, and an interrupted program   *)
(* goes on where it was, a waiting one behind its HALT.                    *)
THEOREM WordsComeBack ==
  ASSUME Tiled
  PROVE  Spec => [][StackKeeps]_vars
<1>1. CInv /\ [Next]_vars => [StackKeeps]_vars
  BY StackStep
<1> QED
  BY <1>1, Invariance, PTL DEF Spec
=============================================================================
