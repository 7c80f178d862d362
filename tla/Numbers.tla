------------------------------ MODULE Numbers ------------------------------
(***************************************************************************)
(* Lemmas about numbers: addresses wrap at the size of memory, files are   *)
(* made of whole records.  The provers know what quotient and remainder    *)
(* are, but not that they are unique.  A search that returns the first     *)
(* place of something returns the least of a set.  What a fold over a      *)
(* sequence computes is what its steps compute, one after the other.       *)
(***************************************************************************)
EXTENDS Integers, FiniteSetsExt, WellFoundedInduction, TLAPS

(* A number is the divisor times the quotient, and a remainder below it.   *)
LEMMA Division ==
  ASSUME NEW T \in Nat, T > 0, NEW x \in Int
  PROVE  /\ x = T * (x \div T) + (x % T)
         /\ x \div T \in Int
         /\ x % T \in 0 .. T - 1
  OBVIOUS

(* Only the multiple 0 lies between -T and T. *)
LEMMA SmallMultiple ==
  ASSUME NEW T \in Nat, T > 0, NEW q \in Int, T * q < T, -T < T * q
  PROVE  q = 0
  OBVIOUS

(* The remainder is unique. *)
LEMMA Remainder ==
  ASSUME NEW T \in Nat, T > 0, NEW q \in Int, NEW r \in 0 .. T - 1
  PROVE  (T * q + r) % T = r
<1> DEFINE x == T * q + r
           p == x \div T
           s == x % T
<1>1. T * q \in Int /\ x \in Int
  OBVIOUS
<1>2. x = T * p + s /\ p \in Int /\ s \in 0 .. T - 1
  BY <1>1, Division
<1>3. T * (q - p) = s - r
  <2>1. T * (q - p) = T * q - T * p
    BY <1>2
  <2> HIDE DEF p, s
  <2>2. T * p \in Int
    BY <1>2
  <2> QED
    BY <1>1, <1>2, <2>1, <2>2
<1> HIDE DEF x, p, s
<1>4. q - p = 0
  <2>1. T * (q - p) < T /\ -T < T * (q - p)
    BY <1>2, <1>3
  <2>2. q - p \in Int
    BY <1>2
  <2> QED
    BY <2>1, <2>2, SmallMultiple
<1> QED
  BY <1>2, <1>3, <1>4 DEF x, s

(* So is the quotient. *)
LEMMA Quotient ==
  ASSUME NEW T \in Nat, T > 0, NEW q \in Int, NEW r \in 0 .. T - 1
  PROVE  (T * q + r) \div T = q
<1> DEFINE x == T * q + r
           p == x \div T
<1>1. x = T * p + r /\ p \in Int
  BY Division, Remainder
<1>2. T * p = T * q
  BY <1>1
<1>3. T * (p - q) = 0
  BY <1>2
<1> QED
  BY <1>3, <1>1, SmallMultiple

(* Reducing an operand first does not change the reduced sum. *)
LEMMA ReduceFirst ==
  ASSUME NEW T \in Nat, T > 0, NEW x \in Int, NEW y \in Int
  PROVE  ((x % T) + y) % T = (x + y) % T
<1> DEFINE q == x \div T
           r == x % T
           p == (x + y) \div T
           s == (x + y) % T
<1>1. x = T * q + r /\ q \in Int /\ r \in 0 .. T - 1
  BY Division
<1>2. x + y = T * p + s /\ p \in Int /\ s \in 0 .. T - 1
  BY Division
<1>3. T * (p - q) = T * p - T * q
  BY <1>1, <1>2
<1> HIDE DEF p, q, r, s
<1>4. p - q \in Int
  BY <1>1, <1>2
<1>5. r + y = T * (p - q) + s
  <2>1. T * p \in Int /\ T * q \in Int /\ T * (p - q) \in Int
    BY <1>1, <1>2
  <2> QED
    BY <1>1, <1>2, <1>3, <2>1
<1>6. (T * (p - q) + s) % T = s
  BY <1>2, <1>4, Remainder
<1>7. (r + y) % T = s
  BY <1>5, <1>6
<1> QED
  BY <1>7 DEF r, s

(* Reducing by m takes away a multiple of what divides m. *)
LEMMA MultipleLess ==
  ASSUME NEW T \in Nat, T > 0, NEW m \in Nat, m > 0, m % T = 0, NEW x \in Int
  PROVE  \E k \in Int : x = T * k + (x % m)
<1>1. PICK k \in Int : m = T * k
  <2>1. m = T * (m \div T) + (m % T) /\ m \div T \in Int
    BY Division
  <2>2. PICK k \in Int, e \in Int : m = T * k + e /\ e = m % T
    BY <2>1
  <2>3. e = 0
    BY <2>2
  <2>4. T * k \in Int
    BY <2>2
  <2>5. m = T * k
    BY <2>2, <2>3, <2>4
  <2> QED
    BY <2>5
<1>2. PICK q \in Int, e \in Int : x = m * q + e /\ e = x % m
  BY Division
<1>3. k * q \in Int /\ m * q = T * (k * q)
  BY <1>1, <1>2
<1> QED
  BY <1>2, <1>3

(* A multiple does not change the remainder. *)
LEMMA MultipleGone ==
  ASSUME NEW T \in Nat, T > 0, NEW k \in Int, NEW v \in Int
  PROVE  (T * k + v) % T = v % T
<1>1. PICK p \in Int, d \in 0 .. T - 1 : v = T * p + d /\ d = v % T
  BY Division
<1>2. T * (k + p) + d = T * k + v /\ k + p \in Int
  <2>1. T * k \in Int /\ T * p \in Int /\ T * (k + p) = T * k + T * p
    BY <1>1
  <2> QED
    BY <1>1, <2>1
<1>3. (T * (k + p) + d) % T = d
  BY <1>1, <1>2, Remainder
<1> QED
  BY <1>1, <1>2, <1>3

(* A set of numbers has a least one. *)
LEMMA LeastNumber ==
  ASSUME NEW T \in SUBSET Nat, T # {}
  PROVE  \E x \in T : \A y \in T : x <= y
<1> DEFINE R == {ss \in Nat \X Nat : ss[1] < ss[2]}
<1>1. IsWellFoundedOn(R, Nat)
  BY NatLessThanWellFounded DEF OpToRel
<1>2. PICK x \in T : \A y \in T : <<y, x>> \notin R
  <2> HIDE DEF R
  <2> QED
    BY <1>1, WFMin
<1>3. \A y \in T : <<y, x>> \in Nat \X Nat
  OBVIOUS
<1>4. \A y \in T : ~(y < x)
  BY <1>2, <1>3
<1> QED
  BY <1>4

(* A set of numbers that has 0, and the successor of each of its members   *)
(* below n, has all of them to n.                                          *)
LEMMA Induction ==
  ASSUME NEW n \in Nat, NEW T, 0 \in T, \A k \in 0 .. n - 1 : k \in T => k + 1 \in T
  PROVE  0 .. n \subseteq T
<1> SUFFICES ASSUME NEW k0 \in 0 .. n, k0 \notin T
             PROVE  FALSE
  OBVIOUS
<1> DEFINE bad == {k \in 0 .. n : k \notin T}
<1>1. bad \in SUBSET Nat /\ bad # {}
  OBVIOUS
<1>2. PICK m \in bad : \A k \in bad : m <= k
  <2> HIDE DEF bad
  <2> QED
    BY <1>1, LeastNumber
<1>3. m \in 0 .. n /\ m # 0
  OBVIOUS
<1>4. m - 1 \in 0 .. n - 1 /\ ~(m <= m - 1)
  BY <1>3
<1>5. m - 1 \in T
  BY <1>2, <1>4
<1>6. (m - 1) + 1 \in T
  BY <1>4, <1>5
<1> QED
  BY <1>3, <1>6

-----------------------------------------------------------------------------
(* Recursion. *)

(* The values of n steps from base, each by G from the one before. *)
Steps(n, base, G, g) ==
  g[0] = base /\ \A i \in 1 .. n : g[i] = G[<<i, g[i - 1]>>]

(* There are such values. *)
LEMMA StepsExist ==
  ASSUME NEW X, NEW base \in X, NEW n \in Nat, NEW G \in [(1 .. n) \X X -> X]
  PROVE  \E g \in [0 .. n -> X] : Steps(n, base, G, g)
<1> DEFINE T == {k \in 0 .. n : \E g \in [0 .. k -> X] : Steps(k, base, G, g)}
<1>1. 0 \in T
  <2> DEFINE g == [i \in 0 .. 0 |-> base]
  <2>1. g \in [0 .. 0 -> X] /\ g[0] = base
    OBVIOUS
  <2>2. Steps(0, base, G, g)
    BY <2>1 DEF Steps
  <2> QED
    BY <2>1, <2>2
<1>2. ASSUME NEW k \in 0 .. n - 1, k \in T
      PROVE  k + 1 \in T
  <2>1. PICK g \in [0 .. k -> X] : Steps(k, base, G, g)
    BY <1>2
  <2> DEFINE h == [i \in 0 .. k + 1 |-> IF i = k + 1 THEN G[<<k + 1, g[k]>>] ELSE g[i]]
  <2>2. g[k] \in X /\ G[<<k + 1, g[k]>>] \in X
    OBVIOUS
  <2>3. h \in [0 .. k + 1 -> X]
    BY <2>2
  <2>4. Steps(k + 1, base, G, h)
    <3>1. h[0] = base
      BY <2>1 DEF Steps
    <3>2. ASSUME NEW i \in 1 .. k + 1
          PROVE  h[i] = G[<<i, h[i - 1]>>]
      <4>1. i - 1 \in 0 .. k /\ h[i - 1] = g[i - 1]
        OBVIOUS
      <4>2. CASE i = k + 1
        <5>1. i - 1 = k /\ h[i] = G[<<k + 1, g[k]>>]
          BY <4>2
        <5> QED
          BY <4>1, <4>2, <5>1
      <4>3. CASE i # k + 1
        BY <4>1, <4>3, <2>1 DEF Steps
      <4> QED
        BY <4>2, <4>3
    <3> QED
      BY <3>1, <3>2 DEF Steps
  <2> QED
    BY <2>3, <2>4
<1> HIDE DEF T
<1>3. 0 .. n \subseteq T
  BY <1>1, <1>2, Induction
<1>4. n \in T
  BY <1>3
<1> QED
  BY <1>4 DEF T

(***************************************************************************)
(* A fold is a recursion over all subsets of its domain, from each of      *)
(* which it takes the greatest member first.                               *)
(***************************************************************************)
Folding(n, base, G, f) ==
  f = [S \in SUBSET (1 .. n) |->
         IF S = {} THEN base ELSE G[<<Max(S), f[S \ {Max(S)}]>>]]

LEMMA Greatest ==
  ASSUME NEW k \in Nat, NEW S \in SUBSET (1 .. k + 1), k + 1 \in S
  PROVE  Max(S) = k + 1
<1>1. \A j \in S : j \in Int /\ k + 1 >= j
  OBVIOUS
<1>2. Max(S) \in S /\ Max(S) >= k + 1
  BY <1>1 DEF Max
<1>3. PICK m \in S : m = Max(S)
  BY <1>2
<1> QED
  BY <1>1, <1>2, <1>3

LEMMA GreatestOf ==
  ASSUME NEW n \in Nat, NEW S \in SUBSET (1 .. n), S # {}
  PROVE  Max(S) \in S /\ \A i \in S : i <= Max(S)
<1> DEFINE T == {n - i : i \in S}
<1>1. T \in SUBSET Nat /\ T # {}
  <2>1. \A i \in S : n - i \in Nat
    OBVIOUS
  <2> QED
    BY <2>1
<1>2. PICK x \in T : \A u \in T : x <= u
  <2> HIDE DEF T
  <2> QED
    BY <1>1, LeastNumber
<1>3. PICK j \in S : x = n - j
  OBVIOUS
<1>4. \A i \in S : n - i \in T /\ i \in Int
  OBVIOUS
<1>5. \A i \in S : j >= i
  <2> HIDE DEF T
  <2> SUFFICES ASSUME NEW i \in S PROVE j >= i
    OBVIOUS
  <2>1. n - j <= n - i
    BY <1>2, <1>3, <1>4
  <2> QED
    BY <2>1
<1>6. Max(S) \in S /\ \A i \in S : Max(S) >= i
  BY <1>5 DEF Max
<1> QED
  BY <1>6

(* There is such a function. *)
LEMMA FoldingExists ==
  ASSUME NEW X, NEW base \in X, NEW n \in Nat, NEW G \in [(1 .. n) \X X -> X]
  PROVE  \E f \in [SUBSET (1 .. n) -> X] : Folding(n, base, G, f)
<1> DEFINE T == {k \in 0 .. n :
                   \E f \in [SUBSET (1 .. k) -> X] : Folding(k, base, G, f)}
<1>1. 0 \in T
  <2> DEFINE f == [S \in SUBSET (1 .. 0) |-> base]
  <2>1. f \in [SUBSET (1 .. 0) -> X]
    OBVIOUS
  <2>2. \A S \in SUBSET (1 .. 0) : S = {}
    OBVIOUS
  <2>3. Folding(0, base, G, f)
    BY <2>2 DEF Folding
  <2> QED
    BY <2>1, <2>3
<1>2. ASSUME NEW k \in 0 .. n - 1, k \in T
      PROVE  k + 1 \in T
  <2>1. PICK f \in [SUBSET (1 .. k) -> X] : Folding(k, base, G, f)
    BY <1>2
  <2> DEFINE h == [S \in SUBSET (1 .. k + 1) |->
                     IF k + 1 \in S THEN G[<<k + 1, f[S \ {k + 1}]>>] ELSE f[S]]
  <2>2. ASSUME NEW S \in SUBSET (1 .. k + 1)
        PROVE  /\ S \ {k + 1} \in SUBSET (1 .. k)
               /\ k + 1 \notin S => S \in SUBSET (1 .. k)
    OBVIOUS
  <2>3. h \in [SUBSET (1 .. k + 1) -> X]
    <3> SUFFICES ASSUME NEW S \in SUBSET (1 .. k + 1)
                 PROVE  (IF k + 1 \in S THEN G[<<k + 1, f[S \ {k + 1}]>>] ELSE f[S]) \in X
      OBVIOUS
    <3>1. f[S \ {k + 1}] \in X /\ <<k + 1, f[S \ {k + 1}]>> \in (1 .. n) \X X
      BY <2>2
    <3> QED
      BY <2>2, <3>1
  <2>4. ASSUME NEW S \in SUBSET (1 .. k + 1)
        PROVE  h[S] = IF S = {} THEN base ELSE G[<<Max(S), h[S \ {Max(S)}]>>]
    <3>1. CASE k + 1 \in S
      <4>1. Max(S) = k + 1
        BY <3>1, Greatest
      <4>2. S \ {k + 1} \in SUBSET (1 .. k + 1) /\ h[S \ {k + 1}] = f[S \ {k + 1}]
        BY <2>2
      <4> QED
        BY <3>1, <4>1, <4>2
    <3>2. CASE k + 1 \notin S
      <4>1. S \in SUBSET (1 .. k) /\ h[S] = f[S]
        BY <3>2, <2>2
      <4>2. f[S] = IF S = {} THEN base ELSE G[<<Max(S), f[S \ {Max(S)}]>>]
        BY <4>1, <2>1 DEF Folding
      <4>3. S \ {Max(S)} \in SUBSET (1 .. k + 1) /\ h[S \ {Max(S)}] = f[S \ {Max(S)}]
        BY <3>2, <4>1
      <4> QED
        BY <4>1, <4>2, <4>3
    <3> QED
      BY <3>1, <3>2
  <2>5. Folding(k + 1, base, G, h)
    <3> DEFINE rhs == [S \in SUBSET (1 .. k + 1) |->
                         IF S = {} THEN base ELSE G[<<Max(S), h[S \ {Max(S)}]>>]]
    <3>1. \A S \in SUBSET (1 .. k + 1) : h[S] = rhs[S]
      BY <2>4
    <3>2. h = [S \in SUBSET (1 .. k + 1) |-> h[S]]
      BY <2>3
    <3>3. h = rhs
      <4> HIDE DEF h
      <4> QED
        BY <3>1, <3>2
    <3> QED
      BY <3>3 DEF Folding
  <2> HIDE DEF h
  <2> QED
    BY <2>3, <2>5
<1> HIDE DEF T
<1>3. 0 .. n \subseteq T
  BY <1>1, <1>2, Induction
<1>4. n \in T
  BY <1>3
<1> QED
  BY <1>4 DEF T

(* Of the numbers to k + 1 it takes k + 1 and leaves those to k.           *)
LEMMA GreatestFirst ==
  ASSUME NEW n \in Nat, NEW k \in 0 .. n - 1
  PROVE  /\ 1 .. k + 1 \in SUBSET (1 .. n) /\ 1 .. k + 1 # {}
         /\ Max(1 .. k + 1) = k + 1
         /\ (1 .. k + 1) \ {k + 1} = 1 .. k
<1>1. 1 .. k + 1 \in SUBSET (1 .. n) /\ k + 1 \in 1 .. k + 1
  OBVIOUS
<1> QED
  BY <1>1, Greatest
=============================================================================
