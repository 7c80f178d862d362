------------------------- MODULE ConsoleCallsProofs -------------------------
(***************************************************************************)
(* The console functions for every size of the memory, of the host's       *)
(* buffer and of a line, whatever is in memory and whatever is typed: a    *)
(* string is printed exactly, a line stays in its buffer, and what is      *)
(* typed arrives complete, and line by line.                               *)
(***************************************************************************)
EXTENDS ConsoleCalls, Numbers, SequenceTheorems, TLAPS

Byte == 0 .. 255

(* What was printed of a string that is being printed: all of it so far,   *)
(* and no '$' was in it.                                                   *)
Printing ==
  /\ from \in Addr /\ from <= p
  /\ stdout = before \o Text(from, p)
  /\ \A y \in from .. p - 1 : memory[y] # Dollar

IInv ==
  /\ memory \in [Addr -> Byte]
  /\ stdin \in Seq(Byte)
  /\ stdout \in Seq(Byte \cup OutChar)
  /\ before \in Seq(Byte \cup OutChar)
  /\ p \in Addr \cup {Idle, Stray}
  /\ p \in Addr => Printing

-----------------------------------------------------------------------------
(* What the helpers return. *)

(* fgets takes no more than there is and than fits its buffer. *)
LEMMA TakeBound ==
  ASSUME NEW s \in Seq(Byte)
  PROVE  Take(s) \in 0 .. Len(s) /\ Take(s) < BufSize
<1> DEFINE most == IF Len(s) < BufSize - 1 THEN Len(s) ELSE BufSize - 1
           nl == SelectInSeq(s, LAMBDA c : c = LF)
<1>1. most \in 0 .. Len(s) /\ most < BufSize
  BY SizesAssumption
<1>2. Take(s) = IF nl \in 1 .. most THEN nl ELSE most
  BY DEF Take
<1> HIDE DEF most, nl
<1> QED
  BY <1>1, <1>2, SizesAssumption

(* A search finds a place of the sequence, or none: 0. *)
LEMMA LineEndFound ==
  ASSUME NEW s \in Seq(Byte)
  PROVE  SelectInSeq(s, LAMBDA c : c \in {NUL, CR, LF}) \in 0 .. Len(s)
<1> DEFINE I == {i \in 1 .. Len(s) : s[i] \in {NUL, CR, LF}}
<1>1. SelectInSeq(s, LAMBDA c : c \in {NUL, CR, LF}) = IF I # {} THEN Min(I) ELSE 0
  BY DEF SelectInSeq
<1>2. I # {} => Min(I) \in I
  <2>1. I \in SUBSET Nat
    OBVIOUS
  <2> SUFFICES ASSUME I # {} PROVE Min(I) \in I
    OBVIOUS
  <2> HIDE DEF I
  <2>2. PICK x \in I : \A y \in I : x <= y
    BY <2>1, LeastNumber
  <2> QED
    BY <2>2 DEF Min
<1> QED
  BY <1>1, <1>2

(* A line is bytes, and no more than the count can say. *)
LEMMA LineFits ==
  ASSUME NEW s \in Seq(Byte)
  PROVE  Line(s) \in Seq(Byte) /\ Len(Line(s)) <= CountMax
<1> DEFINE stop == SelectInSeq(s, LAMBDA c : c \in {NUL, CR, LF})
           n == IF stop = 0 THEN Len(s) ELSE stop - 1
           m == IF n < CountMax THEN n ELSE CountMax
<1>1. stop \in 0 .. Len(s)
  BY LineEndFound
<1>2. Line(s) = SubSeq(s, 1, m)
  BY DEF Line
<1> HIDE DEF stop
<1>3. m \in 0 .. Len(s) /\ m <= CountMax
  BY <1>1, SizesAssumption
<1> HIDE DEF m
<1> QED
  BY <1>2, <1>3

(* The line is stored in its buffer: bytes at it, nothing beside it. *)
LEMMA StoredLine ==
  ASSUME NEW buf \in Buffers, NEW line \in Seq(Byte), Len(line) <= CountMax,
         memory \in [Addr -> Byte]
  PROVE  /\ Stored(buf, line) \in [Addr -> Byte]
         /\ \A x \in Addr : ~(x \in buf .. buf + CountMax) =>
                              Stored(buf, line)[x] = memory[x]
<1>1. /\ buf \in Nat /\ Top \in Nat /\ CountMax \in 0 .. 255
      /\ Len(line) \in Nat /\ Len(line) <= CountMax
  BY BuffersAssumption, SizesAssumption
<1>2. ASSUME NEW x \in Addr
      PROVE  /\ Stored(buf, line)[x] \in Byte
             /\ ~(x \in buf .. buf + CountMax) => Stored(buf, line)[x] = memory[x]
  <2>1. x \in Int /\ memory[x] \in Byte
    BY DEF Addr
  <2>2. Stored(buf, line)[x] =
          CASE x = buf -> Len(line)
            [] x \in buf + 1 .. buf + Len(line) -> line[x - buf]
            [] OTHER -> memory[x]
    BY DEF Stored
  <2>3. CASE x = buf
    <3>1. Stored(buf, line)[x] = Len(line)
      BY <1>1, <2>2, <2>3
    <3>2. Len(line) \in 0 .. 255
      <4> DEFINE l == Len(line)
      <4>1. l \in Nat /\ l <= CountMax /\ CountMax \in 0 .. 255
        BY <1>1
      <4> HIDE DEF l
      <4>2. l \in 0 .. 255
        BY <4>1
      <4> QED
        BY <4>2 DEF l
    <3>3. buf \in buf .. buf + CountMax
      BY <1>1
    <3> QED
      BY <2>3, <3>1, <3>2, <3>3 DEF Byte
  <2>4. CASE x \in buf + 1 .. buf + Len(line)
    <3>1. x # buf /\ x - buf \in 1 .. Len(line) /\ x \in buf .. buf + CountMax
      BY <1>1, <2>1, <2>4
    <3>2. Stored(buf, line)[x] = line[x - buf]
      BY <2>2, <2>4, <3>1
    <3> QED
      BY <3>1, <3>2
  <2>5. CASE x # buf /\ ~(x \in buf + 1 .. buf + Len(line))
    BY <2>1, <2>2, <2>5
  <2> QED
    BY <2>3, <2>4, <2>5
<1>3. Stored(buf, line) = [x \in Addr |-> Stored(buf, line)[x]]
  BY DEF Stored
<1> QED
  BY <1>2, <1>3

(* One more character of a text. *)
LEMMA OneMore ==
  ASSUME memory \in [Addr -> Byte], NEW s \in Seq(Byte \cup OutChar),
         NEW first \in Addr, NEW end \in Addr, first <= end
  PROVE  Append(s \o Text(first, end), memory[end]) = s \o Text(first, end + 1)
<1> DEFINE S == Byte \cup OutChar
           t == Text(first, end)
           u == Text(first, end + 1)
           n == end - first
<1>1. n \in Nat /\ first \in Int /\ end \in Int /\ Top \in Nat
  BY SizesAssumption DEF Addr
<1>2. t = [j \in 1 .. n |-> memory[first + j - 1]]
  BY DEF Text
<1>3. u = [j \in 1 .. n + 1 |-> memory[first + j - 1]]
  BY <1>1 DEF Text
<1>4. \A j \in 1 .. n + 1 : memory[first + j - 1] \in S
  <2> SUFFICES ASSUME NEW j \in 1 .. n + 1 PROVE memory[first + j - 1] \in S
    OBVIOUS
  <2>1. first + j - 1 \in Addr
    BY <1>1 DEF Addr
  <2> QED
    BY <2>1
<1> HIDE DEF t, u, n, S
<1>5. t \in Seq(S) /\ Len(t) = n
  <2>1. \A j \in 1 .. n : memory[first + j - 1] \in S
    <3>1. \A j \in 1 .. n : j \in 1 .. n + 1
      BY <1>1
    <3> QED
      BY <1>4, <3>1
  <2>2. t \in [1 .. n -> S]
    BY <1>2, <2>1
  <2> QED
    BY <1>1, <2>2
<1>6. u \in Seq(S) /\ Len(u) = n + 1
  BY <1>1, <1>3, <1>4
<1>7. s \in Seq(S)
  BY DEF S
<1>8. memory[end] \in S /\ first + (n + 1) - 1 = end
  BY <1>1 DEF S, n
<1>9. Append(t, memory[end]) = u
  BY <1>1, <1>2, <1>3, <1>5, <1>6, <1>8
<1>10. Append(s \o t, memory[end]) = s \o Append(t, memory[end])
  BY <1>5, <1>7, <1>8
<1> QED
  BY <1>9, <1>10 DEF t, u

-----------------------------------------------------------------------------
(* The steps. *)

LEMMA BufferedInputSound ==
  IInv /\ (\E b \in Buffers : BufferedInput(b)) => IInv'
<1> SUFFICES ASSUME IInv, NEW b \in Buffers, BufferedInput(b) PROVE IInv'
  OBVIOUS
<1> DEFINE n == Take(stdin)
           piece == SubSeq(stdin, 1, n)
<1>1. /\ memory' = Stored(b, Line(piece)) /\ stdin' = SubSeq(stdin, n + 1, Len(stdin))
      /\ UNCHANGED <<stdout, p, from, before>> /\ p = Idle
  BY DEF BufferedInput
<1>2. n \in 0 .. Len(stdin) /\ stdin \in Seq(Byte)
  BY TakeBound DEF IInv
<1> HIDE DEF n
<1>3. piece \in Seq(Byte) /\ stdin' \in Seq(Byte)
  BY <1>1, <1>2
<1> HIDE DEF piece
<1>4. memory' \in [Addr -> Byte]
  <2>1. Line(piece) \in Seq(Byte) /\ Len(Line(piece)) <= CountMax
    BY <1>3, LineFits
  <2> QED
    BY <1>1, <2>1, StoredLine DEF IInv
<1>5. p' \notin Addr
  BY <1>1, SizesAssumption DEF Addr, Idle
<1> QED
  BY <1>1, <1>3, <1>4, <1>5 DEF IInv

LEMMA ConsoleOutputSound ==
  IInv /\ (\E c \in OutChar : ConsoleOutput(c)) => IInv'
<1> SUFFICES ASSUME IInv, NEW c \in OutChar, ConsoleOutput(c) PROVE IInv'
  OBVIOUS
<1>1. /\ p = Idle /\ stdout' = Append(stdout, c)
      /\ UNCHANGED <<memory, stdin, p, from, before>>
  BY DEF ConsoleOutput
<1>2. stdout' \in Seq(Byte \cup OutChar)
  BY <1>1 DEF IInv
<1>3. p' \notin Addr
  BY <1>1, SizesAssumption DEF Addr, Idle
<1> QED
  BY <1>1, <1>2, <1>3 DEF IInv

LEMMA OutputStringSound ==
  IInv /\ (\E a \in Start : OutputString(a)) => IInv'
<1> SUFFICES ASSUME IInv, NEW a \in Start, OutputString(a) PROVE IInv'
  OBVIOUS
<1>1. /\ p' = a /\ from' = a /\ before' = stdout
      /\ UNCHANGED <<memory, stdin, stdout>>
  BY DEF OutputString
<1>2. a \in Addr /\ a \in Int
  BY StartAssumption DEF Addr
<1>3. stdout' = before' \o Text(from, p)'
  <2>1. Text(from, p)' = << >>
    BY <1>1, <1>2 DEF Text
  <2>2. stdout \in Seq(Byte \cup OutChar)
    BY DEF IInv
  <2> QED
    BY <1>1, <2>1, <2>2
<1>4. Printing'
  BY <1>1, <1>2, <1>3 DEF Printing
<1> QED
  BY <1>1, <1>2, <1>4 DEF IInv

LEMMA PutNextSound == IInv /\ PutNext => IInv'
<1> SUFFICES ASSUME IInv, PutNext PROVE IInv'
  OBVIOUS
<1>1. /\ p \in Addr /\ memory[p] # Dollar /\ stdout' = Append(stdout, memory[p])
      /\ p' = IF p + 1 < Top THEN p + 1 ELSE Stray
      /\ UNCHANGED <<memory, stdin, from, before>>
  BY DEF PutNext, AtEnd
<1>2. p \in Int /\ p >= 0 /\ Top \in Nat
  BY <1>1, SizesAssumption DEF Addr
<1>3. Printing
  BY <1>1 DEF IInv
<1>4. stdout' \in Seq(Byte \cup OutChar)
  BY <1>1 DEF IInv
<1>5. CASE p + 1 < Top
  <2>1. p' = p + 1 /\ p' \in Addr
    BY <1>1, <1>2, <1>5 DEF Addr
  <2>2. stdout' = before \o Text(from, p + 1)
    BY <1>1, <1>3, OneMore DEF IInv, Printing
  <2>3. Text(from, p)' = Text(from, p + 1)
    BY <1>1, <2>1 DEF Text
  <2>4. from \in Int /\ from <= p
    BY <1>3 DEF Printing, Addr
  <2>5. \A y \in from .. p : memory[y] # Dollar
    BY <1>1, <1>2, <1>3, <2>4 DEF Printing
  <2>6. Printing'
    <3>1. from' \in Addr /\ from' <= p'
      BY <1>1, <1>2, <1>3, <2>1, <2>4 DEF Printing
    <3>2. stdout' = before' \o Text(from, p)'
      BY <1>1, <2>2, <2>3
    <3>3. \A y \in from' .. p' - 1 : memory'[y] # Dollar
      BY <1>1, <1>2, <2>1, <2>5
    <3> QED
      BY <3>1, <3>2, <3>3 DEF Printing
  <2> QED
    BY <1>1, <1>4, <2>1, <2>6 DEF IInv
<1>6. CASE ~(p + 1 < Top)
  <2>1. p' = Stray /\ p' \notin Addr
    BY <1>1, <1>2, <1>6 DEF Addr, Stray
  <2> QED
    BY <1>1, <1>4, <2>1 DEF IInv
<1> QED
  BY <1>5, <1>6

LEMMA OutputDoneSound == IInv /\ OutputDone => IInv'
<1> SUFFICES ASSUME IInv, OutputDone PROVE IInv'
  OBVIOUS
<1>1. p' = Idle /\ UNCHANGED <<memory, stdin, stdout, from, before>>
  BY DEF OutputDone
<1>2. p' \notin Addr
  BY <1>1, SizesAssumption DEF Addr, Idle
<1> QED
  BY <1>1, <1>2 DEF IInv

(***************************************************************************)
(* In every reachable state memory holds bytes, so that the count of a     *)
(* line never leaves its byte, and while a string is printed what came out *)
(* is exactly the text so far, in which no '$' was.                        *)
(***************************************************************************)
THEOREM Invariance == Spec => []IInv
<1>1. ASSUME Init PROVE IInv
  <2>1. PICK b \in Beginning : memory = b.memory /\ typed = b.typed
    BY <1>1 DEF Init
  <2>2. b.memory \in [Addr -> Byte] /\ b.typed \in Seq(Byte)
    BY BeginningAssumption DEF Byte
  <2>3. stdin = typed /\ stdout = << >> /\ before = << >> /\ p = Idle
    BY <1>1 DEF Init
  <2>4. p \notin Addr
    BY <2>3, SizesAssumption DEF Addr, Idle
  <2> QED
    BY <2>1, <2>2, <2>3, <2>4 DEF IInv
<1>2. ASSUME IInv, [Next]_vars PROVE IInv'
  <2>1. CASE \E b \in Buffers : BufferedInput(b)
    BY <1>2, <2>1, BufferedInputSound
  <2>2. CASE \E c \in OutChar : ConsoleOutput(c)
    BY <1>2, <2>2, ConsoleOutputSound
  <2>3. CASE \E a \in Start : OutputString(a)
    BY <1>2, <2>3, OutputStringSound
  <2>4. CASE PutNext
    BY <1>2, <2>4, PutNextSound
  <2>5. CASE OutputDone
    BY <1>2, <2>5, OutputDoneSound
  <2>6. CASE UNCHANGED vars
    BY <1>2, <2>6 DEF vars, IInv, Printing, Text
  <2> QED
    BY <1>2, <2>1, <2>2, <2>3, <2>4, <2>5, <2>6 DEF Next, Output
<1> QED
  BY <1>1, <1>2, PTL DEF Spec

-----------------------------------------------------------------------------
(* A '$' with none before it is the end of the text. *)
LEMMA EndFound ==
  ASSUME NEW first \in Addr, NEW end \in Addr, first <= end,
         memory[end] = Dollar, \A y \in first .. end - 1 : memory[y] # Dollar
  PROVE  EndOf(first) = end
<1> DEFINE Here(x) == memory[x] = Dollar /\ \A y \in first .. x - 1 : memory[y] # Dollar
           e == CHOOSE x \in first .. Top - 1 : Here(x)
<1>1. Top \in Nat /\ first \in Int /\ end \in first .. Top - 1
  BY SizesAssumption DEF Addr
<1>2. Here(end)
  OBVIOUS
<1>3. e \in first .. Top - 1 /\ Here(e)
  <2> HIDE DEF Here
  <2> QED
    BY <1>1, <1>2
<1>4. EndOf(first) = e
  BY DEF EndOf
<1> HIDE DEF e
<1>5. e = end
  BY <1>1, <1>3
<1> QED
  BY <1>4, <1>5

(***************************************************************************)
(* bdos_output_string: whenever the printing of a string ends, what it     *)
(* added to the output is the memory from where it began to the first '$', *)
(* whatever other bytes are in it and wherever it lies.                    *)
(***************************************************************************)
THEOREM PrintedToTheDollar == Spec => OutputExact
<1>1. ASSUME IInv, [Next]_vars, p' = Idle, p # Idle
      PROVE  stdout' = before \o Text(from, EndOf(from))
  <2>1. CASE OutputDone
    <3>1. p \in Addr /\ memory[p] = Dollar /\ stdout' = stdout
      BY <2>1 DEF OutputDone, AtEnd
    <3>2. Printing
      BY <1>1, <3>1 DEF IInv
    <3>3. EndOf(from) = p
      BY <3>1, <3>2, EndFound DEF Printing
    <3> QED
      BY <3>1, <3>2, <3>3 DEF Printing
  <2>2. CASE PutNext
    <3>1. p \in Int /\ p >= 0 /\ p' \in {p + 1, Stray}
      BY <2>2, SizesAssumption DEF PutNext, Addr
    <3> QED
      BY <1>1, <3>1 DEF Idle, Stray
  <2>3. CASE (\E b \in Buffers : BufferedInput(b)) \/ (\E c \in OutChar : ConsoleOutput(c))
             \/ (\E a \in Start : OutputString(a)) \/ UNCHANGED vars
    BY <1>1, <2>3 DEF BufferedInput, ConsoleOutput, OutputString, vars
  <2> QED
    BY <1>1, <2>1, <2>2, <2>3 DEF Next, Output
<1>2. IInv /\ [Next]_vars =>
        [p' = Idle /\ p # Idle => stdout' = before \o Text(from, EndOf(from))]_vars
  BY <1>1
<1> QED
  BY <1>2, Invariance, PTL DEF Spec, OutputExact

-----------------------------------------------------------------------------
(* Flattened sequences, and text split into lines. *)

(* A flattened sequence is its members, put behind one another. *)
LEMMA FlattenIs ==
  ASSUME NEW X, NEW s \in Seq(Seq(X)), NEW g \in [0 .. Len(s) -> Seq(X)],
         g[0] = <<>>, \A i \in 1 .. Len(s) : g[i] = g[i - 1] \o s[i]
  PROVE  FlattenSeq(s) = g[Len(s)]
<1> DEFINE n == Len(s)
           Eq(f) == f = [i \in 1 .. n |-> IF i = 1 THEN s[i] ELSE f[i - 1] \o s[i]]
           f0 == [i \in 1 .. n |-> g[i]]
           fl == CHOOSE f : Eq(f)
<1>1. n \in Nat /\ \A i \in 1 .. n : s[i] \in Seq(X)
  OBVIOUS
<1>2. CASE n = 0
  <2>1. s = <<>> /\ FlattenSeq(s) = s
    BY <1>2 DEF FlattenSeq
  <2> QED
    BY <1>2, <2>1
<1>3. CASE n # 0
  <2>1. FlattenSeq(s) = fl[n]
    BY <1>3 DEF FlattenSeq
  <2>2. Eq(f0)
    <3>1. ASSUME NEW i \in 1 .. n
          PROVE  g[i] = IF i = 1 THEN s[i] ELSE f0[i - 1] \o s[i]
      <4>1. CASE i = 1
        <5>1. g[i] = <<>> \o s[i]
          <6>1. i \in 1 .. Len(s) /\ i - 1 = 0
            BY <4>1
          <6>2. g[i] = g[i - 1] \o s[i]
            BY <6>1
          <6> QED
            BY <6>1, <6>2
        <5>2. <<>> \o s[i] = s[i]
          BY <1>1, ConcatEmptySeq
        <5> QED
          BY <4>1, <5>1, <5>2
      <4>2. CASE i # 1
        <5>1. i - 1 \in 1 .. n /\ f0[i - 1] = g[i - 1]
          BY <1>1, <4>2
        <5> QED
          BY <4>2, <5>1
      <4> QED
        BY <4>1, <4>2
    <3> HIDE DEF n
    <3> QED
      BY <3>1
  <2>3. Eq(fl)
    <3> HIDE DEF f0, Eq
    <3> QED
      BY <2>2
  <2> HIDE DEF fl
  <2> DEFINE T == {k \in 0 .. n : k = 0 \/ fl[k] = g[k]}
  <2>4. ASSUME NEW k \in 0 .. n - 1, k \in T
        PROVE  k + 1 \in T
    <3>1. k + 1 \in 1 .. n /\ (k + 1) - 1 = k
      BY <1>1
    <3>2. fl[k + 1] = IF k + 1 = 1 THEN s[k + 1] ELSE fl[k] \o s[k + 1]
      BY <2>3, <3>1
    <3>3. g[k + 1] = g[k] \o s[k + 1]
      BY <3>1
    <3>4. CASE k = 0
      <4>1. <<>> \o s[1] = s[1] /\ k + 1 = 1
        BY <1>1, <3>1, <3>4, ConcatEmptySeq
      <4>2. fl[k + 1] = s[1] /\ g[k + 1] = g[0] \o s[1]
        BY <3>2, <3>3, <3>4, <4>1
      <4> QED
        BY <3>1, <4>1, <4>2
    <3>5. CASE k # 0
      <4>1. fl[k] = g[k] /\ k + 1 # 1
        BY <3>1, <3>5, <2>4
      <4>2. fl[k + 1] = g[k + 1]
        BY <3>2, <3>3, <4>1
      <4> QED
        BY <3>1, <4>2
    <3> QED
      BY <3>4, <3>5
  <2>5. 0 \in T
    BY <1>1
  <2> HIDE DEF T
  <2>6. 0 .. n \subseteq T
    BY <1>1, <2>4, <2>5, Induction
  <2>7. n \in T
    BY <1>1, <2>6
  <2> QED
    BY <1>3, <2>1, <2>7 DEF T
<1> QED
  BY <1>2, <1>3

LEMMA FlattenSteps ==
  ASSUME NEW X, NEW s \in Seq(Seq(X))
  PROVE  \E g \in [0 .. Len(s) -> Seq(X)] :
           g[0] = <<>> /\ \A i \in 1 .. Len(s) : g[i] = g[i - 1] \o s[i]
<1> DEFINE n == Len(s)
           G == [q \in (1 .. n) \X Seq(X) |-> q[2] \o s[q[1]]]
<1>1. n \in Nat /\ <<>> \in Seq(X)
  OBVIOUS
<1>2. G \in [(1 .. n) \X Seq(X) -> Seq(X)]
  <2>1. ASSUME NEW q \in (1 .. n) \X Seq(X)
        PROVE  q[2] \o s[q[1]] \in Seq(X)
    <3>1. q[2] \in Seq(X) /\ s[q[1]] \in Seq(X)
      OBVIOUS
    <3> QED
      BY <3>1, ConcatProperties
  <2> QED
    BY <2>1
<1>3. PICK g \in [0 .. n -> Seq(X)] : Steps(n, <<>>, G, g)
  <2> HIDE DEF G, n
  <2> QED
    BY <1>1, <1>2, StepsExist
<1>4. ASSUME NEW i \in 1 .. n PROVE g[i] = g[i - 1] \o s[i]
  <2>1. i - 1 \in 0 .. n /\ g[i - 1] \in Seq(X)
    <3> HIDE DEF n
    <3>1. i - 1 \in 0 .. n
      BY <1>1
    <3> QED
      BY <3>1
  <2>2. g[i] = G[<<i, g[i - 1]>>]
    <3> HIDE DEF G
    <3> QED
      BY <1>3 DEF Steps
  <2> QED
    BY <2>1, <2>2
<1> QED
  BY <1>3, <1>4 DEF Steps

LEMMA FlattenAppend ==
  ASSUME NEW X, NEW s \in Seq(Seq(X)), NEW e \in Seq(X)
  PROVE  /\ FlattenSeq(s) \in Seq(X)
         /\ FlattenSeq(Append(s, e)) = FlattenSeq(s) \o e
<1> DEFINE n == Len(s)
           u == Append(s, e)
<1>1. PICK g \in [0 .. n -> Seq(X)] :
        g[0] = <<>> /\ \A i \in 1 .. n : g[i] = g[i - 1] \o s[i]
  BY FlattenSteps
<1>2. FlattenSeq(s) = g[n] /\ n \in Nat /\ g[n] \in Seq(X)
  <2>1. n \in Nat /\ n \in 0 .. n
    OBVIOUS
  <2>2. FlattenSeq(s) = g[n]
    BY <1>1, FlattenIs
  <2> QED
    BY <2>1, <2>2
<1>3. PICK h \in [0 .. Len(u) -> Seq(X)] :
        h[0] = <<>> /\ \A i \in 1 .. Len(u) : h[i] = h[i - 1] \o u[i]
  <2>1. u \in Seq(Seq(X))
    BY AppendProperties
  <2> QED
    BY <2>1, FlattenSteps
<1>4. u \in Seq(Seq(X)) /\ Len(u) = n + 1 /\ u[n + 1] = e
      /\ \A i \in 1 .. n : u[i] = s[i]
  BY AppendProperties
<1>5. FlattenSeq(u) = h[n + 1]
  BY <1>3, <1>4, FlattenIs
<1> DEFINE T == {k \in 0 .. n : h[k] = g[k]}
<1>6. 0 \in T
  BY <1>1, <1>2, <1>3
<1>7. ASSUME NEW k \in 0 .. n - 1, k \in T PROVE k + 1 \in T
  <2>1. k + 1 \in 1 .. n /\ k + 1 \in 1 .. Len(u) /\ (k + 1) - 1 = k
    BY <1>2, <1>4
  <2>2. g[k + 1] = g[k] \o s[k + 1] /\ h[k + 1] = h[k] \o u[k + 1]
    BY <1>1, <1>3, <2>1
  <2>3. u[k + 1] = s[k + 1] /\ h[k] = g[k]
    BY <1>4, <1>7, <2>1
  <2>4. h[k + 1] = g[k + 1]
    BY <2>2, <2>3
  <2> QED
    BY <2>1, <2>4
<1> HIDE DEF T
<1>8. 0 .. n \subseteq T
  BY <1>2, <1>6, <1>7, Induction
<1>9. h[n] = g[n]
  <2>1. n \in T
    <3>1. n \in 0 .. n
      BY <1>2
    <3> QED
      BY <1>8, <3>1
  <2> QED
    BY <2>1 DEF T
<1>10. h[n + 1] = h[n] \o e
  <2>1. n + 1 \in 1 .. Len(u) /\ (n + 1) - 1 = n
    BY <1>2, <1>4
  <2> QED
    BY <1>3, <1>4, <2>1
<1> QED
  BY <1>2, <1>5, <1>9, <1>10

(* A beginning of a text and one character more. *)
LEMMA OneCharacter ==
  ASSUME NEW X, NEW s \in Seq(X), NEW k \in 0 .. Len(s) - 1
  PROVE  /\ SubSeq(s, 1, k) \in Seq(X) /\ s[k + 1] \in X
         /\ SubSeq(s, 1, k + 1) = Append(SubSeq(s, 1, k), s[k + 1])
<1>1. Len(s) \in Nat /\ k + 1 \in 1 .. Len(s) /\ 1 \in 1 .. Len(s)
  OBVIOUS
<1>2. SubSeq(s, 1, k + 1) = SubSeq(s, 1, (k + 1) - 1) \o <<s[k + 1]>>
  <2>1. k + 1 \in 1 .. Len(s) /\ 1 \in 1 .. k + 1
    BY <1>1
  <2> QED
    BY <1>1, <2>1, SubSeqRecursiveSecond
<1>3. SubSeq(s, 1, k) \in Seq(X) /\ s[k + 1] \in X
  BY <1>1
<1> QED
  BY <1>2, <1>3, AppendIsConcat

(* A later part of a text and one character more. *)
LEMMA OneCharacterMore ==
  ASSUME NEW X, NEW s \in Seq(X), NEW k \in 0 .. Len(s), NEW j \in 0 .. Len(s) - k - 1
  PROVE  /\ SubSeq(s, k + 1, k + j) \in Seq(X) /\ s[k + j + 1] \in X
         /\ SubSeq(s, k + 1, k + j + 1) = Append(SubSeq(s, k + 1, k + j), s[k + j + 1])
<1> DEFINE a == k + 1
           b == k + j + 1
<1>1. /\ Len(s) \in Nat /\ a \in 1 .. Len(s) /\ b \in a .. Len(s)
      /\ b - 1 = k + j
  OBVIOUS
<1>2. SubSeq(s, a, b) = SubSeq(s, a, b - 1) \o <<s[b]>>
  <2> HIDE DEF a, b
  <2> QED
    BY <1>1, SubSeqRecursiveSecond
<1>3. \A i \in a .. b - 1 : s[i] \in X
  BY <1>1
<1>4. SubSeq(s, a, b - 1) \in Seq(X) /\ s[b] \in X
  <2> HIDE DEF a, b
  <2>1. a \in Int /\ b - 1 \in Int
    BY <1>1
  <2> QED
    BY <1>1, <1>3, <2>1, SubSeqProperties
<1> QED
  BY <1>1, <1>2, <1>4, AppendIsConcat

(* One more character, without line feeds. *)
LEMMA WithoutNext ==
  ASSUME NEW s \in Seq(Byte), NEW c \in Byte
  PROVE  /\ WithoutLF(s) \in Seq(Byte)
         /\ WithoutLF(Append(s, c)) =
              IF c = LF THEN WithoutLF(s) ELSE Append(WithoutLF(s), c)
<1> DEFINE Part(b) == IF b = LF THEN <<>> ELSE <<b>>
           Parts(t) == [j \in DOMAIN t |-> Part(t[j])]
           u == Append(s, c)
           n == Len(s)
<1>1. /\ u \in Seq(Byte) /\ Len(u) = n + 1 /\ n \in Nat /\ u[n + 1] = c
      /\ \A j \in 1 .. n : u[j] = s[j] /\ s[j] \in Byte
  BY AppendProperties
<1>2. DOMAIN s = 1 .. n /\ DOMAIN u = 1 .. n + 1
  BY <1>1, LenProperties
<1>3. \A b \in Byte : Part(b) \in Seq(Byte)
  OBVIOUS
<1>4. Parts(s) \in Seq(Seq(Byte)) /\ Len(Parts(s)) = n
  <2>1. Parts(s) = [j \in 1 .. n |-> Part(s[j])]
    BY <1>2
  <2>2. \A j \in 1 .. n : Part(s[j]) \in Seq(Byte)
    <3> HIDE DEF Part
    <3> QED
      BY <1>1, <1>3
  <2>3. Parts(s) \in [1 .. n -> Seq(Byte)]
    <3> HIDE DEF Part
    <3> QED
      BY <2>1, <2>2
  <2> HIDE DEF Parts
  <2> QED
    BY <1>1, <2>3
<1>5. Parts(u) = Append(Parts(s), Part(c))
  <2> DEFINE w == Append(Parts(s), Part(c))
  <2>1. Part(c) \in Seq(Byte)
    BY <1>3
  <2>2. /\ w \in Seq(Seq(Byte)) /\ Len(w) = n + 1 /\ w[n + 1] = Part(c)
        /\ \A j \in 1 .. n : w[j] = Parts(s)[j]
    <3> HIDE DEF Parts, Part
    <3> QED
      BY <1>1, <1>4, <2>1, AppendProperties
  <2>3. \A j \in 1 .. n : Parts(s)[j] = Part(s[j])
    BY <1>2
  <2>4. Parts(u) = [j \in 1 .. n + 1 |-> Part(u[j])]
    BY <1>2
  <2>5. w = [j \in 1 .. n + 1 |-> w[j]]
    <3> HIDE DEF w
    <3> QED
      BY <2>2
  <2>6. \A j \in 1 .. n + 1 : w[j] = Part(u[j])
    <3> HIDE DEF w, Parts, Part
    <3> QED
      BY <1>1, <2>2, <2>3
  <2> HIDE DEF w, Parts, Part
  <2> QED
    BY <2>4, <2>5, <2>6 DEF w
<1>6. WithoutLF(s) = FlattenSeq(Parts(s)) /\ WithoutLF(u) = FlattenSeq(Parts(u))
  BY DEF WithoutLF
<1> HIDE DEF Parts
<1>7. /\ WithoutLF(s) \in Seq(Byte)
      /\ WithoutLF(u) = WithoutLF(s) \o Part(c)
  <2>1. Part(c) \in Seq(Byte)
    BY <1>3
  <2> HIDE DEF Part
  <2> QED
    BY <1>4, <1>5, <1>6, <2>1, FlattenAppend
<1> QED
  BY <1>7, AppendIsConcat, ConcatEmptySeq

(* A part without line feeds stays as it is. *)
LEMMA WithoutPart ==
  ASSUME NEW s \in Seq(Byte), NEW k \in 0 .. Len(s), NEW m \in 0 .. Len(s) - k,
         \A j \in 1 .. m : s[k + j] # LF
  PROVE  WithoutLF(SubSeq(s, 1, k + m))
           = WithoutLF(SubSeq(s, 1, k)) \o SubSeq(s, k + 1, k + m)
<1> DEFINE W(i) == WithoutLF(SubSeq(s, 1, i))
           Kept(j) == W(k + j) = W(k) \o SubSeq(s, k + 1, k + j)
           T == {j \in 0 .. m : Kept(j)}
<1>1. Len(s) \in Nat /\ k \in Nat /\ m \in Nat /\ k + m <= Len(s)
  OBVIOUS
<1>2. W(k) \in Seq(Byte)
  <2>1. SubSeq(s, 1, k) \in Seq(Byte)
    BY <1>1
  <2>2. 0 \in Byte
    BY DEF Byte
  <2> QED
    BY <2>1, <2>2, WithoutNext
<1>3. 0 \in T
  <2>1. SubSeq(s, k + 1, k + 0) = <<>> /\ k + 0 = k
    BY <1>1, SubSeqEmpty
  <2>2. W(k) = W(k) \o <<>>
    <3> HIDE DEF W
    <3> QED
      BY <1>2, ConcatEmptySeq
  <2> HIDE DEF W
  <2>3. Kept(0)
    BY <2>1, <2>2
  <2> HIDE DEF Kept
  <2> QED
    BY <1>1, <2>3
<1>4. ASSUME NEW j \in 0 .. m - 1, j \in T PROVE j + 1 \in T
  <2>1. /\ k + j \in 0 .. Len(s) - 1 /\ j \in 0 .. Len(s) - k - 1
        /\ j + 1 \in 1 .. m /\ k + (j + 1) = k + j + 1
    BY <1>1
  <2> DEFINE c == s[k + j + 1]
             piece == SubSeq(s, k + 1, k + j)
  <2>2. c \in Byte /\ c # LF
    <3>1. s[k + (j + 1)] # LF
      BY <2>1
    <3>2. k + j + 1 \in 1 .. Len(s)
      BY <1>1, <2>1
    <3> QED
      BY <2>1, <3>1, <3>2
  <2>3. SubSeq(s, 1, k + j) \in Seq(Byte)
        /\ SubSeq(s, 1, k + j + 1) = Append(SubSeq(s, 1, k + j), c)
    BY <2>1, OneCharacter
  <2>4. W(k + j + 1) = Append(W(k + j), c)
    BY <2>2, <2>3, WithoutNext
  <2>5. piece \in Seq(Byte) /\ SubSeq(s, k + 1, k + j + 1) = Append(piece, c)
    BY <2>1, OneCharacterMore
  <2> HIDE DEF W, piece, c
  <2>6. W(k + j) = W(k) \o piece
    BY <1>4 DEF piece
  <2>7. Append(W(k) \o piece, c) = W(k) \o Append(piece, c)
    <3> DEFINE w == W(k)
    <3>1. w \in Seq(Byte) /\ piece \in Seq(Byte)
      BY <1>2, <2>5
    <3>2. <<c>> \in Seq(Byte)
      BY <2>2
    <3> HIDE DEF w
    <3>3. w \o piece \in Seq(Byte)
      BY <3>1, ConcatProperties
    <3>4. (w \o piece) \o <<c>> = w \o (piece \o <<c>>)
      BY <3>1, <3>2, ConcatAssociative
    <3>5. Append(w \o piece, c) = (w \o piece) \o <<c>>
      BY <2>2, <3>3, AppendIsConcat
    <3>6. Append(piece, c) = piece \o <<c>>
      BY <2>2, <3>1, AppendIsConcat
    <3> QED
      BY <3>4, <3>5, <3>6 DEF w
  <2>8. Kept(j + 1)
    BY <2>1, <2>4, <2>5, <2>6, <2>7
  <2> HIDE DEF Kept
  <2> QED
    BY <1>1, <2>8
<1> HIDE DEF T
<1>5. 0 .. m \subseteq T
  BY <1>1, <1>3, <1>4, Induction
<1>6. m \in T
  BY <1>1, <1>5
<1>7. Kept(m)
  <2> HIDE DEF Kept
  <2> QED
    BY <1>6 DEF T
<1> QED
  BY <1>7

-----------------------------------------------------------------------------
(* Text split into lines. *)

Lines == Seq(Seq(Byte)) \ {<<>>}

(* One more character. *)
NextLines(lines, c) ==
  IF c = LF THEN Append(lines, <<>>)
  ELSE [lines EXCEPT ![Len(lines)] = IF c = CR THEN @ ELSE Append(@, c)]

LEMMA NextLinesType ==
  ASSUME NEW lines \in Lines, NEW c \in Byte
  PROVE  NextLines(lines, c) \in Lines
<1>1. lines \in Seq(Seq(Byte)) /\ Len(lines) \in Nat \ {0}
  BY EmptySeq DEF Lines
<1>2. CASE c = LF
  <2>1. <<>> \in Seq(Byte)
    OBVIOUS
  <2> QED
    BY <1>1, <1>2, <2>1, AppendProperties DEF NextLines, Lines
<1>3. CASE c # LF
  <2> DEFINE n == Len(lines)
             e == IF c = CR THEN lines[n] ELSE Append(lines[n], c)
  <2>1. n \in 1 .. Len(lines) /\ lines[n] \in Seq(Byte)
    BY <1>1
  <2>2. e \in Seq(Byte)
    BY <2>1, AppendProperties
  <2>3. NextLines(lines, c) = [lines EXCEPT ![n] = e]
    BY <1>3 DEF NextLines
  <2> HIDE DEF e
  <2>4. [lines EXCEPT ![n] = e] \in Seq(Seq(Byte)) /\ Len([lines EXCEPT ![n] = e]) = n
    BY <1>1, <2>1, <2>2, ExceptSeq
  <2> QED
    BY <1>1, <2>3, <2>4 DEF Lines
<1> QED
  BY <1>2, <1>3

(* SplitLines takes one character after the other. *)
LEMMA SplitIs ==
  ASSUME NEW s \in Seq(Byte), NEW g \in [0 .. Len(s) -> Lines],
         g[0] = << <<>> >>, \A i \in 1 .. Len(s) : g[i] = NextLines(g[i - 1], s[i])
  PROVE  SplitLines(s) = g[Len(s)]
<1> DEFINE n == Len(s)
           base == << <<>> >>
           G == [q \in (1 .. n) \X Lines |-> NextLines(q[2], s[q[1]])]
           rhs(f) == [S \in SUBSET (1 .. n) |->
                        IF S = {} THEN base
                        ELSE NextLines(f[S \ {Max(S)}], s[Max(S)])]
           fold == CHOOSE f : f = rhs(f)
<1>1. /\ n \in Nat /\ base \in Lines /\ DOMAIN s = 1 .. n
      /\ \A i \in 1 .. n : s[i] \in Byte
  BY DEF Lines
<1>2. SplitLines(s) = fold[1 .. n]
  BY <1>1 DEF SplitLines, FoldLeft, MapThenFoldSet, NextLines
<1>3. G \in [(1 .. n) \X Lines -> Lines]
  <2>1. \A q \in (1 .. n) \X Lines : NextLines(q[2], s[q[1]]) \in Lines
    BY <1>1, NextLinesType
  <2> QED
    BY <2>1
<1>4. \E f : f = rhs(f)
  <2>1. PICK f \in [SUBSET (1 .. n) -> Lines] : Folding(n, base, G, f)
    <3> HIDE DEF G, base, n
    <3> QED
      BY <1>1, <1>3, FoldingExists
  <2>2. f = [S \in SUBSET (1 .. n) |->
               IF S = {} THEN base ELSE G[<<Max(S), f[S \ {Max(S)}]>>]]
    BY <2>1 DEF Folding
  <2>3. ASSUME NEW S \in SUBSET (1 .. n), S # {}
        PROVE  G[<<Max(S), f[S \ {Max(S)}]>>] = NextLines(f[S \ {Max(S)}], s[Max(S)])
    <3>1. Max(S) \in 1 .. n
      BY <1>1, <2>3, GreatestOf
    <3>2. f[S \ {Max(S)}] \in Lines
      OBVIOUS
    <3> QED
      BY <3>1, <3>2
  <2> HIDE DEF G, base
  <2>4. f = rhs(f)
    BY <2>2, <2>3
  <2> QED
    BY <2>4
<1>5. fold = rhs(fold)
  <2> HIDE DEF rhs
  <2> QED
    BY <1>4
<1> HIDE DEF fold
<1> DEFINE Agree(k) == fold[1 .. k] = g[k]
           T == {k \in 0 .. n : Agree(k)}
<1>6. 0 \in T
  <2>1. 1 .. 0 = {} /\ {} \in SUBSET (1 .. n)
    OBVIOUS
  <2>2. fold[{}] = base
    BY <1>5, <2>1
  <2>3. Agree(0)
    BY <2>1, <2>2
  <2> HIDE DEF Agree
  <2> QED
    BY <1>1, <2>3
<1>7. ASSUME NEW k \in 0 .. n - 1, k \in T PROVE k + 1 \in T
  <2>1. /\ 1 .. k + 1 \in SUBSET (1 .. n) /\ 1 .. k + 1 # {}
        /\ Max(1 .. k + 1) = k + 1 /\ (1 .. k + 1) \ {k + 1} = 1 .. k
    BY <1>1, GreatestFirst
  <2>2. fold[1 .. k + 1] = NextLines(fold[1 .. k], s[k + 1])
    <3>1. \A S \in SUBSET (1 .. n) :
            S # {} => fold[S] = NextLines(fold[S \ {Max(S)}], s[Max(S)])
      <4> HIDE DEF base
      <4> QED
        BY <1>5
    <3> HIDE DEF n
    <3>2. fold[1 .. k + 1] = NextLines(fold[(1 .. k + 1) \ {k + 1}], s[k + 1])
      BY <2>1, <3>1
    <3> QED
      BY <2>1, <3>2
  <2>3. k + 1 \in 1 .. n /\ (k + 1) - 1 = k
    BY <1>1
  <2>4. g[k + 1] = NextLines(g[k], s[k + 1])
    BY <2>3
  <2>5. fold[1 .. k + 1] = g[k + 1]
    BY <1>7, <2>2, <2>4
  <2> QED
    BY <2>3, <2>5
<1> HIDE DEF T
<1>8. 0 .. n \subseteq T
  BY <1>1, <1>6, <1>7, Induction
<1>9. n \in T
  BY <1>1, <1>8
<1> QED
  BY <1>2, <1>9 DEF T

LEMMA SplitNext ==
  ASSUME NEW s \in Seq(Byte), NEW c \in Byte
  PROVE  /\ SplitLines(s) \in Lines
         /\ SplitLines(Append(s, c)) = NextLines(SplitLines(s), c)
<1> DEFINE n == Len(s)
           u == Append(s, c)
           base == << <<>> >>
           G == [q \in (1 .. n + 1) \X Lines |-> NextLines(q[2], u[q[1]])]
<1>1. /\ u \in Seq(Byte) /\ Len(u) = n + 1 /\ n \in Nat /\ u[n + 1] = c
      /\ \A j \in 1 .. n : u[j] = s[j] /\ s[j] \in Byte
  BY AppendProperties
<1>2. base \in Lines /\ \A j \in 1 .. n + 1 : u[j] \in Byte
  BY <1>1 DEF Lines
<1> HIDE DEF n, u, base
<1>3. G \in [(1 .. n + 1) \X Lines -> Lines]
  <2>1. \A q \in (1 .. n + 1) \X Lines : NextLines(q[2], u[q[1]]) \in Lines
    BY <1>2, NextLinesType
  <2> QED
    BY <2>1
<1>4. n + 1 \in Nat
  BY <1>1
<1>5. PICK h \in [0 .. n + 1 -> Lines] : Steps(n + 1, base, G, h)
  <2> HIDE DEF G
  <2> QED
    BY <1>2, <1>3, <1>4, StepsExist
<1>6. ASSUME NEW i \in 1 .. n + 1 PROVE h[i] = NextLines(h[i - 1], u[i])
  <2>1. i - 1 \in 0 .. n + 1 /\ h[i - 1] \in Lines
    BY <1>1
  <2>2. h[i] = G[<<i, h[i - 1]>>]
    <3> HIDE DEF G
    <3> QED
      BY <1>5 DEF Steps
  <2> QED
    BY <2>1, <2>2
<1>7. h[0] = base
  BY <1>5 DEF Steps
<1>8. SplitLines(u) = h[n + 1]
  <2>1. \A i \in 1 .. Len(u) : h[i] = NextLines(h[i - 1], u[i])
    BY <1>1, <1>6
  <2>2. h \in [0 .. Len(u) -> Lines] /\ h[0] = << <<>> >>
    BY <1>1, <1>7 DEF base
  <2> QED
    BY <1>1, <2>1, <2>2, SplitIs
<1>9. SplitLines(s) = h[n] /\ h[n] \in Lines
  <2> DEFINE g == [i \in 0 .. n |-> h[i]]
  <2>1. \A i \in 0 .. n : i \in 0 .. n + 1
    BY <1>1
  <2>2. g \in [0 .. n -> Lines] /\ g[n] = h[n] /\ g[0] = base
    BY <1>1, <1>7, <2>1
  <2>3. ASSUME NEW i \in 1 .. n PROVE g[i] = NextLines(g[i - 1], s[i])
    <3>1. i \in 1 .. n + 1 /\ i \in 0 .. n /\ i - 1 \in 0 .. n
      BY <1>1
    <3>2. g[i] = h[i] /\ g[i - 1] = h[i - 1]
      BY <3>1
    <3> HIDE DEF g
    <3> QED
      BY <1>1, <1>6, <3>1, <3>2
  <2> HIDE DEF g
  <2>4. SplitLines(s) = g[n]
    BY <2>2, <2>3, SplitIs DEF n, base
  <2>5. g[n] \in Lines
    <3>1. n \in 0 .. n
      BY <1>1
    <3> QED
      BY <2>2, <3>1
  <2> QED
    BY <2>2, <2>4, <2>5
<1>10. h[n + 1] = NextLines(h[n], c)
  <2>1. n + 1 \in 1 .. n + 1 /\ (n + 1) - 1 = n
    BY <1>1
  <2> QED
    BY <1>1, <1>6, <2>1
<1> QED
  BY <1>8, <1>9, <1>10 DEF u

(* What a character does to the line that is being read. *)
LEMMA LastLine ==
  ASSUME NEW ls \in Seq(Seq(Byte)), NEW w \in Seq(Byte), NEW c \in Byte
  PROVE  NextLines(Append(ls, w), c) =
           CASE c = LF -> Append(Append(ls, w), <<>>)
             [] c = CR -> Append(ls, w)
             [] OTHER -> Append(ls, Append(w, c))
<1> DEFINE u == Append(ls, w)
           n == Len(ls)
<1>1. /\ u \in Seq(Seq(Byte)) /\ Len(u) = n + 1 /\ n \in Nat /\ u[n + 1] = w
      /\ \A j \in 1 .. n : u[j] = ls[j]
  BY AppendProperties
<1>2. CASE c = LF
  <2>1. NextLines(u, c) = Append(u, <<>>)
    BY <1>2 DEF NextLines
  <2>2. c # CR
    BY <1>2 DEF LF, CR
  <2> QED
    BY <1>2, <2>1, <2>2
<1>3. CASE c = CR
  <2>1. c # LF
    BY <1>3 DEF LF, CR
  <2>2. NextLines(u, c) = [u EXCEPT ![n + 1] = w]
    BY <1>1, <1>3, <2>1 DEF NextLines
  <2>3. [u EXCEPT ![n + 1] = w] = u
    <3> HIDE DEF u
    <3> QED
      BY <1>1
  <2> QED
    BY <1>3, <2>1, <2>2, <2>3
<1>4. CASE c # LF /\ c # CR
  <2> DEFINE e == Append(w, c)
             v == Append(ls, e)
             x == [u EXCEPT ![n + 1] = e]
  <2>1. NextLines(u, c) = x
    BY <1>1, <1>4 DEF NextLines
  <2>2. e \in Seq(Byte)
    BY AppendProperties
  <2> HIDE DEF e
  <2>3. /\ v \in Seq(Seq(Byte)) /\ Len(v) = n + 1 /\ v[n + 1] = e
        /\ \A j \in 1 .. n : v[j] = ls[j]
    BY <2>2, AppendProperties
  <2> HIDE DEF u, v
  <2>4. n + 1 \in 1 .. Len(u)
    BY <1>1
  <2>5. /\ x \in Seq(Seq(Byte)) /\ Len(x) = n + 1
        /\ \A j \in 1 .. n + 1 : x[j] = IF j = n + 1 THEN e ELSE u[j]
    BY <1>1, <2>2, <2>4, ExceptSeq
  <2> HIDE DEF x
  <2>6. ASSUME NEW j \in 1 .. n + 1 PROVE x[j] = v[j]
    <3>1. CASE j = n + 1
      BY <2>3, <2>5, <3>1
    <3>2. CASE j # n + 1
      <4>1. j \in 1 .. n
        BY <1>1, <3>2
      <4>2. u[j] = ls[j] /\ v[j] = ls[j]
        BY <1>1, <2>3, <4>1
      <4>3. x[j] = u[j]
        BY <2>5, <3>2
      <4> QED
        BY <4>2, <4>3
    <3> QED
      BY <3>1, <3>2
  <2>7. x = v
    BY <2>3, <2>5, <2>6, SeqEqual
  <2> QED
    BY <1>4, <2>1, <2>7 DEF e, u, v
<1> QED
  BY <1>2, <1>3, <1>4

(* A part without line ends goes to the line that is being read. *)
LEMMA SplitPart ==
  ASSUME NEW ls \in Seq(Seq(Byte)), NEW s \in Seq(Byte),
         NEW k \in 0 .. Len(s), NEW m \in 0 .. Len(s) - k,
         \A j \in 1 .. m : s[k + j] \notin {LF, CR},
         SplitLines(SubSeq(s, 1, k)) = Append(ls, <<>>)
  PROVE  SplitLines(SubSeq(s, 1, k + m)) = Append(ls, SubSeq(s, k + 1, k + m))
<1> DEFINE Split(j) ==
             SplitLines(SubSeq(s, 1, k + j)) = Append(ls, SubSeq(s, k + 1, k + j))
           T == {j \in 0 .. m : Split(j)}
<1>1. Len(s) \in Nat /\ k \in Nat /\ m \in Nat /\ k + m <= Len(s)
  OBVIOUS
<1>2. 0 \in T
  <2>1. SubSeq(s, k + 1, k + 0) = <<>> /\ k + 0 = k
    BY <1>1, SubSeqEmpty
  <2>2. Split(0)
    BY <2>1
  <2> HIDE DEF Split
  <2> QED
    BY <1>1, <2>2
<1>3. ASSUME NEW j \in 0 .. m - 1, j \in T PROVE j + 1 \in T
  <2>1. /\ k + j \in 0 .. Len(s) - 1 /\ j \in 0 .. Len(s) - k - 1
        /\ j + 1 \in 1 .. m /\ k + (j + 1) = k + j + 1
    BY <1>1
  <2> DEFINE c == s[k + j + 1]
             piece == SubSeq(s, k + 1, k + j)
  <2>2. c \in Byte /\ c # LF /\ c # CR
    <3>1. s[k + (j + 1)] \notin {LF, CR}
      BY <2>1
    <3>2. k + j + 1 \in 1 .. Len(s)
      BY <1>1, <2>1
    <3> QED
      BY <2>1, <3>1, <3>2
  <2>3. SubSeq(s, 1, k + j) \in Seq(Byte)
        /\ SubSeq(s, 1, k + j + 1) = Append(SubSeq(s, 1, k + j), c)
    BY <2>1, OneCharacter
  <2>4. SplitLines(SubSeq(s, 1, k + j + 1)) = NextLines(SplitLines(SubSeq(s, 1, k + j)), c)
    BY <2>2, <2>3, SplitNext
  <2>5. piece \in Seq(Byte) /\ SubSeq(s, k + 1, k + j + 1) = Append(piece, c)
    BY <2>1, OneCharacterMore
  <2>6. SplitLines(SubSeq(s, 1, k + j)) = Append(ls, piece)
    BY <1>3
  <2> HIDE DEF piece, c
  <2>7. NextLines(Append(ls, piece), c) = Append(ls, Append(piece, c))
    BY <2>2, <2>5, LastLine
  <2>8. Split(j + 1)
    BY <2>1, <2>4, <2>5, <2>6, <2>7
  <2> HIDE DEF Split
  <2> QED
    BY <1>1, <2>8
<1> HIDE DEF T
<1>4. 0 .. m \subseteq T
  BY <1>1, <1>2, <1>3, Induction
<1>5. m \in T
  BY <1>1, <1>4
<1>6. Split(m)
  <2> HIDE DEF Split
  <2> QED
    BY <1>5 DEF T
<1> QED
  BY <1>6

-----------------------------------------------------------------------------
(* What fgets takes, what the loop copies and what the guest finds. *)

(* The least place that passes a test, or 0. *)
LEMMA FirstPlace ==
  ASSUME NEW n \in Nat, NEW I \in SUBSET (1 .. n)
  PROVE  LET v == IF I # {} THEN Min(I) ELSE 0
         IN  /\ v \in 0 .. n
             /\ v = 0 => I = {}
             /\ v # 0 => v \in I /\ \A i \in I : v <= i
<1>1. CASE I = {}
  BY <1>1
<1>2. CASE I # {}
  <2>1. PICK x \in I : \A y \in I : x <= y
    BY <1>2, LeastNumber
  <2>2. Min(I) \in I /\ \A y \in I : Min(I) <= y
    BY <2>1 DEF Min
  <2>3. PICK v \in I : v = Min(I)
    BY <2>2
  <2>4. v \in 1 .. n
    OBVIOUS
  <2> QED
    BY <1>2, <2>2, <2>3, <2>4
<1> QED
  BY <1>1, <1>2

(* fgets stops behind the first line feed, if that fits its buffer. *)
LEMMA TakeIs ==
  ASSUME NEW s \in Seq(Byte)
  PROVE  /\ \A i \in 1 .. Take(s) - 1 : s[i] # LF
         /\ (\E j \in 1 .. Len(s) : j < BufSize /\ s[j] = LF)
              => Take(s) # 0 /\ s[Take(s)] = LF
<1> DEFINE most == IF Len(s) < BufSize - 1 THEN Len(s) ELSE BufSize - 1
           I == {i \in 1 .. Len(s) : s[i] = LF}
           nl == IF I # {} THEN Min(I) ELSE 0
<1>1. Take(s) = IF nl \in 1 .. most THEN nl ELSE most
  BY DEF Take, SelectInSeq
<1>2. /\ most \in 0 .. Len(s) /\ most < BufSize
      /\ \A j \in 1 .. Len(s) : j < BufSize => j <= most
  BY SizesAssumption
<1>3. Len(s) \in Nat /\ I \in SUBSET (1 .. Len(s))
  OBVIOUS
<1>4. \A i \in 1 .. Len(s) : i \in I <=> s[i] = LF
  OBVIOUS
<1> HIDE DEF I, most
<1>5. /\ nl \in 0 .. Len(s) /\ (nl = 0 => I = {})
      /\ nl # 0 => nl \in I /\ \A i \in I : nl <= i
  BY <1>3, FirstPlace
<1> HIDE DEF nl
<1>6. ASSUME NEW i \in 1 .. Take(s) - 1 PROVE s[i] # LF
  <2>1. i \in 1 .. Len(s) /\ (nl # 0 => ~(nl <= i))
    BY <1>1, <1>2, <1>3, <1>5
  <2> QED
    BY <1>4, <1>5, <2>1
<1>7. ASSUME NEW j \in 1 .. Len(s), j < BufSize, s[j] = LF
      PROVE  Take(s) # 0 /\ s[Take(s)] = LF
  <2>1. j \in I /\ j <= most
    BY <1>2, <1>4, <1>7
  <2>2. nl # 0 /\ nl <= j /\ nl \in I
    BY <1>5, <2>1
  <2>3. Take(s) = nl
    BY <1>1, <1>2, <1>5, <2>1, <2>2
  <2> QED
    BY <1>4, <1>5, <2>2, <2>3
<1> QED
  BY <1>6, <1>7

(* The loop copies a piece up to the first end of a line, which may be the *)
(* end of the piece.                                                       *)
LEMMA LineIs ==
  ASSUME NEW s \in Seq(Byte), Len(s) <= CountMax, NEW m \in 0 .. Len(s),
         \A i \in 1 .. m : s[i] \notin {NUL, CR, LF},
         m = Len(s) \/ s[m + 1] \in {NUL, CR, LF}
  PROVE  Line(s) = SubSeq(s, 1, m)
<1> DEFINE I == {i \in 1 .. Len(s) : s[i] \in {NUL, CR, LF}}
           stop == IF I # {} THEN Min(I) ELSE 0
           n == IF stop = 0 THEN Len(s) ELSE stop - 1
<1>1. Line(s) = SubSeq(s, 1, IF n < CountMax THEN n ELSE CountMax)
  BY DEF Line, SelectInSeq
<1>2. Len(s) \in Nat /\ I \in SUBSET (1 .. Len(s))
  OBVIOUS
<1>3. \A i \in 1 .. Len(s) : i \in I <=> s[i] \in {NUL, CR, LF}
  OBVIOUS
<1> HIDE DEF I
<1>4. /\ stop \in 0 .. Len(s) /\ (stop = 0 => I = {})
      /\ stop # 0 => stop \in I /\ \A i \in I : stop <= i
  BY <1>2, FirstPlace
<1> HIDE DEF stop
<1>5. \A i \in 1 .. m : i \notin I
  BY <1>2, <1>3
<1>6. m = Len(s) \/ (m + 1 \in 1 .. Len(s) /\ m + 1 \in I)
  BY <1>2, <1>3
<1>7. n = m
  BY <1>2, <1>4, <1>5, <1>6
<1> HIDE DEF n
<1>8. (IF n < CountMax THEN n ELSE CountMax) = m
  BY <1>2, <1>7, SizesAssumption
<1> QED
  BY <1>1, <1>8

(* The guest finds the line that was stored. *)
LEMMA FoundIs ==
  ASSUME NEW buf \in Buffers, NEW line \in Seq(Byte), Len(line) <= CountMax
  PROVE  Found(Stored(buf, line), buf) = line
<1> DEFINE n == Len(line)
           m == Stored(buf, line)
<1>1. /\ buf \in Nat /\ n \in Nat /\ n <= CountMax /\ CountMax \in Nat
      /\ Top \in Nat /\ buf + CountMax < Top
  BY BuffersAssumption, SizesAssumption
<1>2. m[buf] = n
  <2>1. buf \in Addr
    BY <1>1 DEF Addr
  <2> QED
    BY <2>1 DEF Stored
<1>3. ASSUME NEW j \in 1 .. n PROVE m[buf + j] = line[j]
  <2>1. /\ buf + j \in Addr /\ buf + j # buf /\ (buf + j) - buf = j
        /\ buf + j \in buf + 1 .. buf + n
    BY <1>1 DEF Addr
  <2> QED
    BY <2>1 DEF Stored
<1>4. line = [j \in 1 .. n |-> line[j]]
  OBVIOUS
<1>5. Found(m, buf) = [j \in 1 .. n |-> m[buf + j]]
  BY <1>2 DEF Found
<1> HIDE DEF m, n
<1>6. [j \in 1 .. n |-> m[buf + j]] = [j \in 1 .. n |-> line[j]]
  BY <1>3
<1> QED
  BY <1>4, <1>5, <1>6 DEF m

(* A part of a part. *)
LEMMA PartOfPart ==
  ASSUME NEW X, NEW s \in Seq(X), NEW a \in 0 .. Len(s), NEW b \in a .. Len(s),
         NEW i \in 0 .. b - a, NEW j \in i .. b - a
  PROVE  SubSeq(SubSeq(s, a + 1, b), i + 1, j) = SubSeq(s, a + i + 1, a + j)
<1> DEFINE r == SubSeq(s, a + 1, b)
           u == SubSeq(r, i + 1, j)
           v == SubSeq(s, a + i + 1, a + j)
<1>1. Len(s) \in Nat /\ a \in Nat /\ b \in Nat /\ i \in Nat /\ j \in Nat
  OBVIOUS
<1>2. /\ r \in Seq(X) /\ Len(r) = b - a
      /\ \A q \in 1 .. b - a : r[q] = s[a + q]
  <2>1. \A q \in a + 1 .. b : s[q] \in X
    BY <1>1
  <2>2. /\ r \in Seq(X) /\ Len(r) = IF a + 1 <= b THEN b - (a + 1) + 1 ELSE 0
        /\ \A q \in 1 .. b - (a + 1) + 1 : r[q] = s[(a + 1) + q - 1]
    BY <1>1, <2>1, SubSeqProperties
  <2> HIDE DEF r
  <2>3. \A q \in Int : (a + 1) + q - 1 = a + q
    BY <1>1
  <2> QED
    BY <1>1, <2>2, <2>3
<1> HIDE DEF r
<1>3. /\ u \in Seq(X) /\ Len(u) = j - i
      /\ \A q \in 1 .. j - i : u[q] = s[a + i + q]
  <2>1. \A q \in i + 1 .. j : r[q] \in X
    BY <1>1, <1>2
  <2>2. /\ u \in Seq(X) /\ Len(u) = IF i + 1 <= j THEN j - (i + 1) + 1 ELSE 0
        /\ \A q \in 1 .. j - (i + 1) + 1 : u[q] = r[(i + 1) + q - 1]
    BY <1>1, <2>1, SubSeqProperties
  <2> HIDE DEF u
  <2>3. ASSUME NEW q \in 1 .. j - i PROVE u[q] = s[a + i + q]
    <3>1. /\ (i + 1) + q - 1 = i + q /\ i + q \in 1 .. b - a
          /\ q \in 1 .. j - (i + 1) + 1 /\ a + (i + q) = a + i + q
      BY <1>1
    <3>2. u[q] = r[i + q]
      BY <2>2, <3>1
    <3>3. r[i + q] = s[a + (i + q)]
      BY <1>2, <3>1
    <3> QED
      BY <3>1, <3>2, <3>3
  <2>4. j - (i + 1) + 1 = j - i /\ (i + 1 <= j <=> 1 <= j - i) /\ j - i >= 0
    BY <1>1
  <2>5. Len(u) = j - i
    BY <1>1, <2>2, <2>4
  <2> QED
    BY <2>2, <2>3, <2>5
<1>4. /\ v \in Seq(X) /\ Len(v) = j - i
      /\ \A q \in 1 .. j - i : v[q] = s[a + i + q]
  <2> DEFINE c == a + i + 1
             d == a + j
  <2>1. c \in Int /\ d \in Int /\ \A q \in c .. d : s[q] \in X
    BY <1>1
  <2>2. /\ v \in Seq(X) /\ Len(v) = IF c <= d THEN d - c + 1 ELSE 0
        /\ \A q \in 1 .. d - c + 1 : v[q] = s[c + q - 1]
    <3> HIDE DEF c, d
    <3> QED
      BY <2>1, SubSeqProperties DEF c, d
  <2> HIDE DEF v
  <2>3. d - c + 1 = j - i /\ \A q \in Int : c + q - 1 = a + i + q
    BY <1>1
  <2>4. c <= d <=> 1 <= j - i
    BY <1>1
  <2> HIDE DEF c, d
  <2> QED
    BY <1>1, <2>2, <2>3, <2>4
<1> HIDE DEF u, v
<1>5. u = v
  BY <1>3, <1>4, SeqEqual
<1> QED
  BY <1>5 DEF u, v, r

(* The characters of a piece. *)
LEMMA PieceIs ==
  ASSUME NEW s \in Seq(Byte), NEW k \in 0 .. Len(s), NEW n \in 0 .. Len(s) - k
  PROVE  LET t == SubSeq(s, k + 1, k + n)
         IN  t \in Seq(Byte) /\ Len(t) = n /\ \A i \in 1 .. n : t[i] = s[k + i]
<1> DEFINE t == SubSeq(s, k + 1, k + n)
<1>1. /\ Len(s) \in Nat /\ k + 1 \in Int /\ k + n \in Int
      /\ \A i \in k + 1 .. k + n : s[i] \in Byte
  OBVIOUS
<1>2. /\ t \in Seq(Byte)
      /\ Len(t) = IF k + 1 <= k + n THEN k + n - (k + 1) + 1 ELSE 0
      /\ \A i \in 1 .. k + n - (k + 1) + 1 : t[i] = s[(k + 1) + i - 1]
  BY <1>1, SubSeqProperties
<1> HIDE DEF t
<1>3. \A i \in Int : (k + 1) + i - 1 = k + i
  OBVIOUS
<1>4. k + n - (k + 1) + 1 = n /\ (k + 1 <= k + n <=> n # 0)
  OBVIOUS
<1>5. Len(t) = n
  BY <1>2, <1>4
<1>6. \A i \in 1 .. n : t[i] = s[k + i]
  BY <1>2, <1>3, <1>4
<1> QED
  BY <1>2, <1>5, <1>6 DEF t

(* The line of a piece is the beginning of the piece. *)
LEMMA LineOfPiece ==
  ASSUME NEW s \in Seq(Byte), NEW k \in 0 .. Len(s), NEW n \in 0 .. Len(s) - k,
         n <= CountMax, NEW m \in 0 .. n,
         \A i \in 1 .. m : s[k + i] \notin {NUL, CR, LF},
         m = n \/ s[k + m + 1] \in {NUL, CR, LF}
  PROVE  Line(SubSeq(s, k + 1, k + n)) = SubSeq(s, k + 1, k + m)
<1> DEFINE t == SubSeq(s, k + 1, k + n)
<1>1. t \in Seq(Byte) /\ Len(t) = n /\ \A i \in 1 .. n : t[i] = s[k + i]
  BY PieceIs
<1>2. /\ Len(s) \in Nat /\ k \in Nat /\ m \in Nat /\ n \in Nat
      /\ k + (m + 1) = k + m + 1 /\ k + 0 + 1 = k + 1
      /\ \A i \in 1 .. m : i \in 1 .. n
      /\ m # n => m + 1 \in 1 .. n
  OBVIOUS
<1> HIDE DEF t
<1>3. \A i \in 1 .. m : t[i] \notin {NUL, CR, LF}
  BY <1>1, <1>2
<1>4. m = Len(t) \/ t[m + 1] \in {NUL, CR, LF}
  BY <1>1, <1>2
<1>5. Line(t) = SubSeq(t, 1, m)
  BY <1>1, <1>2, <1>3, <1>4, LineIs
<1>6. SubSeq(t, 1, m) = SubSeq(s, k + 1, k + m)
  <2>1. k + n \in k .. Len(s) /\ 0 \in 0 .. (k + n) - k /\ m \in 0 .. (k + n) - k
    BY <1>2
  <2>2. SubSeq(t, 0 + 1, m) = SubSeq(s, k + 0 + 1, k + m)
    BY <2>1, PartOfPart DEF t
  <2> QED
    BY <1>2, <2>2
<1> QED
  BY <1>5, <1>6 DEF t

(* A line more leaves nothing out but the line feed. *)
LEMMA PieceConserved ==
  ASSUME NEW s \in Seq(Byte), Plain(s), NEW ls \in Seq(Seq(Byte)),
         NEW k \in 0 .. Len(s), NEW n \in 0 .. Len(s) - k, n <= CountMax,
         \A i \in 1 .. n - 1 : s[k + i] # LF,
         FlattenSeq(ls) = WithoutLF(SubSeq(s, 1, k))
  PROVE  FlattenSeq(Append(ls, Line(SubSeq(s, k + 1, k + n))))
           = WithoutLF(SubSeq(s, 1, k + n))
<1> DEFINE m == IF n # 0 /\ s[k + n] = LF THEN n - 1 ELSE n
           piece == SubSeq(s, k + 1, k + m)
<1>1. /\ Len(s) \in Nat /\ k \in Nat /\ n \in Nat /\ k + n <= Len(s)
      /\ m \in 0 .. n /\ m \in 0 .. Len(s) - k
  OBVIOUS
<1>2. /\ m # n => m + 1 = n /\ k + m + 1 = k + n /\ s[k + n] = LF
      /\ m = n => \A i \in 1 .. n : s[k + i] # LF
  <2>1. ASSUME m = n, NEW i \in 1 .. n PROVE s[k + i] # LF
    <3>1. CASE i = n
      BY <1>1, <2>1, <3>1
    <3>2. CASE i # n
      <4>1. i \in 1 .. n - 1
        BY <1>1, <3>2
      <4> QED
        BY <4>1
    <3> QED
      BY <3>1, <3>2
  <2>2. m # n => m + 1 = n /\ k + m + 1 = k + n /\ s[k + n] = LF
    BY <1>1
  <2> QED
    BY <2>1, <2>2
<1> HIDE DEF m
<1>3. ASSUME NEW i \in 1 .. m PROVE s[k + i] \notin {NUL, CR, LF}
  <2>1. k + i \in 1 .. Len(s)
    BY <1>1
  <2>2. s[k + i] # LF
    <3>1. CASE m = n
      BY <1>2, <3>1
    <3>2. CASE m # n
      <4>1. i \in 1 .. n - 1
        BY <1>1, <1>2, <3>2
      <4> QED
        BY <4>1
    <3> QED
      BY <3>1, <3>2
  <2> QED
    BY <2>1, <2>2 DEF Plain
<1>4. Line(SubSeq(s, k + 1, k + n)) = piece
  <2>1. m = n \/ s[k + m + 1] \in {NUL, CR, LF}
    BY <1>2
  <2> QED
    BY <1>1, <1>3, <2>1, LineOfPiece
<1>5. piece \in Seq(Byte)
  BY <1>1, PieceIs
<1>6. FlattenSeq(Append(ls, piece)) = FlattenSeq(ls) \o piece
  BY <1>5, FlattenAppend
<1>7. WithoutLF(SubSeq(s, 1, k + m)) = WithoutLF(SubSeq(s, 1, k)) \o piece
  <2>1. \A i \in 1 .. m : s[k + i] # LF
    BY <1>3
  <2> QED
    BY <1>1, <2>1, WithoutPart
<1>8. WithoutLF(SubSeq(s, 1, k + n)) = WithoutLF(SubSeq(s, 1, k + m))
  <2>1. CASE m = n
    BY <2>1
  <2>2. CASE m # n
    <3>1. k + m \in 0 .. Len(s) - 1 /\ (k + m) + 1 = k + n /\ s[(k + m) + 1] = LF
      BY <1>1, <1>2, <2>2
    <3> DEFINE q == k + m
    <3>2. q \in 0 .. Len(s) - 1 /\ q + 1 = k + n /\ s[q + 1] = LF
      BY <3>1
    <3> HIDE DEF q
    <3>3. /\ SubSeq(s, 1, q) \in Seq(Byte) /\ s[q + 1] \in Byte
          /\ SubSeq(s, 1, q + 1) = Append(SubSeq(s, 1, q), s[q + 1])
      BY <3>2, OneCharacter
    <3>4. WithoutLF(SubSeq(s, 1, q + 1)) = WithoutLF(SubSeq(s, 1, q))
      BY <3>2, <3>3, WithoutNext
    <3> QED
      BY <3>2, <3>4 DEF q
  <2> QED
    BY <2>1, <2>2
<1> QED
  BY <1>4, <1>6, <1>7, <1>8

(* A piece that ends with a line feed is a line, which it ends. *)
LEMMA PieceSplit ==
  ASSUME NEW s \in Seq(Byte), LinesFit(s), NEW ls \in Seq(Seq(Byte)),
         NEW k \in 0 .. Len(s), NEW n \in 1 .. Len(s) - k, n <= CountMax,
         \A i \in 1 .. n - 1 : s[k + i] # LF, s[k + n] = LF,
         SplitLines(SubSeq(s, 1, k)) = Append(ls, <<>>)
  PROVE  SplitLines(SubSeq(s, 1, k + n))
           = Append(Append(ls, Line(SubSeq(s, k + 1, k + n))), <<>>)
<1> DEFINE cr == n > 1 /\ s[k + n - 1] = CR
           m == IF cr THEN n - 2 ELSE n - 1
           piece == SubSeq(s, k + 1, k + m)
<1>1. /\ Len(s) \in Nat /\ k \in Nat /\ n \in Nat /\ k + n <= Len(s) /\ n >= 1
      /\ m \in 0 .. n - 1 /\ m \in 0 .. n /\ m \in 0 .. Len(s) - k
  OBVIOUS
<1>2. /\ cr => m = n - 2 /\ s[k + m + 1] = CR
      /\ ~cr => m = n - 1 /\ s[k + m + 1] = LF
  <2>1. ASSUME cr PROVE m = n - 2 /\ s[k + m + 1] = CR
    <3>1. m = n - 2 /\ k + n - 1 = k + m + 1
      BY <1>1, <2>1
    <3>2. s[k + n - 1] = CR
      BY <2>1
    <3> HIDE DEF m
    <3> QED
      BY <3>1, <3>2
  <2>2. ASSUME ~cr PROVE m = n - 1 /\ s[k + m + 1] = LF
    <3>1. m = n - 1 /\ k + n = k + m + 1
      BY <1>1, <2>2
    <3> HIDE DEF m
    <3> QED
      BY <3>1
  <2> QED
    BY <2>1, <2>2
<1>3. ASSUME NEW i \in 1 .. m PROVE s[k + i] \notin {NUL, CR, LF}
  <2>1. /\ k + i \in 1 .. Len(s) /\ i \in 1 .. n - 1
        /\ k + (i + 1) = (k + i) + 1
    BY <1>1
  <2>2. s[k + i] # NUL /\ (s[k + i] = CR => s[(k + i) + 1] = LF)
    BY <2>1 DEF LinesFit
  <2>3. s[k + i] # LF
    BY <2>1
  <2>4. ASSUME s[k + i] = CR PROVE FALSE
    <3>1. s[k + (i + 1)] = LF
      BY <2>1, <2>2, <2>4
    <3>2. ~(i + 1 \in 1 .. n - 1)
      BY <3>1
    <3>3. i = n - 1
      BY <1>1, <2>1, <3>2
    <3>4. s[k + n - 1] = CR /\ n > 1
      <4>1. k + n - 1 = k + i /\ n > 1
        BY <1>1, <3>3
      <4> QED
        BY <2>4, <4>1
    <3>5. m = n - 2
      BY <3>4
    <3> QED
      BY <1>1, <3>3, <3>5
  <2> QED
    BY <2>2, <2>3, <2>4
<1> HIDE DEF cr, m
<1>4. Line(SubSeq(s, k + 1, k + n)) = piece /\ piece \in Seq(Byte)
  <2>1. s[k + m + 1] \in {NUL, CR, LF}
    BY <1>2
  <2>2. n \in 0 .. Len(s) - k
    BY <1>1
  <2>3. Line(SubSeq(s, k + 1, k + n)) = piece
    BY <1>1, <1>3, <2>1, <2>2, LineOfPiece
  <2>4. piece \in Seq(Byte)
    BY <1>1, PieceIs
  <2> QED
    BY <2>3, <2>4
<1>5. SplitLines(SubSeq(s, 1, k + m)) = Append(ls, piece)
  <2>1. \A j \in 1 .. m : s[k + j] \notin {LF, CR}
    BY <1>3
  <2> QED
    BY <1>1, <2>1, SplitPart
<1> DEFINE Part(i) == SplitLines(SubSeq(s, 1, i))
<1>6. ASSUME NEW i \in 0 .. Len(s) - 1
      PROVE  s[i + 1] \in Byte /\ Part(i + 1) = NextLines(Part(i), s[i + 1])
  <2>1. /\ SubSeq(s, 1, i) \in Seq(Byte) /\ s[i + 1] \in Byte
        /\ SubSeq(s, 1, i + 1) = Append(SubSeq(s, 1, i), s[i + 1])
    BY OneCharacter
  <2> QED
    BY <2>1, SplitNext
<1> HIDE DEF Part, piece
<1>7. Part(k + n - 1) = Append(ls, piece)
  <2>1. CASE ~cr
    <3>1. k + n - 1 = k + m
      BY <1>1, <1>2, <2>1
    <3> QED
      BY <1>5, <3>1 DEF Part
  <2>2. CASE cr
    <3> DEFINE i == k + m
    <3>1. i \in 0 .. Len(s) - 1 /\ i + 1 = k + n - 1
      BY <1>1, <1>2, <2>2
    <3>2. s[i + 1] = CR /\ Part(i) = Append(ls, piece)
      BY <1>2, <1>5, <2>2 DEF Part
    <3> HIDE DEF i
    <3>3. Part(i + 1) = NextLines(Append(ls, piece), CR)
      BY <1>6, <3>1, <3>2
    <3>4. NextLines(Append(ls, piece), CR) = Append(ls, piece)
      <4>1. CR \in Byte /\ CR # LF
        BY DEF CR, LF, Byte
      <4> QED
        BY <1>4, <4>1, LastLine
    <3> QED
      BY <3>1, <3>3, <3>4
  <2> QED
    BY <2>1, <2>2
<1>8. Part(k + n) = Append(Append(ls, piece), <<>>)
  <2> DEFINE i == k + n - 1
  <2>1. i \in 0 .. Len(s) - 1 /\ i + 1 = k + n /\ s[i + 1] = LF
    BY <1>1
  <2>2. Part(i) = Append(ls, piece)
    BY <1>7
  <2> HIDE DEF i
  <2>3. Part(i + 1) = NextLines(Append(ls, piece), LF)
    BY <1>6, <2>1, <2>2
  <2>4. NextLines(Append(ls, piece), LF) = Append(Append(ls, piece), <<>>)
    BY DEF NextLines
  <2> QED
    BY <2>1, <2>3, <2>4
<1> QED
  BY <1>4, <1>8 DEF Part

-----------------------------------------------------------------------------
(* What fgets has taken is a beginning of what was typed, and the guest    *)
(* has found all of it: k characters were taken.                           *)
TakenAre(k) ==
  /\ stdin = SubSeq(typed, k + 1, Len(typed))
  /\ Plain(typed) => FlattenSeq(given) = WithoutLF(SubSeq(typed, 1, k))
  /\ LinesFit(typed) => SplitLines(SubSeq(typed, 1, k)) = Append(given, <<>>)

TInv ==
  /\ typed \in Seq(Byte)
  /\ given \in Seq(Seq(Byte))
  /\ \E k \in 0 .. Len(typed) : TakenAre(k)

(* Text without characters is no line and has no lines. *)
LEMMA NoText ==
  /\ WithoutLF(<<>>) = <<>> /\ FlattenSeq(<<>>) = <<>>
  /\ SplitLines(<<>>) = << <<>> >>
<1>1. WithoutLF(<<>>) = FlattenSeq(<<>>)
  <2>1. [j \in {} |-> IF (<<>>)[j] = LF THEN <<>> ELSE <<(<<>>)[j]>>] = <<>>
    OBVIOUS
  <2>2. DOMAIN <<>> = {}
    OBVIOUS
  <2> QED
    BY <2>1, <2>2 DEF WithoutLF
<1>2. FlattenSeq(<<>>) = <<>>
  BY DEF FlattenSeq
<1>3. SplitLines(<<>>) = << <<>> >>
  <2> DEFINE g == [i \in 0 .. 0 |-> << <<>> >>]
             s == <<>>
  <2>1. s \in Seq(Byte) /\ Len(s) = 0
    OBVIOUS
  <2>2. g \in [0 .. 0 -> Lines] /\ g[0] = << <<>> >>
    BY DEF Lines
  <2>3. \A i \in 1 .. 0 : g[i] = NextLines(g[i - 1], s[i])
    OBVIOUS
  <2> HIDE DEF g, s
  <2>4. SplitLines(s) = g[Len(s)]
    BY <2>1, <2>2, <2>3, SplitIs
  <2> QED
    BY <2>1, <2>2, <2>4 DEF s
<1> QED
  BY <1>1, <1>2, <1>3

LEMMA BufferedInputTaken ==
  ASSUME BufSize - 1 <= CountMax
  PROVE  IInv /\ TInv /\ (\E b \in Buffers : BufferedInput(b)) => TInv'
<1> SUFFICES ASSUME IInv, TInv, NEW b \in Buffers, BufferedInput(b) PROVE TInv'
  OBVIOUS
<1> DEFINE s == typed
           n == Take(stdin)
           piece == SubSeq(stdin, 1, n)
           line == Line(piece)
<1>1. /\ memory' = Stored(b, line)
      /\ stdin' = SubSeq(stdin, n + 1, Len(stdin))
      /\ given' = IF n = 0 THEN given ELSE Append(given, Found(memory', b))
      /\ typed' = typed
  BY DEF BufferedInput
<1>2. s \in Seq(Byte) /\ given \in Seq(Seq(Byte)) /\ stdin \in Seq(Byte)
  BY DEF TInv, IInv
<1>3. PICK k \in 0 .. Len(s) : TakenAre(k)
  BY DEF TInv
<1>4. /\ Len(stdin) = Len(s) - k /\ \A i \in 1 .. Len(s) - k : stdin[i] = s[k + i]
      /\ Len(s) \in Nat
  <2> DEFINE N == Len(s) - k
  <2>1. N \in 0 .. Len(s) - k /\ k + N = Len(s) /\ Len(s) \in Nat
    BY <1>2
  <2>2. stdin = SubSeq(s, k + 1, Len(s))
    BY <1>3 DEF TakenAre
  <2> HIDE DEF N, s
  <2>3. stdin = SubSeq(s, k + 1, k + N)
    BY <2>1, <2>2
  <2>4. Len(stdin) = N /\ \A i \in 1 .. N : stdin[i] = s[k + i]
    BY <1>2, <2>1, <2>3, PieceIs
  <2> QED
    BY <2>1, <2>4 DEF N
<1>5. /\ n \in 0 .. Len(s) - k /\ n <= CountMax
      /\ \A i \in 1 .. n - 1 : s[k + i] # LF
      /\ (\E j \in 1 .. Len(s) - k : j < BufSize /\ s[k + j] = LF)
           => n # 0 /\ s[k + n] = LF
  <2>1. /\ n \in 0 .. Len(stdin) /\ n < BufSize
        /\ \A i \in 1 .. n - 1 : stdin[i] # LF
        /\ (\E j \in 1 .. Len(stdin) : j < BufSize /\ stdin[j] = LF)
             => n # 0 /\ stdin[n] = LF
    BY <1>2, TakeBound, TakeIs
  <2> HIDE DEF n, s
  <2>2. n \in 0 .. Len(s) - k /\ n <= CountMax
    BY <1>4, <2>1, SizesAssumption
  <2>3. ASSUME NEW i \in 1 .. n - 1 PROVE s[k + i] # LF
    <3>1. i \in 1 .. Len(s) - k
      BY <1>4, <2>2
    <3> QED
      BY <1>4, <2>1, <3>1
  <2>4. ASSUME NEW j \in 1 .. Len(s) - k, j < BufSize, s[k + j] = LF
        PROVE  n # 0 /\ s[k + n] = LF
    <3>1. stdin[j] = LF /\ j \in 1 .. Len(stdin)
      BY <1>4, <2>4
    <3>2. n # 0 /\ stdin[n] = LF
      BY <2>1, <2>4, <3>1
    <3>3. n \in 1 .. Len(s) - k
      BY <1>4, <2>2, <3>2
    <3> QED
      BY <1>4, <3>2, <3>3
  <2> QED
    BY <2>2, <2>3, <2>4
<1>6. piece = SubSeq(s, k + 1, k + n)
      /\ stdin' = SubSeq(s, (k + n) + 1, Len(s))
  <2>1. stdin = SubSeq(s, k + 1, Len(s))
    BY <1>3 DEF TakenAre
  <2> HIDE DEF n, s
  <2> DEFINE l == Len(s)
  <2>2. /\ l \in k .. Len(s) /\ 0 \in 0 .. l - k /\ n \in 0 .. l - k
        /\ n \in n .. l - k /\ l - k \in n .. l - k
        /\ 0 + 1 = 1 /\ k + 0 + 1 = k + 1 /\ k + n + 1 = (k + n) + 1
        /\ k + (l - k) = l
    BY <1>4, <1>5
  <2> HIDE DEF l
  <2>3. SubSeq(SubSeq(s, k + 1, l), 0 + 1, n) = SubSeq(s, k + 0 + 1, k + n)
    BY <1>2, <2>2, PartOfPart
  <2>4. SubSeq(SubSeq(s, k + 1, l), n + 1, l - k) = SubSeq(s, k + n + 1, k + (l - k))
    BY <1>2, <2>2, PartOfPart
  <2> QED
    BY <1>1, <1>4, <2>1, <2>2, <2>3, <2>4 DEF l
<1>7. line \in Seq(Byte) /\ Found(memory', b) = line
  <2>1. piece \in Seq(Byte)
    BY <1>2, <1>5, <1>6, PieceIs
  <2> HIDE DEF piece
  <2>2. line \in Seq(Byte) /\ Len(line) <= CountMax
    BY <2>1, LineFits
  <2> HIDE DEF line
  <2> QED
    BY <1>1, <2>2, FoundIs
<1> HIDE DEF n, line, piece, s
<1>8. CASE n = 0
  <2>1. given' = given /\ k + n = k
    BY <1>1, <1>8
  <2>2. TakenAre(k)'
    BY <1>1, <1>3, <1>6, <2>1 DEF TakenAre, s
  <2> QED
    BY <1>1, <1>2, <2>1, <2>2 DEF TInv, s
<1>9. CASE n # 0
  <2>1. given' = Append(given, line) /\ k + n \in 0 .. Len(s)
    BY <1>1, <1>4, <1>5, <1>7, <1>9
  <2>2. line = Line(SubSeq(s, k + 1, k + n))
    BY <1>6 DEF line
  <2>3. ASSUME Plain(s) PROVE FlattenSeq(given') = WithoutLF(SubSeq(s, 1, k + n))
    <3>1. FlattenSeq(given) = WithoutLF(SubSeq(s, 1, k))
      BY <1>3, <2>3 DEF TakenAre, s
    <3> QED
      BY <1>2, <1>5, <2>1, <2>2, <2>3, <3>1, PieceConserved
  <2>4. ASSUME LinesFit(s) PROVE SplitLines(SubSeq(s, 1, k + n)) = Append(given', <<>>)
    <3>1. SplitLines(SubSeq(s, 1, k)) = Append(given, <<>>)
      BY <1>3, <2>4 DEF TakenAre, s
    <3>2. k + 1 \in 1 .. Len(s) /\ n \in 1 .. Len(s) - k
      BY <1>4, <1>5, <1>9
    <3>3. PICK q \in k + 1 .. k + 1 + BufSize - 2 : q <= Len(s) /\ s[q] = LF
      BY <2>4, <3>2 DEF LinesFit
    <3>4. q - k \in 1 .. Len(s) - k /\ q - k < BufSize /\ k + (q - k) = q
      BY <1>4, <3>3, SizesAssumption
    <3>5. s[k + n] = LF
      BY <1>5, <3>3, <3>4
    <3> QED
      BY <1>2, <1>5, <2>1, <2>2, <2>4, <3>1, <3>2, <3>5, PieceSplit
  <2>5. given' \in Seq(Seq(Byte))
    BY <1>2, <1>7, <2>1
  <2>6. PICK q \in 0 .. Len(s) : q = k + n
    BY <2>1
  <2>7. TakenAre(q)'
    BY <1>1, <1>6, <2>3, <2>4, <2>6 DEF TakenAre, s
  <2> QED
    BY <1>1, <1>2, <2>5, <2>7 DEF TInv, s
<1> QED
  BY <1>8, <1>9

LEMMA TakenInvariance ==
  ASSUME BufSize - 1 <= CountMax
  PROVE  Spec => []TInv
<1>1. ASSUME Init PROVE TInv
  <2>1. PICK b \in Beginning : memory = b.memory /\ typed = b.typed
    BY <1>1 DEF Init
  <2>2. typed \in Seq(Byte) /\ stdin = typed /\ given = <<>>
    BY <1>1, <2>1, BeginningAssumption DEF Init, Byte
  <2>3. SubSeq(typed, 1, 0) = <<>> /\ SubSeq(typed, 0 + 1, Len(typed)) = typed
    BY <2>2, SubSeqEmpty, SubSeqFull
  <2>4. Append(given, <<>>) = << <<>> >>
    BY <2>2
  <2>5. TakenAre(0)
    BY <2>2, <2>3, <2>4, NoText DEF TakenAre
  <2> QED
    BY <2>2, <2>5 DEF TInv
<1>2. ASSUME IInv, TInv, [Next]_vars PROVE TInv'
  <2>1. CASE \E b \in Buffers : BufferedInput(b)
    BY <1>2, <2>1, BufferedInputTaken
  <2>2. CASE ~\E b \in Buffers : BufferedInput(b)
    <3>1. UNCHANGED <<typed, stdin, given>>
      BY <1>2, <2>2 DEF Next, Output, ConsoleOutput, OutputString, PutNext, OutputDone, vars
    <3> QED
      BY <1>2, <3>1 DEF TInv, TakenAre
  <2> QED
    BY <2>1, <2>2
<1> QED
  BY <1>1, <1>2, Invariance, PTL DEF Spec

(* What was taken is what is not in the host's input any more. *)
LEMMA ConsumedIs ==
  ASSUME typed \in Seq(Byte), NEW k \in 0 .. Len(typed), TakenAre(k)
  PROVE  Consumed = SubSeq(typed, 1, k)
<1> DEFINE N == Len(typed) - k
<1>1. N \in 0 .. Len(typed) - k /\ k + N = Len(typed) /\ Len(typed) - N = k
  OBVIOUS
<1>2. stdin = SubSeq(typed, k + 1, k + N)
  BY <1>1 DEF TakenAre
<1> HIDE DEF N
<1>3. Len(stdin) = N
  BY <1>1, <1>2, PieceIs
<1> QED
  BY <1>1, <1>3 DEF Consumed

(***************************************************************************)
(* bdos_buffered_console_input: if the host's buffer holds no more than    *)
(* the count can say, as 256 and 255 do, then whatever is typed (without   *)
(* NUL and CR) reaches the guest's memory complete, once and in order,     *)
(* however it is cut into pieces.                                          *)
(***************************************************************************)
THEOREM TypedArrives ==
  ASSUME BufSize - 1 <= CountMax
  PROVE  Spec => []InputConserved
<1>1. TInv => InputConserved
  BY ConsumedIs DEF TInv, TakenAre, InputConserved
<1> QED
  BY <1>1, TakenInvariance, PTL

(***************************************************************************)
(* bdos_buffered_console_input: lines that fit the host's buffer arrive    *)
(* one per call, each without its LF or CR LF.                             *)
(***************************************************************************)
THEOREM OneLinePerCall ==
  ASSUME BufSize - 1 <= CountMax
  PROVE  Spec => []LineByLine
<1>1. ASSUME TInv, LinesFit(typed) PROVE given = Front(SplitLines(Consumed))
  <2>1. PICK k \in 0 .. Len(typed) : TakenAre(k)
    BY <1>1 DEF TInv
  <2>2. SplitLines(Consumed) = Append(given, <<>>)
    BY <1>1, <2>1, ConsumedIs DEF TInv, TakenAre
  <2>3. Front(Append(given, <<>>)) = given
    <3> DEFINE g == given
               u == Append(g, <<>>)
    <3>1. g \in Seq(Seq(Byte)) /\ <<>> \in Seq(Byte)
      BY <1>1 DEF TInv
    <3> HIDE DEF g
    <3>2. /\ u \in Seq(Seq(Byte)) /\ Len(u) = Len(g) + 1 /\ Len(g) \in Nat
          /\ \A i \in 1 .. Len(g) : u[i] = g[i]
      BY <3>1, AppendProperties
    <3>3. Front(u) = SubSeq(u, 1, Len(g))
      BY <3>2 DEF Front
    <3> HIDE DEF u
    <3>4. \A i \in 1 .. Len(g) : u[i] \in Seq(Byte)
      BY <3>1, <3>2
    <3>5. /\ SubSeq(u, 1, Len(g)) \in Seq(Seq(Byte)) /\ Len(SubSeq(u, 1, Len(g))) = Len(g)
          /\ \A i \in 1 .. Len(g) : SubSeq(u, 1, Len(g))[i] = g[i]
      BY <3>2
    <3>6. SubSeq(u, 1, Len(g)) = g
      BY <3>1, <3>5, SeqEqual
    <3> QED
      BY <3>3, <3>6 DEF u, g
  <2> QED
    BY <2>2, <2>3
<1>2. TInv => LineByLine
  BY <1>1 DEF LineByLine
<1> QED
  BY <1>2, TakenInvariance, PTL
=============================================================================
