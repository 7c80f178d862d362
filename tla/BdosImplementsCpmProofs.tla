----------------------- MODULE BdosImplementsCpmProofs -----------------------
(***************************************************************************)
(* Every file call of the BDOS emulation is one step of CpmFiles, for any  *)
(* record size, table, FCBs, files and streams.                            *)
(***************************************************************************)
EXTENDS BdosImplementsCpm, BdosFilesProofs, FiniteSetTheorems

-----------------------------------------------------------------------------
(* Records. *)

(* A later record begins where an earlier one has ended. *)
LEMMA Blocks ==
  ASSUME NEW m \in Nat, NEW n \in Nat, m < n
  PROVE  RecordSize * m + RecordSize <= RecordSize * n
<1>1. RecordSize \in Nat /\ n - m - 1 \in Nat
  BY RecordSizeAssumption
<1>2. RecordSize * (n - m - 1) >= 0
  BY <1>1
<1>3. RecordSize * (n - m - 1) = RecordSize * n - RecordSize * m - RecordSize
  BY <1>1
<1> QED
  BY <1>1, <1>2, <1>3

(* The number of records in so many whole ones. *)
LEMMA RecordsOfWhole ==
  ASSUME NEW q \in Nat
  PROVE  RecordSize * q \in Nat /\ (RecordSize * q) \div RecordSize = q
<1>1. RecordSize \in Nat /\ RecordSize > 0 /\ RecordSize * q \in Nat
  BY RecordSizeAssumption
<1>2. 0 \in 0 .. RecordSize - 1
  BY <1>1
<1>3. (RecordSize * q + 0) \div RecordSize = q
  BY <1>1, <1>2, Quotient
<1>4. RecordSize * q + 0 = RecordSize * q
  BY <1>1
<1> QED
  BY <1>1, <1>3, <1>4

(* A whole number is so many records. *)
LEMMA WholeIs ==
  ASSUME NEW n \in Nat, Whole(n)
  PROVE  n \div RecordSize \in Nat /\ n = RecordSize * (n \div RecordSize)
<1>1. RecordSize \in Nat /\ RecordSize > 0
  BY RecordSizeAssumption
<1> DEFINE q == n \div RecordSize
<1>2. n = RecordSize * q + (n % RecordSize) /\ q \in Int
  BY <1>1, Division
<1>3. n % RecordSize = 0
  BY DEF Whole
<1> HIDE DEF q
<1>4. n = RecordSize * q
  BY <1>1, <1>2, <1>3
<1>5. q >= 0
  <2> SUFFICES ASSUME q <= -1 PROVE FALSE
    BY <1>2
  <2>1. RecordSize * (-1 - q) >= 0
    BY <1>1, <1>2
  <2>2. RecordSize * (-1 - q) = -RecordSize - RecordSize * q
    BY <1>1, <1>2
  <2> QED
    BY <1>1, <1>2, <1>4, <2>1, <2>2
<1> QED
  BY <1>2, <1>4, <1>5 DEF q

(* Bytes of records. *)
LEMMA RecordsThere ==
  ASSUME NEW c \in Seq(Byte), NEW m \in Nat, Len(c) = RecordSize * m
  PROVE  /\ RecordsOf(c) = [r \in 1 .. m |-> SubSeq(c, (r - 1) * RecordSize + 1, r * RecordSize)]
         /\ Len(RecordsOf(c)) = m
         /\ \A r \in 1 .. m : /\ RecordsOf(c)[r] \in Record
                              /\ \A j \in 1 .. RecordSize :
                                   /\ RecordSize * (r - 1) + j \in 1 .. Len(c)
                                   /\ RecordsOf(c)[r][j] = c[RecordSize * (r - 1) + j]
<1>0. RecordSize \in Nat /\ RecordSize > 0
  BY RecordSizeAssumption
<1>1. Len(c) \div RecordSize = m
  BY RecordsOfWhole
<1>2. RecordsOf(c) = [r \in 1 .. m |-> SubSeq(c, (r - 1) * RecordSize + 1, r * RecordSize)]
  BY <1>1 DEF RecordsOf
<1>3. ASSUME NEW r \in 1 .. m
      PROVE  /\ RecordsOf(c)[r] \in Record
             /\ \A j \in 1 .. RecordSize :
                  /\ RecordSize * (r - 1) + j \in 1 .. Len(c)
                  /\ RecordsOf(c)[r][j] = c[RecordSize * (r - 1) + j]
  <2> DEFINE b == RecordSize * (r - 1)
             rec == SubSeq(c, b + 1, b + RecordSize)
  <2>1. b \in Nat /\ b + RecordSize <= Len(c)
    <3>1. r - 1 \in Nat /\ r - 1 < m
      OBVIOUS
    <3>2. b + RecordSize <= RecordSize * m
      BY <3>1, Blocks
    <3>3. b \in Nat
      BY <1>0, <3>1
    <3> QED
      BY <3>2, <3>3
  <2>2. RecordsOf(c)[r] = rec
    <3>1. (r - 1) * RecordSize = b /\ r * RecordSize = b + RecordSize
      BY <1>0
    <3> QED
      BY <1>2, <3>1
  <2> HIDE DEF b
  <2>3. \A i \in b + 1 .. b + RecordSize : c[i] \in Byte
    <3>1. \A i \in b + 1 .. b + RecordSize : i \in 1 .. Len(c)
      BY <1>0, <2>1
    <3> QED
      BY <3>1, ElementOfSeq
  <2>4. /\ rec \in Seq(Byte) /\ Len(rec) = RecordSize
        /\ \A j \in 1 .. RecordSize : rec[j] = c[b + j]
    <3>1. PICK x \in Int, y \in Int : x = b + 1 /\ y = b + RecordSize
      BY <1>0, <2>1
    <3>2. /\ x <= y /\ y - x + 1 = RecordSize
          /\ \A j \in 1 .. RecordSize : x + j - 1 = b + j
      BY <1>0, <2>1, <3>1
    <3>3. /\ SubSeq(c, x, y) \in Seq(Byte)
          /\ Len(SubSeq(c, x, y)) = IF x <= y THEN y - x + 1 ELSE 0
          /\ \A j \in 1 .. y - x + 1 : SubSeq(c, x, y)[j] = c[x + j - 1]
      BY <2>3, <3>1, SubSeqProperties
    <3> QED
      BY <3>1, <3>2, <3>3
  <2>5. \A j \in 1 .. RecordSize : b + j \in 1 .. Len(c)
    BY <1>0, <2>1
  <2> QED
    BY <2>2, <2>4, <2>5 DEF Record, b
<1>4. Len(RecordsOf(c)) = m
  BY <1>2
<1> QED
  BY <1>2, <1>3, <1>4

(* Records are equal byte for byte. *)
LEMMA RecordEqual ==
  ASSUME NEW d \in Record, NEW e \in Record, \A j \in 1 .. RecordSize : d[j] = e[j]
  PROVE  d = e
  BY SeqEqual DEF Record

(* A record laid over a file, at or behind one of its records. *)
LEMMA RecordWritten ==
  ASSUME NEW c \in Seq(Byte), Whole(Len(c)), NEW q \in Nat, NEW d \in Record
  PROVE  RecordsOf(Overlay(c, RecordSize * q, d)) = Cpm!WithRecord(RecordsOf(c), q, d)
<1> DEFINE m == Len(c) \div RecordSize
           off == RecordSize * q
           o == Overlay(c, off, d)
           k == IF q + 1 > m THEN q + 1 ELSE m
           old == RecordsOf(c)
           new == Cpm!WithRecord(old, q, d)
<1>0. RecordSize \in Nat /\ RecordSize > 0 /\ 0 \in Byte /\ Len(c) \in Nat
  BY RecordSizeAssumption, ByteAssumption
<1>1. m \in Nat /\ Len(c) = RecordSize * m
  BY <1>0, WholeIs
<1>2. d \in Seq(Byte) /\ Len(d) = RecordSize /\ d # <<>> /\ off \in Nat
  BY <1>0, RecordsOfWhole DEF Record
<1> HIDE DEF m
<1>3. /\ o \in Seq(Byte)
      /\ Len(o) = IF off + RecordSize > Len(c) THEN off + RecordSize ELSE Len(c)
      /\ \A j \in 1 .. Len(o) :
           o[j] = IF off < j /\ j <= off + RecordSize THEN d[j - off]
                  ELSE IF j <= Len(c) THEN c[j] ELSE 0
  <2>1. o \in Seq(Byte)
    BY <1>2, OverlayType
  <2>2. o = [j \in 1 .. (IF off + RecordSize > Len(c) THEN off + RecordSize ELSE Len(c)) |->
              CASE off < j /\ j <= off + RecordSize -> d[j - off]
                [] ~(off < j /\ j <= off + RecordSize) /\ j <= Len(c) -> c[j]
                [] OTHER -> 0]
    BY <1>2 DEF Overlay
  <2> HIDE DEF off, o
  <2>3. Len(o) = IF off + RecordSize > Len(c) THEN off + RecordSize ELSE Len(c)
    BY <1>0, <1>2, <2>2
  <2> QED
    BY <2>1, <2>2, <2>3
<1>4. k \in Nat /\ Len(o) = RecordSize * k
  <2>1. CASE q + 1 > m
    <3>1. RecordSize * (q + 1) = off + RecordSize
      BY <1>0
    <3>2. off + RecordSize >= Len(c)
      <4>1. m <= q
        BY <1>1, <2>1
      <4>2. m = q \/ m < q
        BY <1>1, <4>1
      <4> QED
        BY <1>0, <1>1, <4>2, Blocks
    <3>3. k = q + 1
      BY <2>1
    <3> HIDE DEF o, off, k
    <3>4. Len(o) = off + RecordSize
      BY <1>0, <1>2, <1>3, <3>2
    <3> QED
      BY <3>1, <3>3, <3>4
  <2>2. CASE ~(q + 1 > m)
    <3>1. q < m
      BY <1>1, <2>2
    <3>2. off + RecordSize <= Len(c)
      BY <1>1, <3>1, Blocks
    <3>3. k = m
      BY <2>2
    <3> HIDE DEF o, off, k
    <3>4. Len(o) = Len(c)
      BY <1>0, <1>2, <1>3, <3>2
    <3> QED
      BY <1>1, <3>3, <3>4
  <2> QED
    BY <2>1, <2>2
<1>5. /\ Len(old) = m
      /\ \A r \in 1 .. m : /\ old[r] \in Record
                           /\ \A j \in 1 .. RecordSize :
                                /\ RecordSize * (r - 1) + j \in 1 .. Len(c)
                                /\ old[r][j] = c[RecordSize * (r - 1) + j]
  BY <1>1, RecordsThere
<1>6. /\ RecordsOf(o) = [r \in 1 .. k |-> RecordsOf(o)[r]]
      /\ \A r \in 1 .. k : /\ RecordsOf(o)[r] \in Record
                           /\ \A j \in 1 .. RecordSize :
                                /\ RecordSize * (r - 1) + j \in 1 .. Len(o)
                                /\ RecordsOf(o)[r][j] = o[RecordSize * (r - 1) + j]
  <2> HIDE DEF o, k
  <2>1. RecordsOf(o) = [r \in 1 .. k |-> SubSeq(o, (r - 1) * RecordSize + 1, r * RecordSize)]
    BY <1>3, <1>4, RecordsThere
  <2>2. RecordsOf(o) = [r \in 1 .. k |-> RecordsOf(o)[r]]
    BY <2>1
  <2> QED
    BY <1>3, <1>4, <2>2, RecordsThere
<1>7. Padded(<<>>) \in Record /\ \A j \in 1 .. RecordSize : Padded(<<>>)[j] = 0
  BY <1>0, PaddedType DEF Padded
<1>8. new = [r \in 1 .. k |-> IF r = q + 1 THEN d ELSE IF r <= m THEN old[r] ELSE Padded(<<>>)]
  <2> HIDE DEF old, m
  <2> QED
    BY <1>5 DEF Cpm!WithRecord
<1>9. ASSUME NEW r \in 1 .. k PROVE RecordsOf(o)[r] = new[r]
  <2> DEFINE b == RecordSize * (r - 1)
  <2>0. /\ RecordsOf(o)[r] \in Record
        /\ \A j \in 1 .. RecordSize : b + j \in 1 .. Len(o) /\ RecordsOf(o)[r][j] = o[b + j]
    BY <1>6
  <2>0b. b \in Nat
    BY <1>0
  <2> HIDE DEF k, o, old, new
  <2>1. CASE r = q + 1
    <3>1. b = off
      BY <2>1
    <3>2. \A j \in 1 .. RecordSize :
            /\ b + j \in 1 .. Len(o) /\ off < b + j /\ b + j <= off + RecordSize
            /\ b + j - off = j
      <4> HIDE DEF b, off
      <4> QED
        BY <1>0, <1>2, <2>0, <2>0b, <3>1
    <3>3. \A j \in 1 .. RecordSize : RecordsOf(o)[r][j] = d[j]
      <4> HIDE DEF b, off
      <4> SUFFICES ASSUME NEW j \in 1 .. RecordSize PROVE RecordsOf(o)[r][j] = d[j]
        OBVIOUS
      <4>1. PICK i \in 1 .. Len(o) : i = b + j
        BY <2>0
      <4>2. off < i /\ i <= off + RecordSize /\ i - off = j
        BY <1>0, <1>2, <2>0b, <3>1, <4>1
      <4>3. o[i] = d[j]
        BY <1>3, <4>2
      <4> QED
        BY <2>0, <4>1, <4>3
    <3>4. new[r] = d
      BY <1>8, <2>1
    <3> QED
      BY <2>0, <3>3, <3>4, RecordEqual
  <2>2. CASE r # q + 1
    <3>1. \A j \in 1 .. RecordSize : ~(off < b + j /\ b + j <= off + RecordSize)
      <4>1. r - 1 \in Nat /\ (r - 1 < q \/ q < r - 1)
        BY <2>2
      <4>2. b + RecordSize <= off \/ off + RecordSize <= b
        BY <4>1, Blocks
      <4> HIDE DEF b, off
      <4> QED
        BY <1>0, <1>2, <2>0b, <4>2
    <3>2. \A j \in 1 .. RecordSize :
            RecordsOf(o)[r][j] = IF b + j <= Len(c) THEN c[b + j] ELSE 0
      <4> HIDE DEF b, off
      <4> QED
        BY <1>3, <2>0, <3>1
    <3>3. CASE r <= m
      <4>1. r \in 1 .. m
        BY <1>1, <3>3
      <4>2. /\ old[r] \in Record
            /\ \A j \in 1 .. RecordSize : b + j \in 1 .. Len(c) /\ old[r][j] = c[b + j]
        BY <1>5, <4>1
      <4>3. new[r] = old[r]
        BY <1>8, <2>2, <3>3
      <4> HIDE DEF b
      <4>4. \A j \in 1 .. RecordSize : RecordsOf(o)[r][j] = old[r][j]
        BY <3>2, <4>2
      <4> QED
        BY <2>0, <4>2, <4>3, <4>4, RecordEqual
    <3>4. CASE ~(r <= m)
      <4>1. Len(c) <= b
        <5>1. m <= r - 1 /\ r - 1 \in Nat
          BY <1>1, <3>4
        <5>2. m = r - 1 \/ m < r - 1
          BY <1>1, <5>1
        <5> QED
          BY <1>0, <1>1, <5>1, <5>2, Blocks
      <4>2. new[r] = Padded(<<>>)
        BY <1>8, <2>2, <3>4
      <4> HIDE DEF b
      <4>3. \A j \in 1 .. RecordSize : RecordsOf(o)[r][j] = Padded(<<>>)[j]
        BY <1>0, <1>7, <2>0b, <3>2, <4>1
      <4> QED
        BY <1>7, <2>0, <4>2, <4>3, RecordEqual
    <3> QED
      BY <3>3, <3>4
  <2> QED
    BY <2>1, <2>2
<1>10. RecordsOf(o) = new
  <2>1. new = [r \in 1 .. k |-> new[r]]
    BY <1>8
  <2> HIDE DEF k, o, new
  <2> QED
    BY <1>6, <1>9, <2>1
<1> QED
  BY <1>10

-----------------------------------------------------------------------------
(* What a guest sees through a stream. *)

Shown(c, st) == Overlay(c, st.off, Pending(st))

(* Where writing goes on: behind what is pending. *)
Placed(st) == st.mode = "write" => st.pos = st.off + Len(st.buf)

LEMMA NothingPending ==
  ASSUME NEW c, NEW st, Pending(st) = <<>>
  PROVE  Shown(c, st) = c
  BY DEF Shown, Overlay

LEMMA ShownType ==
  ASSUME NEW c \in Seq(Byte), NEW st \in Stream
  PROVE  Shown(c, st) \in Seq(Byte)
<1>1. Pending(st) \in Seq(Byte) /\ st.off \in Nat
  BY EffectiveType DEF Stream
<1> QED
  BY <1>1, OverlayType DEF Shown

LEMMA ShownWhole ==
  ASSUME NEW c \in Seq(Byte), NEW st \in Stream, Whole(Len(c)), WholeStream(st)
  PROVE  Whole(Len(Shown(c, st)))
<1>1. Pending(st) \in Seq(Byte) /\ st.off \in Nat /\ Whole(st.off)
  BY EffectiveType DEF Stream, WholeStream
<1>2. Whole(Len(Pending(st)))
  BY WholeSums DEF WholeStream, Pending
<1> QED
  BY <1>1, <1>2, OverlayWhole DEF Shown

(* A flush gives the host what was shown. *)
LEMMA FlushShows ==
  ASSUME ~DiskFull, NEW c, NEW st \in Stream, NEW k \in FlushLengths(st)
  PROVE  /\ k = Len(Pending(st)) /\ FlushOK(st, k)
         /\ Flushed(c, st, k) = Shown(c, st)
<1>1. k = Len(Pending(st))
  BY DEF FlushLengths
<1>2. Pending(st) \in Seq(Byte)
  BY DEF Pending, Stream
<1>3. SubSeq(Pending(st), 1, Len(Pending(st))) = Pending(st)
  BY <1>2, SubSeqFull
<1> QED
  BY <1>1, <1>3 DEF Flushed, Shown, FlushOK

(* Bytes laid behind others are laid over the result. *)
LEMMA OverlayTwice ==
  ASSUME NEW c \in Seq(Byte), NEW d \in Seq(Byte), NEW e \in Seq(Byte),
         NEW off \in Nat, e # <<>>
  PROVE  Overlay(c, off, d \o e) = Overlay(Overlay(c, off, d), off + Len(d), e)
<1> DEFINE m == Len(d)
           n == Len(e)
           l == Len(c)
           de == d \o e
           one == Overlay(c, off, d)
<1>1. m \in Nat /\ n \in Nat /\ n > 0 /\ l \in Nat /\ Len(<<>>) = 0
  BY EmptySeq
<1>2. /\ de \in Seq(Byte) /\ Len(de) = m + n
      /\ \A i \in 1 .. m + n : de[i] = IF i <= m THEN d[i] ELSE e[i - m]
  BY ConcatProperties
<1>3. de # <<>>
  BY <1>1, <1>2
<1> HIDE DEF de
<1>4. CASE d = <<>>
  <2>1. one = c
    BY <1>4 DEF Overlay
  <2>2. de = e
    BY <1>4, ConcatEmptySeq DEF de
  <2>3. off + m = off
    BY <1>1, <1>4
  <2> QED
    BY <2>1, <2>2, <2>3 DEF de
<1>5. CASE d # <<>>
  <2> DEFINE a == IF off + m > l THEN off + m ELSE l
             b == IF off + m + n > a THEN off + m + n ELSE a
             z == IF off + (m + n) > l THEN off + (m + n) ELSE l
  <2>1. /\ one = [j \in 1 .. a |-> CASE off < j /\ j <= off + m -> d[j - off]
                                    [] ~(off < j /\ j <= off + m) /\ j <= l -> c[j]
                                    [] OTHER -> 0]
    BY <1>5 DEF Overlay
  <2>2. a \in Nat /\ b \in Nat /\ b = z
    BY <1>1
  <2>3. Len(one) = a
    BY <2>1, <2>2
  <2>4. \A j \in 1 .. a : one[j] = IF off < j /\ j <= off + m THEN d[j - off]
                                   ELSE IF j <= l THEN c[j] ELSE 0
    BY <2>1
  <2> HIDE DEF a, one, m, l
  <2>5. Overlay(one, off + m, e) =
          [j \in 1 .. b |-> CASE off + m < j /\ j <= off + m + n -> e[j - (off + m)]
                              [] ~(off + m < j /\ j <= off + m + n) /\ j <= a -> one[j]
                              [] OTHER -> 0]
    BY <2>3 DEF Overlay
  <2>6. Overlay(c, off, de) =
          [j \in 1 .. z |-> CASE off < j /\ j <= off + (m + n) -> de[j - off]
                              [] ~(off < j /\ j <= off + (m + n)) /\ j <= l -> c[j]
                              [] OTHER -> 0]
    BY <1>2, <1>3 DEF Overlay, l
  <2> HIDE DEF n, b, z
  <2>7. ASSUME NEW j \in 1 .. b
        PROVE  Overlay(one, off + m, e)[j] = Overlay(c, off, de)[j]
    <3>0. j \in Nat /\ j >= 1 /\ j <= b
      BY <2>2
    <3>1. CASE j <= off
      <4>1. Overlay(c, off, de)[j] = IF j <= l THEN c[j] ELSE 0
        BY <1>1, <2>2, <2>6, <3>0, <3>1
      <4>2. Overlay(one, off + m, e)[j] = IF j <= a THEN one[j] ELSE 0
        BY <1>1, <2>2, <2>5, <3>0, <3>1
      <4>3. j <= a => one[j] = IF j <= l THEN c[j] ELSE 0
        BY <2>2, <2>4, <3>0, <3>1
      <4>4. l <= a
        BY <1>1 DEF a
      <4> QED
        BY <1>1, <2>2, <3>0, <4>1, <4>2, <4>3, <4>4
    <3>2. CASE off < j /\ j <= off + m
      <4>1. j - off \in 1 .. m /\ j - off \in 1 .. m + n /\ j <= a /\ j <= off + (m + n)
        BY <1>1, <3>0, <3>2 DEF a
      <4>2. Overlay(c, off, de)[j] = d[j - off]
        BY <1>2, <2>2, <2>6, <3>0, <3>2, <4>1
      <4>3. one[j] = d[j - off]
        BY <2>2, <2>4, <3>0, <3>2, <4>1
      <4>4. Overlay(one, off + m, e)[j] = one[j]
        <5>1. ~(off + m < j)
          BY <1>1, <3>0, <3>2
        <5>2. Overlay(one, off + m, e)[j] = IF j <= a THEN one[j] ELSE 0
          BY <2>5, <5>1
        <5> QED
          BY <4>1, <5>2
      <4> QED
        BY <4>2, <4>3, <4>4
    <3>3. CASE off + m < j /\ j <= off + m + n
      <4>1. /\ j - off \in 1 .. m + n /\ ~(j - off <= m) /\ off < j
            /\ j <= off + (m + n) /\ j - off - m = j - (off + m)
        BY <1>1, <3>0, <3>3
      <4>2. Overlay(c, off, de)[j] = e[j - (off + m)]
        BY <1>2, <2>2, <2>6, <3>0, <4>1
      <4>3. Overlay(one, off + m, e)[j] = e[j - (off + m)]
        BY <2>5, <3>3
      <4> QED
        BY <4>2, <4>3
    <3>4. CASE off + m + n < j
      <4>1. ~(j <= off + (m + n)) /\ ~(j <= off + m) /\ j <= a /\ j <= l
        BY <1>1, <2>2, <3>0, <3>4 DEF a, b
      <4>2. Overlay(c, off, de)[j] = c[j]
        BY <2>2, <2>6, <3>0, <4>1
      <4>3. one[j] = c[j]
        BY <2>2, <2>4, <3>0, <4>1
      <4>4. Overlay(one, off + m, e)[j] = one[j]
        BY <1>1, <2>2, <2>5, <3>0, <3>4, <4>1
      <4> QED
        BY <4>2, <4>3, <4>4
    <3> QED
      BY <1>1, <3>0, <3>1, <3>2, <3>3, <3>4
  <2>8. Overlay(one, off + m, e) = Overlay(c, off, de)
    BY <2>2, <2>5, <2>6, <2>7
  <2> QED
    BY <2>8 DEF one, m, de
<1> QED
  BY <1>4, <1>5

(* fwrite shows its record at the position. *)
LEMMA WriteShows ==
  ASSUME NEW c \in Seq(Byte), NEW st \in Stream, Placed(st), NEW d \in Record
  PROVE  /\ Shown(c, AfterWrite(st, d)) = Overlay(Shown(c, st), st.pos, d)
         /\ Placed(AfterWrite(st, d))
         /\ AfterWrite(st, d).pos = st.pos + RecordSize
<1>1. d \in Seq(Byte) /\ Len(d) = RecordSize /\ d # <<>>
  BY RecordSizeAssumption DEF Record
<1>2. st.off \in Nat /\ st.pos \in Nat /\ st.buf \in Seq(Byte)
  BY DEF Stream
<1>3. /\ AfterWrite(st, d).pos = st.pos + Len(d)
      /\ AfterWrite(st, d).off = IF st.mode = "write" THEN st.off ELSE st.pos
      /\ AfterWrite(st, d).buf = IF st.mode = "write" THEN st.buf \o d ELSE d
      /\ AfterWrite(st, d).mode = "write"
  BY DEF AfterWrite, Stream
<1>4. CASE st.mode = "write"
  <2>1. Shown(c, AfterWrite(st, d)) = Overlay(c, st.off, st.buf \o d)
    BY <1>3, <1>4 DEF Shown, Pending
  <2>2. Shown(c, st) = Overlay(c, st.off, st.buf) /\ st.pos = st.off + Len(st.buf)
    BY <1>4 DEF Shown, Pending, Placed
  <2>3. Shown(c, AfterWrite(st, d)) = Overlay(Shown(c, st), st.pos, d)
    <3>1. Overlay(c, st.off, st.buf \o d)
            = Overlay(Overlay(c, st.off, st.buf), st.off + Len(st.buf), d)
      BY <1>1, <1>2, OverlayTwice
    <3> QED
      BY <2>1, <2>2, <3>1
  <2>4. Len(st.buf \o d) = Len(st.buf) + Len(d) /\ Len(st.buf) \in Nat /\ Len(d) \in Nat
    BY <1>1, <1>2
  <2>5. Placed(AfterWrite(st, d))
    BY <1>2, <1>3, <1>4, <2>2, <2>4 DEF Placed
  <2> QED
    BY <1>1, <1>3, <2>3, <2>5
<1>5. CASE st.mode # "write"
  <2>1. Shown(c, st) = c
    BY <1>5, NothingPending DEF Pending
  <2>2. Shown(c, AfterWrite(st, d)) = Overlay(c, st.pos, d)
    BY <1>3, <1>5 DEF Shown, Pending
  <2>3. Placed(AfterWrite(st, d))
    BY <1>3, <1>5 DEF Placed
  <2> QED
    BY <1>1, <1>3, <2>1, <2>2, <2>3
<1> QED
  BY <1>4, <1>5

(* fread delivers the record at the position, or nothing at the end. *)
LEMMA RecordRead ==
  ASSUME NEW c \in Seq(Byte), Whole(Len(c)), NEW st \in Stream, Whole(st.pos),
         Current(c, st)
  PROVE  LET q == st.pos \div RecordSize
             recs == RecordsOf(c)
         IN  /\ q \in Nat /\ Len(recs) \in Nat
             /\ q < Len(recs) => /\ ReadCount(c, st) = RecordSize
                                 /\ Padded(ReadBytes(c, st)) = recs[q + 1]
             /\ ~(q < Len(recs)) => ReadCount(c, st) = 0
<1> DEFINE q == st.pos \div RecordSize
           m == Len(c) \div RecordSize
           recs == RecordsOf(c)
<1>0. RecordSize \in Nat /\ RecordSize > 0 /\ Len(c) \in Nat /\ st.pos \in Nat
  BY RecordSizeAssumption DEF Stream
<1>1. q \in Nat /\ st.pos = RecordSize * q
  BY <1>0, WholeIs
<1>2. m \in Nat /\ Len(c) = RecordSize * m
  BY <1>0, WholeIs
<1> HIDE DEF m, q
<1>3. Len(recs) = m
  BY <1>2, RecordsThere
<1>4. ReadCount(c, st) = LET left == Len(c) - st.pos
                         IN  CASE left <= 0 -> 0
                               [] left \in 1 .. RecordSize -> left
                               [] OTHER -> RecordSize
  BY EffectiveCurrent DEF ReadCount
<1>5. ASSUME q < m
      PROVE  /\ ReadCount(c, st) = RecordSize
             /\ Padded(ReadBytes(c, st)) = recs[q + 1]
  <2>1. st.pos + RecordSize <= Len(c)
    BY <1>1, <1>2, <1>5, Blocks
  <2>2. ReadCount(c, st) = RecordSize
    BY <1>0, <1>4, <2>1
  <2>3. ReadBytes(c, st) = SubSeq(c, st.pos + 1, st.pos + RecordSize)
    BY <2>2, EffectiveCurrent DEF ReadBytes
  <2>4. q + 1 \in 1 .. m
    BY <1>1, <1>2, <1>5
  <2>5. recs[q + 1] \in Record
        /\ recs = [r \in 1 .. m |-> SubSeq(c, (r - 1) * RecordSize + 1, r * RecordSize)]
    BY <1>2, <2>4, RecordsThere
  <2>6. recs[q + 1] = SubSeq(c, st.pos + 1, st.pos + RecordSize)
    <3>1. PICK r \in 1 .. m : r = q + 1
      BY <2>4
    <3>2. (r - 1) * RecordSize = st.pos /\ r * RecordSize = st.pos + RecordSize
      BY <1>0, <1>1, <3>1
    <3> QED
      BY <2>5, <3>1, <3>2
  <2>7. \A rec \in Record : Padded(rec) = rec
    <3> SUFFICES ASSUME NEW rec \in Record PROVE Padded(rec) = rec
      OBVIOUS
    <3>1. Padded(rec) \in Record
      BY PaddedType DEF Record
    <3>2. \A j \in 1 .. RecordSize : Padded(rec)[j] = rec[j]
      BY <1>0 DEF Padded, Record
    <3> QED
      BY <3>1, <3>2, RecordEqual
  <2> QED
    BY <2>2, <2>3, <2>5, <2>6, <2>7
<1>6. ASSUME ~(q < m) PROVE ReadCount(c, st) = 0
  <2>1. m = q \/ m < q
    BY <1>1, <1>2, <1>6
  <2>2. Len(c) <= st.pos
    BY <1>0, <1>1, <1>2, <2>1, Blocks
  <2> QED
    BY <1>0, <1>4, <2>2
<1> QED
  BY <1>1, <1>2, <1>3, <1>5, <1>6 DEF q

-----------------------------------------------------------------------------
(* The invariant. *)

(***************************************************************************)
(* The promises of the host and of the guest under which the calls         *)
(* implement CpmFiles.                                                     *)
(***************************************************************************)
Promises ==
  /\ ~DiskFull /\ ~HostRefuses
  /\ SwitchOutcomes = {"works"}
  /\ ~SharedFiles
  /\ \A f \in DOMAIN InitialFile : Whole(Len(InitialFile[f]))
  /\ IsFiniteSet(Handle)
  /\ MaxOpen <= Cardinality(Handle)
  /\ MaxOpen <= MAX_OPEN_FILES

(* An open stream is open on a file of the directory, ...                  *)
Listed ==
  \A h \in Handle :
    stream[h].mode # "closed" => \E f \in HostFile : dir[f] = stream[h].ino

(* ... which has one entry there, ...                                      *)
Distinct ==
  \A f, g \in HostFile : dir[f] # NoInode /\ dir[f] = dir[g] => f = g

(* ... and its position is where the next record goes.                     *)
AllPlaced == \A h \in Handle : Placed(stream[h])

RInv ==
  /\ IInv /\ Exclusive /\ ReadsCurrent /\ Aligned /\ ClosedEmpty
  /\ Listed /\ Distinct /\ AllPlaced

(* No move puts a stream's position elsewhere. *)
LEMMA MovedPlaced ==
  ASSUME NEW c \in Seq(Byte), NEW st \in Stream, Placed(st), NEW c2, NEW st2,
         Moved(c, st, c2, st2)
  PROVE  Placed(st2)
<1>1. ASSUME NEW c1 \in Seq(Byte), NEW st1 \in Stream, Reads(c1, st1, st2)
      PROVE  Placed(st2)
  <2>1. PICK end \in BufferEnds(c1, st1) :
          \/ st2 = AfterRead(c1, st1, end)
          \/ \E r \in RandomRecord :
               st2 = Seeked(AfterRead(c1, st1, end), RecordOffset(r))
    BY <1>1 DEF Reads
  <2> DEFINE read == AfterRead(c1, st1, end)
  <2>2. read \in Stream /\ read.mode # "write"
    BY AfterReadType
  <2> HIDE DEF read
  <2>3. st2.mode # "write"
    BY <2>1, <2>2, OffsetType, SimpleStreamTypes DEF read
  <2> QED
    BY <2>3 DEF Placed
<1>2. ASSUME NEW st1, Flushes(c, st, c2, st1)
      PROVE  c2 \in Seq(Byte) /\ Placed(st1)
  <2>1. PICK k \in FlushLengths(st) :
          /\ c2 = Flushed(c, st, k)
          /\ \/ st1 = Seeked(st, st.off + k)
             \/ \E r \in RandomRecord : st1 = Seeked(st, RecordOffset(r))
    BY <1>2 DEF Flushes
  <2>2. /\ c2 \in Seq(Byte)
        /\ k \in 0 .. Len(Pending(st)) /\ Pending(st) \in Seq(Byte)
    BY <2>1, FlushedType, EffectiveType
  <2>3. st.off + k \in Nat
    BY <2>2 DEF Stream
  <2>4. st1.mode = "idle"
    BY <2>1, <2>2, <2>3, OffsetType, SimpleStreamTypes
  <2> QED
    BY <2>2, <2>4 DEF Placed
<1>3. CASE Writes(c, st, c2, st2)
  <2>1. PICK d \in Record :
          \/ st2 = AfterWrite(st, d)
          \/ \E k \in FlushLengths(AfterWrite(st, d)) :
               st2 = Drained(AfterWrite(st, d), k)
          \/ /\ st.mode = "read" /\ RoomInReadBuffer(st, d)
             /\ st2 = AfterDroppedWrite(st, d)
    BY <1>3 DEF Writes
  <2> DEFINE new == AfterWrite(st, d)
  <2>2. /\ new \in Stream
        /\ RoomInReadBuffer(st, d) => AfterDroppedWrite(st, d).mode = st.mode
    BY AfterWriteType DEF Record
  <2>3. Placed(new)
    BY WriteShows
  <2>4. ASSUME NEW k \in FlushLengths(new) PROVE Placed(Drained(new, k))
    <3> HIDE DEF new
    <3>1. k \in Nat /\ new.off \in Nat
      BY <2>2, EffectiveType, FlushedType DEF Stream
    <3>2. PICK p \in Nat : p = new.off + k
      BY <3>1
    <3>3. Drained(new, k) = [new EXCEPT !.pos = p, !.off = p, !.buf = <<>>]
      BY <3>2 DEF Drained
    <3>4. /\ Drained(new, k).pos = p /\ Drained(new, k).off = p
          /\ Drained(new, k).buf = <<>>
      BY <2>2, <3>3 DEF Stream
    <3> QED
      BY <3>2, <3>4, EmptySeq DEF Placed
  <2> HIDE DEF new
  <2>5. CASE /\ st.mode = "read" /\ RoomInReadBuffer(st, d)
             /\ st2 = AfterDroppedWrite(st, d)
    BY <2>2, <2>5 DEF Placed
  <2> QED
    BY <2>1, <2>3, <2>4, <2>5 DEF new
<1>4. CASE Closes(c, st, c2, st2)
  BY <1>4 DEF Closes, ClosedStream, Placed
<1> QED
  BY <1>1, <1>2, <1>3, <1>4 DEF Moved

LEMMA PlacedStep ==
  ASSUME IInv, AllPlaced, [Next]_vars
  PROVE  AllPlaced'
<1> SUFFICES ASSUME NEW h \in Handle PROVE Placed(stream'[h])
  BY DEF AllPlaced
<1>1. Placed(stream[h]) /\ Placed(ClosedStream) /\ \A i : Placed(Opened(i))
  BY DEF AllPlaced, Placed, ClosedStream, Opened
<1>2. CASE MovedStream(h)
  <2>1. stream[h] \in Stream /\ content[stream[h].ino] \in Seq(Byte)
    BY <1>2, Types DEF MovedStream, IInv, StreamsHaveFiles, Streams, Files
  <2> QED
    BY <1>1, <1>2, <2>1, MovedPlaced DEF MovedStream
<1> QED
  BY <1>1, <1>2, StepShape DEF Killed, StreamsStep, OpenedStream

(* Every open stream was open, on the file it is on. *)
StreamsStay ==
  \A g \in Handle : \/ stream'[g].mode = "closed"
                    \/ /\ stream[g].mode # "closed"
                       /\ stream'[g].ino = stream[g].ino

LEMMA OneStreamStays ==
  ASSUME "dropped" \notin SwitchOutcomes, IInv, ReadsCurrent,
         UNCHANGED <<content, stream>> \/ \E h \in Handle : OneStream(h)
  PROVE  StreamsStay
<1>1. CASE UNCHANGED stream
  BY <1>1 DEF StreamsStay
<1>2. ASSUME NEW h \in Handle, OneStream(h) PROVE StreamsStay
  <2>1. \A g \in Handle : OpenedStream(g) => g # h /\ stream[g].mode = "closed"
                                                  /\ stream'[g] = stream[g]
    BY <1>2 DEF OneStream, OpenedStream
  <2> QED
    BY <1>2, <2>1, OneStreamStep, SameFile DEF StreamsStay
<1> QED
  BY <1>1, <1>2

(* fcb_alloc opens no other stream than the new one. *)
LEMMA AllocOpens ==
  ASSUME IInv, NEW a \in FcbAddr, NEW h \in ClosedHandles, NEW i \in Inode,
         NEW cont, Running, fcb_alloc(a, h, cont, [stream EXCEPT ![h] = Opened(i)])
  PROVE  \A g \in Handle : \/ stream'[g] = stream[g]
                           \/ stream'[g] = ClosedStream
                           \/ g = h /\ stream'[g] = Opened(i)
<1> DEFINE strm == [stream EXCEPT ![h] = Opened(i)]
<1>1. stream \in Streams /\ h \in Handle
  BY Types DEF ClosedHandles
<1>2. strm \in Streams /\ strm[h] = Opened(i)
      /\ \A g \in Handle : g # h => strm[g] = stream[g]
  BY <1>1, SimpleStreamTypes DEF Streams
<1>3. stream' = strm \/ \E e : stream' = CloseStream(strm, e)
  BY DEF fcb_alloc
<1> HIDE DEF strm
<1> QED
  BY <1>2, <1>3 DEF CloseStream, Streams

(* The directory and the streams after every step. *)
LEMMA EntriesStep ==
  ASSUME ~SharedFiles, "dropped" \notin SwitchOutcomes,
         IInv, ReadsCurrent, Listed, Distinct, [Next]_vars
  PROVE  Listed' /\ Distinct'
<1>0. dir \in [HostFile -> Inode \cup {NoInode}]
  BY Types
<1>1. ASSUME UNCHANGED dir, StreamsStay PROVE Listed' /\ Distinct'
  BY <1>1 DEF Listed, Distinct, StreamsStay
<1>2. ASSUME NEW a \in FcbAddr, NEW h \in ClosedHandles, NEW i \in Inode,
             NEW cont, Running,
             fcb_alloc(a, h, cont, [stream EXCEPT ![h] = Opened(i)]),
             NEW f \in HostFile,
             dir' = [dir EXCEPT ![f] = i],
             dir[f] = i \/ (dir[f] = NoInode /\ i \notin InodesInUse)
      PROVE  Listed' /\ Distinct'
  <2>1. \A g \in Handle : \/ stream'[g] = stream[g]
                          \/ stream'[g] = ClosedStream
                          \/ stream'[g] = Opened(i)
    BY <1>2, AllocOpens
  <2>2. dir'[f] = i /\ \A e \in HostFile : e # f => dir'[e] = dir[e]
    BY <1>0, <1>2
  <2>3. Listed'
    <3> SUFFICES ASSUME NEW g \in Handle, stream'[g].mode # "closed"
                 PROVE  \E e \in HostFile : dir'[e] = stream'[g].ino
      BY DEF Listed
    <3>1. CASE stream'[g] = Opened(i)
      BY <2>2, <3>1 DEF Opened
    <3>2. CASE stream'[g] = stream[g]
      <4>1. PICK e \in HostFile : dir[e] = stream[g].ino
        BY <3>2 DEF Listed
      <4>2. stream[g].ino \in Inode
        BY <3>2 DEF IInv, StreamsHaveFiles
      <4>3. dir'[e] = dir[e]
        BY <1>2, <2>2, <4>1, <4>2, NoInodeAssumption
      <4> QED
        BY <3>2, <4>1, <4>3
    <3> QED
      BY <2>1, <3>1, <3>2 DEF ClosedStream
  <2>4. Distinct'
    BY <1>2, <2>2 DEF Distinct, InodesInUse
  <2> QED
    BY <2>3, <2>4
<1>3. ASSUME NEW a \in FcbAddr, NEW n \in FcbName, OpenFile(a, n)
      PROVE  Listed' /\ Distinct'
  <2> DEFINE f == HostName[n]
  <2>1. f \in HostFile /\ Running /\ UNCHANGED dir
    BY <1>3, NamesAssumption DEF OpenFile
  <2>2. \/ UNCHANGED <<content, stream>>
        \/ /\ dir[f] # NoInode
           /\ \E h \in ClosedHandles :
                fcb_alloc(a, h, content, [stream EXCEPT ![h] = Opened(dir[f])])
    BY <1>3 DEF OpenFile
  <2> HIDE DEF f
  <2>3. CASE UNCHANGED <<content, stream>>
    BY <1>1, <2>1, <2>3, OneStreamStays
  <2>4. CASE ~UNCHANGED <<content, stream>>
    <3>1. dir[f] \in Inode /\ dir' = [dir EXCEPT ![f] = dir[f]]
      BY <1>0, <2>1, <2>2, <2>4
    <3>2. PICK h \in ClosedHandles :
            fcb_alloc(a, h, content, [stream EXCEPT ![h] = Opened(dir[f])])
      BY <2>2, <2>4
    <3> QED
      BY <1>2, <2>1, <3>1, <3>2
  <2> QED
    BY <2>3, <2>4
<1>4. ASSUME NEW a \in FcbAddr, NEW n \in FcbName, CreateFile(a, n)
      PROVE  Listed' /\ Distinct'
  <2> DEFINE f == HostName[n]
  <2>1. f \in HostFile /\ Running
    BY <1>4, NamesAssumption DEF CreateFile
  <2>2. \/ UNCHANGED <<content, stream, dir>>
        \/ /\ dir[f] = NoInode
           /\ \E h \in ClosedHandles, i \in Inode \ InodesInUse :
                /\ dir' = [dir EXCEPT ![f] = i]
                /\ fcb_alloc(a, h, [content EXCEPT ![i] = <<>>],
                             [stream EXCEPT ![h] = Opened(i)])
    BY <1>4 DEF CreateFile, hostVars, ExistedBefore
  <2> HIDE DEF f
  <2>3. CASE UNCHANGED <<content, stream, dir>>
    BY <1>1, <2>3, OneStreamStays
  <2>4. CASE ~UNCHANGED <<content, stream, dir>>
    <3>1. PICK h \in ClosedHandles, i \in Inode \ InodesInUse :
            /\ dir' = [dir EXCEPT ![f] = i]
            /\ fcb_alloc(a, h, [content EXCEPT ![i] = <<>>],
                         [stream EXCEPT ![h] = Opened(i)])
      BY <2>2, <2>4
    <3> QED
      BY <1>2, <2>1, <2>2, <2>4, <3>1
  <2> QED
    BY <2>3, <2>4
<1>5. ASSUME NEW a \in FcbAddr, NEW n \in FcbName, DeleteFile(a, n)
      PROVE  Listed' /\ Distinct'
  <2> DEFINE f == HostName[n]
  <2>1. f \in HostFile /\ Running /\ MayUse(a, f)
    BY <1>5, NamesAssumption DEF DeleteFile
  <2>2. StreamsStay
    BY <1>5, FreeMoves, OneStreamStays
  <2>3. dir' = dir \/ (dir[f] # NoInode /\ dir' = [dir EXCEPT ![f] = NoInode])
    BY <1>5 DEF DeleteFile
  <2>4. \/ NotFound(a)
        \/ \E s \in Slot : /\ fcb_search(a, s)
                           /\ stream' = CloseStream(stream, fcb_table[s].fp)
    BY <1>5 DEF DeleteFile
  <2> HIDE DEF f
  <2>5. CASE dir[f] # NoInode /\ dir' = [dir EXCEPT ![f] = NoInode]
    <3>1. ASSUME NEW g \in Handle, stream'[g].mode # "closed"
          PROVE  stream[g].mode # "closed" /\ stream'[g].ino = stream[g].ino
                 /\ stream[g].ino # dir[f]
      <4>1. stream[g].mode # "closed" /\ stream'[g].ino = stream[g].ino
        BY <2>2, <3>1 DEF StreamsStay
      <4>2. PICK t \in Live : fcb_table[t].fp = g
        BY <2>1, <4>1 DEF IInv, TableSound, NoStreamLeaks
      <4>3. t \in Slot /\ fcb_table[t].addr # FREE
        BY DEF Live
      <4>4. fcb_table[t].addr # a
        <5>1. CASE NotFound(a)
          BY <4>3, <5>1 DEF NotFound
        <5>2. ASSUME NEW s \in Slot, fcb_search(a, s),
                     stream' = CloseStream(stream, fcb_table[s].fp),
                     fcb_table[t].addr = a
              PROVE  FALSE
          <6>1. s \in Live /\ fcb_table[s].addr = a
            BY <2>1, <5>2, FoundSlot DEF fcb_search
          <6>2. s = t
            BY <2>1, <5>2, <6>1 DEF IInv, TableSound, SlotsDistinct
          <6>3. stream'[g] = ClosedStream
            BY <4>2, <5>2, <6>2, Types DEF CloseStream, Streams
          <6> QED
            BY <3>1, <6>3 DEF ClosedStream
        <5> QED
          BY <2>4, <5>1, <5>2
      <4>5. stream[g].ino # dir[f]
        BY <2>1, <2>5, <4>2, <4>3, <4>4 DEF MayUse, OthersHave
      <4> QED
        BY <4>1, <4>5
    <3>2. dir'[f] = NoInode /\ \A e \in HostFile : e # f => dir'[e] = dir[e]
      BY <1>0, <2>1, <2>5
    <3>3. Listed'
      BY <3>1, <3>2 DEF Listed
    <3>4. Distinct'
      BY <3>2 DEF Distinct
    <3> QED
      BY <3>3, <3>4
  <2> QED
    BY <1>1, <2>2, <2>3, <2>5
<1>6. ASSUME NEW a \in FcbAddr,
             \/ CloseFile(a) \/ ReadNext(a) \/ WriteNext(a)
             \/ \E r \in RandomRecord : ReadRandom(a, r)
      PROVE  Listed' /\ Distinct'
  <2>1. \/ UNCHANGED <<content, stream>>
        \/ \E h \in Handle : OneStream(h)
    BY <1>6, FreeMoves, ReadNextMoves, WriteNextMoves, ReadRandomMoves
  <2>2. UNCHANGED dir
    BY <1>6 DEF CloseFile, ReadNext, WriteNext, ReadRandom
  <2> QED
    BY <1>1, <2>1, <2>2, OneStreamStays
<1>7. CASE UNCHANGED <<dir, content, stream>>
  BY <1>1, <1>7, OneStreamStays
<1>8. CASE (\E d \in DmaAddr : SetDma(d)) \/ Guest \/ Exit \/ ExitEnds
  BY <1>7, <1>8 DEF SetDma, Guest, GuestFill, Exit, ExitEnds, hostVars
<1>9. ASSUME NEW h \in Handle, ExitClosesStream(h)
      PROVE  Listed' /\ Distinct'
  <2>1. OneStream(h) /\ UNCHANGED dir
    BY <1>9, CloseMoves DEF ExitClosesStream
  <2> QED
    BY <1>1, <2>1, OneStreamStays
<1>10. CASE Kill
  <2>1. UNCHANGED dir /\ StreamsStay
    BY <1>10 DEF Kill, StreamsStay, ClosedStream
  <2> QED
    BY <1>1, <2>1
<1>11. CASE UNCHANGED vars
  BY <1>7, <1>11 DEF vars
<1> QED
  BY <1>3, <1>4, <1>5, <1>6, <1>8, <1>9, <1>10, <1>11 DEF Next, BdosCall, Ending

LEMMA RInvStart == ASSUME Promises, Init PROVE RInv
<1>1. IInv /\ Aligned
  BY InitSound, AlignedStart DEF Promises
<1>2. Exclusive /\ ReadsCurrent /\ ClosedEmpty /\ Listed /\ AllPlaced
  BY DEF Init, ClosedStream, Exclusive, ReadsCurrent, ClosedEmpty, Listed,
         AllPlaced, Placed
<1>3. Distinct
  BY DEF Init, Distinct
<1> QED
  BY <1>1, <1>2, <1>3 DEF RInv

LEMMA RInvStep == ASSUME Promises, RInv, [Next]_vars PROVE RInv'
<1>1. /\ ~DiskFull /\ ~SharedFiles /\ "dropped" \notin SwitchOutcomes
      /\ IInv /\ Exclusive /\ ReadsCurrent
  BY DEF Promises, RInv
<1>2. IInv' /\ Aligned' /\ ClosedEmpty' /\ AllPlaced'
  BY <1>1, StepSound, AlignedStep, ClosedEmptyStep, PlacedStep DEF RInv
<1>3. Listed' /\ Distinct'
  BY <1>1, EntriesStep DEF RInv
<1>4. Exclusive' /\ ReadsCurrent'
  <2>1. CASE Killed
    BY <2>1 DEF Killed, ClosedStream, Exclusive, ReadsCurrent
  <2>2. CASE StreamsStep /\ FilesStep
    BY <1>1, <2>2, ExclusiveStep, CurrentStep
  <2> QED
    BY <1>1, <2>1, <2>2, StepShape
<1> QED
  BY <1>2, <1>3, <1>4 DEF RInv

-----------------------------------------------------------------------------
(* The view: what CpmFiles sees of a state, without CHOOSE. *)

(* Nothing is pending for the file f. *)
Quiet(f) ==
  \A h \in Handle : stream[h].ino = dir[f] => Pending(stream[h]) = <<>>

(* The guest sees the bytes c in the file f. *)
Sees(f, c) ==
  \/ Quiet(f) /\ c = content[dir[f]]
  \/ \E h \in Handle : /\ stream[h].ino = dir[f]
                       /\ c = Shown(content[dir[f]], stream[h])

FilesView ==
  /\ dataBar = [f \in Existing |-> dataBar[f]]
  /\ durableBar = [f \in Existing |-> RecordsOf(content[dir[f]])]
  /\ \A f \in Existing :
       /\ \A c : Sees(f, c) => dataBar[f] = RecordsOf(c)
       /\ \E c \in Seq(Byte) : Whole(Len(c)) /\ Sees(f, c)

FcbsView ==
  /\ curBar = [a \in FcbAddr |-> curBar[a]]
  /\ \A a \in FcbAddr :
       /\ NotFound(a) \/ ~Running => curBar[a] = Cpm!Closed
       /\ \A s \in Slot :
            Running /\ fcb_table[s].addr = a =>
              LET st == stream[fcb_table[s].fp]
              IN  /\ \E f \in Existing : dir[f] = st.ino
                  /\ \A f \in Existing :
                       dir[f] = st.ino =>
                         curBar[a] = Cpm!At(f, st.pos \div RecordSize)

(* A file is seen through at most one stream. *)
LEMMA OneOnFile ==
  ASSUME Exclusive, ClosedEmpty, NEW f \in Existing,
         NEW g \in Handle, NEW h \in Handle,
         stream[g].ino = dir[f], stream[h].ino = dir[f]
  PROVE  g = h /\ stream[g].mode # "closed"
BY DEF Exclusive, ClosedEmpty, Existing, ClosedStream

LEMMA FilesViewed == RInv => FilesView
<1> SUFFICES ASSUME RInv PROVE FilesView
  OBVIOUS
<1>0. /\ Exclusive /\ ClosedEmpty /\ Aligned
      /\ stream \in Streams /\ content \in Files
      /\ dir \in [HostFile -> Inode \cup {NoInode}]
  BY Types DEF RInv
<1>1. dataBar = [f \in Existing |-> dataBar[f]]
  BY DEF dataBar
<1>2. ASSUME NEW f \in Existing
      PROVE  /\ dir[f] \in Inode /\ content[dir[f]] \in Seq(Byte)
             /\ Whole(Len(content[dir[f]]))
  BY <1>0 DEF Existing, Files, Aligned
<1>3. ASSUME NEW f \in Existing, NEW c, Sees(f, c)
      PROVE  dataBar[f] = RecordsOf(c)
  <2> DEFINE on == {h \in Handle : stream[h].ino = dir[f]}
             the == CHOOSE h \in on : TRUE
  <2>1. dataBar[f] = RecordsOf(IF on = {} THEN content[dir[f]]
                               ELSE Shown(content[dir[f]], stream[the]))
    BY DEF dataBar, Shown
  <2>2. CASE on = {}
    <3>1. c = content[dir[f]]
      BY <1>3, <2>2 DEF Sees
    <3> QED
      BY <2>1, <2>2, <3>1
  <2>3. CASE on # {}
    <3>1. the \in on
      BY <2>3
    <3>2. \A h \in on : h = the
      <4> HIDE DEF the
      <4> QED
        BY <1>0, <3>1, OneOnFile
    <3> HIDE DEF the
    <3>3. CASE Quiet(f) /\ c = content[dir[f]]
      <4>1. Shown(content[dir[f]], stream[the]) = content[dir[f]]
        BY <3>1, <3>3, NothingPending DEF Quiet
      <4> QED
        BY <2>1, <2>3, <3>3, <4>1
    <3>4. CASE ~(Quiet(f) /\ c = content[dir[f]])
      <4>1. PICK h \in Handle : /\ stream[h].ino = dir[f]
                                /\ c = Shown(content[dir[f]], stream[h])
        BY <1>3, <3>4 DEF Sees
      <4>2. h = the
        BY <3>2, <4>1
      <4> QED
        BY <2>1, <2>3, <4>1, <4>2
    <3> QED
      BY <3>3, <3>4
  <2> QED
    BY <2>2, <2>3
<1>4. ASSUME NEW f \in Existing
      PROVE  \E c \in Seq(Byte) : Whole(Len(c)) /\ Sees(f, c)
  <2>1. CASE Quiet(f)
    BY <1>2, <2>1 DEF Sees
  <2>2. CASE ~Quiet(f)
    <3>1. PICK h \in Handle : stream[h].ino = dir[f]
      BY <2>2 DEF Quiet
    <3>2. stream[h] \in Stream /\ WholeStream(stream[h])
      BY <1>0 DEF Streams, Aligned
    <3> DEFINE c == Shown(content[dir[f]], stream[h])
    <3>3. c \in Seq(Byte) /\ Whole(Len(c))
      BY <1>2, <3>2, ShownType, ShownWhole
    <3>4. Sees(f, c)
      BY <3>1 DEF Sees
    <3> QED
      BY <3>3, <3>4
  <2> QED
    BY <2>1, <2>2
<1> QED
  BY <1>1, <1>3, <1>4 DEF FilesView, durableBar

LEMMA FcbsViewed == RInv => FcbsView
<1> SUFFICES ASSUME RInv PROVE FcbsView
  OBVIOUS
<1>1. curBar = [a \in FcbAddr |-> curBar[a]]
  BY DEF curBar
<1>2. ASSUME NEW a \in FcbAddr, NotFound(a) \/ ~Running
      PROVE  curBar[a] = Cpm!Closed
  BY <1>2 DEF curBar, Cpm!Closed
<1>3. ASSUME NEW a \in FcbAddr, NEW s \in Slot, Running, fcb_table[s].addr = a
      PROVE  LET st == stream[fcb_table[s].fp]
             IN  /\ \E f \in Existing : dir[f] = st.ino
                 /\ \A f \in Existing :
                      dir[f] = st.ino =>
                        curBar[a] = Cpm!At(f, st.pos \div RecordSize)
  <2> DEFINE st == stream[fcb_table[s].fp]
             f == CHOOSE e \in Existing : dir[e] = st.ino
  <2>1. s \in Live /\ ~NotFound(a)
    BY <1>3, AddressNotFree DEF Live, NotFound
  <2>2. \A t \in Slot : fcb_table[t].addr = a => t = s
    BY <1>3, <2>1, AddressNotFree DEF RInv, IInv, TableSound, SlotsDistinct, Live
  <2>3. Fcb(a) = s
    BY <1>3, <2>2 DEF Fcb
  <2>4. fcb_table[s].fp \in Handle /\ st.mode # "closed" /\ st.ino \in Inode
    BY <1>3, <2>1 DEF RInv, IInv, TableSound, SlotsOpen, StreamsHaveFiles
  <2>5. \E e \in Existing : dir[e] = st.ino
    BY <2>4, NoInodeAssumption DEF RInv, Listed, Existing
  <2>6. f \in Existing /\ dir[f] = st.ino
    BY <2>5
  <2>7. curBar[a] = Cpm!At(f, st.pos \div RecordSize)
    BY <1>3, <2>1, <2>3 DEF curBar, Cpm!At
  <2>8. \A e \in Existing : dir[e] = st.ino => e = f
    BY <2>6 DEF RInv, Distinct, Existing
  <2> HIDE DEF f
  <2> QED
    BY <2>6, <2>7, <2>8
<1> QED
  BY <1>1, <1>2, <1>3 DEF FcbsView

LEMMA Viewed == RInv => FilesView /\ FcbsView
  BY FilesViewed, FcbsViewed

(* The same, of the state after a step. *)
LEMMA ViewedAfter == RInv' => FilesView' /\ FcbsView'
  BY Viewed, PTL

-----------------------------------------------------------------------------
(* What steps do to the view. *)

(* A file that keeps its bytes and what is pending for it stays the same. *)
LEMMA FileStill ==
  ASSUME FilesView, FilesView', NEW f \in Existing, dir'[f] = dir[f],
         content'[dir[f]] = content[dir[f]],
         \A g \in Handle :
           stream[g].ino = dir[f] /\ Pending(stream[g]) # <<>>
             => stream'[g] = stream[g],
         Quiet(f) => Quiet(f)'
  PROVE  /\ f \in Existing' /\ dataBar'[f] = dataBar[f]
         /\ durableBar'[f] = durableBar[f]
<1>1. f \in Existing'
  BY DEF Existing
<1>2. durableBar'[f] = durableBar[f]
  BY <1>1 DEF FilesView
<1>3. CASE Quiet(f)
  <2>1. Sees(f, content[dir[f]]) /\ Sees(f, content[dir[f]])'
    BY <1>3 DEF Sees
  <2> QED
    BY <1>1, <1>2, <2>1 DEF FilesView
<1>4. CASE ~Quiet(f)
  <2>1. PICK h \in Handle : stream[h].ino = dir[f] /\ Pending(stream[h]) # <<>>
    BY <1>4 DEF Quiet
  <2>2. stream'[h] = stream[h]
    BY <2>1
  <2> DEFINE c == Shown(content[dir[f]], stream[h])
  <2>3. Sees(f, c)
    BY <2>1 DEF Sees
  <2>4. c' = c
    BY <2>2 DEF Shown, Pending
  <2>5. Sees(f, c)'
    BY <2>1, <2>2 DEF Sees
  <2> HIDE DEF c
  <2>6. dataBar[f] = RecordsOf(c)
    BY <2>3 DEF FilesView
  <2>7. (dataBar[f] = RecordsOf(c))'
    BY <1>1, <2>5 DEF FilesView
  <2>8. RecordsOf(c)' = RecordsOf(c)
    BY <2>4 DEF RecordsOf
  <2> QED
    BY <1>1, <1>2, <2>6, <2>7, <2>8
<1> QED
  BY <1>3, <1>4

(* A file that receives what was pending for it is the same to the guest.  *)
LEMMA FileSynced ==
  ASSUME FilesView, FilesView', NEW f \in Existing, dir'[f] = dir[f],
         NEW h \in Handle, stream[h].ino = dir[f],
         content'[dir[f]] = Shown(content[dir[f]], stream[h]),
         Quiet(f)'
  PROVE  /\ f \in Existing' /\ dataBar'[f] = dataBar[f]
         /\ durableBar'[f] = dataBar[f]
<1>1. f \in Existing'
  BY DEF Existing
<1> DEFINE c == Shown(content[dir[f]], stream[h])
<1>2. Sees(f, c)
  BY DEF Sees
<1>3. Sees(f, content[dir[f]])'
  BY DEF Sees
<1>4. dataBar'[f] = RecordsOf(content'[dir'[f]])
  BY <1>1, <1>3 DEF FilesView
<1>5. durableBar'[f] = RecordsOf(content'[dir'[f]])
  BY <1>1 DEF FilesView
<1> HIDE DEF c
<1>6. dataBar[f] = RecordsOf(c)
  BY <1>2 DEF FilesView
<1> QED
  BY <1>1, <1>4, <1>5, <1>6 DEF c

(* A file with no bytes has no records. *)
LEMMA FileEmpty ==
  ASSUME FilesView', NEW f \in HostFile, dir'[f] \in Inode,
         content'[dir'[f]] = <<>>, Quiet(f)'
  PROVE  f \in Existing' /\ dataBar'[f] = <<>> /\ durableBar'[f] = <<>>
<1>1. f \in Existing'
  BY NoInodeAssumption DEF Existing
<1>2. Sees(f, content[dir[f]])'
  BY DEF Sees
<1>3. /\ dataBar'[f] = RecordsOf(content'[dir'[f]])
      /\ durableBar'[f] = RecordsOf(content'[dir'[f]])
  BY <1>1, <1>2 DEF FilesView
<1>4. RecordsOf(<<>>) = <<>>
  <2>1. <<>> \in Seq(Byte) /\ Len(<<>>) = RecordSize * 0 /\ 0 \in Nat
    BY RecordSizeAssumption
  <2>2. Len(RecordsOf(<<>>)) = 0
        /\ RecordsOf(<<>>) = [r \in 1 .. 0 |-> SubSeq(<<>>, (r - 1) * RecordSize + 1, r * RecordSize)]
    BY <2>1, RecordsThere
  <2>3. 1 .. 0 = {}
    OBVIOUS
  <2> QED
    BY <2>2, <2>3
<1> QED
  BY <1>1, <1>3, <1>4

(* A stream not touched, or opened. *)
Apart(g) ==
  \/ stream'[g] = stream[g]
  \/ stream[g] = ClosedStream /\ Pending(stream'[g]) = <<>>

(* No stream is touched but opened ones. *)
LEMMA FileApart ==
  ASSUME RInv, FilesView, FilesView', NEW f \in Existing, dir'[f] = dir[f],
         content'[dir[f]] = content[dir[f]],
         \A g \in Handle : Apart(g)
  PROVE  /\ f \in Existing' /\ dataBar'[f] = dataBar[f]
         /\ durableBar'[f] = durableBar[f]
<1>1. ASSUME NEW g \in Handle, stream[g].ino = dir[f]
      PROVE  stream'[g] = stream[g]
  BY <1>1 DEF Apart, Existing, ClosedStream
<1>2. Quiet(f) => Quiet(f)'
  BY DEF Quiet, Apart
<1> QED
  BY <1>1, <1>2, FileStill

(* The stream o alone gives the host what is pending. *)
LEMMA FileOfOne ==
  ASSUME RInv, FilesView, FilesView', NEW o \in Handle,
         content'[stream[o].ino] = Shown(content[stream[o].ino], stream[o]),
         Pending(stream'[o]) = <<>>,
         \A g \in Handle : g # o => Apart(g),
         NEW f \in Existing, dir'[f] = dir[f],
         dir[f] # stream[o].ino => content'[dir[f]] = content[dir[f]]
  PROVE  /\ f \in Existing' /\ dataBar'[f] = dataBar[f]
         /\ durableBar'[f] = IF dir[f] = stream[o].ino
                             THEN dataBar[f] ELSE durableBar[f]
<1>0. Exclusive /\ ClosedEmpty
  BY DEF RInv
<1>1. ASSUME NEW g \in Handle, stream[g].ino = dir[f], g # o
      PROVE  stream'[g] = stream[g]
  BY <1>1 DEF Apart, Existing, ClosedStream
<1>2. CASE dir[f] = stream[o].ino
  <2>1. \A g \in Handle : stream[g].ino = dir[f] => g = o
    BY <1>0, <1>2, OneOnFile
  <2>2. Quiet(f)'
    BY <2>1 DEF Quiet, Apart
  <2> QED
    BY <1>2, <2>2, FileSynced
<1>3. CASE dir[f] # stream[o].ino
  <2>1. Quiet(f) => Quiet(f)'
    BY DEF Quiet, Apart
  <2>2. \A g \in Handle : stream[g].ino = dir[f] => stream'[g] = stream[g]
    BY <1>1, <1>3
  <2> QED
    BY <1>3, <2>1, <2>2, FileStill
<1> QED
  BY <1>2, <1>3

(* What an FCB's file is, and what closing it has to give the host.        *)
LEMMA SlotFile ==
  ASSUME RInv, FcbsView, Running, NEW a \in FcbAddr, NEW s \in Slot,
         fcb_search(a, s)
  PROVE  LET st == stream[fcb_table[s].fp]
         IN  \E f \in Existing :
               /\ dir[f] = st.ino
               /\ \A g \in Existing : dir[g] = st.ino <=> g = f
               /\ curBar[a] = Cpm!At(f, st.pos \div RecordSize)
<1>1. fcb_table[s].addr = a
  BY DEF fcb_search
<1>2. PICK f \in Existing : dir[f] = stream[fcb_table[s].fp].ino
  BY <1>1 DEF FcbsView
<1>3. curBar[a] = Cpm!At(f, stream[fcb_table[s].fp].pos \div RecordSize)
  BY <1>1, <1>2 DEF FcbsView
<1>4. \A g \in Existing : dir[g] = dir[f] => g = f
  BY DEF RInv, Distinct, Existing
<1> QED
  BY <1>2, <1>3, <1>4

LEMMA MustSyncNone ==
  ASSUME FcbsView, NEW a \in FcbAddr, NotFound(a) \/ ~Running
  PROVE  Cpm!MustSync(a) = durableBar
<1>1. curBar[a] = Cpm!Closed
  BY DEF FcbsView
<1> QED
  BY <1>1 DEF Cpm!MustSync, Cpm!Closed

LEMMA MustSyncOne ==
  ASSUME RInv, FilesView, FcbsView, Running, NEW a \in FcbAddr, NEW s \in Slot,
         fcb_search(a, s)
  PROVE  Cpm!MustSync(a) =
           [f \in Existing |-> IF dir[f] = stream[fcb_table[s].fp].ino
                               THEN dataBar[f] ELSE durableBar[f]]
<1>1. PICK f \in Existing :
        /\ dir[f] = stream[fcb_table[s].fp].ino
        /\ \A g \in Existing : dir[g] = stream[fcb_table[s].fp].ino <=> g = f
        /\ curBar[a] = Cpm!At(f, stream[fcb_table[s].fp].pos \div RecordSize)
  BY SlotFile
<1>2. DOMAIN dataBar = Existing /\ DOMAIN durableBar = Existing
  BY DEF FilesView
<1>3. curBar[a].open /\ curBar[a].file = f
  BY <1>1 DEF Cpm!At
<1>4. Cpm!MustSync(a) = Cpm!With(durableBar, f, dataBar[f])
  BY <1>2, <1>3 DEF Cpm!MustSync, Cpm!Synced, Cpm!Exists
<1>5. Existing \cup {f} = Existing
  OBVIOUS
<1> QED
  BY <1>1, <1>2, <1>4, <1>5 DEF Cpm!With

(* What the host receives when an FCB is closed is files that exist. *)
LEMMA MustSyncIs ==
  ASSUME FilesView, FcbsView, Running, NEW a \in FcbAddr
  PROVE  Cpm!MustSync(a) = [g \in Existing |-> Cpm!MustSync(a)[g]]
<1>1. /\ DOMAIN dataBar = Existing /\ DOMAIN durableBar = Existing
      /\ durableBar = [g \in Existing |-> durableBar[g]]
  BY DEF FilesView
<1>2. curBar[a].open => curBar[a].file \in Existing
  <2>1. CASE NotFound(a)
    BY <2>1 DEF FcbsView, Cpm!Closed
  <2>2. ASSUME NEW s \in Slot, fcb_table[s].addr = a
        PROVE  curBar[a].file \in Existing
    <3>1. PICK g \in Existing :
            curBar[a] = Cpm!At(g, stream[fcb_table[s].fp].pos \div RecordSize)
      BY <2>2 DEF FcbsView
    <3> QED
      BY <3>1 DEF Cpm!At
  <2> QED
    BY <2>1, <2>2 DEF NotFound
<1>3. \A e \in Existing : Existing \cup {e} = Existing
  OBVIOUS
<1> QED
  BY <1>1, <1>2, <1>3 DEF Cpm!MustSync, Cpm!Synced, Cpm!With, Cpm!Exists

(* An FCB whose slot and stream stay stays where it is. *)
LEMMA FcbStays ==
  ASSUME RInv, RInv', FcbsView, FcbsView', Running, Running',
         NEW b \in FcbAddr,
         NotFound(b) => NotFound(b)',
         \A t \in Slot :
           fcb_table[t].addr = b =>
             /\ fcb_table'[t] = fcb_table[t]
             /\ stream'[fcb_table[t].fp] = stream[fcb_table[t].fp],
         \A f \in Existing : dir'[f] = dir[f] \/ \A t \in Slot :
           fcb_table[t].addr = b => stream[fcb_table[t].fp].ino # dir[f]
  PROVE  curBar'[b] = curBar[b]
<1>1. CASE NotFound(b)
  <2>1. curBar[b] = Cpm!Closed
    BY <1>1 DEF FcbsView
  <2>2. (curBar[b] = Cpm!Closed)'
    BY <1>1 DEF FcbsView
  <2> QED
    BY <2>1, <2>2 DEF Cpm!Closed
<1>2. ASSUME NEW t \in Slot, fcb_table[t].addr = b
      PROVE  curBar'[b] = curBar[b]
  <2> DEFINE st == stream[fcb_table[t].fp]
  <2>1. PICK f \in Existing : dir[f] = st.ino
    BY <1>2 DEF FcbsView
  <2>2. curBar[b] = Cpm!At(f, st.pos \div RecordSize)
    BY <1>2, <2>1 DEF FcbsView
  <2>3. fcb_table'[t] = fcb_table[t] /\ st' = st /\ dir'[f] = dir[f]
    BY <1>2, <2>1
  <2>4. f \in Existing' /\ dir'[f] = st'.ino /\ fcb_table'[t].addr = b
    BY <1>2, <2>1, <2>3 DEF Existing
  <2>5. (curBar[b] = Cpm!At(f, st.pos \div RecordSize))'
    BY <2>4 DEF FcbsView
  <2>6. Cpm!At(f, st.pos \div RecordSize)' = Cpm!At(f, st.pos \div RecordSize)
    BY <2>3 DEF Cpm!At
  <2> QED
    BY <2>2, <2>5, <2>6
<1> QED
  BY <1>1, <1>2 DEF NotFound

Seen ==
  /\ RInv /\ FilesView /\ FcbsView
  /\ RInv' /\ FilesView' /\ FcbsView'

(* A call for the FCB a leaves the others where they are. *)
LEMMA OtherFcbs ==
  ASSUME Seen, Running, Running', NEW a \in FcbAddr,
         \A t \in Slot :
           fcb_table[t].addr \notin {a, FREE} =>
             /\ fcb_table'[t] = fcb_table[t]
             /\ stream'[fcb_table[t].fp] = stream[fcb_table[t].fp],
         \A t \in Slot : fcb_table'[t].addr \in {fcb_table[t].addr, a, FREE},
         \A f \in Existing : dir'[f] = dir[f] \/ ~OthersHave(a, dir[f])
  PROVE  curBar' = [curBar EXCEPT ![a] = curBar'[a]]
<1>1. ASSUME NEW b \in FcbAddr, b # a PROVE curBar'[b] = curBar[b]
  <2>1. b # FREE
    BY AddressNotFree
  <2>2. NotFound(b) => NotFound(b)'
    BY <1>1, <2>1 DEF NotFound
  <2>3. \A t \in Slot :
          fcb_table[t].addr = b =>
            /\ fcb_table'[t] = fcb_table[t]
            /\ stream'[fcb_table[t].fp] = stream[fcb_table[t].fp]
    BY <1>1, <2>1
  <2>4. \A f \in Existing : dir'[f] = dir[f] \/ \A t \in Slot :
          fcb_table[t].addr = b => stream[fcb_table[t].fp].ino # dir[f]
    BY <1>1, <2>1 DEF OthersHave
  <2> QED
    BY <2>2, <2>3, <2>4, FcbStays DEF Seen
<1>2. /\ curBar = [b \in FcbAddr |-> curBar[b]]
      /\ curBar' = [b \in FcbAddr |-> curBar'[b]]
  BY DEF Seen, FcbsView
<1> QED
  BY <1>1, <1>2

(* An FCB whose slot is freed. *)
LEMMA FreedFcb ==
  ASSUME Seen, Running, Running', NEW a \in FcbAddr, NEW s \in Slot,
         fcb_search(a, s), fcb_table' = TableWithout(s),
         \A g \in Handle : g # fcb_table[s].fp => stream'[g] = stream[g],
         \A f \in Existing : dir'[f] = dir[f] \/ ~OthersHave(a, dir[f])
  PROVE  curBar' = [curBar EXCEPT ![a] = Cpm!Closed]
<1>0. IInv /\ fcb_table \in Table
  BY Types DEF Seen, RInv
<1>1. s \in Live /\ fcb_table[s].addr = a
  BY <1>0, FoundSlot DEF fcb_search
<1>2. /\ fcb_table'[s].addr = FREE
      /\ \A t \in Slot : t # s => fcb_table'[t] = fcb_table[t]
  BY <1>0 DEF TableWithout, Table
<1>3. \A t \in Live : t # s => /\ fcb_table[t].addr # a
                               /\ fcb_table[t].fp # fcb_table[s].fp
                               /\ fcb_table[t].fp \in Handle
  BY <1>0, <1>1 DEF IInv, TableSound, SlotsDistinct, SlotsOpen
<1>4. NotFound(a)'
  BY <1>1, <1>2, <1>3, AddressNotFree DEF NotFound, Live
<1>5. (curBar[a] = Cpm!Closed)'
  BY <1>4 DEF Seen, FcbsView
<1>6. curBar'[a] = Cpm!Closed
  BY <1>5 DEF Cpm!Closed
<1>7. curBar' = [curBar EXCEPT ![a] = curBar'[a]]
  <2>1. \A t \in Slot :
          fcb_table[t].addr \notin {a, FREE} =>
            /\ fcb_table'[t] = fcb_table[t]
            /\ stream'[fcb_table[t].fp] = stream[fcb_table[t].fp]
    BY <1>1, <1>2, <1>3 DEF Live
  <2>2. \A t \in Slot : fcb_table'[t].addr \in {fcb_table[t].addr, a, FREE}
    BY <1>2
  <2> QED
    BY <2>1, <2>2, OtherFcbs
<1> QED
  BY <1>6, <1>7

(* An FCB that is not open stays so. *)
LEMMA UntouchedFcbs ==
  ASSUME Seen, Running, Running', UNCHANGED fcb_table, NEW a \in FcbAddr,
         \A g \in Handle : stream[g].mode # "closed" => stream'[g] = stream[g],
         \A f \in Existing : dir'[f] = dir[f] \/ ~OthersHave(a, dir[f]),
         NotFound(a) \/ \A f \in Existing : dir'[f] = dir[f]
  PROVE  curBar' = curBar
<1>1. ASSUME NEW b \in FcbAddr PROVE curBar'[b] = curBar[b]
  <2>1. NotFound(b) => NotFound(b)'
    BY DEF NotFound
  <2>2. \A t \in Slot :
          fcb_table[t].addr = b =>
            /\ fcb_table'[t] = fcb_table[t]
            /\ stream'[fcb_table[t].fp] = stream[fcb_table[t].fp]
    BY AddressNotFree DEF Seen, RInv, IInv, TableSound, SlotsOpen, Live
  <2>3. \A f \in Existing : dir'[f] = dir[f] \/ \A t \in Slot :
          fcb_table[t].addr = b => stream[fcb_table[t].fp].ino # dir[f]
    BY AddressNotFree DEF OthersHave, NotFound
  <2> QED
    BY <2>1, <2>2, <2>3, FcbStays DEF Seen
<1>2. /\ curBar = [b \in FcbAddr |-> curBar[b]]
      /\ curBar' = [b \in FcbAddr |-> curBar'[b]]
  BY DEF Seen, FcbsView
<1> QED
  BY <1>1, <1>2

(* A flush of the FCB's stream, in the directory as it is: the files that  *)
(* exist are the same to the guest, and the FCB's has been synced.         *)
LEMMA FlushOfSlot ==
  ASSUME Seen, Running, NEW a \in FcbAddr, NEW s \in Slot, fcb_search(a, s),
         NEW o, o = fcb_table[s].fp,
         content' = [content EXCEPT ![stream[o].ino] = Shown(@, stream[o])],
         Pending(stream'[o]) = <<>>,
         \A g \in Handle : g # o => Apart(g)
  PROVE  /\ o \in Handle
         /\ \A f \in Existing : dir'[f] = dir[f] =>
              /\ f \in Existing' /\ dataBar'[f] = dataBar[f]
              /\ durableBar'[f] = Cpm!MustSync(a)[f]
         /\ UNCHANGED dir =>
              dataBar' = dataBar /\ durableBar' = Cpm!MustSync(a)
<1>0. IInv /\ RInv /\ FilesView /\ FilesView'
  BY DEF Seen, RInv
<1>1. /\ o \in Handle /\ stream[o].ino \in Inode
      /\ content \in Files /\ dir \in [HostFile -> Inode \cup {NoInode}]
  BY <1>0, FoundSlot, Types
<1>2. /\ content'[stream[o].ino] = Shown(content[stream[o].ino], stream[o])
      /\ \A i \in Inode : i # stream[o].ino => content'[i] = content[i]
  BY <1>1 DEF Files
<1>3. Cpm!MustSync(a) = [f \in Existing |-> IF dir[f] = stream[o].ino
                                            THEN dataBar[f] ELSE durableBar[f]]
  BY MustSyncOne DEF Seen
<1>4. ASSUME NEW f \in Existing, dir'[f] = dir[f]
      PROVE  /\ f \in Existing' /\ dataBar'[f] = dataBar[f]
             /\ durableBar'[f] = Cpm!MustSync(a)[f]
  <2>1. dir[f] # stream[o].ino => content'[dir[f]] = content[dir[f]]
    BY <1>1, <1>2 DEF Existing
  <2>2. /\ f \in Existing' /\ dataBar'[f] = dataBar[f]
        /\ durableBar'[f] = IF dir[f] = stream[o].ino
                            THEN dataBar[f] ELSE durableBar[f]
    BY <1>0, <1>1, <1>2, <1>4, <2>1, FileOfOne
  <2> QED
    BY <1>3, <2>2
<1>5. ASSUME UNCHANGED dir
      PROVE  dataBar' = dataBar /\ durableBar' = Cpm!MustSync(a)
  <2>1. Existing' = Existing
    BY <1>5 DEF Existing
  <2>2. dataBar = [f \in Existing |-> dataBar[f]]
        /\ dataBar' = [f \in Existing' |-> dataBar'[f]]
        /\ durableBar' = [f \in Existing' |-> durableBar'[f]]
    BY <1>0 DEF FilesView
  <2>3. \A f \in Existing : /\ dataBar'[f] = dataBar[f]
                            /\ durableBar'[f] = Cpm!MustSync(a)[f]
    BY <1>4, <1>5
  <2>4. Cpm!MustSync(a) = [f \in Existing |-> Cpm!MustSync(a)[f]]
    BY <1>3
  <2> QED
    BY <2>1, <2>2, <2>3, <2>4
<1> QED
  BY <1>1, <1>4, <1>5

(* A step that touches no file, stream or slot. *)
LEMMA SameFiles ==
  ASSUME UNCHANGED <<dir, content, stream>>
  PROVE  dataBar' = dataBar /\ durableBar' = durableBar
<1>1. Existing' = Existing
  BY DEF Existing
<1>2. durableBar' = durableBar
  BY <1>1 DEF durableBar, RecordsOf
<1>3. dataBar' = dataBar
  BY <1>1 DEF dataBar, RecordsOf, Overlay, Pending
<1> QED
  BY <1>2, <1>3

LEMMA SameFcbs ==
  ASSUME UNCHANGED <<dir, stream, fcb_table, status>>
  PROVE  curBar' = curBar
<1>1. Existing' = Existing /\ (Running' <=> Running)
  BY DEF Existing, Running
<1>2. \A a : (NotFound(a)' <=> NotFound(a)) /\ Fcb(a)' = Fcb(a)
  BY DEF NotFound, Fcb
<1> QED
  BY <1>1, <1>2 DEF curBar

-----------------------------------------------------------------------------
(* The calls, one by one. *)

(* A flush that gets through. *)
LEMMA FlushedFile ==
  ASSUME Promises, NEW cont, NEW st \in Stream, NEW k \in FlushLengths(st)
  PROVE  /\ [cont EXCEPT ![st.ino] = Flushed(@, st, k)]
              = [cont EXCEPT ![st.ino] = Shown(@, st)]
         /\ FlushOK(st, k) /\ k = Len(Pending(st))
<1>1. /\ k = Len(Pending(st)) /\ FlushOK(st, k)
      /\ \A c : Flushed(c, st, k) = Shown(c, st)
  BY FlushShows DEF Promises
<1> QED
  BY <1>1

(* What CloseFile and DeleteFile do to the slot of an FCB. *)
LEMMA SlotFreed ==
  ASSUME Promises, Seen, Running, Running', NEW a \in FcbAddr, NEW s \in Slot,
         fcb_search(a, s),
         NEW k \in FlushLengths(stream[fcb_table[s].fp]),
         content' = [content EXCEPT ![stream[fcb_table[s].fp].ino] =
                       Flushed(@, stream[fcb_table[s].fp], k)],
         stream' = CloseStream(stream, fcb_table[s].fp),
         fcb_table' = TableWithout(s),
         \A f \in Existing : dir'[f] = dir[f] \/ ~OthersHave(a, dir[f])
  PROVE  /\ curBar' = [curBar EXCEPT ![a] = Cpm!Closed]
         /\ \A f \in Existing : dir'[f] = dir[f] =>
              /\ f \in Existing' /\ dataBar'[f] = dataBar[f]
              /\ durableBar'[f] = Cpm!MustSync(a)[f]
         /\ UNCHANGED dir =>
              dataBar' = dataBar /\ durableBar' = Cpm!MustSync(a)
<1> DEFINE o == fcb_table[s].fp
<1>1. /\ IInv /\ o \in Handle /\ stream[o] \in Stream /\ stream \in Streams
  BY FoundSlot, Types DEF Seen, RInv
<1>2. content' = [content EXCEPT ![stream[o].ino] = Shown(@, stream[o])]
  BY <1>1, FlushedFile
<1>3. /\ stream'[o] = ClosedStream
      /\ \A g \in Handle : g # o => stream'[g] = stream[g]
  BY <1>1 DEF CloseStream, Streams
<1>4. curBar' = [curBar EXCEPT ![a] = Cpm!Closed]
  BY <1>3, FreedFcb
<1> HIDE DEF o
<1>5. Pending(stream'[o]) = <<>> /\ \A g \in Handle : g # o => Apart(g)
  BY <1>3 DEF Pending, ClosedStream, Apart
<1>6. /\ \A f \in Existing : dir'[f] = dir[f] =>
           /\ f \in Existing' /\ dataBar'[f] = dataBar[f]
           /\ durableBar'[f] = Cpm!MustSync(a)[f]
      /\ UNCHANGED dir =>
           dataBar' = dataBar /\ durableBar' = Cpm!MustSync(a)
  BY <1>2, <1>5, FlushOfSlot DEF o
<1> QED
  BY <1>4, <1>6

(* Function 16. *)
LEMMA CloseImplements ==
  ASSUME Promises, Seen, NEW a \in FcbAddr, CloseFile(a)
  PROVE  Cpm!Close(a)
<1>1. /\ Running /\ reg_a' = 0
      /\ UNCHANGED <<dma_address, dma_buf, dir, status>>
  BY DEF CloseFile
<1>2. Running'
  BY <1>1 DEF Running
<1>3. ASSUME NotFound(a), UNCHANGED <<fcb_table, content, stream>>
      PROVE  /\ dataBar' = dataBar /\ durableBar' = Cpm!MustSync(a)
             /\ curBar' = [curBar EXCEPT ![a] = Cpm!Closed]
  <2>1. /\ curBar[a] = Cpm!Closed /\ curBar = [b \in FcbAddr |-> curBar[b]]
        /\ Cpm!MustSync(a) = durableBar
    BY <1>3, MustSyncNone DEF Seen, FcbsView
  <2>2. dataBar' = dataBar /\ durableBar' = durableBar /\ curBar' = curBar
    BY <1>1, <1>3, SameFiles, SameFcbs
  <2>3. curBar = [curBar EXCEPT ![a] = Cpm!Closed]
    BY <2>1
  <2> QED
    BY <2>1, <2>2, <2>3
<1>4. ASSUME NEW s \in Slot, fcb_search(a, s),
             NEW k \in FlushLengths(stream[fcb_table[s].fp]),
             content' = [content EXCEPT ![stream[fcb_table[s].fp].ino] =
                           Flushed(@, stream[fcb_table[s].fp], k)],
             stream' = CloseStream(stream, fcb_table[s].fp),
             fcb_table' = TableWithout(s)
      PROVE  /\ dataBar' = dataBar /\ durableBar' = Cpm!MustSync(a)
             /\ curBar' = [curBar EXCEPT ![a] = Cpm!Closed]
  BY <1>1, <1>2, <1>4, SlotFreed
<1>5. /\ dataBar' = dataBar /\ durableBar' = Cpm!MustSync(a)
      /\ curBar' = [curBar EXCEPT ![a] = Cpm!Closed]
  BY <1>3, <1>4 DEF CloseFile
<1> QED
  BY <1>1, <1>5 DEF Cpm!Close, Cpm!Running, Running

(* Only the FCB a may have the file open, or none. *)
LEMMA NobodyElse ==
  ASSUME RInv, Running, NEW a \in FcbAddr, NEW i \in Inode, ~OthersHave(a, i),
         NEW h \in Handle, stream[h].ino = i
  PROVE  \E s \in Slot : fcb_search(a, s) /\ fcb_table[s].fp = h
<1>1. stream[h].mode # "closed"
  BY NoInodeAssumption DEF RInv, ClosedEmpty, ClosedStream
<1>2. PICK s \in Live : fcb_table[s].fp = h
  BY <1>1 DEF RInv, IInv, TableSound, NoStreamLeaks
<1>3. s \in Slot /\ fcb_table[s].addr = a
  BY <1>2 DEF Live, OthersHave
<1>4. \A t \in Slot : t < s => fcb_table[t].addr # a
  <2>1. \A t \in Slot : t < s => t # s
    BY TableAssumption DEF Slot
  <2> QED
    BY <1>2, <1>3, <2>1, AddressNotFree DEF RInv, IInv, TableSound, SlotsDistinct, Live
<1> QED
  BY <1>2, <1>3, <1>4 DEF fcb_search

(* Function 19. *)
LEMMA DeleteImplements ==
  ASSUME Promises, Seen, NEW a \in FcbAddr, NEW n \in FcbName, DeleteFile(a, n)
  PROVE  Cpm!Delete(a, n)
<1> DEFINE f == HostName[n]
<1>0. RInv /\ IInv /\ FilesView /\ FilesView' /\ FcbsView
  BY DEF Seen, RInv
<1>1. /\ Running /\ f \in HostFile /\ MayUse(a, f)
      /\ UNCHANGED <<dma_address, dma_buf, status>>
      /\ dir \in [HostFile -> Inode \cup {NoInode}]
  BY <1>0, NamesAssumption, Types DEF DeleteFile
<1>2. Running'
  BY <1>1 DEF Running
<1>3. dir[f] = NoInode \/ (dir[f] \in Inode /\ ~OthersHave(a, dir[f]))
  BY <1>1 DEF MayUse, Promises
<1> DEFINE Removes ==
             \/ dir[f] # NoInode /\ dir' = [dir EXCEPT ![f] = NoInode] /\ reg_a' = 0
             \/ dir[f] = NoInode /\ UNCHANGED dir /\ reg_a' = 255
           Effect ==
             /\ \A g \in Existing : dir'[g] = dir[g] =>
                  /\ g \in Existing' /\ dataBar'[g] = dataBar[g]
                  /\ durableBar'[g] = Cpm!MustSync(a)[g]
             /\ curBar' = [curBar EXCEPT ![a] = Cpm!Closed]
<1>4. Removes => \A g \in Existing : dir'[g] = dir[g] \/ ~OthersHave(a, dir[g])
  <2>1. \A g \in Existing : g \in HostFile
    BY DEF Existing
  <2> HIDE DEF f
  <2> QED
    BY <1>1, <1>3, <2>1
<1>5. ASSUME NotFound(a), UNCHANGED <<fcb_table, content, stream>>,
             \/ dir[f] # NoInode /\ dir' = [dir EXCEPT ![f] = NoInode] /\ reg_a' = 0
             \/ /\ dir[f] = NoInode \/ \E h \in Handle : stream[h].ino = dir[f]
                /\ reg_a' = 255 /\ UNCHANGED dir
      PROVE  Removes /\ Effect
  <2>1. dir[f] = NoInode \/ ~\E h \in Handle : stream[h].ino = dir[f]
    <3> HIDE DEF f
    <3> QED
      BY <1>0, <1>1, <1>3, <1>5, NobodyElse DEF NotFound, fcb_search
  <2>2. Removes
    BY <1>5, <2>1
  <2>3. \A g \in Handle : Apart(g)
    BY <1>5 DEF Apart
  <2>4. Cpm!MustSync(a) = durableBar /\ curBar[a] = Cpm!Closed
        /\ curBar = [b \in FcbAddr |-> curBar[b]]
    BY <1>0, <1>5, MustSyncNone DEF FcbsView
  <2>5. ASSUME NEW g \in Existing, dir'[g] = dir[g]
        PROVE  /\ g \in Existing' /\ dataBar'[g] = dataBar[g]
               /\ durableBar'[g] = durableBar[g]
    BY <1>0, <1>5, <2>3, <2>5, FileApart
  <2>6. curBar' = curBar
    <3>1. \A g \in Existing : dir'[g] = dir[g] \/ ~OthersHave(a, dir[g])
      BY <1>4, <2>2
    <3> QED
      BY <1>1, <1>2, <1>5, <3>1, UntouchedFcbs
  <2>7. curBar = [curBar EXCEPT ![a] = Cpm!Closed]
    BY <2>4
  <2> QED
    BY <2>2, <2>4, <2>5, <2>6, <2>7
<1>6. ASSUME NEW s \in Slot, fcb_search(a, s),
             NEW k \in FlushLengths(stream[fcb_table[s].fp]),
             content' = [content EXCEPT ![stream[fcb_table[s].fp].ino] =
                           Flushed(@, stream[fcb_table[s].fp], k)],
             stream' = CloseStream(stream, fcb_table[s].fp),
             fcb_table' = TableWithout(s),
             \/ dir[f] # NoInode /\ dir' = [dir EXCEPT ![f] = NoInode] /\ reg_a' = 0
             \/ /\ \/ dir[f] = NoInode
                   \/ \E h \in Handle : stream'[h].ino = dir[f]
                /\ reg_a' = 255 /\ UNCHANGED dir
      PROVE  Removes /\ Effect
  <2>1. stream \in Streams /\ \A t \in Slot : fcb_search(a, t) => t = s
    BY <1>0, <1>1, <1>6, Types, FoundSlot DEF fcb_search, IInv, TableSound, SlotsDistinct
  <2>2. dir[f] = NoInode \/ ~\E h \in Handle : stream'[h].ino = dir[f]
    <3> SUFFICES ASSUME dir[f] # NoInode, NEW h \in Handle, stream'[h].ino = dir[f]
                 PROVE  FALSE
      OBVIOUS
    <3>1. h # fcb_table[s].fp /\ stream'[h] = stream[h]
      BY <1>6, <2>1 DEF CloseStream, Streams, ClosedStream
    <3>2. \E t \in Slot : fcb_search(a, t) /\ fcb_table[t].fp = h
      <4> HIDE DEF f
      <4> QED
        BY <1>0, <1>1, <1>3, <3>1, NobodyElse
    <3> QED
      BY <2>1, <3>1, <3>2
  <2>3. Removes
    BY <1>6, <2>2
  <2>4. \A g \in Existing : dir'[g] = dir[g] \/ ~OthersHave(a, dir[g])
    BY <1>4, <2>3
  <2>5. /\ curBar' = [curBar EXCEPT ![a] = Cpm!Closed]
        /\ \A g \in Existing : dir'[g] = dir[g] =>
             /\ g \in Existing' /\ dataBar'[g] = dataBar[g]
             /\ durableBar'[g] = Cpm!MustSync(a)[g]
    BY <1>1, <1>2, <1>6, <2>4, SlotFreed
  <2> QED
    BY <2>3, <2>5
<1>7. Removes /\ Effect
  <2>1. \/ /\ NotFound(a) /\ UNCHANGED <<fcb_table, content, stream>>
           /\ \/ dir[f] # NoInode /\ dir' = [dir EXCEPT ![f] = NoInode] /\ reg_a' = 0
              \/ /\ dir[f] = NoInode \/ \E h \in Handle : stream[h].ino = dir[f]
                 /\ reg_a' = 255 /\ UNCHANGED dir
        \/ \E s \in Slot :
             /\ fcb_search(a, s)
             /\ \E k \in FlushLengths(stream[fcb_table[s].fp]) :
                  content' = [content EXCEPT ![stream[fcb_table[s].fp].ino] =
                                Flushed(@, stream[fcb_table[s].fp], k)]
             /\ stream' = CloseStream(stream, fcb_table[s].fp)
             /\ fcb_table' = TableWithout(s)
             /\ \/ dir[f] # NoInode /\ dir' = [dir EXCEPT ![f] = NoInode] /\ reg_a' = 0
                \/ /\ \/ dir[f] = NoInode
                      \/ \E h \in Handle : stream'[h].ino = dir[f]
                   /\ reg_a' = 255 /\ UNCHANGED dir
    <3>1. ~HostRefuses
      BY DEF Promises
    <3> QED
      BY <3>1 DEF DeleteFile
  <2> HIDE DEF Removes, Effect, f
  <2> QED
    BY <1>5, <1>6, <2>1 DEF f
<1>8. Existing' = Existing \ {f}
  <2> HIDE DEF f
  <2> QED
    BY <1>1, <1>7 DEF Existing
<1>9. dataBar' = Cpm!Without(dataBar, f) /\ durableBar' = Cpm!Without(Cpm!MustSync(a), f)
  <2>1. /\ dataBar = [g \in Existing |-> dataBar[g]]
        /\ dataBar' = [g \in Existing' |-> dataBar'[g]]
        /\ durableBar' = [g \in Existing' |-> durableBar'[g]]
        /\ DOMAIN dataBar = Existing
    BY <1>0 DEF FilesView
  <2>2. Cpm!MustSync(a) = [g \in Existing |-> Cpm!MustSync(a)[g]]
    BY <1>0, <1>1, MustSyncIs
  <2>3. \A g \in Existing \ {f} : dir'[g] = dir[g]
    <3> HIDE DEF f
    <3> QED
      BY <1>1, <1>7 DEF Existing
  <2>4. \A g \in Existing \ {f} : /\ dataBar'[g] = dataBar[g]
                                  /\ durableBar'[g] = Cpm!MustSync(a)[g]
    BY <1>7, <2>3
  <2> QED
    BY <1>8, <2>1, <2>2, <2>4 DEF Cpm!Without
<1>10. reg_a' = IF Cpm!Exists(f) THEN 0 ELSE 255
  <2>1. Cpm!Exists(f) <=> dir[f] # NoInode
    BY <1>0, <1>1 DEF Cpm!Exists, FilesView, Existing
  <2> QED
    BY <1>7, <2>1
<1> QED
  BY <1>1, <1>7, <1>9, <1>10 DEF Cpm!Delete, Cpm!Running, Running

(* A stream that moves on its file moves its FCB. *)
LEMMA MovedFcb ==
  ASSUME Seen, Running, UNCHANGED <<fcb_table, dir, status>>,
         NEW a \in FcbAddr, NEW s \in Slot, fcb_search(a, s),
         NEW o, o = fcb_table[s].fp,
         \A g \in Handle : g # o => stream'[g] = stream[g],
         stream'[o].ino = stream[o].ino,
         NEW f \in Existing, dir[f] = stream[o].ino
  PROVE  curBar' = [curBar EXCEPT ![a] = Cpm!At(f, stream'[o].pos \div RecordSize)]
<1>0. IInv /\ Running' /\ Existing' = Existing
  BY DEF Seen, RInv, Running, Existing
<1>1. s \in Live /\ fcb_table[s].addr = a /\ o \in Handle
  BY <1>0, FoundSlot DEF fcb_search
<1>2. \A t \in Live : t # s => /\ fcb_table[t].fp # o
                               /\ fcb_table[t].fp \in Handle
  BY <1>0, <1>1 DEF IInv, TableSound, SlotsDistinct, SlotsOpen
<1>3. curBar' = [curBar EXCEPT ![a] = curBar'[a]]
  <2>1. \A t \in Slot :
          fcb_table[t].addr \notin {a, FREE} =>
            /\ fcb_table'[t] = fcb_table[t]
            /\ stream'[fcb_table[t].fp] = stream[fcb_table[t].fp]
    BY <1>1, <1>2 DEF Live
  <2> QED
    BY <1>0, <2>1, OtherFcbs
<1>4. (curBar[a] = Cpm!At(f, stream[fcb_table[s].fp].pos \div RecordSize))'
  BY <1>0, <1>1 DEF Seen, FcbsView
<1>5. curBar'[a] = Cpm!At(f, stream'[o].pos \div RecordSize)
  BY <1>4 DEF Cpm!At
<1> QED
  BY <1>3, <1>5

(* Where a record follows another one. *)
LEMMA NextRecord ==
  ASSUME NEW p \in Nat, Whole(p)
  PROVE  p \div RecordSize \in Nat /\ (p + RecordSize) \div RecordSize = p \div RecordSize + 1
<1> DEFINE q == p \div RecordSize
<1>1. q \in Nat /\ p = RecordSize * q
  BY WholeIs
<1> HIDE DEF q
<1>2. RecordSize * (q + 1) = p + RecordSize
  BY <1>1, RecordSizeAssumption
<1>3. q + 1 \in Nat
  BY <1>1
<1>4. (RecordSize * (q + 1)) \div RecordSize = q + 1
  BY <1>3, RecordsOfWhole
<1> QED
  BY <1>1, <1>2, <1>4 DEF q

(***************************************************************************)
(* A record read by the FCB's stream, once it is not writing: st1 is the   *)
(* stream, and cont the files, after a flush and a seek.                   *)
(***************************************************************************)
RecordDelivered(a, f, r, next) ==
  /\ dataBar' = dataBar
  /\ durableBar' = Cpm!MustSync(a)
  /\ curBar' = [curBar EXCEPT ![a] = Cpm!At(f, next)]
  /\ IF r < Len(dataBar[f])
     THEN /\ reg_a' = 0
          /\ dma_buf' = [dma_buf EXCEPT ![dma_address] = dataBar[f][r + 1]]
     ELSE reg_a' = 1 /\ UNCHANGED dma_buf

LEMMA DeliverImplements ==
  ASSUME Promises, Seen, Running, UNCHANGED <<fcb_table, dir, status>>,
         NEW a \in FcbAddr, NEW s \in Slot, fcb_search(a, s),
         NEW o, o = fcb_table[s].fp, NEW cont, NEW st1 \in Stream, NEW back,
         cont = [content EXCEPT ![stream[o].ino] = Shown(@, stream[o])],
         st1.ino = stream[o].ino, st1.mode # "write", Whole(st1.pos),
         Current(Shown(content[stream[o].ino], stream[o]), st1),
         back = NoSeek \/ back \in Nat,
         Deliver(o, st1, cont, back)
  PROVE  \E f \in Existing :
           /\ curBar[a] = Cpm!At(f, stream[o].pos \div RecordSize)
           /\ st1.pos \div RecordSize \in Nat /\ Len(dataBar[f]) \in Nat
           /\ RecordDelivered(a, f, st1.pos \div RecordSize,
                IF back # NoSeek THEN back \div RecordSize
                ELSE IF st1.pos \div RecordSize < Len(dataBar[f])
                     THEN st1.pos \div RecordSize + 1
                     ELSE st1.pos \div RecordSize)
<1> DEFINE i == stream[o].ino
           c == Shown(content[i], stream[o])
           r == st1.pos \div RecordSize
           read(end) == AfterRead(c, st1, end)
<1>0. RInv /\ IInv /\ FilesView /\ FilesView' /\ FcbsView
  BY DEF Seen, RInv
<1>1. /\ o \in Handle /\ stream[o] \in Stream /\ i \in Inode
      /\ stream \in Streams /\ content \in Files /\ content[i] \in Seq(Byte)
  BY <1>0, FoundSlot, Types DEF Files
<1>2. PICK f \in Existing : /\ dir[f] = i
                            /\ curBar[a] = Cpm!At(f, stream[o].pos \div RecordSize)
  BY <1>0, SlotFile
<1>3. c \in Seq(Byte) /\ Whole(Len(c))
  <2>1. Whole(Len(content[i])) /\ WholeStream(stream[o])
    BY <1>0, <1>1 DEF RInv, Aligned
  <2> QED
    BY <1>1, <2>1, ShownType, ShownWhole
<1>4. dataBar[f] = RecordsOf(c)
  <2>1. Sees(f, c)
    BY <1>1, <1>2 DEF Sees
  <2> HIDE DEF c
  <2> QED
    BY <1>0, <2>1 DEF FilesView
<1>5. cont[i] = c /\ cont = [content EXCEPT ![i] = Shown(@, stream[o])]
  BY <1>1 DEF Files
<1> HIDE DEF c
<1>6. /\ r \in Nat /\ Len(dataBar[f]) \in Nat
      /\ r < Len(dataBar[f]) => /\ ReadCount(c, st1) = RecordSize
                                /\ Padded(ReadBytes(c, st1)) = dataBar[f][r + 1]
      /\ ~(r < Len(dataBar[f])) => ReadCount(c, st1) = 0
  BY <1>3, <1>4, RecordRead DEF c
<1>7. PICK end \in BufferEnds(c, st1) :
        /\ stream' = [stream EXCEPT ![o] = SeekBack(read(end), back)]
        /\ content' = cont
        /\ IF ReadCount(c, st1) = 0
           THEN reg_a' = 1 /\ UNCHANGED dma_buf
           ELSE /\ reg_a' = 0
                /\ dma_buf' = [dma_buf EXCEPT ![dma_address] = Padded(ReadBytes(c, st1))]
  BY <1>5 DEF Deliver
<1> DEFINE new == SeekBack(read(end), back)
<1>8. /\ read(end) \in Stream /\ read(end).ino = i /\ read(end).mode # "write"
      /\ read(end).pos = st1.pos + ReadCount(c, st1)
  <2>1. /\ read(end) \in Stream /\ read(end).ino = i
        /\ read(end).mode \in {"idle", "read"}
    BY <1>3, AfterReadType
  <2>2. read(end).pos = st1.pos + ReadCount(c, st1)
    BY DEF AfterRead, Stream
  <2> QED
    BY <2>1, <2>2
<1> HIDE DEF read
<1>9. /\ new.ino = i /\ new.mode # "write"
      /\ new.pos = IF back = NoSeek THEN st1.pos + ReadCount(c, st1) ELSE back
  <2>1. CASE back = NoSeek
    BY <1>8, <2>1 DEF SeekBack
  <2>2. CASE back # NoSeek
    <3>1. new = Seeked(read(end), back) /\ back \in Nat
      BY <2>2 DEF SeekBack
    <3>2. /\ new.ino = i /\ new.mode = "idle"
      BY <1>8, <3>1, SimpleStreamTypes
    <3>3. new.pos = back
      BY <1>8, <3>1 DEF Seeked, Stream
    <3> QED
      BY <2>2, <3>2, <3>3
  <2> QED
    BY <2>1, <2>2
<1>10. stream'[o] = new /\ \A g \in Handle : g # o => stream'[g] = stream[g]
  BY <1>1, <1>7 DEF Streams
<1> HIDE DEF new
<1>11. dataBar' = dataBar /\ durableBar' = Cpm!MustSync(a)
  <2>1. Pending(stream'[o]) = <<>> /\ \A g \in Handle : g # o => Apart(g)
    BY <1>9, <1>10 DEF Pending, Apart
  <2>2. content' = [content EXCEPT ![stream[o].ino] = Shown(@, stream[o])]
    BY <1>5, <1>7
  <2> HIDE DEF i
  <2> QED
    BY <2>1, <2>2, FlushOfSlot
<1>12. curBar' = [curBar EXCEPT ![a] = Cpm!At(f, new.pos \div RecordSize)]
  <2>1. stream'[o].ino = stream[o].ino
    BY <1>9, <1>10
  <2> QED
    BY <1>2, <1>10, <2>1, MovedFcb
<1>13. new.pos \div RecordSize =
         IF back # NoSeek THEN back \div RecordSize
         ELSE IF r < Len(dataBar[f]) THEN r + 1 ELSE r
  <2>1. st1.pos \in Nat
    BY DEF Stream
  <2>2. st1.pos + 0 = st1.pos
    BY <2>1
  <2>3. (st1.pos + RecordSize) \div RecordSize = r + 1
    BY <2>1, NextRecord
  <2> HIDE DEF r
  <2>4. CASE back # NoSeek
    BY <1>9, <2>4
  <2>5. CASE back = NoSeek /\ r < Len(dataBar[f])
    BY <1>6, <1>9, <2>3, <2>5
  <2>6. CASE back = NoSeek /\ ~(r < Len(dataBar[f]))
    BY <1>6, <1>9, <2>2, <2>6 DEF r
  <2> QED
    BY <2>4, <2>5, <2>6
<1>14. IF r < Len(dataBar[f])
       THEN /\ reg_a' = 0
            /\ dma_buf' = [dma_buf EXCEPT ![dma_address] = dataBar[f][r + 1]]
       ELSE reg_a' = 1 /\ UNCHANGED dma_buf
  <2> HIDE DEF r
  <2> QED
    BY <1>6, <1>7, RecordSizeAssumption
<1> QED
  BY <1>2, <1>6, <1>11, <1>12, <1>13, <1>14 DEF RecordDelivered

(* What a call for an FCB that is not open sees and does. *)
LEMMA NotOpen ==
  ASSUME Seen, Running, NEW a \in FcbAddr, NotFound(a),
         UNCHANGED <<fcb_table, dir, content, stream, status>>
  PROVE  /\ ~curBar[a].open
         /\ dataBar' = dataBar /\ durableBar' = durableBar /\ curBar' = curBar
<1>1. curBar[a] = Cpm!Closed
  BY DEF Seen, FcbsView
<1> QED
  BY <1>1, SameFiles, SameFcbs DEF Cpm!Closed

(* A place in a file. *)
LEMMA Place ==
  \A f, q : /\ Cpm!At(f, q).open /\ Cpm!At(f, q).file = f /\ Cpm!At(f, q).next = q
            /\ \A m : [Cpm!At(f, q) EXCEPT !.next = m] = Cpm!At(f, m)
<1> SUFFICES ASSUME NEW f, NEW q, NEW m
             PROVE  /\ Cpm!At(f, q).open /\ Cpm!At(f, q).file = f
                    /\ Cpm!At(f, q).next = q
                    /\ [Cpm!At(f, q) EXCEPT !.next = m] = Cpm!At(f, m)
  OBVIOUS
<1>1. Cpm!At(f, q) = [open |-> TRUE, file |-> f, next |-> q]
      /\ Cpm!At(f, m) = [open |-> TRUE, file |-> f, next |-> m]
  BY DEF Cpm!At
<1>2. /\ [open |-> TRUE, file |-> f, next |-> q].open = TRUE
      /\ [open |-> TRUE, file |-> f, next |-> q].file = f
      /\ [open |-> TRUE, file |-> f, next |-> q].next = q
  OBVIOUS
<1>3. [[open |-> TRUE, file |-> f, next |-> q] EXCEPT !.next = m]
        = [open |-> TRUE, file |-> f, next |-> m]
  <2> DEFINE x == [[open |-> TRUE, file |-> f, next |-> q] EXCEPT !.next = m]
             y == [open |-> TRUE, file |-> f, next |-> m]
  <2>1. x = [i \in {"open", "file", "next"} |-> x[i]]
    OBVIOUS
  <2>2. y = [i \in {"open", "file", "next"} |-> y[i]]
    OBVIOUS
  <2>3. x.open = y.open /\ x.file = y.file /\ x.next = y.next
    OBVIOUS
  <2> HIDE DEF x, y
  <2>4. \A i \in {"open", "file", "next"} : x[i] = y[i]
    BY <2>3
  <2>5. x = y
    BY <2>1, <2>2, <2>4
  <2> QED
    BY <2>5 DEF x, y
<1> QED
  BY <1>1, <1>2, <1>3

(* Function 20. *)
LEMMA ReadImplements ==
  ASSUME Promises, Seen, NEW a \in FcbAddr, ReadNext(a)
  PROVE  Cpm!Read(a)
<1>0. RInv /\ IInv /\ Running /\ UNCHANGED <<fcb_table, dma_address, dir, status>>
  BY DEF Seen, RInv, ReadNext
<1>1. CASE NotFound(a) /\ reg_a' = 9 /\ UNCHANGED <<dma_buf, content, stream>>
  BY <1>0, <1>1, NotOpen DEF Cpm!Read, Cpm!Running, Running
<1>2. ASSUME NEW s \in Slot, fcb_search(a, s), NEW o, o = fcb_table[s].fp,
             bdos_read_next_record(o, stream[o], content, NoSeek)
      PROVE  Cpm!Read(a)
  <2> DEFINE st == stream[o]
  <2>1. /\ o \in Handle /\ st \in Stream /\ st.mode # "closed" /\ st.ino \in Inode
        /\ content \in Files /\ content[st.ino] \in Seq(Byte)
    BY <1>0, <1>2, FoundStream, Types
  <2>2. /\ Whole(st.pos) /\ Placed(st)
        /\ st.mode # "write" => Current(content[st.ino], st)
    BY <1>0, <2>1
       DEF RInv, Aligned, WholeStream, AllPlaced, ReadsCurrent, Current, Stream, Mode
  <2>3. ASSUME NEW st1 \in Stream, NEW cont, st1.pos = st.pos,
               cont = [content EXCEPT ![st.ino] = Shown(@, st)],
               st1.ino = st.ino, st1.mode # "write",
               Current(Shown(content[st.ino], st), st1),
               Deliver(o, st1, cont, NoSeek)
        PROVE  Cpm!Read(a)
    <3> DEFINE r == st.pos \div RecordSize
               delivered(f) == RecordDelivered(a, f, r, IF r < Len(dataBar[f])
                                                        THEN r + 1 ELSE r)
    <3>1. PICK f \in Existing :
            /\ curBar[a] = Cpm!At(f, r) /\ r \in Nat /\ Len(dataBar[f]) \in Nat
            /\ delivered(f)
      <4> DEFINE all(q) == \E f \in Existing :
                   /\ curBar[a] = Cpm!At(f, r)
                   /\ q \in Nat /\ Len(dataBar[f]) \in Nat
                   /\ RecordDelivered(a, f, q, IF NoSeek # NoSeek
                        THEN NoSeek \div RecordSize
                        ELSE IF q < Len(dataBar[f]) THEN q + 1 ELSE q)
      <4>1. all(st1.pos \div RecordSize)
        <5>1. Whole(st1.pos)
          BY <2>2, <2>3
        <5> HIDE DEF st
        <5>2. cont = [content EXCEPT ![stream[o].ino] = Shown(@, stream[o])]
          BY <2>3 DEF st
        <5> QED
          BY <1>0, <1>2, <2>3, <5>1, <5>2, DeliverImplements DEF st
      <4> HIDE DEF r
      <4>2. all(r)
        BY <2>3, <4>1 DEF r
      <4> QED
        BY <4>2
    <3> HIDE DEF r
    <3>2. /\ curBar = [b \in FcbAddr |-> curBar[b]]
          /\ curBar[a].open /\ curBar[a].file = f /\ curBar[a].next = r
          /\ \A m : [curBar[a] EXCEPT !.next = m] = Cpm!At(f, m)
      BY <3>1, Place DEF Seen, FcbsView
    <3>3. Cpm!Deliver(a, r) /\ durableBar' = Cpm!MustSync(a) /\ UNCHANGED dataBar
      BY <3>1, <3>2 DEF Cpm!Deliver, RecordDelivered
    <3>4. curBar' = [curBar EXCEPT ![a] =
                       Cpm!At(f, IF r < Len(dataBar[f]) THEN r + 1 ELSE r)]
      BY <3>1 DEF RecordDelivered
    <3>5. curBar' = [curBar EXCEPT ![a].next =
                       IF @ < Len(dataBar[curBar[a].file]) THEN @ + 1 ELSE @]
      BY <3>2, <3>4
    <3> QED
      BY <1>0, <3>2, <3>3, <3>5 DEF Cpm!Read, Cpm!Running, Running
  <2>4. CASE st.mode # "write" /\ Deliver(o, st, content, NoSeek)
    <3>1. \A c : Shown(c, st) = c
      BY <2>4, NothingPending DEF Pending
    <3>2. content = [content EXCEPT ![st.ino] = Shown(@, st)]
      BY <2>1, <3>1 DEF Files
    <3> QED
      BY <2>1, <2>2, <2>3, <2>4, <3>1, <3>2
  <2>5. ASSUME st.mode = "write", NEW k \in FlushLengths(st),
               NEW cont, cont = [content EXCEPT ![st.ino] = Flushed(@, st, k)],
               NEW after, after = Seeked(st, st.off + k),
               FlushOK(st, k) => Deliver(o, after, cont, NoSeek)
        PROVE  Cpm!Read(a)
    <3>1. /\ cont = [content EXCEPT ![st.ino] = Shown(@, st)]
          /\ FlushOK(st, k) /\ k = Len(Pending(st))
      BY <2>1, <2>5, FlushedFile
    <3>2. st.off + k = st.pos /\ st.pos \in Nat
      BY <2>1, <2>2, <2>5, <3>1 DEF Placed, Pending, Stream
    <3>3. /\ after \in Stream /\ after.ino = st.ino /\ after.mode = "idle"
      BY <2>1, <2>5, <3>2, SimpleStreamTypes
    <3>4. after.pos = st.pos
      BY <2>1, <2>5, <3>2 DEF Seeked, Stream
    <3>5. Current(Shown(content[st.ino], st), after)
      BY <2>1, <2>5, <3>2, SeekedCurrent
    <3> QED
      BY <2>3, <2>5, <3>1, <3>3, <3>4, <3>5
  <2>6. \/ st.mode # "write" /\ Deliver(o, st, content, NoSeek)
        \/ /\ st.mode = "write"
           /\ \E k \in FlushLengths(st) :
                FlushOK(st, k) =>
                  Deliver(o, Seeked(st, st.off + k),
                          [content EXCEPT ![st.ino] = Flushed(@, st, k)], NoSeek)
    BY <1>2 DEF bdos_read_next_record, Promises
  <2> HIDE DEF st
  <2> QED
    BY <2>4, <2>5, <2>6
<1> QED
  BY <1>1, <1>2 DEF ReadNext

(* Function 33. *)
LEMMA ReadAtImplements ==
  ASSUME Promises, Seen, NEW a \in FcbAddr, NEW r \in RandomRecord, ReadRandom(a, r)
  PROVE  Cpm!ReadAt(a, r)
<1>0. RInv /\ IInv /\ Running /\ UNCHANGED <<fcb_table, dma_address, dir, status>>
  BY DEF Seen, RInv, ReadRandom
<1>1. CASE NotFound(a) /\ reg_a' = 9 /\ UNCHANGED <<dma_buf, content, stream>>
  BY <1>0, <1>1, NotOpen DEF Cpm!ReadAt, Cpm!Running, Running
<1>2. ASSUME NEW s \in Slot, fcb_search(a, s), NEW o, o = fcb_table[s].fp,
             NEW k \in FlushLengths(stream[o]),
             FlushOK(stream[o], k) =>
               bdos_read_next_record(o, Seeked(stream[o], RecordOffset(r)),
                 [content EXCEPT ![stream[o].ino] = Flushed(@, stream[o], k)],
                 RecordOffset(r))
      PROVE  Cpm!ReadAt(a, r)
  <2> DEFINE st == stream[o]
             offs == RecordOffset(r)
             st1 == Seeked(st, offs)
             cont == [content EXCEPT ![st.ino] = Shown(@, st)]
  <2>1. /\ o \in Handle /\ st \in Stream /\ st.mode # "closed" /\ st.ino \in Inode
        /\ content \in Files /\ content[st.ino] \in Seq(Byte)
    BY <1>0, <1>2, FoundStream, Types
  <2>2. st.mode # "write" => Current(content[st.ino], st)
    BY <1>0, <2>1 DEF RInv, ReadsCurrent, Current, Stream, Mode
  <2>3. /\ [content EXCEPT ![st.ino] = Flushed(@, st, k)] = cont
        /\ FlushOK(st, k)
    BY <2>1, FlushedFile
  <2>4. /\ offs \in Nat /\ Whole(offs) /\ r \in Nat /\ offs \div RecordSize = r
    <3>1. r \in Nat /\ RecordSize \in Nat
      BY BoundsAssumption, RecordSizeAssumption
    <3>2. offs = RecordSize * r
      BY <3>1 DEF RecordOffset
    <3>3. Whole(offs)
      BY <3>1, WholeSums DEF RecordOffset
    <3> QED
      BY <3>1, <3>2, <3>3, RecordsOfWhole
  <2>5. st1 \in Stream /\ st1.ino = st.ino /\ st1.mode = "idle"
    BY <2>1, <2>4, SimpleStreamTypes
  <2>6. st1.pos = offs
    BY <2>1 DEF Seeked, Stream
  <2>7. Current(Shown(content[st.ino], st), st1)
    <3>1. st.mode # "write" => Shown(content[st.ino], st) = content[st.ino]
      BY NothingPending DEF Pending
    <3> HIDE DEF offs, st
    <3> QED
      BY <2>1, <2>2, <2>4, <3>1, SeekedCurrent
  <2>8. Deliver(o, st1, cont, offs)
    <3>1. bdos_read_next_record(o, st1, cont, offs)
      BY <1>2, <2>3
    <3> HIDE DEF st1, cont, offs
    <3> QED
      BY <2>5, <3>1 DEF bdos_read_next_record
  <2>9. offs # NoSeek
    BY <2>4 DEF NoSeek
  <2> DEFINE delivered(f) == RecordDelivered(a, f, r, r)
  <2>10. PICK f \in Existing :
           /\ curBar[a] = Cpm!At(f, st.pos \div RecordSize)
           /\ delivered(f)
    <3> DEFINE all(q) == \E f \in Existing :
                 /\ curBar[a] = Cpm!At(f, st.pos \div RecordSize)
                 /\ q \in Nat /\ Len(dataBar[f]) \in Nat
                 /\ RecordDelivered(a, f, q, IF offs # NoSeek THEN offs \div RecordSize
                      ELSE IF q < Len(dataBar[f]) THEN q + 1 ELSE q)
    <3> HIDE DEF st1, cont, offs
    <3>1. all(st1.pos \div RecordSize)
      BY <1>0, <1>2, <2>4, <2>5, <2>6, <2>7, <2>8, DeliverImplements DEF cont
    <3>2. all(r)
      BY <2>4, <2>6, <3>1
    <3> QED
      BY <2>4, <2>9, <3>2
  <2> HIDE DEF st, offs, st1, cont
  <2>11. /\ curBar = [b \in FcbAddr |-> curBar[b]]
         /\ curBar[a].open /\ curBar[a].file = f
         /\ [curBar[a] EXCEPT !.next = r] = Cpm!At(f, r)
    BY <2>10, Place DEF Seen, FcbsView
  <2>12. Cpm!Deliver(a, r) /\ durableBar' = Cpm!MustSync(a) /\ UNCHANGED dataBar
    BY <2>10, <2>11 DEF Cpm!Deliver, RecordDelivered
  <2>13. curBar' = [curBar EXCEPT ![a].next = r]
    BY <2>10, <2>11 DEF RecordDelivered
  <2> QED
    BY <1>0, <2>11, <2>12, <2>13 DEF Cpm!ReadAt, Cpm!Running, Running
<1> QED
  BY <1>1, <1>2 DEF ReadRandom

(* Function 21 as it touches the stream: the record is pending, or with it *)
(* all that was is in the file.                                            *)
Accepted(o, new) ==
  \/ stream' = [stream EXCEPT ![o] = new] /\ UNCHANGED content
  \/ \E k \in FlushLengths(new) :
       /\ stream' = [stream EXCEPT ![o] = Drained(new, k)]
       /\ content' = [content EXCEPT ![stream[o].ino] = Flushed(@, new, k)]

LEMMA AcceptShows ==
  ASSUME Promises, Seen, UNCHANGED dir, NEW o \in Handle, stream[o].mode # "closed",
         NEW d \in Record, Accepted(o, AfterWrite(stream[o], d)),
         NEW f \in Existing, dir[f] = stream[o].ino,
         \A g \in Existing : dir[g] = stream[o].ino <=> g = f
  PROVE  /\ stream'[o].ino = stream[o].ino
         /\ stream'[o].pos = stream[o].pos + RecordSize
         /\ \A g \in Handle : g # o => stream'[g] = stream[g]
         /\ dataBar' = [dataBar EXCEPT ![f] =
              RecordsOf(Overlay(Shown(content[stream[o].ino], stream[o]),
                                stream[o].pos, d))]
         /\ durableBar' \in {durableBar, [durableBar EXCEPT ![f] =
              RecordsOf(Overlay(Shown(content[stream[o].ino], stream[o]),
                                stream[o].pos, d))]}
<1> DEFINE st == stream[o]
           i == st.ino
           new == AfterWrite(st, d)
           w == Overlay(Shown(content[i], st), st.pos, d)
<1>0. RInv /\ IInv /\ FilesView /\ FilesView' /\ Exclusive /\ ClosedEmpty
  BY DEF Seen, RInv
<1>1. /\ st \in Stream /\ i \in Inode /\ stream \in Streams
      /\ content \in Files /\ content[i] \in Seq(Byte)
  BY <1>0, Types DEF Files, Streams, IInv, StreamsHaveFiles
<1>2. new \in Stream /\ new.ino = i /\ new.mode = "write"
  BY <1>1, AfterWriteType DEF Record
<1>3. /\ Shown(content[i], new) = w
      /\ Placed(new) /\ new.pos = st.pos + RecordSize
  BY <1>0, <1>1, WriteShows DEF RInv, AllPlaced
<1>4. Existing' = Existing
  BY DEF Existing
<1>5. /\ dataBar = [g \in Existing |-> dataBar[g]]
      /\ durableBar = [g \in Existing |-> durableBar[g]]
      /\ dataBar' = [g \in Existing |-> dataBar'[g]]
      /\ durableBar' = [g \in Existing |-> durableBar'[g]]
  BY <1>0, <1>4 DEF FilesView
<1> DEFINE Effect ==
             /\ stream'[o].ino = i /\ stream'[o].pos = st.pos + RecordSize
             /\ \A g \in Handle : g # o => stream'[g] = stream[g]
             /\ dataBar'[f] = RecordsOf(w)
             /\ \A j \in Inode : j # i => content'[j] = content[j]
             /\ durableBar'[f] \in {durableBar[f], RecordsOf(w)}
<1> HIDE DEF w, new
<1>6. ASSUME stream' = [stream EXCEPT ![o] = new], UNCHANGED content
      PROVE  Effect
  <2>1. stream'[o] = new /\ \A g \in Handle : g # o => stream'[g] = stream[g]
    BY <1>1, <1>6 DEF Streams
  <2>2. PICK v : v = w
    OBVIOUS
  <2>3. dataBar'[f] = RecordsOf(w)
    <3>1. stream'[o].ino = dir'[f]
      BY <1>2, <2>1
    <3>2. v = Shown(content'[dir'[f]], stream'[o])
      BY <1>3, <1>6, <2>1, <2>2
    <3>3. Sees(f, v)'
      BY <3>1, <3>2 DEF Sees, Shown, Pending
    <3>4. (dataBar[f] = RecordsOf(v))'
      BY <1>0, <1>4, <3>3 DEF FilesView
    <3>5. dataBar'[f] = RecordsOf(v)
      BY <3>4 DEF RecordsOf
    <3> QED
      BY <2>2, <3>5
  <2>4. durableBar'[f] = durableBar[f]
    BY <1>0, <1>4, <1>6 DEF FilesView
  <2> QED
    BY <1>2, <1>3, <1>6, <2>1, <2>3, <2>4
<1>7. ASSUME NEW k \in FlushLengths(new),
             stream' = [stream EXCEPT ![o] = Drained(new, k)],
             content' = [content EXCEPT ![i] = Flushed(@, new, k)]
      PROVE  Effect
  <2>1. /\ stream'[o] = Drained(new, k)
        /\ \A g \in Handle : g # o => stream'[g] = stream[g]
    BY <1>1, <1>7 DEF Streams
  <2>2. k = Len(Pending(new)) /\ \A c : Flushed(c, new, k) = Shown(c, new)
    BY <1>2, FlushShows DEF Promises
  <2>3. content'[i] = w /\ \A j \in Inode : j # i => content'[j] = content[j]
    BY <1>1, <1>3, <1>7, <2>2 DEF Files
  <2>4. k \in Nat /\ new.off + k = new.pos /\ new.pos \in Nat
    BY <1>2, <1>3, <2>2 DEF Placed, Pending, Stream
  <2>5. /\ stream'[o].ino = i /\ stream'[o].pos = new.pos
        /\ Pending(stream'[o]) = <<>>
    BY <1>2, <2>1, <2>4 DEF Drained, Pending, Stream
  <2>6. \A g \in Handle : stream[g].ino = dir[f] => g = o
    BY <1>0, OneOnFile
  <2>7. \A g \in Handle : stream'[g].ino = dir'[f] => Pending(stream'[g]) = <<>>
    BY <2>1, <2>5, <2>6
  <2>8. Sees(f, content[dir[f]])'
    BY <2>7 DEF Sees, Quiet
  <2>9. /\ dataBar'[f] = RecordsOf(content'[dir'[f]])
        /\ durableBar'[f] = RecordsOf(content'[dir'[f]])
    BY <1>0, <1>4, <2>8 DEF FilesView
  <2>10. /\ dataBar'[f] = RecordsOf(w)
         /\ durableBar'[f] \in {durableBar[f], RecordsOf(w)}
    BY <2>3, <2>9
  <2>11. stream'[o].pos = st.pos + RecordSize
    BY <1>3, <2>5
  <2> QED
    BY <2>1, <2>3, <2>5, <2>10, <2>11
<1>8. Effect
  BY <1>6, <1>7 DEF Accepted, new
<1>9. ASSUME NEW g \in Existing, g # f
      PROVE  dataBar'[g] = dataBar[g] /\ durableBar'[g] = durableBar[g]
  <2>1. dir[g] # i /\ dir[g] \in Inode
    BY <1>0, <1>9, Types DEF Existing
  <2>2. content'[dir[g]] = content[dir[g]]
    BY <1>8, <2>1
  <2>3. \A h \in Handle : stream[h].ino = dir[g] => stream'[h] = stream[h]
    BY <1>8, <2>1
  <2>4. Quiet(g) => Quiet(g)'
    BY <1>8, <2>1 DEF Quiet
  <2> HIDE DEF i, st
  <2> QED
    BY <1>0, <2>2, <2>3, <2>4, FileStill
<1>10. dataBar' = [dataBar EXCEPT ![f] = RecordsOf(w)]
  <2> HIDE DEF i, st
  <2> QED
    BY <1>5, <1>8, <1>9
<1>11. durableBar' \in {durableBar, [durableBar EXCEPT ![f] = RecordsOf(w)]}
  <2> HIDE DEF i, st
  <2>1. CASE durableBar'[f] = durableBar[f]
    BY <1>5, <1>9, <2>1
  <2>2. CASE durableBar'[f] = RecordsOf(w)
    BY <1>5, <1>9, <2>2
  <2> QED
    BY <1>8, <2>1, <2>2
<1> QED
  BY <1>8, <1>10, <1>11 DEF w

LEMMA WriteImplements ==
  ASSUME Promises, Seen, NEW a \in FcbAddr, WriteNext(a)
  PROVE  Cpm!Write(a)
<1>0. /\ RInv /\ IInv /\ Running /\ FilesView /\ FcbsView
      /\ UNCHANGED <<fcb_table, dma_address, dma_buf, dir, status>>
  BY DEF Seen, RInv, WriteNext
<1>1. CASE NotFound(a) /\ reg_a' = 9 /\ UNCHANGED <<content, stream>>
  BY <1>0, <1>1, NotOpen DEF Cpm!Write, Cpm!Running, Running
<1> DEFINE d == dma_buf[dma_address]
<1>2. ASSUME NEW s \in Slot, fcb_search(a, s), NEW o, o = fcb_table[s].fp,
             Accepted(o, AfterWrite(stream[o], d)), reg_a' = 0
      PROVE  Cpm!Write(a)
  <2> DEFINE st == stream[o]
             i == st.ino
             q == st.pos \div RecordSize
             c == Shown(content[i], st)
             new == RecordsOf(Overlay(c, st.pos, d))
  <2>1. /\ o \in Handle /\ st \in Stream /\ st.mode # "closed" /\ i \in Inode
        /\ content \in Files /\ content[i] \in Seq(Byte) /\ d \in Record
    BY <1>0, <1>2, FoundStream, Types
  <2>2. PICK f \in Existing :
          /\ dir[f] = i
          /\ \A g \in Existing : dir[g] = i <=> g = f
          /\ curBar[a] = Cpm!At(f, q)
    BY <1>0, <1>2, SlotFile
  <2>3. Whole(Len(content[i])) /\ WholeStream(st) /\ Whole(st.pos) /\ st.pos \in Nat
    BY <1>0, <2>1 DEF RInv, Aligned, WholeStream, Stream
  <2>4. c \in Seq(Byte) /\ Whole(Len(c))
    BY <2>1, <2>3, ShownType, ShownWhole
  <2>5. dataBar[f] = RecordsOf(c)
    <3>1. Sees(f, c)
      BY <2>1, <2>2 DEF Sees
    <3> HIDE DEF c
    <3> QED
      BY <1>0, <3>1 DEF FilesView
  <2>6. new = Cpm!WithRecord(dataBar[f], q, d)
    <3>1. q \in Nat /\ st.pos = RecordSize * q
      BY <2>3, WholeIs
    <3>2. RecordsOf(Overlay(c, RecordSize * q, d)) = Cpm!WithRecord(RecordsOf(c), q, d)
      <4> HIDE DEF c, q
      <4> QED
        BY <2>1, <2>4, <3>1, RecordWritten
    <3> QED
      BY <2>5, <3>1, <3>2
  <2>7. /\ stream'[o].ino = i
        /\ stream'[o].pos = st.pos + RecordSize
        /\ \A g \in Handle : g # o => stream'[g] = stream[g]
        /\ dataBar' = [dataBar EXCEPT ![f] = new]
        /\ durableBar' \in {durableBar, [durableBar EXCEPT ![f] = new]}
    BY <1>0, <1>2, <2>1, <2>2, AcceptShows
  <2> HIDE DEF c, new
  <2>8. curBar' = [curBar EXCEPT ![a] = Cpm!At(f, q + 1)]
    <3>1. curBar' = [curBar EXCEPT ![a] = Cpm!At(f, stream'[o].pos \div RecordSize)]
      BY <1>0, <1>2, <2>2, <2>7, MovedFcb
    <3>2. (st.pos + RecordSize) \div RecordSize = q + 1
      BY <2>3, NextRecord
    <3> QED
      BY <2>7, <3>1, <3>2
  <2> HIDE DEF q, i, st, d
  <2>9. /\ curBar = [b \in FcbAddr |-> curBar[b]]
        /\ curBar[a].open /\ curBar[a].file = f /\ curBar[a].next = q
        /\ [curBar[a] EXCEPT !.next = q + 1] = Cpm!At(f, q + 1)
    BY <1>0, <2>2, Place DEF FcbsView
  <2>10. curBar' = [curBar EXCEPT ![a].next = @ + 1]
    BY <2>8, <2>9
  <2> QED
    BY <1>0, <1>2, <2>6, <2>7, <2>9, <2>10 DEF Cpm!Write, Cpm!Running, Running, d
<1>3. ASSUME ~NotFound(a)
      PROVE  Cpm!Write(a)
  <2>1. PICK s \in Slot :
          /\ fcb_search(a, s)
          /\ LET h == fcb_table[s].fp
                 new == AfterWrite(stream[h], d)
             IN  \/ /\ stream' = [stream EXCEPT ![h] = new]
                    /\ reg_a' = 0
                    /\ UNCHANGED content
                 \/ \E k \in FlushLengths(new) :
                      /\ stream' = [stream EXCEPT ![h] = Drained(new, k)]
                      /\ content' = [content EXCEPT ![stream[h].ino] = Flushed(@, new, k)]
                      /\ reg_a' = IF FlushOK(new, k) THEN 0 ELSE 2
    BY <1>3 DEF WriteNext, Promises
  <2> DEFINE h == fcb_table[s].fp
             new == AfterWrite(stream[h], d)
  <2>2. new \in Stream
    BY <1>0, <2>1, FoundStream, AfterWriteType, Types DEF Record
  <2>3. \A k \in FlushLengths(new) : FlushOK(new, k)
    BY <2>2, FlushShows DEF Promises
  <2> HIDE DEF h, new
  <2>4. /\ reg_a' = 0
        /\ \/ stream' = [stream EXCEPT ![h] = new] /\ UNCHANGED content
           \/ \E k \in FlushLengths(new) :
                /\ stream' = [stream EXCEPT ![h] = Drained(new, k)]
                /\ content' = [content EXCEPT ![stream[h].ino] = Flushed(@, new, k)]
    BY <2>1, <2>3 DEF h, new
  <2>5. Accepted(h, new)
    BY <2>4 DEF Accepted
  <2>6. Accepted(fcb_table[s].fp, AfterWrite(stream[fcb_table[s].fp], d))
    BY <2>5 DEF h, new
  <2> QED
    BY <1>2, <2>1, <2>4, <2>6
<1> QED
  BY <1>1, <1>3 DEF WriteNext, NotFound, fcb_search

-----------------------------------------------------------------------------
(* Opening files. *)

(* The FCBs that are open are those with a slot. *)
LEMMA OpenFcbsAre ==
  ASSUME RInv, FcbsView, Running
  PROVE  /\ \A a \in FcbAddr : curBar[a].open <=> \E s \in Live : fcb_table[s].addr = a
         /\ \A s \in Live : fcb_table[s].addr \in Cpm!OpenFcbs
<1>1. ASSUME NEW a \in FcbAddr, NEW s \in Slot, fcb_table[s].addr = a
      PROVE  curBar[a].open
  <2>1. PICK f \in Existing :
          curBar[a] = Cpm!At(f, stream[fcb_table[s].fp].pos \div RecordSize)
    BY <1>1 DEF FcbsView
  <2> QED
    BY <2>1 DEF Cpm!At
<1>2. ASSUME NEW a \in FcbAddr, NotFound(a) PROVE ~curBar[a].open
  BY <1>2 DEF FcbsView, Cpm!Closed
<1>3. \A a \in FcbAddr : curBar[a].open <=> \E s \in Live : fcb_table[s].addr = a
  BY <1>1, <1>2, AddressNotFree DEF NotFound, Live
<1>4. \A s \in Live : fcb_table[s].addr \in FcbAddr
  BY Types DEF RInv, Table, Live
<1> QED
  BY <1>3, <1>4 DEF Cpm!OpenFcbs

(* The abstract specification counts as this one does. *)
LEMMA SameCardinality == \A S : Cpm!Cardinality(S) = Cardinality(S)
  BY DEF Cpm!Cardinality, Cardinality

(***************************************************************************)
(* When the host has no stream left, or the table no slot, as many FCBs    *)
(* are open as can be at once: each stream has a slot, each slot an FCB.   *)
(***************************************************************************)
LEMMA AllOpen ==
  ASSUME Promises, RInv, FcbsView, Running, ClosedHandles = {} \/ Live = Slot
  PROVE  Cpm!Cardinality(Cpm!OpenFcbs) >= MaxOpen
<1> DEFINE Open == Cpm!OpenFcbs
<1>0. /\ SlotsDistinct /\ SlotsOpen /\ NoStreamLeaks
      /\ \A s \in Live : fcb_table[s].addr \in Open
      /\ \A b \in Open : \E s \in Live : fcb_table[s].addr = b
  BY OpenFcbsAre DEF RInv, IInv, TableSound, Cpm!OpenFcbs
<1>1. IsFiniteSet(Slot) /\ Cardinality(Slot) = MAX_OPEN_FILES
  BY FS_Interval, TableAssumption DEF Slot
<1> HIDE DEF Open
<1>2. IsFiniteSet(Open)
  <2> DEFINE slot == [b \in Open |-> CHOOSE s \in Live : fcb_table[s].addr = b]
  <2>1. \A b \in Open : slot[b] \in Live /\ fcb_table[slot[b]].addr = b
    BY <1>0
  <2>2. slot \in [Open -> Slot]
    BY <2>1 DEF Live
  <2> HIDE DEF slot
  <2>3. slot \in Injection(Open, Slot)
    BY <2>1, <2>2 DEF Injection, IsInjective
  <2> QED
    BY <1>1, <2>3, FS_Injection
<1>3. Cardinality(Open) \in Nat
  BY <1>2, FS_CardinalityType
<1>4. CASE Live = Slot
  <2> DEFINE addr == [s \in Slot |-> fcb_table[s].addr]
  <2>1. addr \in [Slot -> Open]
    BY <1>0, <1>4
  <2>2. addr \in Injection(Slot, Open)
    BY <1>0, <1>4, <2>1 DEF Injection, IsInjective, SlotsDistinct
  <2>3. Cardinality(Slot) <= Cardinality(Open)
    BY <1>2, <2>2, FS_Injection
  <2> QED
    BY <1>1, <1>3, <2>3, TableAssumption, MaxOpenAssumption, SameCardinality DEF Promises, Open
<1>5. CASE ClosedHandles = {}
  <2> DEFINE slot == [h \in Handle |-> CHOOSE s \in Live : fcb_table[s].fp = h]
             addr == [h \in Handle |-> fcb_table[slot[h]].addr]
  <2>1. \A h \in Handle : \E s \in Live : fcb_table[s].fp = h
    BY <1>0, <1>5 DEF ClosedHandles, NoStreamLeaks
  <2>2. \A h \in Handle : slot[h] \in Live /\ fcb_table[slot[h]].fp = h
    BY <2>1
  <2> HIDE DEF slot
  <2>3. addr \in [Handle -> Open]
    BY <1>0, <2>2
  <2>4. ASSUME NEW g \in Handle, NEW h \in Handle, addr[g] = addr[h] PROVE g = h
    <3>1. fcb_table[slot[g]].addr = fcb_table[slot[h]].addr
      BY <2>4
    <3>2. slot[g] = slot[h]
      BY <1>0, <2>2, <3>1 DEF SlotsDistinct
    <3> QED
      BY <2>2, <3>2
  <2> HIDE DEF addr
  <2>5. addr \in Injection(Handle, Open)
    BY <2>3, <2>4 DEF Injection, IsInjective
  <2>6. Cardinality(Handle) <= Cardinality(Open)
    BY <1>2, <2>5, FS_Injection
  <2>7. Cardinality(Handle) \in Nat
    BY FS_CardinalityType DEF Promises
  <2> QED
    BY <1>3, <2>6, <2>7, MaxOpenAssumption, SameCardinality DEF Promises, Open
<1> QED
  BY <1>4, <1>5

(* The FCB a has the file f open, or the table is full.                    *)
OpenedFcb(a, f) ==
  /\ reg_a' = 0
  /\ curBar' = [curBar EXCEPT ![a] = Cpm!At(f, 0)]
  /\ \A g \in Existing : /\ g \in Existing' /\ dataBar'[g] = dataBar[g]
                         /\ durableBar'[g] = Cpm!MustSync(a)[g]

NoSlot ==
  /\ reg_a' = 255
  /\ curBar' = curBar
  /\ Cpm!Cardinality(Cpm!OpenFcbs) >= MaxOpen
  /\ \A g \in Existing : /\ g \in Existing' /\ dataBar'[g] = dataBar[g]
                         /\ durableBar'[g] = durableBar[g]

LEMMA AllocImplements ==
  ASSUME Promises, Seen, Running, UNCHANGED status, NEW a \in FcbAddr,
         NEW h \in ClosedHandles, NEW i \in Inode, NEW f \in HostFile,
         dir' = [dir EXCEPT ![f] = i],
         NEW cont,
         \/ dir[f] = i /\ cont = content
         \/ /\ dir[f] = NoInode /\ i \notin InodesInUse
            /\ cont = [content EXCEPT ![i] = <<>>],
         fcb_alloc(a, h, cont, [stream EXCEPT ![h] = Opened(i)])
  PROVE  /\ OpenedFcb(a, f) \/ NoSlot
         /\ dir[f] = NoInode => content'[i] = <<>> /\ Quiet(f)'
<1> DEFINE strm == [stream EXCEPT ![h] = Opened(i)]
           Fresh0 == dir[f] = NoInode => content'[i] = <<>> /\ Quiet(f)'
<1>0. /\ RInv /\ IInv /\ ClosedEmpty /\ FilesView /\ FilesView' /\ FcbsView /\ FcbsView'
      /\ Running'
  BY DEF Seen, RInv, Running
<1>1. /\ fcb_table \in Table /\ stream \in Streams /\ content \in Files
      /\ dir \in [HostFile -> Inode \cup {NoInode}]
      /\ h \in Handle /\ stream[h] = ClosedStream
  BY <1>0, Types DEF ClosedHandles, ClosedEmpty
<1>2. /\ strm[h] = Opened(i) /\ strm \in [Handle -> Stream]
      /\ \A g \in Handle : g # h => strm[g] = stream[g]
  BY <1>1, SimpleStreamTypes DEF Streams
<1>3. /\ dir'[f] = i /\ f \in Existing'
      /\ \A g \in Existing : dir'[g] = dir[g]
  BY <1>1, NoInodeAssumption DEF Existing
<1>4. ASSUME dir[f] = NoInode
      PROVE  /\ \A g \in Existing : dir[g] # i
             /\ \A g \in Handle : stream[g].ino # i
             /\ cont[i] = <<>> /\ \A j \in Inode : j # i => cont[j] = content[j]
  BY <1>1, <1>4, NoInodeAssumption DEF InodesInUse, Existing, Files
<1>5. ASSUME dir[f] # NoInode PROVE cont = content
  BY <1>5
<1>6. \A g \in Existing : cont[dir[g]] = content[dir[g]]
  BY <1>1, <1>4, <1>5 DEF Existing
<1>7. /\ Opened(i).ino = i /\ Opened(i).pos = 0 /\ Pending(Opened(i)) = <<>>
      /\ Pending(ClosedStream) = <<>> /\ ClosedStream.ino = NoInode
  BY DEF Opened, Pending, ClosedStream
<1>8. \A t \in Live : fcb_table[t].fp \in Handle /\ fcb_table[t].fp # h
  BY <1>0, <1>1 DEF IInv, TableSound, SlotsOpen, ClosedStream
<1>9. ASSUME \A g \in Handle : \/ stream'[g] = stream[g]
                               \/ Pending(stream'[g]) = <<>>,
             content' = cont \/ \E j \in Inode : j # i /\ \A e \in Inode : e # j => content'[e] = cont[e]
      PROVE  Fresh0
  <2> SUFFICES ASSUME dir[f] = NoInode PROVE content'[i] = <<>> /\ Quiet(f)'
    OBVIOUS
  <2>1. content'[i] = <<>>
    BY <1>4, <1>9
  <2>2. \A g \in Handle : stream'[g].ino = dir'[f] => Pending(stream'[g]) = <<>>
    BY <1>3, <1>4, <1>9
  <2> QED
    BY <2>1, <2>2 DEF Quiet
(* The slot s has the FCB now, and h on the file f. *)
<1>10. ASSUME NEW s \in Slot, fcb_table' = [fcb_table EXCEPT ![s] = [addr |-> a, fp |-> h]],
              fcb_table[s].addr \in {a, FREE}, stream'[h] = Opened(i),
              \A t \in Live : t # s => stream'[fcb_table[t].fp] = stream[fcb_table[t].fp]
       PROVE  curBar' = [curBar EXCEPT ![a] = Cpm!At(f, 0)]
  <2>1. /\ fcb_table'[s] = [addr |-> a, fp |-> h]
        /\ \A t \in Slot : t # s => fcb_table'[t] = fcb_table[t]
    BY <1>1, <1>10 DEF Table
  <2>2. \A t \in Slot :
          fcb_table[t].addr \notin {a, FREE} =>
            /\ fcb_table'[t] = fcb_table[t]
            /\ stream'[fcb_table[t].fp] = stream[fcb_table[t].fp]
    BY <1>10, <2>1 DEF Live
  <2>3. \A t \in Slot : fcb_table'[t].addr \in {fcb_table[t].addr, a, FREE}
    BY <2>1
  <2>4. curBar' = [curBar EXCEPT ![a] = curBar'[a]]
    BY <1>0, <1>3, <2>2, <2>3, OtherFcbs
  <2>5. fcb_table'[s].addr = a /\ dir'[f] = stream'[fcb_table'[s].fp].ino
    BY <1>3, <1>7, <1>10, <2>1
  <2>6. (curBar[a] = Cpm!At(f, stream[fcb_table[s].fp].pos \div RecordSize))'
    BY <1>0, <1>3, <2>5 DEF FcbsView
  <2>7. curBar'[a] = Cpm!At(f, 0 \div RecordSize)
    <3>1. stream'[fcb_table'[s].fp].pos = 0
      BY <1>7, <1>10, <2>1
    <3>2. curBar'[a] = Cpm!At(f, stream'[fcb_table'[s].fp].pos \div RecordSize)
      BY <2>6 DEF Cpm!At
    <3> QED
      BY <3>1, <3>2
  <2>8. 0 \div RecordSize = 0
    <3>1. RecordSize * 0 = 0
      BY RecordSizeAssumption
    <3> QED
      BY <3>1, RecordsOfWhole
  <2> QED
    BY <2>4, <2>7, <2>8
(* The FCB's old stream is closed. *)
<1>11. ASSUME NEW s \in Slot, fcb_search(a, s), NEW old, old = fcb_table[s].fp,
              NEW k \in FlushLengths(strm[old]),
              content' = [cont EXCEPT ![strm[old].ino] = Flushed(@, strm[old], k)],
              stream' = CloseStream(strm, old),
              fcb_table' = [fcb_table EXCEPT ![s] = [addr |-> a, fp |-> h]],
              reg_a' = 0
       PROVE  OpenedFcb(a, f) /\ Fresh0
  <2>1. /\ s \in Live /\ old \in Handle /\ old # h /\ strm[old] = stream[old]
        /\ stream[old] \in Stream /\ stream[old].ino \in Inode
    BY <1>0, <1>2, <1>8, <1>11, FoundSlot
  <2>2. /\ stream'[old] = ClosedStream /\ stream'[h] = Opened(i)
        /\ \A g \in Handle \ {old, h} : stream'[g] = stream[g]
    BY <1>2, <1>11, <2>1 DEF CloseStream
  <2>3. \A c : Flushed(c, stream[old], k) = Shown(c, stream[old])
    BY <1>11, <2>1, FlushShows DEF Promises
  <2> DEFINE j == stream[old].ino
  <2>4. cont \in [Inode -> Seq(Byte)] /\ cont[j] = content[j]
        /\ (dir[f] = NoInode => j # i)
    <3>1. <<>> \in Seq(Byte)
      OBVIOUS
    <3>2. cont \in [Inode -> Seq(Byte)]
      BY <1>1, <3>1 DEF Files
    <3> QED
      BY <1>4, <1>5, <2>1, <3>2
  <2>5. /\ content'[j] = Shown(content[j], stream[old])
        /\ \A e \in Inode : e # j => content'[e] = cont[e]
    BY <1>11, <2>1, <2>3, <2>4
  <2>6. Fresh0
    <3>1. \A g \in Handle : stream'[g] = stream[g] \/ Pending(stream'[g]) = <<>>
      BY <1>7, <2>2
    <3>2. CASE dir[f] = NoInode
      BY <1>9, <2>1, <2>4, <2>5, <3>1, <3>2
    <3> QED
      BY <3>2
  <2>7. \A t \in Live : t # s => stream'[fcb_table[t].fp] = stream[fcb_table[t].fp]
    BY <1>0, <1>8, <1>11, <2>1, <2>2 DEF IInv, TableSound, SlotsDistinct
  <2>8. curBar' = [curBar EXCEPT ![a] = Cpm!At(f, 0)]
    BY <1>10, <1>11, <2>2, <2>7 DEF fcb_search
  <2>9. ASSUME NEW g \in Existing
        PROVE  /\ g \in Existing' /\ dataBar'[g] = dataBar[g]
               /\ durableBar'[g] = Cpm!MustSync(a)[g]
    <3>1. Pending(stream'[old]) = <<>> /\ \A e \in Handle : e # old => Apart(e)
      BY <1>1, <1>7, <2>2 DEF Apart
    <3>2. dir[g] # j => content'[dir[g]] = content[dir[g]]
      BY <1>1, <1>6, <2>5 DEF Existing
    <3>3. /\ g \in Existing' /\ dataBar'[g] = dataBar[g]
          /\ durableBar'[g] = IF dir[g] = stream[old].ino
                              THEN dataBar[g] ELSE durableBar[g]
      BY <1>0, <1>3, <2>1, <2>5, <3>1, <3>2, FileOfOne
    <3>4. Cpm!MustSync(a) = [e \in Existing |-> IF dir[e] = stream[old].ino
                                                THEN dataBar[e] ELSE durableBar[e]]
      BY <1>0, <1>11, MustSyncOne
    <3> QED
      BY <3>3, <3>4
  <2> HIDE DEF Fresh0
  <2> QED
    BY <1>11, <2>6, <2>8, <2>9 DEF OpenedFcb
(* No stream but h is touched. *)
<1>12. ASSUME content' = cont, \A g \in Handle : Apart(g), NEW g \in Existing
       PROVE  /\ g \in Existing' /\ dataBar'[g] = dataBar[g]
              /\ durableBar'[g] = durableBar[g]
  BY <1>0, <1>3, <1>6, <1>12, FileApart
<1>13. ASSUME NotFound(a), content' = cont, NEW s \in Slot, fcb_search(FREE, s),
              fcb_table' = [fcb_table EXCEPT ![s] = [addr |-> a, fp |-> h]],
              stream' = strm, reg_a' = 0
       PROVE  OpenedFcb(a, f) /\ Fresh0
  <2>1. Cpm!MustSync(a) = durableBar
    BY <1>0, <1>13, MustSyncNone
  <2>2. \A g \in Handle : Apart(g)
    BY <1>1, <1>2, <1>7, <1>13 DEF Apart
  <2>3. Fresh0
    BY <1>2, <1>7, <1>9, <1>13
  <2>4. curBar' = [curBar EXCEPT ![a] = Cpm!At(f, 0)]
    BY <1>2, <1>8, <1>10, <1>13 DEF fcb_search
  <2> HIDE DEF Fresh0
  <2> QED
    BY <1>12, <1>13, <2>1, <2>2, <2>3, <2>4 DEF OpenedFcb
<1>14. ASSUME NotFound(a), content' = cont, NotFound(FREE),
              stream' = CloseStream(strm, h), reg_a' = 255, UNCHANGED fcb_table
       PROVE  NoSlot /\ Fresh0
  <2>1. \A g \in Handle : stream'[g] = stream[g]
    BY <1>1, <1>2, <1>14 DEF CloseStream
  <2>2. Live = Slot
    BY <1>14 DEF NotFound, Live
  <2>3. Cpm!Cardinality(Cpm!OpenFcbs) >= MaxOpen
    BY <1>0, <2>2, AllOpen
  <2>4. curBar' = curBar
    BY <1>0, <1>3, <1>14, <2>1, UntouchedFcbs
  <2>5. Fresh0
    BY <1>9, <1>14, <2>1
  <2>6. \A g \in Handle : Apart(g)
    BY <2>1 DEF Apart
  <2> HIDE DEF Fresh0
  <2> QED
    BY <1>12, <1>14, <2>3, <2>4, <2>5, <2>6 DEF NoSlot
<1> HIDE DEF Fresh0
<1>15. (OpenedFcb(a, f) \/ NoSlot) /\ Fresh0
  BY <1>11, <1>13, <1>14 DEF fcb_alloc
<1> QED
  BY <1>15 DEF Fresh0

(* Function 15. *)
LEMMA OpenImplements ==
  ASSUME Promises, Seen, NEW a \in FcbAddr, NEW n \in FcbName, OpenFile(a, n)
  PROVE  Cpm!Open(a, n)
<1> DEFINE f == HostName[n]
<1>0. /\ RInv /\ IInv /\ FilesView /\ FilesView' /\ FcbsView /\ Running
      /\ f \in HostFile /\ dir \in [HostFile -> Inode \cup {NoInode}]
      /\ UNCHANGED <<dma_address, dma_buf, dir, status>>
  BY NamesAssumption, Types DEF Seen, RInv, OpenFile
<1>1. Cpm!Exists(f) <=> dir[f] # NoInode
  BY <1>0 DEF Cpm!Exists, FilesView, Existing
<1>2. \/ /\ dir[f] = NoInode \/ ClosedHandles = {}
         /\ reg_a' = 255
         /\ UNCHANGED <<fcb_table, content, stream>>
      \/ /\ dir[f] # NoInode
         /\ \E h \in ClosedHandles :
              fcb_alloc(a, h, content, [stream EXCEPT ![h] = Opened(dir[f])])
  BY DEF OpenFile, Promises
<1> HIDE DEF f
<1>3. CASE /\ dir[f] = NoInode \/ ClosedHandles = {}
           /\ reg_a' = 255
           /\ UNCHANGED <<fcb_table, content, stream>>
  <2>1. dataBar' = dataBar /\ durableBar' = durableBar /\ curBar' = curBar
    BY <1>0, <1>3, SameFiles, SameFcbs
  <2>2. ~Cpm!Exists(f) \/ Cpm!Cardinality(Cpm!OpenFcbs) >= MaxOpen
    BY <1>0, <1>1, <1>3, AllOpen
  <2> QED
    BY <1>0, <1>3, <2>1, <2>2 DEF Cpm!Open, Cpm!Running, Running, f
<1>4. ASSUME dir[f] # NoInode, NEW h \in ClosedHandles,
             fcb_alloc(a, h, content, [stream EXCEPT ![h] = Opened(dir[f])])
      PROVE  Cpm!Open(a, n)
  <2>1. OpenedFcb(a, f) \/ NoSlot
    <3>1. dir[f] \in Inode /\ dir' = [dir EXCEPT ![f] = dir[f]]
      BY <1>0, <1>4
    <3> QED
      BY <1>0, <1>4, <3>1, AllocImplements
  <2>2. Existing' = Existing
    BY <1>0 DEF Existing
  <2>3. /\ dataBar = [g \in Existing |-> dataBar[g]]
        /\ durableBar = [g \in Existing |-> durableBar[g]]
        /\ dataBar' = [g \in Existing |-> dataBar'[g]]
        /\ durableBar' = [g \in Existing |-> durableBar'[g]]
        /\ Cpm!MustSync(a) = [g \in Existing |-> Cpm!MustSync(a)[g]]
    BY <1>0, <2>2, MustSyncIs DEF FilesView
  <2>4. CASE OpenedFcb(a, f)
    <3>1. dataBar' = dataBar /\ durableBar' = Cpm!MustSync(a)
      BY <2>3, <2>4 DEF OpenedFcb
    <3>2. reg_a' = 0 /\ curBar' = [curBar EXCEPT ![a] = Cpm!At(f, 0)]
      BY <2>4 DEF OpenedFcb
    <3> QED
      BY <1>0, <1>1, <1>4, <3>1, <3>2 DEF Cpm!Open, Cpm!Running, Running, f
  <2>5. CASE NoSlot
    <3>1. dataBar' = dataBar /\ durableBar' = durableBar
      BY <2>3, <2>5 DEF NoSlot
    <3>2. reg_a' = 255 /\ curBar' = curBar /\ Cpm!Cardinality(Cpm!OpenFcbs) >= MaxOpen
      BY <2>5 DEF NoSlot
    <3> QED
      BY <1>0, <3>1, <3>2 DEF Cpm!Open, Cpm!Running, Running
  <2> QED
    BY <2>1, <2>4, <2>5
<1> QED
  BY <1>2, <1>3, <1>4

(* Every FCB is closed once the program no longer runs. *)
LEMMA StoppedFcbs ==
  ASSUME FcbsView', ~Running'
  PROVE  curBar' = [a \in FcbAddr |-> Cpm!Closed]
<1>1. /\ curBar' = [a \in FcbAddr |-> curBar'[a]]
      /\ \A a \in FcbAddr : (curBar[a] = Cpm!Closed)'
  BY DEF FcbsView
<1>2. \A a \in FcbAddr : curBar'[a] = Cpm!Closed
  BY <1>1 DEF Cpm!Closed
<1> QED
  BY <1>1, <1>2

(* Function 22. *)
LEMMA CreateImplements ==
  ASSUME Promises, Seen, NEW a \in FcbAddr, NEW n \in FcbName, CreateFile(a, n)
  PROVE  Cpm!Create(a, n)
<1> DEFINE f == HostName[n]
<1>0. /\ RInv /\ IInv /\ FilesView /\ FilesView' /\ FcbsView /\ FcbsView' /\ Running
      /\ f \in HostFile /\ dir \in [HostFile -> Inode \cup {NoInode}]
      /\ UNCHANGED <<dma_address, dma_buf>>
  BY NamesAssumption, Types DEF Seen, RInv, CreateFile
<1>1. Cpm!Exists(f) <=> dir[f] # NoInode
  BY <1>0 DEF Cpm!Exists, FilesView, Existing
<1>2. \/ /\ ClosedHandles = {} /\ reg_a' = 255
         /\ UNCHANGED <<fcb_table, status, hostVars>>
      \/ /\ dir[f] # NoInode /\ status' = "exiting"
         /\ UNCHANGED <<fcb_table, reg_a, hostVars>>
      \/ /\ dir[f] = NoInode /\ UNCHANGED status
         /\ \E h \in ClosedHandles, i \in Inode \ InodesInUse :
              /\ dir' = [dir EXCEPT ![f] = i]
              /\ fcb_alloc(a, h, [content EXCEPT ![i] = <<>>],
                           [stream EXCEPT ![h] = Opened(i)])
  BY DEF CreateFile, ExistedBefore, Promises
<1> HIDE DEF f
<1>3. CASE /\ ClosedHandles = {} /\ reg_a' = 255
           /\ UNCHANGED <<fcb_table, status, hostVars>>
  <2>1. UNCHANGED <<fcb_table, status, dir, content, stream>>
    BY <1>3 DEF hostVars
  <2>2. dataBar' = dataBar /\ durableBar' = durableBar /\ curBar' = curBar
    BY <2>1, SameFiles, SameFcbs
  <2>3. Cpm!Cardinality(Cpm!OpenFcbs) >= MaxOpen
    BY <1>0, <1>3, AllOpen
  <2> QED
    BY <1>0, <1>3, <2>2, <2>3 DEF Cpm!Create, Cpm!Running, Running
<1>4. CASE /\ dir[f] # NoInode /\ status' = "exiting"
           /\ UNCHANGED <<fcb_table, reg_a, hostVars>>
  <2>1. dataBar' = dataBar /\ durableBar' = durableBar
    BY <1>4, SameFiles DEF hostVars
  <2>2. curBar' = [b \in FcbAddr |-> Cpm!Closed]
    BY <1>0, <1>4, StoppedFcbs DEF Running
  <2> QED
    BY <1>0, <1>1, <1>4, <2>1, <2>2 DEF Cpm!Create, Cpm!Running, Running, f
<1>5. ASSUME dir[f] = NoInode, UNCHANGED status,
             NEW h \in ClosedHandles, NEW i \in Inode \ InodesInUse,
             dir' = [dir EXCEPT ![f] = i],
             fcb_alloc(a, h, [content EXCEPT ![i] = <<>>],
                       [stream EXCEPT ![h] = Opened(i)])
      PROVE  Cpm!Create(a, n)
  <2>1. /\ OpenedFcb(a, f) \/ NoSlot
        /\ content'[i] = <<>> /\ Quiet(f)'
    BY <1>0, <1>5, AllocImplements
  <2>2. dir'[f] = i /\ Existing' = Existing \cup {f} /\ f \notin Existing
    BY <1>0, <1>5, NoInodeAssumption DEF Existing
  <2>3. dataBar'[f] = <<>> /\ durableBar'[f] = <<>>
    BY <1>0, <2>1, <2>2, FileEmpty
  <2>4. /\ DOMAIN dataBar = Existing /\ DOMAIN durableBar = Existing
        /\ DOMAIN Cpm!MustSync(a) = Existing
        /\ dataBar' = [g \in Existing \cup {f} |-> dataBar'[g]]
        /\ durableBar' = [g \in Existing \cup {f} |-> durableBar'[g]]
    <3>1. Cpm!MustSync(a) = [g \in Existing |-> Cpm!MustSync(a)[g]]
      BY <1>0, MustSyncIs
    <3> QED
      BY <1>0, <2>2, <3>1 DEF FilesView
  <2>5. CASE OpenedFcb(a, f)
    <3>1. /\ dataBar' = Cpm!With(dataBar, f, <<>>)
          /\ durableBar' = Cpm!With(Cpm!MustSync(a), f, <<>>)
      <4>1. \A g \in Existing : /\ dataBar'[g] = dataBar[g]
                                /\ durableBar'[g] = Cpm!MustSync(a)[g]
        BY <2>5 DEF OpenedFcb
      <4> QED
        BY <2>2, <2>3, <2>4, <4>1 DEF Cpm!With
    <3>2. reg_a' = 0 /\ curBar' = [curBar EXCEPT ![a] = Cpm!At(f, 0)]
      BY <2>5 DEF OpenedFcb
    <3> QED
      BY <1>0, <1>1, <1>5, <3>1, <3>2 DEF Cpm!Create, Cpm!Running, Running, f
  <2>6. CASE NoSlot
    <3>1. /\ dataBar' = Cpm!With(dataBar, f, <<>>)
          /\ durableBar' = Cpm!With(durableBar, f, <<>>)
      <4>1. \A g \in Existing : /\ dataBar'[g] = dataBar[g]
                                /\ durableBar'[g] = durableBar[g]
        BY <2>6 DEF NoSlot
      <4> QED
        BY <2>2, <2>3, <2>4, <4>1 DEF Cpm!With
    <3>2. reg_a' = 255 /\ curBar' = curBar /\ Cpm!Cardinality(Cpm!OpenFcbs) >= MaxOpen
      BY <2>6 DEF NoSlot
    <3> QED
      BY <1>0, <1>1, <1>5, <3>1, <3>2 DEF Cpm!Create, Cpm!Running, Running, f
  <2> QED
    BY <2>1, <2>5, <2>6
<1> QED
  BY <1>2, <1>3, <1>4, <1>5

-----------------------------------------------------------------------------
(* The other steps. *)

(* Function 26, and a record that the guest prepares. *)
LEMMA RestImplements ==
  ASSUME Seen
  PROVE  /\ \A d \in DmaAddr : SetDma(d) => Cpm!SetDma(d)
         /\ \A d \in DmaAddr, r \in GuestRecord : GuestFill(d, r) => Cpm!GuestFill(d, r)
         /\ Exit => Cpm!Exit
<1>1. ASSUME UNCHANGED <<dir, content, stream>>
      PROVE  dataBar' = dataBar /\ durableBar' = durableBar
  BY <1>1, SameFiles
<1>2. ASSUME UNCHANGED <<dir, stream, fcb_table, status>>
      PROVE  curBar' = curBar
  BY <1>2, SameFcbs
<1>3. ASSUME NEW d \in DmaAddr, SetDma(d) PROVE Cpm!SetDma(d)
  <2>1. /\ Running /\ dma_address' = d
        /\ UNCHANGED <<fcb_table, dma_buf, reg_a, status, dir, content, stream>>
    BY <1>3 DEF SetDma, hostVars
  <2>2. dataBar' = dataBar /\ durableBar' = durableBar /\ curBar' = curBar
    BY <1>1, <1>2, <2>1
  <2> QED
    BY <2>1, <2>2 DEF Cpm!SetDma, Cpm!Running, Running
<1>4. ASSUME NEW d \in DmaAddr, NEW r \in GuestRecord, GuestFill(d, r)
      PROVE  Cpm!GuestFill(d, r)
  <2>1. /\ Running /\ dma_buf' = [dma_buf EXCEPT ![d] = r]
        /\ UNCHANGED <<fcb_table, dma_address, reg_a, status, dir, content, stream>>
    BY <1>4 DEF GuestFill, hostVars
  <2>2. dataBar' = dataBar /\ durableBar' = durableBar /\ curBar' = curBar
    BY <1>1, <1>2, <2>1
  <2> QED
    BY <2>1, <2>2 DEF Cpm!GuestFill, Cpm!Running, Running
<1>5. ASSUME Exit PROVE Cpm!Exit
  <2>1. /\ Running /\ status' = "exiting"
        /\ UNCHANGED <<dma_address, dma_buf, reg_a, dir, content, stream>>
    BY <1>5 DEF Exit, emuVars, hostVars
  <2>2. dataBar' = dataBar /\ durableBar' = durableBar
    BY <1>1, <2>1
  <2>3. curBar' = [a \in FcbAddr |-> Cpm!Closed]
    BY <2>1, StoppedFcbs DEF Seen, Running
  <2> QED
    BY <2>1, <2>2, <2>3 DEF Cpm!Exit, Cpm!Running, Running
<1> QED
  BY <1>3, <1>4, <1>5

(* No FCB is open while the emulator ends. *)
LEMMA StaysStopped ==
  ASSUME Seen, ~Running, ~Running'
  PROVE  curBar' = curBar
<1>1. curBar' = [a \in FcbAddr |-> Cpm!Closed]
  BY StoppedFcbs DEF Seen
<1>2. /\ curBar = [a \in FcbAddr |-> curBar[a]]
      /\ \A a \in FcbAddr : curBar[a] = Cpm!Closed
  BY DEF Seen, FcbsView
<1> QED
  BY <1>1, <1>2

(* exit() closes a stream: its file is synced. *)
LEMMA ExitClosesImplements ==
  ASSUME Promises, Seen, NEW h \in Handle, ExitClosesStream(h)
  PROVE  \E f \in HostFile : Cpm!ExitSyncs(f)
<1>0. /\ RInv /\ IInv /\ FilesView /\ FilesView'
  BY DEF Seen, RInv
<1>1. /\ status = "exiting" /\ stream[h].mode # "closed"
      /\ UNCHANGED <<dma_address, dma_buf, reg_a, status, dir>>
      /\ stream' = CloseStream(stream, h)
  BY DEF ExitClosesStream, emuVars
<1>2. PICK k \in FlushLengths(stream[h]) :
        content' = [content EXCEPT ![stream[h].ino] = Flushed(@, stream[h], k)]
  BY DEF ExitClosesStream
<1>3. /\ stream[h] \in Stream /\ stream[h].ino \in Inode
      /\ stream \in Streams /\ content \in Files
      /\ dir \in [HostFile -> Inode \cup {NoInode}]
  BY <1>0, <1>1, Types DEF Streams, IInv, StreamsHaveFiles
<1>4. content' = [content EXCEPT ![stream[h].ino] = Shown(@, stream[h])]
  BY <1>2, <1>3, FlushedFile
<1>5. PICK f \in HostFile : dir[f] = stream[h].ino
  BY <1>0, <1>1 DEF RInv, Listed
<1>6. f \in Existing /\ \A g \in Existing : dir[g] = stream[h].ino <=> g = f
  BY <1>0, <1>3, <1>5, NoInodeAssumption DEF RInv, Distinct, Existing
<1>7. ASSUME NEW g \in Existing
      PROVE  /\ g \in Existing' /\ dataBar'[g] = dataBar[g]
             /\ durableBar'[g] = IF g = f THEN dataBar[g] ELSE durableBar[g]
  <2>1. /\ content'[stream[h].ino] = Shown(content[stream[h].ino], stream[h])
        /\ dir[g] # stream[h].ino => content'[dir[g]] = content[dir[g]]
        /\ dir'[g] = dir[g]
    BY <1>1, <1>3, <1>4 DEF Files, Existing
  <2>2. /\ stream'[h] = ClosedStream
        /\ \A e \in Handle : e # h => stream'[e] = stream[e]
    BY <1>1, <1>3 DEF CloseStream, Streams
  <2>3. Pending(stream'[h]) = <<>> /\ \A e \in Handle : e # h => Apart(e)
    BY <2>2 DEF Pending, ClosedStream, Apart
  <2>4. /\ g \in Existing' /\ dataBar'[g] = dataBar[g]
        /\ durableBar'[g] = IF dir[g] = stream[h].ino
                            THEN dataBar[g] ELSE durableBar[g]
    BY <1>0, <2>1, <2>3, FileOfOne
  <2> QED
    BY <1>6, <2>4
<1>8. Existing' = Existing
  BY <1>1 DEF Existing
<1>9. /\ dataBar = [g \in Existing |-> dataBar[g]]
      /\ durableBar = [g \in Existing |-> durableBar[g]]
      /\ dataBar' = [g \in Existing |-> dataBar'[g]]
      /\ durableBar' = [g \in Existing |-> durableBar'[g]]
  BY <1>0, <1>8 DEF FilesView
<1>10. dataBar' = dataBar /\ durableBar' = Cpm!Synced(durableBar, f)
  <2>1. dataBar' = dataBar
    BY <1>7, <1>9
  <2>2. Existing \cup {f} = Existing /\ DOMAIN dataBar = Existing
        /\ DOMAIN durableBar = Existing
    BY <1>6, <1>9
  <2>3. durableBar' = [g \in Existing |-> IF g = f THEN dataBar[f] ELSE durableBar[g]]
    BY <1>7, <1>9
  <2>4. Cpm!Synced(durableBar, f) = Cpm!With(durableBar, f, dataBar[f])
    BY <1>6, <2>2 DEF Cpm!Synced, Cpm!Exists
  <2>5. Cpm!With(durableBar, f, dataBar[f])
          = [g \in Existing |-> IF g = f THEN dataBar[f] ELSE durableBar[g]]
    BY <2>2 DEF Cpm!With
  <2> QED
    BY <2>1, <2>3, <2>4, <2>5
<1>11. curBar' = curBar
  BY <1>1, StaysStopped DEF Running
<1>12. Cpm!ExitSyncs(f)
  BY <1>1, <1>10, <1>11 DEF Cpm!ExitSyncs
<1> QED
  BY <1>12

(* With no stream open, the guest sees what the host has. *)
LEMMA NothingOpen ==
  ASSUME FilesView, \A h \in Handle : stream[h] = ClosedStream
  PROVE  dataBar = durableBar
<1>1. ASSUME NEW f \in Existing PROVE dataBar[f] = durableBar[f]
  <2>1. Sees(f, content[dir[f]])
    BY DEF Sees, Quiet, Pending, ClosedStream
  <2> QED
    BY <2>1 DEF FilesView
<1> QED
  BY <1>1 DEF FilesView

LEMMA ExitEndsImplements ==
  ASSUME Seen, ExitEnds
  PROVE  Cpm!ExitEnds
<1>1. /\ status = "exiting" /\ status' = "exited" /\ ClosedHandles = Handle
      /\ UNCHANGED <<dma_address, dma_buf, reg_a, dir, content, stream>>
  BY DEF ExitEnds, emuVars, hostVars
<1>2. \A h \in Handle : stream[h] = ClosedStream
  BY <1>1 DEF ClosedHandles, Seen, RInv, ClosedEmpty
<1>3. durableBar = dataBar
  BY <1>2, NothingOpen DEF Seen
<1>4. dataBar' = dataBar /\ durableBar' = durableBar
  BY <1>1, SameFiles
<1>5. curBar' = curBar
  BY <1>1, StaysStopped DEF Running
<1> QED
  BY <1>1, <1>3, <1>4, <1>5 DEF Cpm!ExitEnds

(* A kill leaves what the host has. *)
LEMMA KillImplements ==
  ASSUME Seen, Kill
  PROVE  Cpm!Kill
<1>1. /\ status \in {"running", "exiting"} /\ status' = "killed"
      /\ stream' = [h \in Handle |-> ClosedStream]
      /\ UNCHANGED <<dma_address, dma_buf, reg_a, dir, content>>
  BY DEF Kill, emuVars
<1>2. durableBar' = durableBar
  <2>1. Existing' = Existing
    BY <1>1 DEF Existing
  <2> QED
    BY <1>1, <2>1 DEF durableBar, RecordsOf
<1>3. dataBar' = durableBar'
  <2>1. /\ \A f \in Existing' : \A h \in Handle :
             stream'[h].ino = dir'[f] => Pending(stream'[h]) = <<>>
    BY <1>1 DEF Pending, ClosedStream
  <2>2. \A f \in Existing' : (Sees(f, content[dir[f]]))'
    BY <2>1 DEF Sees, Quiet
  <2>3. \A f \in Existing' : dataBar'[f] = durableBar'[f]
    BY <2>2 DEF Seen, FilesView
  <2>4. /\ dataBar' = [f \in Existing' |-> dataBar'[f]]
        /\ durableBar' = [f \in Existing' |-> durableBar'[f]]
    BY DEF Seen, FilesView
  <2> QED
    BY <2>3, <2>4
<1>4. curBar' = [a \in FcbAddr |-> Cpm!Closed]
  BY <1>1, StoppedFcbs DEF Seen, Running
<1> QED
  BY <1>1, <1>2, <1>3, <1>4 DEF Cpm!Kill

LEMMA StutterImplements ==
  ASSUME Seen, UNCHANGED vars
  PROVE  UNCHANGED Cpm!vars
<1>1. dataBar' = dataBar /\ durableBar' = durableBar /\ curBar' = curBar
  BY SameFiles, SameFcbs DEF vars
<1> QED
  BY <1>1 DEF vars, Cpm!vars

(* The start. *)
LEMMA StartImplements ==
  ASSUME Promises, Init
  PROVE  Cpm!Init
<1>0. RInv /\ FilesView /\ FcbsView
  BY RInvStart, Viewed
<1>1. Existing = DOMAIN InitialFile
  BY InitialFileAssumption DEF Init, Existing
<1>2. durableBar = [f \in DOMAIN InitialFile |-> RecordsOf(InitialFile[f])]
  <2>1. ASSUME NEW f \in DOMAIN InitialFile
        PROVE  content[dir[f]] = InitialFile[f]
    <3>1. /\ f \in HostFile /\ dir[f] # NoInode /\ dir[f] \in Inode
      BY <1>1, <2>1, InitialFileAssumption DEF Init, Existing
    <3> DEFINE g == CHOOSE e \in HostFile : dir[e] = dir[f]
    <3>2. g \in HostFile /\ dir[g] = dir[f]
      BY <3>1
    <3>3. content[dir[f]] = InitialFile[g]
      BY <3>1 DEF Init
    <3> HIDE DEF g
    <3>4. g = f
      BY <3>1, <3>2 DEF Init
    <3> QED
      BY <3>3, <3>4
  <2> QED
    BY <1>1, <2>1 DEF durableBar
<1>3. dataBar = durableBar
  <2>1. \A h \in Handle : stream[h] = ClosedStream
    BY DEF Init
  <2> QED
    BY <1>0, <2>1, NothingOpen
<1>4. curBar = [a \in FcbAddr |-> Cpm!Closed]
  <2>1. \A a \in FcbAddr : NotFound(a)
    BY AddressNotFree DEF Init, NotFound
  <2> QED
    BY <1>0, <2>1 DEF FcbsView
<1>5. dma_buf = [d \in DmaAddr |-> Padded(<<>>)]
  <2>1. Padded(<<>>) = [j \in 1 .. RecordSize |-> 0]
    BY RecordSizeAssumption DEF Padded
  <2> QED
    BY <2>1 DEF Init
<1> QED
  BY <1>2, <1>3, <1>4, <1>5 DEF Init, Cpm!Init

LEMMA StepImplements ==
  ASSUME Promises, Seen, [Next]_vars
  PROVE  [Cpm!Next]_(Cpm!vars)
<1>1. ASSUME NEW a \in FcbAddr, NEW n \in FcbName,
             OpenFile(a, n) \/ CreateFile(a, n) \/ DeleteFile(a, n)
      PROVE  Cpm!Next
  BY <1>1, OpenImplements, CreateImplements, DeleteImplements DEF Cpm!Next
<1>2. ASSUME NEW a \in FcbAddr, CloseFile(a) \/ ReadNext(a) \/ WriteNext(a)
      PROVE  Cpm!Next
  BY <1>2, CloseImplements, ReadImplements, WriteImplements DEF Cpm!Next
<1>3. ASSUME NEW a \in FcbAddr, NEW r \in RandomRecord, ReadRandom(a, r)
      PROVE  Cpm!Next
  BY <1>3, ReadAtImplements DEF Cpm!Next
<1>4. ASSUME NEW d \in DmaAddr, SetDma(d) PROVE Cpm!Next
  BY <1>4, RestImplements DEF Cpm!Next
<1>5. CASE Guest
  BY <1>5, RestImplements DEF Guest, Cpm!Next
<1>6. CASE Exit
  BY <1>6, RestImplements DEF Cpm!Next
<1>7. ASSUME NEW h \in Handle, ExitClosesStream(h) PROVE Cpm!Next
  BY <1>7, ExitClosesImplements DEF Cpm!Next
<1>8. CASE ExitEnds
  BY <1>8, ExitEndsImplements DEF Cpm!Next
<1>9. CASE Kill
  BY <1>9, KillImplements DEF Cpm!Next
<1>10. CASE UNCHANGED vars
  BY <1>10, StutterImplements
<1> QED
  BY <1>1, <1>2, <1>3, <1>4, <1>5, <1>6, <1>7, <1>8, <1>9, <1>10
     DEF Next, BdosCall, Ending

(***************************************************************************)
(* Every BDOS file call, with its flushes, closings of old streams and     *)
(* searches of the table, is one step of CpmFiles or none, however the     *)
(* calls follow each other and whenever the emulator exits or is killed.   *)
(***************************************************************************)
THEOREM BdosImplementsTheCalls ==
  ASSUME Promises
  PROVE  Spec => ImplementsCpm
<1>1. Init => RInv /\ Cpm!Init
  BY RInvStart, StartImplements
<1>2. RInv /\ [Next]_vars => RInv'
  BY RInvStep
<1>3. RInv /\ RInv' => Seen
  BY Viewed, ViewedAfter DEF Seen
<1>4. Seen /\ [Next]_vars => [Cpm!Next]_(Cpm!vars)
  BY StepImplements
<1> QED
  BY <1>1, <1>2, <1>3, <1>4, PTL DEF Spec, ImplementsCpm, Cpm!Spec
=============================================================================
