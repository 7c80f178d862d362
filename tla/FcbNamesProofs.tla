--------------------------- MODULE FcbNamesProofs ---------------------------
(***************************************************************************)
(* The loop of fcb_to_filename for names of any length over any bytes: it  *)
(* stays in its buffer, and with an extension it writes BASE.EXT.          *)
(***************************************************************************)
EXTENDS FcbNames, Numbers, SequenceTheorems, TLAPS

Stop(j) == SevenBit(fcb[j]) <= Blank

(* The capitals at first .. last. *)
Capitals(name, first, last) ==
  [j \in 1 .. last - first + 1 |-> Upper(SevenBit(name[first + j - 1]))]

(***************************************************************************)
(* What the loop has done when it comes to a: it copied the base name as   *)
(* far as it went, or the whole base name, or that and a part of the       *)
(* extension.                                                              *)
(***************************************************************************)
InBase ==
  /\ a <= BaseLen
  /\ \A j \in 1 .. a : ~Stop(j)
  /\ fn = Capitals(fcb, 1, a)

BaseBound == Base(fcb) \in Seq(0 .. 127) /\ Len(Base(fcb)) <= BaseLen

BehindBase == a = BaseLen /\ fn = Base(fcb) /\ BaseBound

InExtension ==
  /\ a > BaseLen
  /\ BaseBound
  /\ \A j \in BaseLen + 1 .. a : ~Stop(j)
  /\ fn = Base(fcb) \o <<Dot>> \o Capitals(fcb, BaseLen + 1, a)

IInv ==
  /\ fcb \in NameBytes
  /\ a \in 0 .. NameLen
  /\ fn \in Seq(0 .. 127)
  /\ result \in {"none", "loop", "name", "stray"}
  /\ result = "none" => a = 0 /\ fn = <<>>
  /\ result = "loop" => InBase \/ BehindBase \/ InExtension
  /\ result = "name" => Ext(fcb) = <<>> \/ fn = HostText(fcb)
  /\ BufferBound

-----------------------------------------------------------------------------
(* The lengths are numbers. *)
LEMMA Lengths ==
  /\ BaseLen \in Nat \ {0} /\ ExtLen \in Nat \ {0}
  /\ NameLen = BaseLen + ExtLen /\ NameLen \in Nat
  BY LengthsAssumption DEF NameLen

(* Seven bits, capitals or not. *)
LEMMA CapitalType ==
  ASSUME NEW name \in NameBytes, NEW j \in 1 .. NameLen
  PROVE  /\ SevenBit(name[j]) \in 0 .. 127
         /\ Upper(SevenBit(name[j])) \in 0 .. 127
<1>1. name[j] \in 0 .. 255
  BY CharAssumption DEF NameBytes
<1>2. SevenBit(name[j]) \in 0 .. 127
  BY <1>1 DEF SevenBit
<1> QED
  BY <1>2 DEF Upper

(* Capitals are a sequence of known length. *)
LEMMA CapitalsType ==
  ASSUME NEW name \in NameBytes, NEW first \in 1 .. NameLen,
         NEW last \in first - 1 .. NameLen
  PROVE  /\ Capitals(name, first, last) \in Seq(0 .. 127)
         /\ Len(Capitals(name, first, last)) = last - first + 1
<1> DEFINE n == last - first + 1
<1>1. n \in Nat
  BY Lengths
<1>2. \A j \in 1 .. n : first + j - 1 \in 1 .. NameLen
  BY Lengths
<1>3. \A j \in 1 .. n : Upper(SevenBit(name[first + j - 1])) \in 0 .. 127
  BY <1>2, CapitalType
<1>4. Capitals(name, first, last) = [j \in 1 .. n |-> Upper(SevenBit(name[first + j - 1]))]
  BY DEF Capitals
<1> HIDE DEF n
<1>5. Capitals(name, first, last) \in [1 .. n -> 0 .. 127]
  BY <1>3, <1>4
<1>6. /\ Capitals(name, first, last) \in Seq(0 .. 127)
      /\ Len(Capitals(name, first, last)) = n
  BY <1>1, <1>5
<1> QED
  BY <1>6 DEF n

(* One more capital. *)
LEMMA CapitalsGrow ==
  ASSUME NEW name \in NameBytes, NEW first \in 1 .. NameLen,
         NEW last \in first .. NameLen
  PROVE  Capitals(name, first, last)
           = Capitals(name, first, last - 1) \o <<Upper(SevenBit(name[last]))>>
<1> DEFINE s == Capitals(name, first, last)
           t == Capitals(name, first, last - 1)
           c == Upper(SevenBit(name[last]))
<1>0. last \in Int /\ first \in Int /\ last - 1 \in first - 1 .. NameLen
      /\ last \in first - 1 .. NameLen
  BY Lengths
<1>1. s \in Seq(0 .. 127) /\ Len(s) = last - first + 1
  BY <1>0, CapitalsType
<1>2. t \in Seq(0 .. 127) /\ Len(t) = last - first
  <2>1. Len(t) = (last - 1) - first + 1 /\ t \in Seq(0 .. 127)
    BY <1>0, CapitalsType
  <2> QED
    BY <2>1, <1>0
<1>3. ASSUME NEW j \in 1 .. last - first PROVE s[j] = t[j]
  BY <1>0 DEF Capitals
<1>4. s[last - first + 1] = c
  BY <1>0 DEF Capitals
<1>5. c \in 0 .. 127
  BY CapitalType, Lengths
<1> HIDE DEF s, t, c
<1>6. <<c>> \in Seq(0 .. 127) /\ Len(<<c>>) = 1 /\ <<c>>[1] = c
  BY <1>5
<1>7. t \o <<c>> \in Seq(0 .. 127) /\ Len(t \o <<c>>) = last - first + 1
  BY <1>0, <1>2, <1>6
<1>8. ASSUME NEW j \in 1 .. last - first + 1 PROVE s[j] = (t \o <<c>>)[j]
  <2>1. CASE j <= last - first
    BY <2>1, <1>0, <1>2, <1>3, <1>6
  <2>2. CASE j = last - first + 1
    BY <2>2, <1>0, <1>2, <1>4, <1>6
  <2>3. j <= last - first \/ j = last - first + 1
    BY <1>0
  <2> QED
    BY <2>1, <2>2, <2>3
<1>9. s = t \o <<c>>
  BY <1>1, <1>7, <1>8, SeqEqual
<1> QED
  BY <1>9 DEF s, t, c

(* One more byte of text. *)
LEMMA OneMore ==
  ASSUME NEW s \in Seq(0 .. 127), NEW c \in 0 .. 127
  PROVE  s \o <<c>> \in Seq(0 .. 127) /\ Len(s \o <<c>>) = Len(s) + 1
<1>1. <<c>> \in Seq(0 .. 127) /\ Len(<<c>>) = 1
  OBVIOUS
<1> QED
  BY <1>1, ConcatProperties

(* One byte less. *)
LEMMA FrontType ==
  ASSUME NEW s \in Seq(0 .. 127), s # <<>>
  PROVE  Front(s) \in Seq(0 .. 127) /\ Len(Front(s)) = Len(s) - 1
<1> DEFINE n == Len(s) - 1
<1>1. n \in Nat /\ \A i \in 1 .. n : s[i] \in 0 .. 127
  <2>1. Len(s) \in Nat /\ Len(s) # 0
    BY EmptySeq
  <2>2. \A i \in 1 .. Len(s) : s[i] \in 0 .. 127
    BY ElementOfSeq
  <2> QED
    BY <2>1, <2>2
<1>2. Front(s) = SubSeq(s, 1, n)
  BY DEF Front
<1> HIDE DEF n
<1>3. SubSeq(s, 1, n) \in Seq(0 .. 127) /\ Len(SubSeq(s, 1, n)) = n
  <2>1. /\ SubSeq(s, 1, n) \in Seq(0 .. 127)
        /\ Len(SubSeq(s, 1, n)) = IF 1 <= n THEN n - 1 + 1 ELSE 0
    BY <1>1, SubSeqProperties
  <2> QED
    BY <1>1, <2>1
<1> QED
  BY <1>2, <1>3 DEF n

(* The capitals of the extension. *)
LEMMA ExtensionCapitals ==
  ASSUME NEW name \in NameBytes, NEW q \in BaseLen .. NameLen
  PROVE  /\ Capitals(name, BaseLen + 1, q) \in Seq(0 .. 127)
         /\ Len(Capitals(name, BaseLen + 1, q)) = q - BaseLen
         /\ q > BaseLen =>
              Capitals(name, BaseLen + 1, q)
                = Capitals(name, BaseLen + 1, q - 1)
                    \o <<Upper(SevenBit(name[q]))>>
<1>1. PICK p \in 1 .. NameLen : p = BaseLen + 1
  BY Lengths
<1>2. q \in p - 1 .. NameLen /\ q - p + 1 = q - BaseLen
  BY <1>1, Lengths
<1>3. Capitals(name, p, q) \in Seq(0 .. 127) /\ Len(Capitals(name, p, q)) = q - p + 1
  BY <1>2, CapitalsType
<1>4. ASSUME q > BaseLen
      PROVE  Capitals(name, p, q)
               = Capitals(name, p, q - 1) \o <<Upper(SevenBit(name[q]))>>
  <2>1. q \in p .. NameLen
    BY <1>1, <1>4, Lengths
  <2> QED
    BY <2>1, CapitalsGrow
<1> QED
  BY <1>1, <1>2, <1>3, <1>4

(* A field ends before its first blank, *)
LEMMA FieldStops ==
  ASSUME NEW name \in NameBytes, NEW first \in 1 .. NameLen,
         NEW last \in first .. NameLen, NEW p \in first .. last,
         SevenBit(name[p]) <= Blank,
         \A j \in first .. p - 1 : ~(SevenBit(name[j]) <= Blank)
  PROVE  Field(name, first, last) = Capitals(name, first, p - 1)
<1> DEFINE stops == {j \in first .. last : SevenBit(name[j]) <= Blank}
<1>1. p \in stops
  OBVIOUS
<1>2. \A j \in stops : p <= j
  OBVIOUS
<1>3. (CHOOSE j \in stops : \A k \in stops : j <= k) = p
  <2>1. \A j \in stops : (\A k \in stops : j <= k) => j = p
    BY <1>1, <1>2
  <2> HIDE DEF stops
  <2> QED
    BY <1>1, <1>2, <2>1
<1>4. stops # {}
  BY <1>1
<1> QED
  BY <1>3, <1>4 DEF Field, Capitals

(* or with its last byte. *)
LEMMA FieldFull ==
  ASSUME NEW name \in NameBytes, NEW first \in 1 .. NameLen,
         NEW last \in first .. NameLen,
         \A j \in first .. last : ~(SevenBit(name[j]) <= Blank)
  PROVE  Field(name, first, last) = Capitals(name, first, last)
<1>1. {j \in first .. last : SevenBit(name[j]) <= Blank} = {}
  OBVIOUS
<1> QED
  BY <1>1 DEF Field, Capitals

-----------------------------------------------------------------------------
(* Once the base name is copied, fn is the base name. *)
LEMMA BaseCopied ==
  ASSUME IInv, result = "loop", a = BaseLen
  PROVE  fn = Base(fcb) /\ BaseBound
<1>1. CASE InBase
  <2>1. Base(fcb) = Capitals(fcb, 1, BaseLen)
    BY <1>1, FieldFull, Lengths DEF Base, InBase, Stop, IInv
  <2>2. Base(fcb) \in Seq(0 .. 127) /\ Len(Base(fcb)) = BaseLen - 1 + 1
    <3>1. fcb \in NameBytes /\ 1 \in 1 .. NameLen /\ BaseLen \in 1 - 1 .. NameLen
      BY Lengths DEF IInv
    <3> QED
      BY <2>1, <3>1, CapitalsType
  <2> QED
    BY <1>1, <2>1, <2>2, Lengths DEF InBase, BaseBound
<1>2. CASE BehindBase
  BY <1>2 DEF BehindBase
<1>3. CASE InExtension
  BY <1>3, Lengths DEF InExtension
<1> QED
  BY <1>1, <1>2, <1>3 DEF IInv

(* Behind the base name the extension has been copied as far as a. *)
LEMMA ExtensionCopied ==
  ASSUME IInv, result = "loop", a >= BaseLen + 1
  PROVE  InExtension
  BY Lengths DEF IInv, InBase, BehindBase

(* The initial state. *)
LEMMA InitSound == Init => IInv
<1> SUFFICES ASSUME Init PROVE IInv
  OBVIOUS
<1>1. fcb \in NameBytes
  BY CharAssumption DEF Init, NameBytes
<1> QED
  BY <1>1, Lengths DEF Init, IInv, BufferBound

(* Nothing has been written when the loop begins. *)
LEMMA LoopBegins ==
  ASSUME a = 0, fn = <<>>, result' = "loop", fcb' \in NameBytes, UNCHANGED <<a, fn>>
  PROVE  IInv'
<1>1. Capitals(fcb', 1, 0) = <<>>
  <2>1. 0 \in 1 - 1 .. NameLen /\ 1 \in 1 .. NameLen
    BY Lengths
  <2>2. Capitals(fcb', 1, 0) \in Seq(0 .. 127) /\ Len(Capitals(fcb', 1, 0)) = 0 - 1 + 1
    BY <2>1, CapitalsType
  <2> QED
    BY <2>2
<1>2. InBase'
  BY <1>1, Lengths DEF InBase
<1> QED
  BY <1>2, Lengths DEF IInv, BufferBound

(* The first '.' of a text that has one. *)
LEMMA FirstDotFound ==
  ASSUME NEW s \in Seq(Char), Contains(s, Dot)
  PROVE  FirstDot(s) \in 1 .. Len(s)
<1> DEFINE I == {i \in 1 .. Len(s) : s[i] = Dot}
<1>1. I \in SUBSET Nat /\ I # {}
  BY DEF Contains
<1>2. PICK x \in I : \A y \in I : x <= y
  <2> HIDE DEF I
  <2> QED
    BY <1>1, LeastNumber
<1>3. Min(I) \in I
  <2> HIDE DEF I
  <2> QED
    BY <1>2 DEF Min
<1>4. FirstDot(s) = Min(I)
  BY <1>1 DEF FirstDot, SelectInSeq
<1> QED
  BY <1>3, <1>4

(* An argument fills a name with characters that it has, and blanks. *)
LEMMA FilledType ==
  ASSUME NEW s \in Argument
  PROVE  s \in Seq(Char) /\ write_filename_to_fcb(s) \in NameBytes
<1>1. s \in Seq(Char)
  <2>1. PICK Q : s \in Q /\ Q \in {[1 .. m -> Char \ {0}] : m \in 0 .. MaxArg}
    BY DEF Argument, BoundedSeq, SeqOf
  <2>2. PICK m \in 0 .. MaxArg : s \in [1 .. m -> Char \ {0}]
    BY <2>1
  <2> QED
    BY <2>2, MaxArgAssumption
<1>2. Before(s) \in Seq(Char) /\ After(s) \in Seq(Char)
  <2>1. CASE Contains(s, Dot)
    <3>1. FirstDot(s) \in 1 .. Len(s)
      BY <1>1, <2>1, FirstDotFound
    <3>2. SubSeq(s, 1, FirstDot(s) - 1) \in Seq(Char)
      BY <1>1, <3>1
    <3>3. SubSeq(s, FirstDot(s) + 1, Len(s)) \in Seq(Char)
      BY <1>1, <3>1
    <3> QED
      BY <2>1, <3>2, <3>3 DEF Before, After
  <2>2. CASE ~Contains(s, Dot)
    BY <1>1, <2>2 DEF Before, After
  <2> QED
    BY <2>1, <2>2
<1>3. ASSUME NEW t \in Seq(Char), NEW j \in Nat \ {0} PROVE PadTo(t, j) \in Char
  BY CharAssumption DEF PadTo
<1>4. ASSUME NEW j \in 1 .. NameLen
      PROVE  (IF j <= BaseLen THEN PadTo(Before(s), j)
                              ELSE PadTo(After(s), j - BaseLen)) \in Char
  <2>1. CASE j <= BaseLen
    BY <1>2, <1>3, <2>1
  <2>2. CASE ~(j <= BaseLen)
    <3>1. j - BaseLen \in Nat \ {0}
      BY <2>2, Lengths
    <3> QED
      BY <1>2, <1>3, <2>2, <3>1
  <2> QED
    BY <2>1, <2>2
<1> QED
  BY <1>1, <1>4 DEF write_filename_to_fcb, NameBytes

-----------------------------------------------------------------------------
(* The branches of the loop. *)

(* The byte before fn is cleared: a name without an extension. *)
LEMMA TruncateSound == IInv /\ Truncate => IInv'
<1> SUFFICES ASSUME IInv, Truncate PROVE IInv'
  OBVIOUS
<1>1. a = BaseLen /\ a' = a + 1 /\ result = "loop" /\ UNCHANGED fcb
  BY Lengths DEF Truncate, InLoop, IInv
<1>2. Ext(fcb) = <<>>
  <2>1. SevenBit(fcb[BaseLen + 1]) <= Blank
    BY <1>1 DEF Truncate, Next_c
  <2>2. Ext(fcb) = Capitals(fcb, BaseLen + 1, BaseLen + 1 - 1)
    BY <2>1, FieldStops, Lengths DEF Ext, IInv
  <2>3. /\ Capitals(fcb, BaseLen + 1, BaseLen) \in Seq(0 .. 127)
        /\ Len(Capitals(fcb, BaseLen + 1, BaseLen)) = BaseLen - (BaseLen + 1) + 1
    <3>1. BaseLen + 1 \in 1 .. NameLen /\ BaseLen \in BaseLen + 1 - 1 .. NameLen
      BY Lengths
    <3> QED
      BY <3>1, CapitalsType DEF IInv
  <2>4. BaseLen + 1 - 1 = BaseLen /\ BaseLen - (BaseLen + 1) + 1 = 0
    BY Lengths
  <2> QED
    BY <2>2, <2>3, <2>4
<1>3. a' \in 0 .. NameLen /\ fn = Base(fcb)
  BY <1>1, BaseCopied, Lengths
<1>4. CASE fn # <<>> /\ fn' = Front(fn) /\ result' = "name"
  <2>1. fn' \in Seq(0 .. 127) /\ Len(fn') = Len(fn) - 1 /\ Len(fn) \in Nat
    <3>1. fn \in Seq(0 .. 127) /\ Len(fn) \in Nat
      BY DEF IInv
    <3> QED
      BY <1>4, <3>1, FrontType
  <2> QED
    BY <1>1, <1>2, <1>3, <1>4, <2>1, Lengths DEF IInv, BufferBound, AllBlank
<1>5. CASE fn = <<>> /\ fn' = fn /\ result' = "stray"
  BY <1>1, <1>2, <1>3, <1>5 DEF IInv, BufferBound, AllBlank
<1> QED
  BY <1>4, <1>5 DEF Truncate

(* A blank in the extension: what is before it is the extension. *)
LEMMA EndOfExtensionSound == IInv /\ EndOfExtension => IInv'
<1> SUFFICES ASSUME IInv, EndOfExtension PROVE IInv'
  OBVIOUS
<1>1. /\ a >= BaseLen + 1 /\ a < NameLen /\ a' = a + 1 /\ result = "loop"
      /\ result' = "name" /\ UNCHANGED <<fcb, fn>>
  BY Lengths DEF EndOfExtension, InLoop, IInv
<1>2. InExtension
  BY <1>1, ExtensionCopied
<1>3. Ext(fcb) = Capitals(fcb, BaseLen + 1, a + 1 - 1)
  <2>1. SevenBit(fcb[a + 1]) <= Blank
    BY DEF EndOfExtension, Next_c
  <2>2. /\ BaseLen + 1 \in 1 .. NameLen /\ NameLen \in BaseLen + 1 .. NameLen
        /\ a + 1 \in BaseLen + 1 .. NameLen /\ a + 1 - 1 = a
    BY <1>1, Lengths DEF IInv
  <2>3. \A j \in BaseLen + 1 .. a : ~(SevenBit(fcb[j]) <= Blank)
    BY <1>2 DEF InExtension, Stop
  <2> QED
    BY <2>1, <2>2, <2>3, FieldStops DEF Ext, IInv
<1>4. fn = HostText(fcb)
  <2>1. a + 1 - 1 = a
    BY DEF IInv
  <2> QED
    BY <1>2, <1>3, <2>1 DEF InExtension, HostText
<1>5. Ext(fcb) # <<>>
  <2>1. a + 1 - 1 = a /\ a \in BaseLen .. NameLen /\ a - BaseLen > 0
    BY <1>1, Lengths DEF IInv
  <2>2. Len(Capitals(fcb, BaseLen + 1, a)) = a - BaseLen
    BY <2>1, ExtensionCapitals DEF IInv
  <2> QED
    BY <1>3, <2>1, <2>2
<1> QED
  BY <1>1, <1>4, <1>5, Lengths DEF IInv, BufferBound, AllBlank

(* A blank in the base name: what is before it is the base name. *)
LEMMA EndOfBaseSound == IInv /\ EndOfBase => IInv'
<1> SUFFICES ASSUME IInv, EndOfBase PROVE IInv'
  OBVIOUS
<1>1. /\ a < BaseLen /\ a' = BaseLen /\ result = "loop"
      /\ UNCHANGED <<fcb, fn, result>>
  BY Lengths DEF EndOfBase, InLoop, AfterBase, IInv
<1>2. InBase
  BY <1>1, Lengths DEF IInv, BehindBase, InExtension
<1>3. Base(fcb) = Capitals(fcb, 1, a + 1 - 1)
  <2>1. SevenBit(fcb[a + 1]) <= Blank
    BY DEF EndOfBase, Next_c
  <2>2. /\ 1 \in 1 .. NameLen /\ BaseLen \in 1 .. NameLen
        /\ a + 1 \in 1 .. BaseLen /\ a + 1 - 1 = a
    BY <1>1, Lengths DEF IInv
  <2>3. \A j \in 1 .. a : ~(SevenBit(fcb[j]) <= Blank)
    BY <1>2 DEF InBase, Stop
  <2> QED
    BY <2>1, <2>2, <2>3, FieldStops DEF Base, IInv
<1>4. a + 1 - 1 = a
  BY DEF IInv
<1>5. fn = Base(fcb)
  BY <1>2, <1>3, <1>4 DEF InBase
<1>6. Len(fn) <= BaseLen
  <2>1. 1 \in 1 .. NameLen /\ a \in 1 - 1 .. NameLen
    BY Lengths DEF IInv
  <2>2. Len(fn) = a - 1 + 1
    BY <1>2, <2>1, CapitalsType DEF InBase, IInv
  <2> QED
    BY <1>1, <2>2, Lengths DEF IInv
<1>7. BehindBase'
  BY <1>1, <1>5, <1>6 DEF BehindBase, BaseBound, IInv
<1> QED
  BY <1>1, <1>7, Lengths DEF IInv, BufferBound

(* A byte of the base name, or of the extension with a '.' before the first. *)
LEMMA CopyByteSound == IInv /\ CopyByte => IInv'
<1> SUFFICES ASSUME IInv, CopyByte PROVE IInv'
  OBVIOUS
<1> DEFINE c == Upper(Next_c)
<1>0. /\ fcb \in NameBytes /\ a \in 0 .. NameLen /\ fn \in Seq(0 .. 127)
      /\ result \in {"none", "loop", "name", "stray"}
  BY DEF IInv
<1>1. /\ a \in Nat /\ a < NameLen /\ a' = a + 1 /\ result = "loop"
      /\ ~Stop(a + 1) /\ fn' = fn \o Separator(a + 1) \o <<c>>
      /\ UNCHANGED <<fcb, result>>
  <2>1. a < NameLen /\ a' = a + 1 /\ result = "loop" /\ UNCHANGED <<fcb, result>>
    BY DEF CopyByte, InLoop
  <2>2. a \in Nat
    BY <1>0, Lengths
  <2>3. ~Stop(a + 1)
    <3>1. a + 1 \in 1 .. NameLen
      BY <2>1, <2>2, Lengths
    <3>2. SevenBit(fcb[a + 1]) \in 0 .. 127 /\ SevenBit(fcb[a + 1]) > Blank
      BY <1>0, <3>1, CapitalType DEF CopyByte, Next_c
    <3> QED
      BY <3>2 DEF Stop, Blank
  <2>4. fn' = fn \o Separator(a + 1) \o <<c>>
    BY <2>1 DEF CopyByte
  <2> HIDE DEF c
  <2> QED
    BY <2>1, <2>2, <2>3, <2>4
<1>2. c \in 0 .. 127 /\ c = Upper(SevenBit(fcb[a + 1]))
  <2>1. a + 1 \in 1 .. NameLen
    BY <1>1, Lengths
  <2> QED
    BY <2>1, CapitalType DEF Next_c, IInv
<1> HIDE DEF c
<1>3. fn \in Seq(0 .. 127) /\ <<c>> \in Seq(0 .. 127) /\ Len(<<c>>) = 1
  BY <1>2 DEF IInv
<1>4. CASE a < BaseLen
  <2>1. InBase
    BY <1>1, <1>4, Lengths DEF IInv, BehindBase, InExtension
  <2>2. Separator(a + 1) = <<>>
    BY <1>1, <1>4, Lengths DEF Separator
  <2>3. fn' = fn \o <<c>>
    BY <1>1, <1>3, <2>2
  <2>4. /\ 1 \in 1 .. NameLen /\ a + 1 \in 1 .. NameLen /\ a \in 1 - 1 .. NameLen
        /\ a + 1 - 1 = a
    BY <1>1, Lengths
  <2>5. fn' = Capitals(fcb, 1, a + 1)
    <3>1. a + 1 \in 1 .. NameLen
      BY <2>4
    <3>2. Capitals(fcb, 1, a + 1)
            = Capitals(fcb, 1, a + 1 - 1) \o <<Upper(SevenBit(fcb[a + 1]))>>
      BY <1>0, <2>4, <3>1, CapitalsGrow
    <3>3. fn = Capitals(fcb, 1, a)
      BY <2>1 DEF InBase
    <3> QED
      BY <1>2, <2>3, <2>4, <3>2, <3>3
  <2>6. fn' \in Seq(0 .. 127) /\ Len(fn') = a + 1
    <3>1. a + 1 \in 1 - 1 .. NameLen /\ a + 1 - 1 + 1 = a + 1
      BY <2>4
    <3>2. Len(Capitals(fcb, 1, a + 1)) = a + 1 - 1 + 1
      BY <2>4, <3>1, CapitalsType DEF IInv
    <3> QED
      BY <1>3, <2>3, <2>5, <3>1, <3>2
  <2>7. InBase'
    BY <1>1, <1>4, <2>1, <2>5, Lengths DEF InBase, Stop
  <2> QED
    BY <1>1, <1>4, <2>6, <2>7, Lengths DEF IInv, BufferBound
<1>5. CASE a = BaseLen
  <2>1. fn = Base(fcb) /\ BaseBound
    BY <1>1, <1>5, BaseCopied
  <2>2. Separator(a + 1) = <<Dot>>
    BY <1>1, <1>5, Lengths DEF Separator
  <2>3. Capitals(fcb, BaseLen + 1, a + 1) = <<c>>
    <3> DEFINE none == Capitals(fcb, BaseLen + 1, a)
    <3>1. /\ a \in BaseLen .. NameLen /\ a + 1 \in BaseLen .. NameLen
          /\ a + 1 > BaseLen /\ a + 1 - 1 = a /\ a - BaseLen = 0
      BY <1>1, <1>5, Lengths
    <3>2. none \in Seq(0 .. 127) /\ Len(none) = 0
      BY <1>0, <3>1, ExtensionCapitals
    <3>3. Capitals(fcb, BaseLen + 1, a + 1) = none \o <<c>>
      BY <1>0, <1>2, <3>1, ExtensionCapitals
    <3> HIDE DEF none
    <3>4. none = <<>>
      BY <3>2
    <3> QED
      BY <1>3, <3>3, <3>4, ConcatEmptySeq
  <2>4. fn' = Base(fcb) \o <<Dot>> \o Capitals(fcb, BaseLen + 1, a + 1)
    BY <1>1, <2>1, <2>2, <2>3
  <2>5. /\ fn \o <<Dot>> \in Seq(0 .. 127)
        /\ Len(fn \o <<Dot>>) = Len(fn) + 1
    BY <1>3 DEF Dot
  <2>6. fn' \in Seq(0 .. 127) /\ Len(fn') = Len(fn) + 2
    <3> DEFINE g == fn \o <<Dot>>
    <3>1. fn' = g \o <<c>>
      BY <1>1, <2>2
    <3>2. g \in Seq(0 .. 127) /\ Len(g) = Len(fn) + 1 /\ Len(fn) \in Nat
      BY <1>3, <2>5
    <3> HIDE DEF g
    <3>3. Len(g \o <<c>>) = Len(g) + 1 /\ g \o <<c>> \in Seq(0 .. 127)
      BY <1>3, <3>2
    <3> QED
      BY <3>1, <3>2, <3>3
  <2>7. InExtension'
    <3>1. a' > BaseLen /\ BaseBound'
      BY <1>1, <1>5, <2>1, Lengths DEF BaseBound
    <3>2. \A j \in BaseLen + 1 .. a' : ~Stop(j)'
      <4>1. \A j \in BaseLen + 1 .. a' : j = a + 1
        BY <1>1, <1>5, Lengths
      <4>2. \A j \in BaseLen + 1 .. a' : ~Stop(j)
        BY <1>1, <4>1
      <4> QED
        BY <1>1, <4>2 DEF Stop
    <3> QED
      BY <1>1, <2>4, <3>1, <3>2 DEF InExtension
  <2>8. Len(fn') <= BaseLen + 1 + ExtLen
    BY <1>3, <2>1, <2>6, Lengths DEF BaseBound
  <2> QED
    BY <1>1, <1>5, <2>6, <2>7, <2>8, Lengths DEF IInv, BufferBound
<1>6. CASE a > BaseLen
  <2>1. InExtension
    BY <1>1, <1>6, ExtensionCopied, Lengths
  <2>2. Separator(a + 1) = <<>>
    BY <1>1, <1>6, Lengths DEF Separator
  <2>3. fn' = fn \o <<c>>
    BY <1>1, <1>3, <2>2
  <2> DEFINE e == Capitals(fcb, BaseLen + 1, a)
             b == Base(fcb) \o <<Dot>>
  <2>4. /\ a \in BaseLen .. NameLen /\ a + 1 \in BaseLen .. NameLen
        /\ a + 1 > BaseLen /\ a + 1 - 1 = a
    BY <1>1, <1>6, Lengths
  <2>5. e \in Seq(0 .. 127) /\ Len(e) = a - BaseLen
    BY <1>0, <2>4, ExtensionCapitals
  <2>6. Capitals(fcb, BaseLen + 1, a + 1) = e \o <<c>>
    BY <1>0, <1>2, <2>4, ExtensionCapitals
  <2>7. b \in Seq(0 .. 127) /\ Len(b) <= BaseLen + 1 /\ Len(b) \in Nat
    BY <2>1, Lengths DEF InExtension, BaseBound, Dot
  <2>8. fn = b \o e
    BY <2>1 DEF InExtension
  <2> HIDE DEF b, e
  <2>9. (b \o e) \o <<c>> = b \o (e \o <<c>>)
    BY <1>3, <2>5, <2>7, ConcatAssociative
  <2>10. fn' = b \o Capitals(fcb, BaseLen + 1, a + 1)
    BY <2>3, <2>6, <2>8, <2>9
  <2>11. fn' \in Seq(0 .. 127) /\ Len(fn') = Len(b) + (a - BaseLen) + 1
    <3>1. b \o e \in Seq(0 .. 127) /\ Len(b \o e) = Len(b) + (a - BaseLen)
      BY <2>5, <2>7
    <3> QED
      BY <1>3, <2>3, <2>8, <3>1
  <2>12. InExtension'
    <3>1. a' > BaseLen /\ BaseBound'
      BY <1>1, <1>6, <2>1, Lengths DEF InExtension, BaseBound
    <3>2. \A j \in BaseLen + 1 .. a' : ~Stop(j)'
      <4>1. ASSUME NEW j \in BaseLen + 1 .. a' PROVE ~Stop(j)
        <5>1. j \in BaseLen + 1 .. a \/ j = a + 1
          BY <1>1, Lengths
        <5> QED
          BY <1>1, <2>1, <5>1 DEF InExtension
      <4> QED
        BY <1>1, <4>1 DEF Stop
    <3>3. fn' = Base(fcb') \o <<Dot>> \o Capitals(fcb', BaseLen + 1, a')
      BY <1>1, <2>10 DEF b
    <3> QED
      BY <1>1, <3>1, <3>2, <3>3 DEF InExtension
  <2>13. Len(fn') <= BaseLen + 1 + ExtLen
    BY <1>1, <2>7, <2>11, Lengths
  <2> QED
    BY <1>1, <2>11, <2>12, <2>13, Lengths DEF IInv, BufferBound
<1> QED
  BY <1>1, <1>4, <1>5, <1>6, Lengths

(* The extension fills its field. *)
LEMMA EndOfNameSound == IInv /\ EndOfName => IInv'
<1> SUFFICES ASSUME IInv, EndOfName PROVE IInv'
  OBVIOUS
<1>1. /\ a = NameLen /\ result = "loop" /\ result' = "name"
      /\ UNCHANGED <<fcb, a, fn>>
  BY DEF EndOfName
<1>2. InExtension
  BY <1>1, ExtensionCopied, Lengths
<1>3. Ext(fcb) = Capitals(fcb, BaseLen + 1, NameLen)
  <2>1. BaseLen + 1 \in 1 .. NameLen /\ NameLen \in BaseLen + 1 .. NameLen
    BY Lengths
  <2>2. \A j \in BaseLen + 1 .. NameLen : ~(SevenBit(fcb[j]) <= Blank)
    BY <1>1, <1>2 DEF InExtension, Stop
  <2> QED
    BY <2>1, <2>2, FieldFull DEF Ext, IInv
<1>4. fn = HostText(fcb)
  BY <1>1, <1>2, <1>3 DEF InExtension, HostText
<1>5. Ext(fcb) # <<>>
  <2>1. NameLen \in BaseLen .. NameLen /\ NameLen - BaseLen > 0
    BY Lengths
  <2>2. Len(Capitals(fcb, BaseLen + 1, NameLen)) = NameLen - BaseLen
    BY <2>1, ExtensionCapitals DEF IInv
  <2> QED
    BY <1>3, <2>1, <2>2
<1> QED
  BY <1>1, <1>4, <1>5 DEF IInv, BufferBound, AllBlank

-----------------------------------------------------------------------------
(***************************************************************************)
(* What holds in every reachable state of the conversion, for every length *)
(* of the two fields and every set of bytes.                               *)
(***************************************************************************)
THEOREM Invariance == Spec => []IInv
<1>1. Init => IInv
  BY InitSound
<1>2. IInv /\ [Next]_vars => IInv'
  <2> SUFFICES ASSUME IInv, [Next]_vars PROVE IInv'
    OBVIOUS
  <2>1. CASE FillFromArg
    <3>1. fcb' \in NameBytes
      BY <2>1, FilledType DEF FillFromArg
    <3> QED
      BY <2>1, <3>1, LoopBegins DEF FillFromArg, IInv
  <2>2. CASE GuestFills
    BY <2>2, LoopBegins DEF GuestFills, IInv
  <2>3. CASE Loop
    BY <2>3, TruncateSound, EndOfExtensionSound, EndOfBaseSound, CopyByteSound,
       EndOfNameSound DEF Loop
  <2>4. CASE UNCHANGED vars
    BY <2>4 DEF vars, IInv, BufferBound, InBase, BehindBase, InExtension,
                BaseBound, Stop
  <2> QED
    BY <2>1, <2>2, <2>3, <2>4 DEF Next
<1> QED
  BY <1>1, <1>2, PTL DEF Spec

(* fn[14] is never overrun: the name, its '.' and the extension fit.  The  *)
(* byte before it is written for all-blank names only, and for all these.  *)
THEOREM NameFits == Spec => []BufferBound
<1>1. IInv => BufferBound
  BY DEF IInv
<1> QED
  BY <1>1, Invariance, PTL

(* A name with an extension is converted to BASE.EXT in capitals, whatever *)
(* bytes, blanks and high bits the FCB holds.                              *)
THEOREM NameIsItsFields == Spec => []NamedByFields
<1>1. IInv => NamedByFields
  BY DEF IInv, NamedByFields
<1> QED
  BY <1>1, Invariance, PTL

-----------------------------------------------------------------------------
(* From the argument to the name. *)

Graphic == 33 .. 126

(* A printable character is its own seven bits, and no blank. *)
LEMMA PrintableByte ==
  ASSUME NEW c \in Graphic
  PROVE  SevenBit(c) = c /\ ~(SevenBit(c) <= Blank)
  BY DEF SevenBit, Blank, Graphic

(* The capitals of the first n characters of a text. *)
FirstCapitals(s, n) ==
  [j \in 1 .. (IF Len(s) < n THEN Len(s) ELSE n) |-> Upper(s[j])]

(* A field that a printable text fills reads as that text, cut to it. *)
LEMMA FieldOfText ==
  ASSUME NEW name \in NameBytes, NEW first \in 1 .. NameLen,
         NEW last \in first .. NameLen, NEW s \in Seq(Graphic),
         \A j \in first .. last : name[j] = PadTo(s, j - first + 1)
  PROVE  Field(name, first, last) = FirstCapitals(s, last - first + 1)
<1>0. first \in Nat /\ last \in Nat /\ first <= last /\ last <= NameLen
      /\ NameLen \in Nat /\ Len(s) \in Nat
  BY Lengths
<1>1. ASSUME NEW j \in first .. last, j - first + 1 <= Len(s)
      PROVE  /\ SevenBit(name[j]) = s[j - first + 1]
             /\ ~(SevenBit(name[j]) <= Blank)
  <2>1. j - first + 1 \in 1 .. Len(s)
    BY <1>0, <1>1
  <2>2. name[j] = s[j - first + 1]
    BY <1>1 DEF PadTo
  <2>3. s[j - first + 1] \in Graphic
    BY <2>1, ElementOfSeq
  <2> QED
    BY <2>2, <2>3, PrintableByte
<1>2. CASE last - first + 1 <= Len(s)
  <2>1. \A j \in first .. last : j - first + 1 <= Len(s)
    BY <1>0, <1>2
  <2>2. Field(name, first, last) = Capitals(name, first, last)
    BY <1>1, <2>1, FieldFull
  <2>3. \A j \in 1 .. last - first + 1 :
          Upper(SevenBit(name[first + j - 1])) = Upper(s[j])
    <3> SUFFICES ASSUME NEW j \in 1 .. last - first + 1
                 PROVE  SevenBit(name[first + j - 1]) = s[j]
      OBVIOUS
    <3>1. PICK k \in first .. last : k = first + j - 1
      BY <1>0
    <3>2. k - first + 1 = j
      BY <1>0, <3>1
    <3> QED
      BY <1>1, <2>1, <3>1, <3>2
  <2>4. FirstCapitals(s, last - first + 1) = [j \in 1 .. last - first + 1 |-> Upper(s[j])]
    BY <1>0, <1>2 DEF FirstCapitals
  <2> QED
    BY <2>2, <2>3, <2>4 DEF Capitals
<1>3. CASE Len(s) < last - first + 1
  <2>1. PICK p \in first .. last : p = first + Len(s)
    BY <1>0, <1>3
  <2>2. SevenBit(name[p]) <= Blank
    <3>1. p - first + 1 = Len(s) + 1
      BY <1>0, <2>1
    <3>2. name[p] = Blank
      BY <1>0, <3>1 DEF PadTo
    <3> QED
      BY <3>2 DEF SevenBit, Blank
  <2>3. \A j \in first .. p - 1 : j \in first .. last /\ j - first + 1 <= Len(s)
    BY <1>0, <2>1
  <2>4. Field(name, first, last) = Capitals(name, first, p - 1)
    BY <1>1, <2>2, <2>3, FieldStops
  <2>5. p - 1 - first + 1 = Len(s)
    BY <1>0, <2>1
  <2>6. \A j \in 1 .. Len(s) : Upper(SevenBit(name[first + j - 1])) = Upper(s[j])
    <3> SUFFICES ASSUME NEW j \in 1 .. Len(s)
                 PROVE  SevenBit(name[first + j - 1]) = s[j]
      OBVIOUS
    <3>1. PICK k \in first .. last : k = first + j - 1
      BY <1>0, <1>3
    <3>2. k - first + 1 = j
      BY <1>0, <3>1
    <3>3. k - first + 1 <= Len(s)
      BY <3>2
    <3> QED
      BY <1>1, <3>1, <3>2, <3>3
  <2>7. FirstCapitals(s, last - first + 1) = [j \in 1 .. Len(s) |-> Upper(s[j])]
    BY <1>0, <1>3 DEF FirstCapitals
  <2> QED
    BY <2>4, <2>5, <2>6, <2>7 DEF Capitals
<1> QED
  BY <1>0, <1>2, <1>3

(* The parts of a printable argument are printable. *)
LEMMA PartsPrintable ==
  ASSUME NEW s \in Argument, Printable(s)
  PROVE  /\ Before(s) \in Seq(Graphic)
         /\ After(s) \in Seq(Graphic)
<1>1. s \in Seq(Graphic)
  <2>1. s \in Seq(Char)
    BY FilledType
  <2>2. s \in [1 .. Len(s) -> Char] /\ Len(s) \in Nat
    BY <2>1
  <2>3. \A j \in 1 .. Len(s) : s[j] \in Graphic
    BY DEF Printable, Graphic
  <2>4. s \in [1 .. Len(s) -> Graphic]
    BY <2>2, <2>3
  <2> QED
    BY <2>2, <2>4
<1>2. CASE Contains(s, Dot)
  <2>1. FirstDot(s) \in 1 .. Len(s)
    <3>1. s \in Seq(Char)
      BY FilledType
    <3> QED
      BY <1>2, <3>1, FirstDotFound
  <2>2. SubSeq(s, 1, FirstDot(s) - 1) \in Seq(Graphic)
    <3>1. \A i \in 1 .. FirstDot(s) - 1 : s[i] \in Graphic
      <4>1. \A i \in 1 .. FirstDot(s) - 1 : i \in 1 .. Len(s)
        BY <1>1, <2>1
      <4> QED
        BY <1>1, <4>1, ElementOfSeq
    <3>2. 1 \in Nat /\ FirstDot(s) - 1 \in Nat
      BY <2>1
    <3> QED
      BY <3>1, <3>2, SubSeqProperties
  <2>3. SubSeq(s, FirstDot(s) + 1, Len(s)) \in Seq(Graphic)
    <3>1. \A i \in FirstDot(s) + 1 .. Len(s) : s[i] \in Graphic
      BY <1>1, <2>1, ElementOfSeq
    <3>2. FirstDot(s) + 1 \in Nat /\ Len(s) \in Nat
      BY <1>1, <2>1
    <3> QED
      BY <3>1, <3>2, SubSeqProperties
  <2> QED
    BY <1>2, <2>2, <2>3 DEF Before, After
<1>3. CASE ~Contains(s, Dot)
  BY <1>1, <1>3 DEF Before, After
<1> QED
  BY <1>2, <1>3

(* The two fields of an FCB that a printable argument filled. *)
LEMMA FieldsOfArgument ==
  ASSUME NEW s \in Argument, Printable(s)
  PROVE  /\ Base(write_filename_to_fcb(s)) = FirstCapitals(Before(s), BaseLen)
         /\ Ext(write_filename_to_fcb(s)) = FirstCapitals(After(s), ExtLen)
<1> DEFINE w == write_filename_to_fcb(s)
<1>1. /\ w \in NameBytes
      /\ Before(s) \in Seq(Graphic) /\ After(s) \in Seq(Graphic)
  BY FilledType, PartsPrintable
<1>2. \A j \in 1 .. NameLen :
        w[j] = IF j <= BaseLen THEN PadTo(Before(s), j) ELSE PadTo(After(s), j - BaseLen)
  BY DEF write_filename_to_fcb
<1> HIDE DEF w
<1>3. Base(w) = FirstCapitals(Before(s), BaseLen)
  <2>1. 1 \in 1 .. NameLen /\ BaseLen \in 1 .. NameLen /\ BaseLen - 1 + 1 = BaseLen
    BY Lengths
  <2>2. \A j \in 1 .. BaseLen : w[j] = PadTo(Before(s), j - 1 + 1)
    BY <1>2, Lengths
  <2>3. Field(w, 1, BaseLen) = FirstCapitals(Before(s), BaseLen - 1 + 1)
    BY <1>1, <2>1, <2>2, FieldOfText
  <2> QED
    BY <2>1, <2>3 DEF Base
<1>4. Ext(w) = FirstCapitals(After(s), ExtLen)
  <2>1. PICK p \in 1 .. NameLen : p = BaseLen + 1
    BY Lengths
  <2>2. NameLen \in p .. NameLen /\ NameLen - p + 1 = ExtLen
    BY <2>1, Lengths
  <2>3. \A j \in p .. NameLen : w[j] = PadTo(After(s), j - p + 1)
    <3> SUFFICES ASSUME NEW j \in p .. NameLen PROVE w[j] = PadTo(After(s), j - p + 1)
      OBVIOUS
    <3>1. j \in 1 .. NameLen /\ ~(j <= BaseLen) /\ j - BaseLen = j - p + 1
      BY <2>1, Lengths
    <3> QED
      BY <1>2, <3>1
  <2>4. Field(w, p, NameLen) = FirstCapitals(After(s), NameLen - p + 1)
    BY <1>1, <2>2, <2>3, FieldOfText
  <2> QED
    BY <2>1, <2>2, <2>4 DEF Ext
<1> QED
  BY <1>3, <1>4 DEF w

(* The texts s and t with the byte c between. *)
IsJoin(u, s, c, t) ==
  /\ Len(u) = Len(s) + 1 + Len(t)
  /\ \A j \in 1 .. Len(s) + 1 + Len(t) :
       u[j] = IF j <= Len(s) THEN s[j]
              ELSE IF j = Len(s) + 1 THEN c ELSE t[j - Len(s) - 1]

LEMMA JoinedBy ==
  ASSUME NEW S, NEW s \in Seq(S), NEW t \in Seq(S), NEW c \in S
  PROVE  s \o <<c>> \o t \in Seq(S) /\ IsJoin(s \o <<c>> \o t, s, c, t)
<1> DEFINE u == s \o <<c>>
           m == Len(s)
           n == Len(t)
<1>1. m \in Nat /\ n \in Nat
  OBVIOUS
<1>2. /\ u \in Seq(S) /\ Len(u) = m + 1
      /\ \A j \in 1 .. m + 1 : u[j] = IF j <= m THEN s[j] ELSE c
  OBVIOUS
<1> HIDE DEF u
<1>3. /\ u \o t \in Seq(S) /\ Len(u \o t) = m + 1 + n
      /\ \A j \in 1 .. m + 1 + n :
           (u \o t)[j] = IF j <= m + 1 THEN u[j] ELSE t[j - (m + 1)]
  <2>1. /\ Len(u \o t) = Len(u) + Len(t) /\ u \o t \in Seq(S)
        /\ \A j \in 1 .. Len(u) + Len(t) :
             (u \o t)[j] = IF j <= Len(u) THEN u[j] ELSE t[j - Len(u)]
    BY <1>2, ConcatProperties
  <2> QED
    BY <1>2, <2>1
<1>4. ASSUME NEW j \in 1 .. m + 1 + n
      PROVE  (u \o t)[j] =
               IF j <= m THEN s[j] ELSE IF j = m + 1 THEN c ELSE t[j - m - 1]
  <2> HIDE DEF m, n
  <2>1. CASE j <= m + 1
    <3>1. j \in 1 .. m + 1 /\ (~(j <= m) => j = m + 1)
      BY <1>1, <2>1
    <3> QED
      BY <1>2, <1>3, <2>1, <3>1
  <2>2. CASE ~(j <= m + 1)
    <3>1. ~(j <= m) /\ j # m + 1 /\ j - (m + 1) = j - m - 1
      BY <1>1, <2>2
    <3> QED
      BY <1>3, <2>2, <3>1
  <2> QED
    BY <2>1, <2>2
<1> QED
  BY <1>3, <1>4 DEF u, IsJoin

(* What HostText says of them. *)
LEMMA TextOfArgument ==
  ASSUME NEW s \in Argument, Printable(s), After(s) # <<>>
  PROVE  /\ Ext(write_filename_to_fcb(s)) # <<>>
         /\ HostText(write_filename_to_fcb(s)) =
              LET text == Cut(Before(s), BaseLen) \o <<Dot>> \o Cut(After(s), ExtLen)
              IN  [j \in 1 .. Len(text) |-> Upper(text[j])]
<1> DEFINE m == IF Len(Before(s)) < BaseLen THEN Len(Before(s)) ELSE BaseLen
           n == IF Len(After(s)) < ExtLen THEN Len(After(s)) ELSE ExtLen
           b == Cut(Before(s), BaseLen)
           e == Cut(After(s), ExtLen)
           B == Base(write_filename_to_fcb(s))
           E == Ext(write_filename_to_fcb(s))
           text == b \o <<Dot>> \o e
           upper == [j \in 1 .. Len(text) |-> Upper(text[j])]
<1>1. Before(s) \in Seq(Graphic) /\ After(s) \in Seq(Graphic)
  BY PartsPrintable
<1>2. /\ m \in Nat /\ m <= Len(Before(s)) /\ Len(Before(s)) \in Nat
      /\ n \in Nat /\ n <= Len(After(s)) /\ Len(After(s)) \in Nat /\ n > 0
  <2>1. Len(Before(s)) \in Nat /\ Len(After(s)) \in Nat
    BY <1>1
  <2>2. Len(After(s)) # 0
    BY <1>1, EmptySeq
  <2> QED
    BY <2>1, <2>2, Lengths
<1>3. B = [j \in 1 .. m |-> Upper(Before(s)[j])] /\ E = [j \in 1 .. n |-> Upper(After(s)[j])]
  BY FieldsOfArgument DEF FirstCapitals
<1>4. b = SubSeq(Before(s), 1, m) /\ e = SubSeq(After(s), 1, n)
  BY DEF Cut
<1> HIDE DEF m, n, b, e, B, E
<1>5. /\ b \in Seq(Graphic) /\ Len(b) = m
      /\ \A j \in 1 .. m : b[j] \in Graphic /\ b[j] = Before(s)[j]
  <2>1. \A j \in 1 .. m : j \in 1 .. Len(Before(s)) /\ Before(s)[j] \in Graphic
    <3>1. \A j \in 1 .. m : j \in 1 .. Len(Before(s))
      BY <1>2
    <3> QED
      BY <1>1, <3>1, ElementOfSeq
  <2>2. \A j \in 1 .. m - 1 + 1 : SubSeq(Before(s), 1, m)[j] = Before(s)[1 + j - 1]
    BY <1>2, <2>1, SubSeqProperties
  <2>3. /\ SubSeq(Before(s), 1, m) \in Seq(Graphic)
        /\ Len(SubSeq(Before(s), 1, m)) = IF 1 <= m THEN m - 1 + 1 ELSE 0
    BY <1>2, <2>1, SubSeqProperties
  <2> QED
    BY <1>2, <1>4, <2>1, <2>2, <2>3
<1>6. /\ e \in Seq(Graphic) /\ Len(e) = n
      /\ \A j \in 1 .. n : e[j] \in Graphic /\ e[j] = After(s)[j]
  <2>1. \A j \in 1 .. n : j \in 1 .. Len(After(s)) /\ After(s)[j] \in Graphic
    <3>1. \A j \in 1 .. n : j \in 1 .. Len(After(s))
      BY <1>2
    <3> QED
      BY <1>1, <3>1, ElementOfSeq
  <2>2. \A j \in 1 .. n - 1 + 1 : SubSeq(After(s), 1, n)[j] = After(s)[1 + j - 1]
    BY <1>2, <2>1, SubSeqProperties
  <2>3. /\ SubSeq(After(s), 1, n) \in Seq(Graphic)
        /\ Len(SubSeq(After(s), 1, n)) = IF 1 <= n THEN n - 1 + 1 ELSE 0
    BY <1>2, <2>1, SubSeqProperties
  <2> QED
    BY <1>2, <1>4, <2>1, <2>2, <2>3
<1>7. \A c \in Graphic : Upper(c) \in Graphic
  BY DEF Upper, Graphic
<1>8. /\ B \in Seq(Graphic) /\ Len(B) = m
      /\ \A j \in 1 .. m : B[j] = Upper(b[j])
  <2>1. B = [j \in 1 .. m |-> Upper(b[j])]
    BY <1>3, <1>5
  <2>2. B \in [1 .. m -> Graphic]
    BY <1>5, <1>7, <2>1
  <2> QED
    BY <1>2, <2>1, <2>2
<1>9. /\ E \in Seq(Graphic) /\ Len(E) = n
      /\ \A j \in 1 .. n : E[j] = Upper(e[j])
  <2>1. E = [j \in 1 .. n |-> Upper(e[j])]
    BY <1>3, <1>6
  <2>2. E \in [1 .. n -> Graphic]
    BY <1>6, <1>7, <2>1
  <2> QED
    BY <1>2, <2>1, <2>2
<1>10. Dot \in Graphic /\ Upper(Dot) = Dot
  BY DEF Dot, Graphic, Upper
<1>11. /\ text \in Seq(Graphic) /\ Len(text) = m + 1 + n
       /\ \A j \in 1 .. m + 1 + n :
            text[j] = IF j <= m THEN b[j] ELSE IF j = m + 1 THEN Dot ELSE e[j - m - 1]
  <2>1. text \in Seq(Graphic) /\ IsJoin(text, b, Dot, e)
    BY <1>5, <1>6, <1>10, JoinedBy
  <2> HIDE DEF text
  <2> QED
    BY <1>5, <1>6, <2>1 DEF IsJoin
<1>12. /\ B \o <<Dot>> \o E \in Seq(Graphic) /\ Len(B \o <<Dot>> \o E) = m + 1 + n
       /\ \A j \in 1 .. m + 1 + n :
            (B \o <<Dot>> \o E)[j] = IF j <= m THEN B[j] ELSE IF j = m + 1 THEN Dot ELSE E[j - m - 1]
  <2> DEFINE joined == B \o <<Dot>> \o E
  <2>1. joined \in Seq(Graphic) /\ IsJoin(joined, B, Dot, E)
    BY <1>8, <1>9, <1>10, JoinedBy
  <2> HIDE DEF joined
  <2>2. /\ joined \in Seq(Graphic) /\ Len(joined) = m + 1 + n
        /\ \A j \in 1 .. m + 1 + n :
             joined[j] = IF j <= m THEN B[j]
                         ELSE IF j = m + 1 THEN Dot ELSE E[j - m - 1]
    BY <1>8, <1>9, <2>1 DEF IsJoin
  <2> QED
    BY <2>2 DEF joined
<1>13. upper \in Seq(Graphic) /\ Len(upper) = m + 1 + n
  <2>1. \A j \in 1 .. Len(text) : Upper(text[j]) \in Graphic
    <3> SUFFICES ASSUME NEW j \in 1 .. Len(text) PROVE text[j] \in Graphic
      BY <1>7
    <3> QED
      BY <1>11, ElementOfSeq
  <2> HIDE DEF text
  <2>2. upper \in [1 .. Len(text) -> Graphic] /\ Len(text) \in Nat
    BY <1>2, <1>11, <2>1
  <2> QED
    BY <1>11, <2>2
<1>14. ASSUME NEW j \in 1 .. m + 1 + n PROVE (B \o <<Dot>> \o E)[j] = Upper(text[j])
  <2>1. CASE j <= m
    <3>1. j \in 1 .. m
      BY <1>2, <2>1
    <3> QED
      BY <1>8, <1>11, <1>12, <2>1, <3>1
  <2>2. CASE j = m + 1
    <3>1. ~(j <= m)
      BY <1>2, <2>2
    <3> QED
      BY <1>10, <1>11, <1>12, <2>2, <3>1
  <2>3. CASE j > m + 1
    <3>1. j - m - 1 \in 1 .. n /\ ~(j <= m) /\ j # m + 1
      BY <1>2, <2>3
    <3> QED
      BY <1>9, <1>11, <1>12, <3>1
  <2>4. j <= m \/ j = m + 1 \/ j > m + 1
    <3> HIDE DEF text
    <3> QED
      BY <1>2
  <2> QED
    BY <2>1, <2>2, <2>3, <2>4
<1>15. B \o <<Dot>> \o E = upper
  <2> DEFINE joined == B \o <<Dot>> \o E
  <2>1. \A j \in 1 .. m + 1 + n : upper[j] = Upper(text[j])
    BY <1>11
  <2>2. \A j \in 1 .. Len(joined) : joined[j] = upper[j]
    BY <1>12, <1>14, <2>1
  <2>3. joined \in Seq(Graphic) /\ Len(joined) = Len(upper)
    BY <1>12, <1>13
  <2> HIDE DEF upper, joined
  <2>4. joined = upper
    BY <1>13, <2>2, <2>3, SeqEqual
  <2> QED
    BY <2>4 DEF joined
<1>16. E # <<>>
  BY <1>2, <1>9
<1> QED
  BY <1>15, <1>16 DEF HostText, B, E, b, e

(* The FCB of an argument stays as the argument filled it. *)
Filled ==
  /\ result = "none" => arg = <<>>
  /\ arg # <<>> => arg \in Argument /\ fcb = write_filename_to_fcb(arg)

LEMMA ArgumentKept == Spec => []Filled
<1>1. Init => Filled
  BY DEF Init, Filled
<1>2. Filled /\ [Next]_vars => Filled'
  <2> SUFFICES ASSUME Filled, [Next]_vars PROVE Filled'
    OBVIOUS
  <2>1. CASE FillFromArg
    BY <2>1 DEF FillFromArg, Filled
  <2>2. CASE GuestFills
    BY <2>2 DEF GuestFills, Filled
  <2>3. CASE Loop
    <3>1. UNCHANGED <<arg, fcb>> /\ result' # "none"
      BY <2>3 DEF Loop, InLoop, Truncate, EndOfExtension, EndOfBase, CopyByte, EndOfName
    <3> QED
      BY <3>1 DEF Filled
  <2>4. CASE UNCHANGED vars
    BY <2>4 DEF Filled, vars
  <2> QED
    BY <2>1, <2>2, <2>3, <2>4 DEF Next
<1> QED
  BY <1>1, <1>2, PTL DEF Spec

(***************************************************************************)
(* A printable argument BASE.EXT, of any length, names the host file       *)
(* BASE.EXT in capitals, cut to the fields: write_filename_to_fcb and      *)
(* fcb_to_filename fit each other.                                         *)
(***************************************************************************)
THEOREM ArgumentNamesItsFile == Spec => []ArgumentRoundTrip
<1>1. IInv /\ Filled => ArgumentRoundTrip
  <2> SUFFICES ASSUME IInv, Filled, result = "name", Printable(arg), After(arg) # <<>>
               PROVE  ArgumentRoundTrip
    BY DEF ArgumentRoundTrip
  <2>1. arg # <<>>
    <3>1. ~Contains(<<>>, Dot)
      BY DEF Contains
    <3> QED
      BY <3>1 DEF After
  <2>2. arg \in Argument /\ fcb = write_filename_to_fcb(arg)
    BY <2>1 DEF Filled
  <2>3. Ext(fcb) # <<>>
    BY <2>2, TextOfArgument
  <2>4. fn = HostText(fcb)
    BY <2>3 DEF IInv
  <2> QED
    BY <2>2, <2>4, TextOfArgument DEF ArgumentRoundTrip
<1> QED
  BY <1>1, Invariance, ArgumentKept, PTL
=============================================================================
