-------------------------- MODULE BdosFilesProofs --------------------------
(***************************************************************************)
(* The file calls for any number of FCBs, slots, streams, files and faults *)
(* of the host.  First, the table of FCBs and the host streams agree in    *)
(* every reachable state.  TableSound is not inductive alone: the calls    *)
(* look into the stream of a slot, so that its type and the file it is     *)
(* open on have to be known.  IInv adds TypeOK and StreamsHaveFiles.       *)
(*                                                                         *)
(* Then, what a step may do to files and streams: no file is replaced or   *)
(* shortened, a failed open is harmless, no written byte is dropped unless *)
(* the disk is full, no read is stale as long as a file has one FCB, and   *)
(* records stay aligned.  All five rest on one lemma, StepShape: unless it *)
(* is a kill, a step does to every stream, file and directory entry one of *)
(* a few things, and of these the first is a move (Moved): a flush, a      *)
(* read, a write, a close.                                                 *)
(***************************************************************************)
EXTENDS BdosFiles, Numbers, SequenceTheorems, TLAPS

-----------------------------------------------------------------------------
(* The operators on streams: types, what a flush and a read do to the      *)
(* bytes, and alignment to records.                                        *)

(* Bytes laid over a file make a file. *)
LEMMA OverlayType ==
  ASSUME NEW c \in Seq(Byte), NEW d \in Seq(Byte), NEW off \in Nat
  PROVE  Overlay(c, off, d) \in Seq(Byte)
<1> DEFINE end == off + Len(d)
           n == IF end > Len(c) THEN end ELSE Len(c)
           elt(j) == CASE off < j /\ j <= end -> d[j - off]
                       [] ~(off < j /\ j <= end) /\ j <= Len(c) -> c[j]
                       [] OTHER -> 0
<1>1. CASE d = <<>>
  BY <1>1 DEF Overlay
<1>2. CASE d # <<>>
  <2>1. n \in Nat
    OBVIOUS
  <2>2. ASSUME NEW j \in 1 .. n
        PROVE  elt(j) \in Byte
    <3>1. CASE off < j /\ j <= end
      <4>1. j - off \in 1 .. Len(d)
        BY <3>1
      <4> QED
        BY <3>1, <4>1
    <3>2. CASE ~(off < j /\ j <= end) /\ j <= Len(c)
      BY <3>2
    <3>3. CASE ~(off < j /\ j <= end) /\ ~(j <= Len(c))
      BY <3>3, ByteAssumption
    <3> QED
      BY <3>1, <3>2, <3>3
  <2>3. [j \in 1 .. n |-> elt(j)] \in Seq(Byte)
    <3> HIDE DEF n, elt
    <3> QED
      BY <2>1, <2>2
  <2> QED
    BY <1>2, <2>3 DEF Overlay
<1> QED
  BY <1>1, <1>2

(* A stretch of a sequence is a sequence. *)
LEMMA StretchType ==
  ASSUME NEW S, NEW s \in Seq(S), NEW m \in Nat \ {0}, NEW n \in 0 .. Len(s)
  PROVE  SubSeq(s, m, n) \in Seq(S)
<1>1. CASE m > n
  BY <1>1
<1>2. CASE m <= n
  BY <1>2
<1> QED
  BY <1>1, <1>2

(* What a stream shows, and what is pending, are sequences of bytes. *)
LEMMA EffectiveType ==
  ASSUME NEW c \in Seq(Byte), NEW st \in Stream
  PROVE  /\ Effective(c, st) \in Seq(Byte)
         /\ Pending(st) \in Seq(Byte)
  BY OverlayType DEF Effective, Pending, Stream

(* A file stays a file when a flush reaches it in part or whole. *)
LEMMA FlushedType ==
  ASSUME NEW c \in Seq(Byte), NEW st \in Stream, NEW k \in FlushLengths(st)
  PROVE  /\ Flushed(c, st, k) \in Seq(Byte)
         /\ k \in 0 .. Len(Pending(st))
<1>1. Pending(st) \in Seq(Byte)
  BY EffectiveType
<1>2. k \in 0 .. Len(Pending(st))
  BY <1>1 DEF FlushLengths
<1>3. SubSeq(Pending(st), 1, k) \in Seq(Byte)
  BY <1>1, <1>2, StretchType
<1> QED
  BY <1>2, <1>3, OverlayType DEF Flushed, Stream

(* Opening, closing and seeking keep the type of a stream and its file. *)
LEMMA SimpleStreamTypes ==
  /\ ClosedStream \in Stream
  /\ \A i \in Inode : Opened(i) \in Stream
  /\ \A st \in Stream, n \in Nat :
       /\ Seeked(st, n) \in Stream
       /\ Seeked(st, n).ino = st.ino
       /\ Seeked(st, n).mode = "idle"
<1>1. <<>> \in Seq(Byte)
  OBVIOUS
<1>2. ClosedStream \in Stream
  BY <1>1 DEF ClosedStream, Stream, Mode
<1>3. ASSUME NEW i \in Inode PROVE Opened(i) \in Stream
  BY <1>1 DEF Opened, Stream, Mode
<1>4. ASSUME NEW st \in Stream, NEW n \in Nat
      PROVE  /\ Seeked(st, n) \in Stream
             /\ Seeked(st, n).ino = st.ino
             /\ Seeked(st, n).mode = "idle"
  <2> DEFINE o == IF st.mode = "write" THEN 0 ELSE st.off
             b == IF st.mode = "write" THEN <<>> ELSE st.buf
  <2>1. o \in Nat /\ b \in Seq(Byte) /\ "idle" \in Mode
    BY <1>1 DEF Stream, Mode
  <2>2. Seeked(st, n) =
          [st EXCEPT !.mode = "idle", !.pos = n, !.off = o, !.buf = b]
    BY DEF Seeked
  <2> HIDE DEF o, b
  <2> QED
    BY <2>1, <2>2 DEF Stream
<1> QED
  BY <1>2, <1>3, <1>4

(* The bytes a read delivers are at most a record. *)
LEMMA ReadType ==
  ASSUME NEW c \in Seq(Byte), NEW st \in Stream
  PROVE  /\ ReadCount(c, st) \in 0 .. RecordSize
         /\ ReadCount(c, st) > 0 =>
              st.pos + ReadCount(c, st) <= Len(Effective(c, st))
         /\ ReadBytes(c, st) \in Seq(Byte)
<1> DEFINE e == Effective(c, st)
           left == Len(e) - st.pos
<1>1. e \in Seq(Byte) /\ st.pos \in Nat
  BY EffectiveType DEF Stream
<1>2. left \in Int /\ RecordSize \in Nat \ {0}
  BY <1>1, RecordSizeAssumption
<1>3. /\ left <= 0 => ReadCount(c, st) = 0
      /\ left \in 1 .. RecordSize => ReadCount(c, st) = left
      /\ left > RecordSize => ReadCount(c, st) = RecordSize
  BY <1>2 DEF ReadCount
<1>4. /\ ReadCount(c, st) \in 0 .. RecordSize
      /\ ReadCount(c, st) > 0 => st.pos + ReadCount(c, st) <= Len(e)
  <2> HIDE DEF e
  <2> QED
    BY <1>1, <1>2, <1>3
<1>5. ReadBytes(c, st) \in Seq(Byte)
  <2>1. ReadBytes(c, st) = SubSeq(e, st.pos + 1, st.pos + ReadCount(c, st))
    BY DEF ReadBytes
  <2> HIDE DEF e
  <2>2. CASE ReadCount(c, st) = 0
    BY <1>1, <2>1, <2>2
  <2>3. CASE ReadCount(c, st) # 0
    BY <1>1, <1>4, <2>1, <2>3, StretchType
  <2> QED
    BY <2>2, <2>3
<1> QED
  BY <1>4, <1>5

(* A read keeps the type of the stream and its file. *)
LEMMA AfterReadType ==
  ASSUME NEW c \in Seq(Byte), NEW st \in Stream, NEW end \in BufferEnds(c, st)
  PROVE  /\ AfterRead(c, st, end) \in Stream
         /\ AfterRead(c, st, end).ino = st.ino
         /\ AfterRead(c, st, end).mode \in {"idle", "read"}
<1> DEFINE e == Effective(c, st)
           kept == IF end > st.pos THEN SubSeq(e, st.pos + 1, end) ELSE <<>>
<1>1. e \in Seq(Byte) /\ st.pos \in Nat /\ ReadCount(c, st) \in Nat
  BY EffectiveType, ReadType, RecordSizeAssumption DEF Stream
<1>2. end = st.pos \/ end = Len(e)
  BY DEF BufferEnds
<1>3. kept \in Seq(Byte)
  <2>1. CASE end > st.pos
    BY <1>1, <1>2, <2>1, StretchType
  <2>2. CASE ~(end > st.pos)
    BY <2>2
  <2> QED
    BY <2>1, <2>2
<1> DEFINE m == IF ReadCount(c, st) < RecordSize THEN "idle" ELSE "read"
           p == st.pos + ReadCount(c, st)
           o == IF kept = <<>> THEN 0 ELSE st.pos
<1>4. AfterRead(c, st, end) =
        [st EXCEPT !.mode = m, !.pos = p, !.off = o, !.buf = kept]
  BY DEF AfterRead
<1>5. m \in Mode /\ m \in {"idle", "read"} /\ p \in Nat /\ o \in Nat
  BY <1>1 DEF Mode
<1> HIDE DEF e, kept, m, p, o
<1> QED
  BY <1>3, <1>4, <1>5 DEF Stream

(* A write keeps the type of the stream and its file. *)
LEMMA AfterWriteType ==
  ASSUME NEW st \in Stream, NEW d \in Seq(Byte)
  PROVE  /\ AfterWrite(st, d) \in Stream
         /\ AfterWrite(st, d).ino = st.ino
         /\ AfterWrite(st, d).mode = "write"
         /\ RoomInReadBuffer(st, d) =>
              /\ AfterDroppedWrite(st, d) \in Stream
              /\ AfterDroppedWrite(st, d).ino = st.ino
              /\ AfterDroppedWrite(st, d).mode = st.mode
<1>1. st.buf \in Seq(Byte) /\ st.pos \in Nat /\ st.off \in Nat
  BY DEF Stream
<1>2. st.buf \o d \in Seq(Byte)
  BY <1>1
<1>3. RoomInReadBuffer(st, d) => Overlay(st.buf, st.pos - st.off, d) \in Seq(Byte)
  <2>1. RoomInReadBuffer(st, d) => st.pos - st.off \in Nat
    BY <1>1 DEF RoomInReadBuffer
  <2> QED
    BY <1>1, <2>1, OverlayType
<1>4. Len(d) \in Nat
  OBVIOUS
<1>5. /\ AfterWrite(st, d) \in Stream
      /\ AfterWrite(st, d).ino = st.ino
      /\ AfterWrite(st, d).mode = "write"
  <2> DEFINE p == st.pos + Len(d)
             o == IF st.mode = "write" THEN st.off ELSE st.pos
             b == IF st.mode = "write" THEN st.buf \o d ELSE d
  <2>1. p \in Nat /\ o \in Nat /\ b \in Seq(Byte) /\ "write" \in Mode
    BY <1>1, <1>2, <1>4 DEF Mode
  <2>2. AfterWrite(st, d) =
          [st EXCEPT !.mode = "write", !.pos = p, !.off = o, !.buf = b]
    BY DEF AfterWrite
  <2> HIDE DEF p, o, b
  <2> QED
    BY <2>1, <2>2 DEF Stream
<1>6. ASSUME RoomInReadBuffer(st, d)
      PROVE  /\ AfterDroppedWrite(st, d) \in Stream
             /\ AfterDroppedWrite(st, d).ino = st.ino
             /\ AfterDroppedWrite(st, d).mode = st.mode
  <2> DEFINE p == st.pos + Len(d)
             b == Overlay(st.buf, st.pos - st.off, d)
  <2>1. p \in Nat /\ b \in Seq(Byte)
    BY <1>1, <1>3, <1>4, <1>6
  <2>2. AfterDroppedWrite(st, d) = [st EXCEPT !.pos = p, !.buf = b]
    BY DEF AfterDroppedWrite
  <2> HIDE DEF p, b
  <2> QED
    BY <2>1, <2>2 DEF Stream
<1> QED
  BY <1>5, <1>6

(* A flush in mid-writing keeps the type of the stream and its file. *)
LEMMA DrainedType ==
  ASSUME NEW st \in Stream, NEW k \in Nat
  PROVE  /\ Drained(st, k) \in Stream
         /\ Drained(st, k).ino = st.ino
         /\ Drained(st, k).mode = st.mode
<1> DEFINE p == st.off + k
<1>1. p \in Nat /\ <<>> \in Seq(Byte)
  BY DEF Stream
<1>2. Drained(st, k) = [st EXCEPT !.pos = p, !.off = p, !.buf = <<>>]
  BY DEF Drained
<1> HIDE DEF p
<1> QED
  BY <1>1, <1>2 DEF Stream

-----------------------------------------------------------------------------
(* What a flush does to the bytes of a file. *)

(* The bytes laid over a file are there, and the others are as before.     *)
LEMMA OverlayValue ==
  ASSUME NEW c \in Seq(Byte), NEW d \in Seq(Byte), d # <<>>, NEW off \in Nat
  PROVE  /\ Len(Overlay(c, off, d)) =
              IF off + Len(d) > Len(c) THEN off + Len(d) ELSE Len(c)
         /\ \A j \in 1 .. Len(d) : Overlay(c, off, d)[off + j] = d[j]
         /\ \A j \in 1 .. Len(c) :
              j <= off \/ j > off + Len(d) => Overlay(c, off, d)[j] = c[j]
<1> DEFINE end == off + Len(d)
           n == IF end > Len(c) THEN end ELSE Len(c)
           elt(j) == CASE off < j /\ j <= end -> d[j - off]
                       [] ~(off < j /\ j <= end) /\ j <= Len(c) -> c[j]
                       [] OTHER -> 0
           o == [j \in 1 .. n |-> elt(j)]
<1>1. n \in Nat /\ end \in Nat /\ n >= end /\ n >= Len(c)
  OBVIOUS
<1>2. Overlay(c, off, d) = o
  BY DEF Overlay
<1>3. Len(o) = n
  <2> HIDE DEF elt, n
  <2> QED
    BY <1>1
<1>4. ASSUME NEW j \in 1 .. Len(d)
      PROVE  o[off + j] = d[j]
  <2>1. off + j \in 1 .. n /\ off < off + j /\ off + j <= end
    BY <1>1
  <2>2. elt(off + j) = d[off + j - off]
    BY <2>1
  <2>3. o[off + j] = elt(off + j)
    BY <2>1
  <2> QED
    BY <2>2, <2>3
<1>5. ASSUME NEW j \in 1 .. Len(c), j <= off \/ j > end
      PROVE  o[j] = c[j]
  <2>1. j \in 1 .. n
    BY <1>1
  <2>2. elt(j) = c[j]
    BY <1>5
  <2> QED
    BY <2>1, <2>2
<1> QED
  BY <1>2, <1>3, <1>4, <1>5

(* Laying bytes over a file never shortens it. *)
LEMMA OverlayGrows ==
  ASSUME NEW c \in Seq(Byte), NEW d \in Seq(Byte), NEW off \in Nat
  PROVE  Len(Overlay(c, off, d)) >= Len(c)
<1>1. CASE d = <<>>
  BY <1>1 DEF Overlay
<1>2. CASE d # <<>>
  BY <1>2, OverlayValue
<1> QED
  BY <1>1, <1>2

(* A flush, in part or whole, never shortens a file. *)
LEMMA FlushedGrows ==
  ASSUME NEW c \in Seq(Byte), NEW st \in Stream, NEW k \in FlushLengths(st)
  PROVE  Len(Flushed(c, st, k)) >= Len(c)
<1>1. Pending(st) \in Seq(Byte) /\ k \in 0 .. Len(Pending(st)) /\ 1 \in Nat \ {0}
  BY FlushedType, EffectiveType
<1>2. SubSeq(Pending(st), 1, k) \in Seq(Byte) /\ st.off \in Nat
  BY <1>1, StretchType DEF Stream
<1> QED
  BY <1>2, OverlayGrows DEF Flushed

(* The whole flush puts every pending byte into the file. *)
LEMMA FlushedKeeps ==
  ASSUME NEW c \in Seq(Byte), NEW st \in Stream
  PROVE  \A j \in 1 .. Len(Pending(st)) :
           /\ st.off + j <= Len(Flushed(c, st, Len(Pending(st))))
           /\ Flushed(c, st, Len(Pending(st)))[st.off + j] = Pending(st)[j]
<1> DEFINE p == Pending(st)
<1>1. p \in Seq(Byte) /\ st.off \in Nat
  BY EffectiveType DEF Stream
<1>2. SubSeq(p, 1, Len(p)) = p
  BY <1>1, SubSeqFull
<1>3. Flushed(c, st, Len(p)) = Overlay(c, st.off, p)
  BY <1>2 DEF Flushed
<1> HIDE DEF p
<1>4. ASSUME NEW j \in 1 .. Len(p)
      PROVE  /\ st.off + j <= Len(Overlay(c, st.off, p))
             /\ Overlay(c, st.off, p)[st.off + j] = p[j]
  <2>1. p # <<>>
    BY <1>1
  <2> QED
    BY <1>1, <2>1, OverlayValue
<1> QED
  BY <1>3, <1>4 DEF p

-----------------------------------------------------------------------------
(* What a stream has read ahead. *)

(* The buffer holds what the file holds there. *)
Current(c, st) ==
  \A j \in 1 .. Len(st.buf) :
    st.off + j <= Len(c) /\ st.buf[j] = c[st.off + j]

(* A stream whose buffer is current shows its user the file itself.        *)
LEMMA EffectiveCurrent ==
  ASSUME NEW c \in Seq(Byte), NEW st \in Stream, Current(c, st)
  PROVE  Effective(c, st) = c
<1> DEFINE b == st.buf
           e == Overlay(c, st.off, b)
<1>1. b \in Seq(Byte) /\ st.off \in Nat
  BY DEF Stream
<1>2. CASE b = <<>>
  BY <1>2 DEF Effective, Overlay
<1>3. CASE b # <<>>
  <2>1. Len(b) \in 1 .. Len(b)
    BY <1>1, <1>3
  <2>2. st.off + Len(b) <= Len(c)
    BY <2>1 DEF Current
  <2>3. e \in Seq(Byte) /\ Len(e) = Len(c)
    <3> HIDE DEF b
    <3>1. e \in Seq(Byte)
      BY <1>1, OverlayType
    <3>2. Len(e) = IF st.off + Len(b) > Len(c) THEN st.off + Len(b) ELSE Len(c)
      BY <1>1, <1>3, OverlayValue
    <3>3. ~(st.off + Len(b) > Len(c))
      BY <1>1, <2>2
    <3> QED
      BY <3>1, <3>2, <3>3
  <2>4. ASSUME NEW j \in 1 .. Len(c)
        PROVE  e[j] = c[j]
    <3>1. CASE j <= st.off \/ j > st.off + Len(b)
      <4> HIDE DEF b
      <4> QED
        BY <1>1, <1>3, <3>1, OverlayValue
    <3>2. CASE ~(j <= st.off \/ j > st.off + Len(b))
      <4> DEFINE k == j - st.off
      <4>1. k \in 1 .. Len(b) /\ st.off + k = j
        BY <1>1, <3>2
      <4>2. b[k] = c[st.off + k]
        BY <4>1 DEF Current
      <4> HIDE DEF b, k
      <4>3. e[st.off + k] = b[k]
        BY <1>1, <1>3, <4>1, OverlayValue
      <4> QED
        BY <4>1, <4>2, <4>3
    <3> QED
      BY <3>1, <3>2
  <2> HIDE DEF e
  <2>5. e = c
    BY <2>3, <2>4
  <2> QED
    BY <2>5 DEF Effective, e
<1> QED
  BY <1>2, <1>3

(* What a read fetches from a stream that shows the file is current. *)
LEMMA AfterReadCurrent ==
  ASSUME NEW c \in Seq(Byte), NEW st \in Stream, Current(c, st),
         NEW end \in BufferEnds(c, st)
  PROVE  Current(c, AfterRead(c, st, end))
<1> DEFINE new == AfterRead(c, st, end)
           kept == IF end > st.pos THEN SubSeq(c, st.pos + 1, end) ELSE <<>>
<1>1. Effective(c, st) = c
  BY EffectiveCurrent
<1>2. /\ st.pos \in Nat /\ st.off \in Nat /\ Len(c) \in Nat
      /\ end = st.pos \/ end = Len(c)
  BY <1>1 DEF Stream, BufferEnds
<1>3. new.buf = kept /\ new.off = IF kept = <<>> THEN 0 ELSE st.pos
  BY <1>1 DEF AfterRead, Stream
<1>4. CASE end > st.pos
  <2>1. end = Len(c) /\ st.pos + 1 \in 1 .. Len(c)
    BY <1>2, <1>4
  <2>2. /\ Len(kept) = end - st.pos
        /\ \A j \in 1 .. end - st.pos : kept[j] = c[st.pos + j]
    BY <1>2, <1>4, <2>1
  <2> HIDE DEF kept, new
  <2>3. kept # <<>>
    <3>1. Len(kept) # 0 /\ Len(<<>>) = 0
      BY <1>2, <1>4, <2>1, <2>2
    <3> QED
      BY <3>1
  <2> QED
    BY <1>2, <1>3, <2>1, <2>2, <2>3 DEF Current, new
<1>5. CASE ~(end > st.pos)
  BY <1>3, <1>5 DEF Current
<1> QED
  BY <1>4, <1>5

(* An empty buffer is current, and a seek keeps or empties it. *)
LEMMA SeekedCurrent ==
  ASSUME NEW c, NEW st \in Stream, NEW n \in Nat,
         st.mode # "write" => Current(c, st)
  PROVE  Current(c, Seeked(st, n))
<1>1. CASE st.mode = "write"
  <2>1. Seeked(st, n).buf = <<>>
    BY <1>1 DEF Seeked, Stream
  <2> QED
    BY <2>1 DEF Current
<1>2. CASE st.mode # "write"
  <2>1. Seeked(st, n).buf = st.buf /\ Seeked(st, n).off = st.off
    BY <1>2 DEF Seeked, Stream
  <2> QED
    BY <1>2, <2>1 DEF Current
<1> QED
  BY <1>1, <1>2

-----------------------------------------------------------------------------
(* Whole records. *)

Whole(n) == n % RecordSize = 0

WholeStream(st) == Whole(st.pos) /\ Whole(st.off) /\ Whole(Len(st.buf))

(* Sums, differences and multiples of whole records are whole. *)
LEMMA WholeSums ==
  /\ Whole(0) /\ Whole(RecordSize)
  /\ \A r \in Nat : Whole(r * RecordSize)
  /\ \A a, b \in Int : Whole(a) /\ Whole(b) => Whole(a + b) /\ Whole(a - b)
  /\ \A a \in 1 .. RecordSize : Whole(a) => a = RecordSize
<1>1. RecordSize \in Nat /\ RecordSize > 0 /\ 0 \in 0 .. RecordSize - 1
  BY RecordSizeAssumption
<1>2. ASSUME NEW q \in Int PROVE Whole(RecordSize * q)
  <2>1. (RecordSize * q + 0) % RecordSize = 0
    BY <1>1, <1>2, Remainder
  <2>2. RecordSize * q + 0 = RecordSize * q
    BY <1>1
  <2> QED
    BY <2>1, <2>2 DEF Whole
<1>3. Whole(0) /\ Whole(RecordSize)
  <2>1. RecordSize * 0 = 0 /\ RecordSize * 1 = RecordSize /\ 0 \in Int /\ 1 \in Int
    BY <1>1
  <2> QED
    BY <1>2, <2>1
<1>4. ASSUME NEW r \in Nat PROVE Whole(r * RecordSize)
  <2>1. r * RecordSize = RecordSize * r
    BY <1>1
  <2> QED
    BY <1>2, <2>1
<1>5. ASSUME NEW a \in Int, NEW b \in Int, Whole(a), Whole(b)
      PROVE  Whole(a + b) /\ Whole(a - b)
  <2> DEFINE p == a \div RecordSize
             q == b \div RecordSize
  <2>1. a = RecordSize * p /\ p \in Int
    BY <1>1, <1>5, Division DEF Whole
  <2>2. b = RecordSize * q /\ q \in Int
    BY <1>1, <1>5, Division DEF Whole
  <2> HIDE DEF p, q
  <2>3. a + b = RecordSize * (p + q) /\ a - b = RecordSize * (p - q)
    BY <1>1, <2>1, <2>2
  <2>4. p + q \in Int /\ p - q \in Int
    BY <2>1, <2>2
  <2> QED
    BY <1>2, <2>3, <2>4
<1>6. ASSUME NEW a \in 1 .. RecordSize, Whole(a) PROVE a = RecordSize
  <2> SUFFICES ASSUME a # RecordSize PROVE FALSE
    OBVIOUS
  <2>1. a \in 0 .. RecordSize - 1
    BY <1>1
  <2>2. (RecordSize * 0 + a) % RecordSize = a
    BY <1>1, <2>1, Remainder
  <2>3. RecordSize * 0 + a = a
    BY <1>1
  <2> QED
    BY <1>6, <2>2, <2>3 DEF Whole
<1> QED
  BY <1>3, <1>4, <1>5, <1>6

(* Whole records laid over a file of whole records. *)
LEMMA OverlayWhole ==
  ASSUME NEW c \in Seq(Byte), NEW d \in Seq(Byte), NEW off \in Nat,
         Whole(Len(c)), Whole(Len(d)), Whole(off)
  PROVE  Whole(Len(Overlay(c, off, d)))
<1>1. CASE d = <<>>
  BY <1>1 DEF Overlay
<1>2. CASE d # <<>>
  <2>1. Len(Overlay(c, off, d)) =
          IF off + Len(d) > Len(c) THEN off + Len(d) ELSE Len(c)
    BY <1>2, OverlayValue
  <2>2. Whole(off + Len(d))
    BY WholeSums
  <2> QED
    BY <2>1, <2>2
<1> QED
  BY <1>1, <1>2

(* The whole flush of whole records. *)
LEMMA FlushedWhole ==
  ASSUME NEW c \in Seq(Byte), NEW st \in Stream, Whole(Len(c)), WholeStream(st),
         NEW k, k = Len(Pending(st))
  PROVE  /\ Whole(Len(Flushed(c, st, k)))
         /\ Whole(k) /\ Whole(st.off + k)
<1> DEFINE p == Pending(st)
<1>1. p \in Seq(Byte) /\ st.off \in Nat /\ Whole(Len(p)) /\ Whole(st.off)
  BY EffectiveType, WholeSums DEF Stream, WholeStream, Pending
<1>2. Flushed(c, st, k) = Overlay(c, st.off, p)
  BY <1>1, SubSeqFull DEF Flushed
<1> HIDE DEF p
<1>3. Whole(Len(Overlay(c, st.off, p)))
  BY <1>1, OverlayWhole
<1>4. Len(p) \in Int /\ st.off \in Int
  BY <1>1
<1> QED
  BY <1>1, <1>2, <1>3, <1>4, WholeSums DEF p

(* A read moves by a whole record or not at all, and fetches whole records. *)
LEMMA AfterReadWhole ==
  ASSUME NEW c \in Seq(Byte), NEW st \in Stream, Whole(Len(c)), WholeStream(st),
         NEW end \in BufferEnds(c, st)
  PROVE  WholeStream(AfterRead(c, st, end))
<1> DEFINE e == Effective(c, st)
           n == ReadCount(c, st)
           left == Len(e) - st.pos
           kept == IF end > st.pos THEN SubSeq(e, st.pos + 1, end) ELSE <<>>
<1>1. e \in Seq(Byte) /\ st.pos \in Nat /\ Whole(st.pos)
  BY EffectiveType DEF Stream, WholeStream
<1>2. Whole(Len(e))
  BY OverlayWhole DEF Effective, Stream, WholeStream
<1>3. end = st.pos \/ end = Len(e)
  BY DEF BufferEnds
<1> HIDE DEF e
<1>4. left \in Int /\ Whole(left) /\ RecordSize \in Nat
  <2>1. Len(e) \in Int /\ st.pos \in Int
    BY <1>1
  <2>2. Whole(left)
    BY <1>1, <1>2, <2>1, WholeSums, Zenon
  <2> QED
    BY <2>1, <2>2, RecordSizeAssumption
<1>5. n \in Nat /\ Whole(n)
  <2>1. /\ left <= 0 => n = 0
        /\ left \in 1 .. RecordSize => n = left
        /\ left > RecordSize => n = RecordSize
    BY <1>4 DEF ReadCount, e
  <2> HIDE DEF left, n
  <2>2. Whole(0) /\ Whole(RecordSize)
    BY WholeSums
  <2>3. left <= 0 \/ left \in 1 .. RecordSize \/ left > RecordSize
    BY <1>4
  <2> QED
    BY <1>4, <2>1, <2>2, <2>3
<1>6. Whole(st.pos + n)
  <2>1. st.pos \in Int /\ n \in Int
    BY <1>1, <1>5
  <2> QED
    BY <1>1, <1>5, <2>1, WholeSums, Zenon
<1>7. Whole(Len(kept))
  <2>1. CASE end > st.pos
    <3>1. Len(kept) = left
      BY <1>1, <1>3, <2>1
    <3> QED
      BY <1>4, <3>1
  <2>2. CASE ~(end > st.pos)
    <3>1. Len(kept) = 0
      BY <2>2
    <3> QED
      BY <3>1, WholeSums
  <2> QED
    BY <2>1, <2>2
<1>8. /\ AfterRead(c, st, end).pos = st.pos + n
      /\ AfterRead(c, st, end).off = IF kept = <<>> THEN 0 ELSE st.pos
      /\ AfterRead(c, st, end).buf = kept
  BY DEF AfterRead, Stream, e
<1> HIDE DEF kept, n
<1> QED
  BY <1>1, <1>6, <1>7, <1>8, WholeSums DEF WholeStream

(* Opening, closing, seeking to a record and writing records. *)
LEMMA WholeMoves ==
  /\ WholeStream(ClosedStream)
  /\ \A i : WholeStream(Opened(i))
  /\ \A st \in Stream, n \in Nat :
       WholeStream(st) /\ Whole(n) => WholeStream(Seeked(st, n))
  /\ \A st \in Stream, d \in Seq(Byte) :
       WholeStream(st) /\ Len(d) = RecordSize =>
         /\ WholeStream(AfterWrite(st, d))
         /\ RoomInReadBuffer(st, d) => WholeStream(AfterDroppedWrite(st, d))
  /\ \A st \in Stream, k \in Nat :
       Whole(st.off + k) => WholeStream(Drained(st, k))
<1>1. Whole(0) /\ Len(<<>>) = 0
  BY WholeSums
<1>2. WholeStream(ClosedStream)
  BY <1>1 DEF WholeStream, ClosedStream
<1>3. ASSUME NEW i PROVE WholeStream(Opened(i))
  BY <1>1 DEF WholeStream, Opened
<1>4. ASSUME NEW st \in Stream, NEW n \in Nat, WholeStream(st), Whole(n)
      PROVE  WholeStream(Seeked(st, n))
  BY <1>1, <1>4 DEF WholeStream, Seeked, Stream
<1>5. ASSUME NEW st \in Stream, NEW d \in Seq(Byte), WholeStream(st),
             Len(d) = RecordSize
      PROVE  WholeStream(AfterWrite(st, d))
  <2>1. /\ st.pos \in Nat /\ st.buf \in Seq(Byte) /\ Whole(st.pos)
        /\ Whole(st.off) /\ Whole(Len(st.buf)) /\ Whole(Len(d))
    BY <1>5, WholeSums DEF Stream, WholeStream
  <2>2. Whole(st.pos + Len(d)) /\ Whole(Len(st.buf) + Len(d))
    <3>1. st.pos \in Int /\ Len(d) \in Int /\ Len(st.buf) \in Int
      BY <2>1
    <3> QED
      BY <2>1, <3>1, WholeSums, Zenon
  <2>3. Len(st.buf \o d) = Len(st.buf) + Len(d)
    BY <2>1
  <2>4. CASE st.mode = "write"
    <3>1. /\ AfterWrite(st, d).pos = st.pos + Len(d)
          /\ AfterWrite(st, d).off = st.off
          /\ AfterWrite(st, d).buf = st.buf \o d
      BY <2>4 DEF AfterWrite, Stream
    <3> QED
      BY <2>1, <2>2, <2>3, <3>1 DEF WholeStream
  <2>5. CASE st.mode # "write"
    <3>1. /\ AfterWrite(st, d).pos = st.pos + Len(d)
          /\ AfterWrite(st, d).off = st.pos
          /\ AfterWrite(st, d).buf = d
      BY <2>5 DEF AfterWrite, Stream
    <3> QED
      BY <2>1, <2>2, <3>1 DEF WholeStream
  <2> QED
    BY <2>4, <2>5
<1>6. ASSUME NEW st \in Stream, NEW d \in Seq(Byte), WholeStream(st),
             Len(d) = RecordSize, RoomInReadBuffer(st, d)
      PROVE  WholeStream(AfterDroppedWrite(st, d))
  <2> DEFINE o == st.pos - st.off
  <2>1. /\ st.pos \in Nat /\ st.off \in Nat /\ st.buf \in Seq(Byte)
        /\ Whole(st.pos) /\ Whole(st.off) /\ Whole(Len(st.buf)) /\ Whole(Len(d))
    BY <1>6, WholeSums DEF Stream, WholeStream
  <2>2. o \in Nat
    BY <1>6, <2>1 DEF RoomInReadBuffer
  <2>3. Whole(o) /\ Whole(st.pos + Len(d))
    <3>1. st.pos \in Int /\ Len(d) \in Int /\ st.off \in Int
      BY <2>1
    <3> QED
      BY <2>1, <3>1, WholeSums, Zenon
  <2> HIDE DEF o
  <2>4. Whole(Len(Overlay(st.buf, o, d)))
    BY <2>1, <2>2, <2>3, OverlayWhole
  <2>5. /\ AfterDroppedWrite(st, d).pos = st.pos + Len(d)
        /\ AfterDroppedWrite(st, d).off = st.off
        /\ AfterDroppedWrite(st, d).buf = Overlay(st.buf, o, d)
    BY DEF AfterDroppedWrite, Stream, o
  <2> QED
    BY <2>1, <2>3, <2>4, <2>5 DEF WholeStream
<1>7. ASSUME NEW st \in Stream, NEW k \in Nat, Whole(st.off + k)
      PROVE  WholeStream(Drained(st, k))
  BY <1>1, <1>7 DEF WholeStream, Drained, Stream
<1> QED
  BY <1>2, <1>3, <1>4, <1>5, <1>6, <1>7

-----------------------------------------------------------------------------
(* The inductive invariant. *)

(* An open stream is open on a file. *)
StreamsHaveFiles ==
  \A h \in Handle : stream[h].mode # "closed" => stream[h].ino \in Inode

IInv == TypeOK /\ StreamsHaveFiles /\ TableSound

TablePart == SlotsDistinct /\ SlotsOpen /\ NoStreamLeaks /\ StreamsHaveFiles

Files == [Inode -> Seq(Byte)]
Streams == [Handle -> Stream]
Table == [Slot -> [addr: FcbAddr \cup {FREE}, fp: Handle \cup {NoHandle}]]

-----------------------------------------------------------------------------
(* Data. *)

(* A record short of bytes is filled up. *)
LEMMA PaddedType ==
  ASSUME NEW d \in Seq(Byte)
  PROVE  Padded(d) \in Record
<1>1. RecordSize \in Nat
  BY RecordSizeAssumption
<1>2. ASSUME NEW j \in 1 .. RecordSize
      PROVE  (IF j <= Len(d) THEN d[j] ELSE 0) \in Byte
  BY <1>1, ByteAssumption
<1>3. Padded(d) \in [1 .. RecordSize -> Byte]
  BY <1>2 DEF Padded
<1> HIDE DEF Padded
<1>4. Padded(d) \in Seq(Byte) /\ Len(Padded(d)) = RecordSize
  BY <1>1, <1>3
<1> QED
  BY <1>4 DEF Record

(* The host files after a flush are host files. *)
LEMMA FilesFlushed ==
  ASSUME NEW cont \in Files, NEW st \in Stream, NEW k \in FlushLengths(st)
  PROVE  [cont EXCEPT ![st.ino] = Flushed(@, st, k)] \in Files
<1>1. st.ino \in Inode => Flushed(cont[st.ino], st, k) \in Seq(Byte)
  BY FlushedType DEF Files
<1> QED
  BY <1>1 DEF Files

-----------------------------------------------------------------------------
(* The table. *)

(* An FCB's address is not the mark of a free slot. *)
LEMMA AddressNotFree == \A a \in FcbAddr : a # FREE
  BY FcbAddrAssumption DEF FREE

(* What a search that succeeds finds. *)
LEMMA FoundSlot ==
  ASSUME IInv, Running, NEW a \in FcbAddr, NEW s \in Slot, fcb_search(a, s)
  PROVE  /\ s \in Live
         /\ fcb_table[s].fp \in Handle
         /\ stream[fcb_table[s].fp] \in Stream
         /\ stream[fcb_table[s].fp].mode # "closed"
         /\ stream[fcb_table[s].fp].ino \in Inode
<1>1. a # FREE
  BY AddressNotFree
<1>2. s \in Live
  BY <1>1 DEF fcb_search, Live
<1> QED
  BY <1>2 DEF IInv, TableSound, SlotsOpen, TypeOK, StreamsHaveFiles

(* A call that leaves the table alone and its stream open. *)
LEMMA StreamStep ==
  ASSUME IInv, Running, NEW s \in Live, NEW new \in Stream,
         new.mode # "closed", new.ino \in Inode,
         stream' = [stream EXCEPT ![fcb_table[s].fp] = new],
         UNCHANGED fcb_table
  PROVE  stream' \in Streams /\ TablePart'
<1> DEFINE h == fcb_table[s].fp
<1>1. h \in Handle /\ stream \in Streams
  BY DEF IInv, TypeOK, TableSound, SlotsOpen, Streams
<1>2. /\ stream' \in Streams
      /\ stream'[h] = new
      /\ \A g \in Handle : g # h => stream'[g] = stream[g]
  BY <1>1 DEF Streams
<1>3. Live' = Live
  BY DEF Live
<1>4. SlotsDistinct' /\ SlotsOpen'
  BY <1>2, <1>3 DEF IInv, TableSound, SlotsDistinct, SlotsOpen
<1>5. NoStreamLeaks'
  BY <1>2, <1>3 DEF IInv, TableSound, NoStreamLeaks
<1>6. StreamsHaveFiles'
  BY <1>2 DEF IInv, StreamsHaveFiles
<1> QED
  BY <1>2, <1>4, <1>5, <1>6 DEF TablePart

(* A call that frees a slot and closes its stream. *)
LEMMA FreeStep ==
  ASSUME IInv, Running, NEW s \in Live,
         stream' = CloseStream(stream, fcb_table[s].fp),
         fcb_table' = TableWithout(s)
  PROVE  fcb_table' \in Table /\ stream' \in Streams /\ TablePart'
<1> DEFINE h == fcb_table[s].fp
<1>1. /\ h \in Handle /\ stream \in Streams /\ s \in Slot
      /\ fcb_table \in Table
  BY DEF IInv, TypeOK, TableSound, SlotsOpen, Streams, Table, Live
<1>2. /\ stream' \in Streams
      /\ stream'[h].mode = "closed"
      /\ \A g \in Handle : g # h => stream'[g] = stream[g]
  <2>1. ClosedStream \in Stream /\ ClosedStream.mode = "closed"
    BY SimpleStreamTypes DEF ClosedStream
  <2> QED
    BY <1>1, <2>1 DEF Streams, CloseStream
<1>3. /\ fcb_table' \in Table
      /\ fcb_table'[s].addr = FREE
      /\ \A t \in Slot : t # s => fcb_table'[t] = fcb_table[t]
  BY <1>1 DEF Table, TableWithout
<1>4. Live' = Live \ {s}
  BY <1>1, <1>3 DEF Live
<1>5. \A t \in Live \ {s} : t \in Slot /\ fcb_table'[t] = fcb_table[t]
                            /\ fcb_table[t].fp # h
  BY <1>1, <1>3 DEF IInv, TableSound, SlotsDistinct, Live
<1>6. SlotsDistinct' /\ SlotsOpen'
  BY <1>2, <1>4, <1>5 DEF IInv, TableSound, SlotsDistinct, SlotsOpen
<1>7. NoStreamLeaks'
  <2> SUFFICES ASSUME NEW g \in Handle, stream'[g].mode # "closed"
               PROVE  \E t \in Live' : fcb_table'[t].fp = g
    BY DEF NoStreamLeaks
  <2>1. g # h /\ stream[g].mode # "closed"
    BY <1>2
  <2>2. PICK t \in Live : fcb_table[t].fp = g
    BY <2>1 DEF IInv, TableSound, NoStreamLeaks
  <2> QED
    BY <1>4, <1>5, <2>1, <2>2
<1>8. StreamsHaveFiles'
  BY <1>1, <1>2 DEF IInv, StreamsHaveFiles
<1> QED
  BY <1>2, <1>3, <1>6, <1>7, <1>8 DEF TablePart

(* A stream h that was closed is put into a slot s that was free. *)
LEMMA TakeSlot ==
  ASSUME IInv, Running, NEW a \in FcbAddr, NotFound(a),
         NEW h \in ClosedHandles, NEW i \in Inode,
         NEW s \in Slot, fcb_search(FREE, s),
         stream' = [stream EXCEPT ![h] = Opened(i)],
         fcb_table' = [fcb_table EXCEPT ![s] = [addr |-> a, fp |-> h]]
  PROVE  fcb_table' \in Table /\ stream' \in Streams /\ TablePart'
<1>1. /\ h \in Handle /\ stream[h].mode = "closed"
      /\ stream \in Streams /\ fcb_table \in Table
      /\ fcb_table[s].addr = FREE /\ a # FREE
  BY AddressNotFree
     DEF IInv, TypeOK, Streams, Table, ClosedHandles, fcb_search
<1>2. /\ stream' \in Streams
      /\ stream'[h] = Opened(i)
      /\ \A g \in Handle : g # h => stream'[g] = stream[g]
  BY <1>1, SimpleStreamTypes DEF Streams
<1>3. Opened(i).mode = "idle" /\ Opened(i).ino = i
  BY DEF Opened
<1>4. /\ fcb_table' \in Table
      /\ fcb_table'[s].addr = a /\ fcb_table'[s].fp = h
      /\ \A t \in Slot : t # s => fcb_table'[t] = fcb_table[t]
  BY <1>1 DEF Table
<1>5. Live' = Live \cup {s} /\ s \notin Live
  BY <1>1, <1>4 DEF Live
<1>6. \A t \in Live : /\ t \in Slot /\ t # s /\ fcb_table'[t] = fcb_table[t]
                      /\ fcb_table[t].fp # h /\ fcb_table[t].addr # a
  BY <1>1, <1>4, <1>5 DEF IInv, TableSound, SlotsOpen, NotFound, Live
<1>7. SlotsDistinct' /\ SlotsOpen'
  BY <1>1, <1>2, <1>3, <1>4, <1>5, <1>6
     DEF IInv, TableSound, SlotsDistinct, SlotsOpen
<1>8. NoStreamLeaks'
  BY <1>2, <1>4, <1>5, <1>6 DEF IInv, TableSound, NoStreamLeaks
<1>9. StreamsHaveFiles'
  BY <1>1, <1>2, <1>3 DEF IInv, StreamsHaveFiles
<1> QED
  BY <1>2, <1>4, <1>7, <1>8, <1>9 DEF TablePart

(* The FCB had a slot: its stream is closed, and h takes the place.        *)
LEMMA ReuseSlot ==
  ASSUME IInv, Running, NEW a \in FcbAddr,
         NEW h \in ClosedHandles, NEW i \in Inode,
         NEW s \in Slot, fcb_search(a, s),
         stream' = CloseStream([stream EXCEPT ![h] = Opened(i)],
                               fcb_table[s].fp),
         fcb_table' = [fcb_table EXCEPT ![s] = [addr |-> a, fp |-> h]]
  PROVE  fcb_table' \in Table /\ stream' \in Streams /\ TablePart'
<1> DEFINE old == fcb_table[s].fp
<1>1. /\ h \in Handle /\ stream[h].mode = "closed"
      /\ stream \in Streams /\ fcb_table \in Table
      /\ fcb_table[s].addr = a /\ a # FREE
  BY AddressNotFree
     DEF IInv, TypeOK, Streams, Table, ClosedHandles, fcb_search
<1>2. s \in Live /\ old \in Handle /\ old # h
  BY <1>1, FoundSlot
<1>3. /\ stream' \in Streams
      /\ stream'[h] = Opened(i)
      /\ stream'[old].mode = "closed"
      /\ \A g \in Handle : g # h /\ g # old => stream'[g] = stream[g]
  <2>1. ClosedStream \in Stream /\ ClosedStream.mode = "closed"
    BY SimpleStreamTypes DEF ClosedStream
  <2> QED
    BY <1>1, <1>2, <2>1, SimpleStreamTypes DEF Streams, CloseStream
<1>4. Opened(i).mode = "idle" /\ Opened(i).ino = i
  BY DEF Opened
<1>5. /\ fcb_table' \in Table
      /\ fcb_table'[s].addr = a /\ fcb_table'[s].fp = h
      /\ \A t \in Slot : t # s => fcb_table'[t] = fcb_table[t]
  BY <1>1 DEF Table
<1>6. Live' = Live
  BY <1>1, <1>5 DEF Live
<1>7. \A t \in Live : t # s => /\ t \in Slot /\ fcb_table'[t] = fcb_table[t]
                               /\ fcb_table[t].fp \notin {h, old}
                               /\ fcb_table[t].fp \in Handle
                               /\ fcb_table[t].addr # a
  BY <1>1, <1>2, <1>5
     DEF IInv, TableSound, SlotsOpen, SlotsDistinct, Live
<1>8. SlotsDistinct' /\ SlotsOpen'
  <2>1. SlotsDistinct'
    <3> SUFFICES ASSUME NEW t \in Live, NEW u \in Live, t # u
                 PROVE  /\ fcb_table'[t].addr # fcb_table'[u].addr
                        /\ fcb_table'[t].fp # fcb_table'[u].fp
      BY <1>6 DEF SlotsDistinct
    <3>1. CASE t = s \/ u = s
      BY <1>5, <1>7, <3>1
    <3>2. CASE t # s /\ u # s
      BY <1>7, <3>2 DEF IInv, TableSound, SlotsDistinct
    <3> QED
      BY <3>1, <3>2
  <2>2. SlotsOpen'
    <3> SUFFICES ASSUME NEW t \in Live
                 PROVE  /\ fcb_table'[t].fp \in Handle
                        /\ stream'[fcb_table'[t].fp].mode # "closed"
      BY <1>6 DEF SlotsOpen
    <3>1. CASE t = s
      BY <1>1, <1>3, <1>4, <1>5, <3>1
    <3>2. CASE t # s
      <4>1. /\ fcb_table'[t] = fcb_table[t]
            /\ fcb_table[t].fp \in Handle
            /\ fcb_table[t].fp # h /\ fcb_table[t].fp # old
        BY <1>7, <3>2
      <4>2. stream'[fcb_table[t].fp] = stream[fcb_table[t].fp]
        BY <1>3, <4>1
      <4>3. stream[fcb_table[t].fp].mode # "closed"
        BY DEF IInv, TableSound, SlotsOpen
      <4> QED
        BY <4>1, <4>2, <4>3
    <3> QED
      BY <3>1, <3>2
  <2> QED
    BY <2>1, <2>2
<1>9. NoStreamLeaks'
  <2> SUFFICES ASSUME NEW g \in Handle, stream'[g].mode # "closed"
               PROVE  \E t \in Live' : fcb_table'[t].fp = g
    BY DEF NoStreamLeaks
  <2>1. g # old
    BY <1>3
  <2>2. CASE g = h
    BY <1>2, <1>5, <1>6, <2>2
  <2>3. CASE g # h
    <3>1. stream[g].mode # "closed"
      BY <1>3, <2>1, <2>3
    <3>2. PICK t \in Live : fcb_table[t].fp = g
      BY <3>1 DEF IInv, TableSound, NoStreamLeaks
    <3> QED
      BY <1>6, <1>7, <2>1, <3>2
  <2> QED
    BY <2>2, <2>3
<1>10. StreamsHaveFiles'
  BY <1>1, <1>2, <1>3, <1>4 DEF IInv, StreamsHaveFiles
<1> QED
  BY <1>3, <1>5, <1>8, <1>9, <1>10 DEF TablePart

(* All of fcb_alloc on a stream just opened on the file i. *)
LEMMA AllocStep ==
  ASSUME IInv, Running, NEW a \in FcbAddr, NEW h \in ClosedHandles,
         NEW i \in Inode, NEW cont \in Files,
         fcb_alloc(a, h, cont, [stream EXCEPT ![h] = Opened(i)])
  PROVE  /\ fcb_table' \in Table
         /\ stream' \in Streams
         /\ content' \in Files
         /\ reg_a' \in {0, 255}
         /\ TablePart'
<1> DEFINE strm == [stream EXCEPT ![h] = Opened(i)]
<1>1. /\ h \in Handle /\ stream[h].mode = "closed"
      /\ stream \in Streams /\ fcb_table \in Table
  BY DEF IInv, TypeOK, Streams, Table, ClosedHandles
<1>2. strm \in Streams
  BY <1>1, SimpleStreamTypes DEF Streams
<1>3. ASSUME NEW s \in Slot, fcb_search(a, s),
             NEW k \in FlushLengths(strm[fcb_table[s].fp]),
             content' = [cont EXCEPT ![strm[fcb_table[s].fp].ino] =
                           Flushed(@, strm[fcb_table[s].fp], k)],
             stream' = CloseStream(strm, fcb_table[s].fp),
             fcb_table' = [fcb_table EXCEPT ![s] = [addr |-> a, fp |-> h]],
             reg_a' = 0
      PROVE  /\ fcb_table' \in Table
             /\ stream' \in Streams
             /\ content' \in Files
             /\ TablePart'
  <2>1. fcb_table' \in Table /\ stream' \in Streams /\ TablePart'
    BY <1>3, ReuseSlot
  <2>2. fcb_table[s].fp \in Handle
    BY <1>3, FoundSlot
  <2>3. strm[fcb_table[s].fp] \in Stream
    BY <1>2, <2>2 DEF Streams
  <2> HIDE DEF strm
  <2>4. content' \in Files
    BY <1>3, <2>3, FilesFlushed
  <2> QED
    BY <2>1, <2>4
<1>4. ASSUME NotFound(a), NEW s \in Slot, fcb_search(FREE, s),
             fcb_table' = [fcb_table EXCEPT ![s] = [addr |-> a, fp |-> h]],
             stream' = strm
      PROVE  fcb_table' \in Table /\ stream' \in Streams /\ TablePart'
  BY <1>4, TakeSlot
<1>5. ASSUME stream' = CloseStream(strm, h), UNCHANGED fcb_table
      PROVE  fcb_table' \in Table /\ stream' \in Streams /\ TablePart'
  <2>1. ClosedStream \in Stream /\ ClosedStream.mode = "closed"
    BY SimpleStreamTypes DEF ClosedStream
  <2>2. /\ stream' \in Streams
        /\ stream'[h].mode = "closed"
        /\ \A g \in Handle : g # h => stream'[g] = stream[g]
    BY <1>1, <1>2, <1>5, <2>1 DEF Streams, CloseStream
  <2>3. Live' = Live
    BY <1>5 DEF Live
  <2>4. SlotsDistinct' /\ SlotsOpen'
    BY <1>1, <1>5, <2>2, <2>3 DEF IInv, TableSound, SlotsDistinct, SlotsOpen
  <2>5. NoStreamLeaks' /\ StreamsHaveFiles'
    BY <1>1, <1>5, <2>2, <2>3
       DEF IInv, TableSound, NoStreamLeaks, StreamsHaveFiles
  <2> QED
    BY <1>1, <1>5, <2>2, <2>4, <2>5 DEF TablePart
<1>6. \/ \E s \in Slot :
           /\ fcb_search(a, s)
           /\ \E k \in FlushLengths(strm[fcb_table[s].fp]) :
                /\ content' = [cont EXCEPT ![strm[fcb_table[s].fp].ino] =
                                 Flushed(@, strm[fcb_table[s].fp], k)]
                /\ stream' = CloseStream(strm, fcb_table[s].fp)
           /\ fcb_table' = [fcb_table EXCEPT ![s] = [addr |-> a, fp |-> h]]
           /\ reg_a' = 0
      \/ /\ NotFound(a) /\ content' = cont
         /\ \/ \E s \in Slot :
                 /\ fcb_search(FREE, s)
                 /\ fcb_table' = [fcb_table EXCEPT
                                    ![s] = [addr |-> a, fp |-> h]]
                 /\ stream' = strm
                 /\ reg_a' = 0
            \/ /\ stream' = CloseStream(strm, h)
               /\ reg_a' = 255
               /\ UNCHANGED fcb_table
  BY DEF fcb_alloc
<1> HIDE DEF strm
<1> QED
  BY <1>3, <1>4, <1>5, <1>6

-----------------------------------------------------------------------------
(* Reading. *)

(***************************************************************************)
(* A read on the stream of the slot s, whose value is st after the seek of *)
(* a random read, if any, keeps all but the record buffer's contents.      *)
(***************************************************************************)
LEMMA ReadStep ==
  ASSUME IInv, Running, NEW s \in Live, NEW st \in Stream,
         st.mode # "closed", st.ino \in Inode, NEW cont \in Files,
         NEW back \in Nat \cup {NoSeek},
         bdos_read_next_record(fcb_table[s].fp, st, cont, back),
         UNCHANGED fcb_table
  PROVE  /\ stream' \in Streams
         /\ content' \in Files
         /\ reg_a' \in {0, 1}
         /\ dma_buf' \in [DmaAddr -> Record]
         /\ TablePart'
<1> DEFINE h == fcb_table[s].fp
           Goal == /\ stream' \in Streams
                   /\ content' \in Files
                   /\ reg_a' \in {0, 1}
                   /\ dma_buf' \in [DmaAddr -> Record]
                   /\ TablePart'
<1>1. /\ dma_buf \in [DmaAddr -> Record] /\ dma_address \in DmaAddr
      /\ stream \in Streams
  BY DEF IInv, TypeOK, Streams
<1>2. ASSUME NEW st2 \in Stream, st2.mode # "closed", st2.ino \in Inode,
             NEW cont2 \in Files, Deliver(h, st2, cont2, back)
      PROVE  Goal
  <2>1. PICK end \in BufferEnds(cont2[st2.ino], st2) :
          stream' = [stream EXCEPT
             ![h] = SeekBack(AfterRead(cont2[st2.ino], st2, end), back)]
    BY <1>2 DEF Deliver
  <2> DEFINE read == AfterRead(cont2[st2.ino], st2, end)
             new == SeekBack(read, back)
  <2>2. cont2[st2.ino] \in Seq(Byte)
    BY <1>2 DEF Files
  <2>3. read \in Stream /\ read.ino = st2.ino /\ read.mode # "closed"
    BY <2>2, AfterReadType
  <2>4. new \in Stream /\ new.mode # "closed" /\ new.ino \in Inode
    <3> HIDE DEF read
    <3>1. CASE back = NoSeek
      BY <1>2, <2>3, <3>1 DEF SeekBack
    <3>2. CASE back # NoSeek
      BY <1>2, <2>3, <3>2, SimpleStreamTypes DEF SeekBack
    <3> QED
      BY <3>1, <3>2
  <2>5. stream' \in Streams /\ TablePart'
    <3> HIDE DEF new
    <3> QED
      BY <2>1, <2>4, StreamStep DEF new
  <2>6. content' = cont2
    BY <1>2 DEF Deliver
  <2>7. Padded(ReadBytes(cont2[st2.ino], st2)) \in Record
    BY <2>2, ReadType, PaddedType
  <2>8. reg_a' \in {0, 1} /\ dma_buf' \in [DmaAddr -> Record]
    BY <1>1, <1>2, <2>7 DEF Deliver
  <2> QED
    BY <2>5, <2>6, <2>8
<1>3. ASSUME NEW k \in FlushLengths(st),
             ~FlushOK(st, k),
             reg_a' = 1,
             content' = [cont EXCEPT ![st.ino] = Flushed(@, st, k)],
             stream' = [stream EXCEPT ![h] = Seeked(st, st.off + k)],
             UNCHANGED dma_buf
      PROVE  Goal
  <2>1. st.off + k \in Nat
    <3>1. cont[st.ino] \in Seq(Byte)
      BY DEF Files
    <3>2. k \in 0 .. Len(Pending(st)) /\ Pending(st) \in Seq(Byte)
      BY <3>1, FlushedType, EffectiveType
    <3> QED
      BY <3>2 DEF Stream
  <2>2. /\ Seeked(st, st.off + k) \in Stream
        /\ Seeked(st, st.off + k).mode # "closed"
        /\ Seeked(st, st.off + k).ino \in Inode
    BY <2>1, SimpleStreamTypes
  <2>3. stream' \in Streams /\ TablePart'
    BY <1>3, <2>2, StreamStep
  <2>4. content' \in Files
    BY <1>3, FilesFlushed
  <2> QED
    BY <1>1, <1>3, <2>3, <2>4
<1>4. ASSUME NEW k \in FlushLengths(st), FlushOK(st, k),
             Deliver(h, Seeked(st, st.off + k),
                     [cont EXCEPT ![st.ino] = Flushed(@, st, k)], back)
      PROVE  Goal
  <2>1. st.off + k \in Nat
    <3>1. cont[st.ino] \in Seq(Byte)
      BY DEF Files
    <3>2. k \in 0 .. Len(Pending(st)) /\ Pending(st) \in Seq(Byte)
      BY <3>1, FlushedType, EffectiveType
    <3> QED
      BY <3>2 DEF Stream
  <2>2. /\ Seeked(st, st.off + k) \in Stream
        /\ Seeked(st, st.off + k).mode # "closed"
        /\ Seeked(st, st.off + k).ino \in Inode
    BY <2>1, SimpleStreamTypes
  <2>3. [cont EXCEPT ![st.ino] = Flushed(@, st, k)] \in Files
    BY FilesFlushed
  <2> HIDE DEF Goal
  <2> QED
    BY <1>2, <1>4, <2>2, <2>3
<1>5. ASSUME reg_a' = 1, content' = cont, UNCHANGED <<dma_buf, stream>>
      PROVE  Goal
  <2>1. stream' = [stream EXCEPT ![h] = stream[h]]
    BY <1>1, <1>5 DEF Streams
  <2>2. /\ h \in Handle /\ stream[h] \in Stream
        /\ stream[h].mode # "closed" /\ stream[h].ino \in Inode
    BY <1>1 DEF IInv, TableSound, SlotsOpen, StreamsHaveFiles, Streams
  <2>3. stream' \in Streams /\ TablePart'
    BY <2>1, <2>2, StreamStep
  <2> QED
    BY <1>1, <1>5, <2>3
<1>6. Goal
  <2>1. \/ Deliver(h, st, cont, back)
        \/ \E k \in FlushLengths(st) :
             \/ /\ FlushOK(st, k)
                /\ Deliver(h, Seeked(st, st.off + k),
                           [cont EXCEPT ![st.ino] = Flushed(@, st, k)], back)
             \/ /\ ~FlushOK(st, k)
                /\ reg_a' = 1
                /\ content' = [cont EXCEPT ![st.ino] = Flushed(@, st, k)]
                /\ stream' = [stream EXCEPT ![h] = Seeked(st, st.off + k)]
                /\ UNCHANGED dma_buf
        \/ reg_a' = 1 /\ content' = cont /\ UNCHANGED <<dma_buf, stream>>
    BY DEF bdos_read_next_record
  <2> HIDE DEF Goal
  <2> QED
    BY <2>1, <1>2, <1>3, <1>4, <1>5
<1> QED
  BY <1>6

-----------------------------------------------------------------------------
(* The invariant. *)

(* The initial state is sound: no slot is live and no stream is open. *)
LEMMA InitSound == Init => IInv
<1> SUFFICES ASSUME Init PROVE IInv
  OBVIOUS
<1> USE DEF Init
<1>1. fcb_table \in Table /\ Live = {}
  BY DEF Table, Live
<1>2. stream \in Streams /\ \A h \in Handle : stream[h].mode = "closed"
  BY SimpleStreamTypes DEF Streams, ClosedStream
<1>3. dma_address \in DmaAddr /\ dma_buf \in [DmaAddr -> Record]
  <2>1. <<>> \in Seq(Byte) /\ Padded(<<>>) = [j \in 1 .. RecordSize |-> 0]
    BY RecordSizeAssumption DEF Padded
  <2>2. [j \in 1 .. RecordSize |-> 0] \in Record
    BY <2>1, PaddedType
  <2> QED
    BY <2>2, DmaAssumption
<1>4. content \in Files
  <2> DEFINE first(i) == CHOOSE f \in HostFile : dir[f] = i
             bytes(i) == IF \E f \in HostFile : dir[f] = i
                         THEN InitialFile[first(i)] ELSE <<>>
  <2>1. ASSUME NEW i \in Inode
        PROVE  bytes(i) \in Seq(Byte)
    <3>1. CASE \E f \in HostFile : dir[f] = i
      <4>1. first(i) \in HostFile /\ dir[first(i)] = i
        BY <3>1
      <4>2. first(i) \in DOMAIN InitialFile
        BY <4>1, NoInodeAssumption
      <4> HIDE DEF first
      <4> QED
        BY <3>1, <4>2, InitialFileAssumption
    <3>2. CASE ~\E f \in HostFile : dir[f] = i
      BY <3>2
    <3> QED
      BY <3>1, <3>2
  <2>2. content = [i \in Inode |-> bytes(i)]
    OBVIOUS
  <2> HIDE DEF bytes
  <2> QED
    BY <2>1, <2>2 DEF Files
<1>5. TypeOK
  BY <1>1, <1>2, <1>3, <1>4 DEF TypeOK, Table, Streams, Files
<1>6. StreamsHaveFiles /\ TableSound
  BY <1>1, <1>2
     DEF StreamsHaveFiles, TableSound, SlotsDistinct, SlotsOpen, NoStreamLeaks
<1> QED
  BY <1>5, <1>6 DEF IInv

(* The parts of the invariant that the lemmas above establish. *)
LEMMA Assemble ==
  ASSUME fcb_table' \in Table, stream' \in Streams, content' \in Files,
         TablePart', dma_address' \in DmaAddr,
         dma_buf' \in [DmaAddr -> Record],
         reg_a' \in {0, 1, 2, 6, 9, 255},
         status' \in {"running", "exiting", "exited", "killed"},
         dir' \in [HostFile -> Inode \cup {NoInode}]
  PROVE  IInv'
  BY DEF IInv, TypeOK, TableSound, TablePart, Table, Streams, Files

(* A step that leaves the table and the streams alone. *)
LEMMA Untouched ==
  ASSUME IInv, Running, UNCHANGED <<fcb_table, stream>>
  PROVE  fcb_table' \in Table /\ stream' \in Streams /\ TablePart'
  BY DEF IInv, TypeOK, TableSound, TablePart, Table, Streams, Live,
         SlotsDistinct, SlotsOpen, NoStreamLeaks, StreamsHaveFiles

(* What TypeOK says, in the names used here. *)
LEMMA Types ==
  ASSUME IInv
  PROVE  /\ fcb_table \in Table /\ stream \in Streams /\ content \in Files
         /\ dma_address \in DmaAddr /\ dma_buf \in [DmaAddr -> Record]
         /\ reg_a \in {0, 1, 2, 6, 9, 255}
         /\ status \in {"running", "exiting", "exited", "killed"}
         /\ dir \in [HostFile -> Inode \cup {NoInode}]
  BY DEF IInv, TypeOK, Table, Streams, Files

(* Function 15 keeps the invariant. *)
LEMMA OpenFileSound ==
  ASSUME IInv, NEW a \in FcbAddr, NEW n \in FcbName, OpenFile(a, n)
  PROVE  IInv'
<1> DEFINE f == HostName[n]
<1>1. /\ Running /\ f \in HostFile
      /\ UNCHANGED <<dma_address, dma_buf, dir, status>>
  BY NamesAssumption DEF OpenFile
<1>2. CASE reg_a' = 255 /\ UNCHANGED <<fcb_table, content, stream>>
  BY <1>1, <1>2, Untouched, Types, Assemble
<1>3. ASSUME dir[f] # NoInode, NEW h \in ClosedHandles,
             fcb_alloc(a, h, content, [stream EXCEPT ![h] = Opened(dir[f])])
      PROVE  IInv'
  <2>1. dir[f] \in Inode
    BY <1>1, <1>3, Types
  <2>2. content \in Files
    BY Types
  <2>3. /\ fcb_table' \in Table /\ stream' \in Streams /\ content' \in Files
        /\ reg_a' \in {0, 255} /\ TablePart'
    BY <1>1, <1>3, <2>1, <2>2, AllocStep
  <2> QED
    BY <1>1, <2>3, Types, Assemble
<1> QED
  BY <1>2, <1>3 DEF OpenFile

(* Function 22 keeps the invariant. *)
LEMMA CreateFileSound ==
  ASSUME IInv, NEW a \in FcbAddr, NEW n \in FcbName, CreateFile(a, n)
  PROVE  IInv'
<1> DEFINE f == HostName[n]
<1>1. /\ Running /\ f \in HostFile
      /\ UNCHANGED <<dma_address, dma_buf>>
  BY NamesAssumption DEF CreateFile
<1>2. CASE reg_a' = 255 /\ UNCHANGED <<fcb_table, status, hostVars>>
  BY <1>1, <1>2, Untouched, Types, Assemble DEF hostVars
<1>3. CASE status' = "exiting" /\ UNCHANGED <<fcb_table, reg_a, hostVars>>
  BY <1>1, <1>3, Untouched, Types, Assemble DEF hostVars
<1>4. ASSUME NEW h \in ClosedHandles, NEW i \in Inode \ InodesInUse,
             dir' = [dir EXCEPT ![f] = i],
             fcb_alloc(a, h, [content EXCEPT ![i] = <<>>],
                       [stream EXCEPT ![h] = Opened(i)]),
             UNCHANGED status
      PROVE  IInv'
  <2>1. [content EXCEPT ![i] = <<>>] \in Files
    <3>1. <<>> \in Seq(Byte)
      OBVIOUS
    <3> QED
      BY <3>1, Types DEF Files
  <2>2. /\ fcb_table' \in Table /\ stream' \in Streams /\ content' \in Files
        /\ reg_a' \in {0, 255} /\ TablePart'
    BY <1>1, <1>4, <2>1, AllocStep
  <2>3. dir' \in [HostFile -> Inode \cup {NoInode}]
    BY <1>1, <1>4, Types
  <2> QED
    BY <1>1, <1>4, <2>2, <2>3, Types, Assemble
<1> QED
  BY <1>2, <1>3, <1>4 DEF CreateFile, ExistedBefore

(* Function 16 keeps the invariant. *)
LEMMA CloseFileSound ==
  ASSUME IInv, NEW a \in FcbAddr, CloseFile(a)
  PROVE  IInv'
<1>1. Running /\ reg_a' = 0 /\ UNCHANGED <<dma_address, dma_buf, dir, status>>
  BY DEF CloseFile
<1>2. CASE UNCHANGED <<fcb_table, content, stream>>
  BY <1>1, <1>2, Untouched, Types, Assemble
<1>3. ASSUME NEW s \in Slot, fcb_search(a, s),
             NEW k \in FlushLengths(stream[fcb_table[s].fp]),
             content' = [content EXCEPT ![stream[fcb_table[s].fp].ino] =
                           Flushed(@, stream[fcb_table[s].fp], k)],
             stream' = CloseStream(stream, fcb_table[s].fp),
             fcb_table' = TableWithout(s)
      PROVE  IInv'
  <2>1. s \in Live /\ stream[fcb_table[s].fp] \in Stream
    BY <1>1, <1>3, FoundSlot
  <2>2. fcb_table' \in Table /\ stream' \in Streams /\ TablePart'
    BY <1>1, <1>3, <2>1, FreeStep
  <2>3. content' \in Files
    <3>1. content \in Files
      BY Types
    <3> QED
      BY <1>3, <2>1, <3>1, FilesFlushed
  <2> QED
    BY <1>1, <2>2, <2>3, Types, Assemble
<1> QED
  BY <1>2, <1>3 DEF CloseFile

(* Function 19 keeps the invariant. *)
LEMMA DeleteFileSound ==
  ASSUME IInv, NEW a \in FcbAddr, NEW n \in FcbName, DeleteFile(a, n)
  PROVE  IInv'
<1> DEFINE f == HostName[n]
<1>1. Running /\ UNCHANGED <<dma_address, dma_buf, status>>
  BY DEF DeleteFile
<1>2. /\ dir' \in [HostFile -> Inode \cup {NoInode}]
      /\ reg_a' \in {0, 255}
  BY Types DEF DeleteFile
<1>3. CASE UNCHANGED <<fcb_table, content, stream>>
  BY <1>1, <1>2, <1>3, Untouched, Types, Assemble
<1>4. ASSUME NEW s \in Slot, fcb_search(a, s),
             NEW k \in FlushLengths(stream[fcb_table[s].fp]),
             content' = [content EXCEPT ![stream[fcb_table[s].fp].ino] =
                           Flushed(@, stream[fcb_table[s].fp], k)],
             stream' = CloseStream(stream, fcb_table[s].fp),
             fcb_table' = TableWithout(s)
      PROVE  IInv'
  <2>1. s \in Live /\ stream[fcb_table[s].fp] \in Stream
    BY <1>1, <1>4, FoundSlot
  <2>2. fcb_table' \in Table /\ stream' \in Streams /\ TablePart'
    BY <1>1, <1>4, <2>1, FreeStep
  <2>3. content' \in Files
    <3>1. content \in Files
      BY Types
    <3> QED
      BY <1>4, <2>1, <3>1, FilesFlushed
  <2> QED
    BY <1>1, <1>2, <2>2, <2>3, Types, Assemble
<1> QED
  BY <1>3, <1>4 DEF DeleteFile

(* Function 20 keeps the invariant. *)
LEMMA ReadNextSound ==
  ASSUME IInv, NEW a \in FcbAddr, ReadNext(a)
  PROVE  IInv'
<1>1. Running /\ UNCHANGED <<fcb_table, dma_address, dir, status>>
  BY DEF ReadNext
<1>2. CASE reg_a' = 9 /\ UNCHANGED <<dma_buf, content, stream>>
  BY <1>1, <1>2, Untouched, Types, Assemble
<1>3. ASSUME NEW s \in Slot, fcb_search(a, s),
             bdos_read_next_record(fcb_table[s].fp, stream[fcb_table[s].fp],
                                   content, NoSeek)
      PROVE  IInv'
  <2>1. /\ s \in Live /\ stream[fcb_table[s].fp] \in Stream
        /\ stream[fcb_table[s].fp].mode # "closed"
        /\ stream[fcb_table[s].fp].ino \in Inode
    BY <1>1, <1>3, FoundSlot
  <2>2. /\ stream' \in Streams /\ content' \in Files /\ reg_a' \in {0, 1}
        /\ dma_buf' \in [DmaAddr -> Record] /\ TablePart'
    <3>1. content \in Files /\ NoSeek \in Nat \cup {NoSeek}
      BY Types
    <3> QED
      BY <1>1, <1>3, <2>1, <3>1, ReadStep
  <2> QED
    BY <1>1, <2>2, Types, Assemble
<1> QED
  BY <1>2, <1>3 DEF ReadNext

(* Function 33 keeps the invariant. *)
LEMMA ReadRandomSound ==
  ASSUME IInv, NEW a \in FcbAddr, NEW r \in RandomRecord, ReadRandom(a, r)
  PROVE  IInv'
<1> DEFINE offs == RecordOffset(r)
<1>1. Running /\ UNCHANGED <<fcb_table, dma_address, dir, status>>
  BY DEF ReadRandom
<1>2. offs \in Nat
  <2>1. r \in Nat /\ RecordSize \in Nat
    BY BoundsAssumption, RecordSizeAssumption
  <2> QED
    BY <2>1 DEF RecordOffset
<1>3. CASE reg_a' = 9 /\ UNCHANGED <<dma_buf, content, stream>>
  BY <1>1, <1>3, Untouched, Types, Assemble
<1>4. ASSUME NEW s \in Slot, fcb_search(a, s),
             NEW st, st = stream[fcb_table[s].fp],
             NEW k \in FlushLengths(st),
             NEW cont, cont = [content EXCEPT ![st.ino] = Flushed(@, st, k)],
             \/ bdos_read_next_record(fcb_table[s].fp, Seeked(st, offs), cont,
                                      offs)
             \/ /\ reg_a' = 6
                /\ content' = cont
                /\ stream' = [stream EXCEPT
                     ![fcb_table[s].fp] = Seeked(st, st.off + k)]
                /\ UNCHANGED dma_buf
      PROVE  IInv'
  <2>1. /\ s \in Live /\ st \in Stream /\ cont \in Files
        /\ Seeked(st, offs) \in Stream /\ Seeked(st, st.off + k) \in Stream
        /\ Seeked(st, offs).ino \in Inode
        /\ Seeked(st, st.off + k).ino \in Inode
        /\ Seeked(st, offs).mode # "closed"
        /\ Seeked(st, st.off + k).mode # "closed"
    <3>1. s \in Live /\ st \in Stream /\ st.ino \in Inode
      BY <1>1, <1>4, FoundSlot
    <3>2. content \in Files
      BY Types
    <3>3. cont \in Files
      BY <1>4, <3>1, <3>2, FilesFlushed
    <3>4. content[st.ino] \in Seq(Byte)
      BY <3>1, <3>2 DEF Files
    <3>5. k \in 0 .. Len(Pending(st)) /\ Pending(st) \in Seq(Byte)
      BY <3>1, <3>4, FlushedType, EffectiveType
    <3>6. st.off + k \in Nat
      BY <3>1, <3>5 DEF Stream
    <3> HIDE DEF offs
    <3> QED
      BY <1>2, <3>1, <3>3, <3>6, SimpleStreamTypes
  <2>2. /\ stream' \in Streams /\ content' \in Files /\ reg_a' \in {0, 1, 6}
        /\ dma_buf' \in [DmaAddr -> Record] /\ TablePart'
    <3>1. CASE bdos_read_next_record(fcb_table[s].fp, Seeked(st, offs), cont,
                                     offs)
      <4> HIDE DEF offs
      <4> QED
        BY <1>1, <1>2, <2>1, <3>1, ReadStep
    <3>2. CASE /\ reg_a' = 6
               /\ content' = cont
               /\ stream' = [stream EXCEPT
                    ![fcb_table[s].fp] = Seeked(st, st.off + k)]
               /\ UNCHANGED dma_buf
      <4>1. stream' \in Streams /\ TablePart'
        BY <1>1, <2>1, <3>2, StreamStep
      <4> QED
        BY <1>1, <2>1, <3>2, <4>1, Types
    <3> QED
      BY <1>4, <3>1, <3>2
  <2> QED
    BY <1>1, <2>2, Types, Assemble
<1>5. \/ reg_a' = 9 /\ UNCHANGED <<dma_buf, content, stream>>
      \/ \E s \in Slot :
           /\ fcb_search(a, s)
           /\ \E k \in FlushLengths(stream[fcb_table[s].fp]) :
                LET st == stream[fcb_table[s].fp]
                    cont == [content EXCEPT ![st.ino] = Flushed(@, st, k)]
                IN  \/ bdos_read_next_record(fcb_table[s].fp, Seeked(st, offs),
                                             cont, offs)
                    \/ /\ reg_a' = 6
                       /\ content' = cont
                       /\ stream' = [stream EXCEPT
                            ![fcb_table[s].fp] = Seeked(st, st.off + k)]
                       /\ UNCHANGED dma_buf
  BY DEF ReadRandom
<1> HIDE DEF offs
<1> QED
  BY <1>3, <1>4, <1>5

(* Function 21 keeps the invariant. *)
LEMMA WriteNextSound ==
  ASSUME IInv, NEW a \in FcbAddr, WriteNext(a)
  PROVE  IInv'
<1> DEFINE data == dma_buf[dma_address]
<1>1. Running /\ UNCHANGED <<fcb_table, dma_address, dma_buf, dir, status>>
  BY DEF WriteNext
<1>2. data \in Seq(Byte)
  BY Types DEF Record
<1>3. CASE reg_a' = 9 /\ UNCHANGED <<content, stream>>
  BY <1>1, <1>3, Untouched, Types, Assemble
<1>4. CASE reg_a' = 2 /\ UNCHANGED <<content, stream>>
  BY <1>1, <1>4, Untouched, Types, Assemble
<1>5. ASSUME NEW s \in Slot, fcb_search(a, s),
             NEW st, st = stream[fcb_table[s].fp],
             \/ /\ stream' = [stream EXCEPT
                     ![fcb_table[s].fp] = AfterWrite(st, data)]
                /\ reg_a' = 0
                /\ UNCHANGED content
             \/ \E k \in FlushLengths(AfterWrite(st, data)) :
                  /\ stream' = [stream EXCEPT
                       ![fcb_table[s].fp] = Drained(AfterWrite(st, data), k)]
                  /\ content' = [content EXCEPT ![st.ino] =
                                   Flushed(@, AfterWrite(st, data), k)]
                  /\ reg_a' = IF FlushOK(AfterWrite(st, data), k)
                              THEN 0 ELSE 2
             \/ /\ RoomInReadBuffer(st, data)
                /\ stream' = [stream EXCEPT
                     ![fcb_table[s].fp] = AfterDroppedWrite(st, data)]
                /\ reg_a' = 0
                /\ UNCHANGED content
      PROVE  IInv'
  <2> DEFINE new == AfterWrite(st, data)
  <2>1. s \in Live /\ st \in Stream /\ st.mode # "closed" /\ st.ino \in Inode
    BY <1>1, <1>5, FoundSlot
  <2>2. new \in Stream /\ new.ino = st.ino /\ new.mode = "write"
    BY <1>2, <2>1, AfterWriteType
  <2>3. content \in Files
    BY Types
  <2>4. CASE /\ stream' = [stream EXCEPT ![fcb_table[s].fp] = new]
             /\ reg_a' = 0
             /\ UNCHANGED content
    <3>1. stream' \in Streams /\ TablePart'
      <4> HIDE DEF new
      <4> QED
        BY <1>1, <2>1, <2>2, <2>4, StreamStep
    <3> QED
      BY <1>1, <2>4, <3>1, Types, Assemble
  <2>5. ASSUME NEW k \in FlushLengths(new),
               stream' = [stream EXCEPT ![fcb_table[s].fp] = Drained(new, k)],
               content' = [content EXCEPT ![st.ino] = Flushed(@, new, k)],
               reg_a' = IF FlushOK(new, k) THEN 0 ELSE 2
        PROVE  IInv'
    <3> HIDE DEF new
    <3>1. content' \in Files
      BY <2>2, <2>3, <2>5, FilesFlushed
    <3>2. k \in Nat
      <4>1. content[new.ino] \in Seq(Byte)
        BY <2>1, <2>2, <2>3 DEF Files
      <4> QED
        BY <2>2, <2>5, <4>1, FlushedType, EffectiveType
    <3>3. /\ Drained(new, k) \in Stream
          /\ Drained(new, k).mode # "closed"
          /\ Drained(new, k).ino \in Inode
      BY <2>1, <2>2, <3>2, DrainedType
    <3>4. stream' \in Streams /\ TablePart'
      BY <1>1, <2>1, <2>5, <3>3, StreamStep
    <3>5. reg_a' \in {0, 1, 2, 6, 9, 255}
      BY <2>5
    <3> QED
      BY <1>1, <3>1, <3>4, <3>5, Types, Assemble
  <2>6. CASE /\ RoomInReadBuffer(st, data)
             /\ stream' = [stream EXCEPT
                  ![fcb_table[s].fp] = AfterDroppedWrite(st, data)]
             /\ reg_a' = 0
             /\ UNCHANGED content
    <3>1. /\ AfterDroppedWrite(st, data) \in Stream
          /\ AfterDroppedWrite(st, data).mode # "closed"
          /\ AfterDroppedWrite(st, data).ino \in Inode
      BY <1>2, <2>1, <2>6, AfterWriteType
    <3>2. stream' \in Streams /\ TablePart'
      BY <1>1, <2>1, <2>6, <3>1, StreamStep
    <3> QED
      BY <1>1, <2>6, <3>2, Types, Assemble
  <2> QED
    BY <1>5, <2>4, <2>5, <2>6
<1> QED
  BY <1>3, <1>4, <1>5 DEF WriteNext

(* The guest's own steps, and the end of the process. *)
LEMMA RestSound ==
  ASSUME IInv, Guest \/ (\E d \in DmaAddr : SetDma(d)) \/ Ending \/ Kill
  PROVE  IInv'
<1>1. ASSUME NEW d \in DmaAddr, SetDma(d) PROVE IInv'
  BY <1>1, Untouched, Types, Assemble DEF SetDma, hostVars
<1>2. ASSUME NEW d \in DmaAddr, NEW r \in GuestRecord, GuestFill(d, r)
      PROVE  IInv'
  <2>1. dma_buf' \in [DmaAddr -> Record]
    BY <1>2, Types, GuestRecordAssumption DEF GuestFill
  <2> QED
    BY <1>2, <2>1, Untouched, Types, Assemble DEF GuestFill, hostVars
<1>3. CASE Exit
  BY <1>3, Untouched, Types, Assemble DEF Exit, emuVars, hostVars
<1>4. ASSUME NEW h \in Handle, ExitClosesStream(h) PROVE IInv'
  <2>1. stream[h] \in Stream /\ content \in Files
    BY Types DEF Streams
  <2>2. content' \in Files
    BY <1>4, <2>1, FilesFlushed DEF ExitClosesStream
  <2>3. /\ stream' \in Streams
        /\ \A g \in Handle : stream'[g].mode # "closed" => stream'[g] = stream[g]
    <3>1. ClosedStream \in Stream /\ ClosedStream.mode = "closed"
      BY SimpleStreamTypes DEF ClosedStream
    <3> QED
      BY <1>4, <3>1, Types DEF ExitClosesStream, CloseStream, Streams
  <2>4. status' = "exiting" /\ UNCHANGED <<emuVars, dir>>
    BY <1>4 DEF ExitClosesStream
  <2>5. StreamsHaveFiles'
    BY <2>3 DEF IInv, StreamsHaveFiles
  <2>6. TypeOK'
    BY <2>2, <2>3, <2>4, Types DEF TypeOK, Files, Streams, Table, emuVars
  <2>7. TableSound'
    BY <2>4 DEF TableSound, Running
  <2> QED
    BY <2>5, <2>6, <2>7 DEF IInv
<1>5. CASE ExitEnds
  <2>1. TypeOK'
    BY <1>5 DEF ExitEnds, IInv, TypeOK, emuVars, hostVars
  <2>2. StreamsHaveFiles' /\ TableSound'
    BY <1>5 DEF ExitEnds, IInv, StreamsHaveFiles, TableSound, Running, hostVars
  <2> QED
    BY <2>1, <2>2 DEF IInv
<1>6. CASE Kill
  <2>1. stream' \in Streams /\ \A g \in Handle : stream'[g].mode = "closed"
    BY <1>6, SimpleStreamTypes DEF Kill, Streams, ClosedStream
  <2>2. status' = "killed" /\ UNCHANGED <<emuVars, dir, content>>
    BY <1>6 DEF Kill
  <2>3. TypeOK'
    BY <2>1, <2>2, Types DEF TypeOK, Files, Streams, Table, emuVars
  <2>4. StreamsHaveFiles' /\ TableSound'
    BY <2>1, <2>2 DEF StreamsHaveFiles, TableSound, Running
  <2> QED
    BY <2>3, <2>4 DEF IInv
<1> QED
  BY <1>1, <1>2, <1>3, <1>4, <1>5, <1>6 DEF Guest, Ending

(* Every step keeps the invariant. *)
LEMMA StepSound == IInv /\ [Next]_vars => IInv'
<1> SUFFICES ASSUME IInv, [Next]_vars PROVE IInv'
  OBVIOUS
<1>1. CASE BdosCall
  BY <1>1, OpenFileSound, CreateFileSound, DeleteFileSound, CloseFileSound,
     ReadNextSound, WriteNextSound, ReadRandomSound, RestSound DEF BdosCall
<1>2. CASE Guest \/ Ending \/ Kill
  BY <1>2, RestSound
<1>3. CASE UNCHANGED vars
  <2>1. /\ UNCHANGED <<fcb_table, dma_address, dma_buf, reg_a, status>>
        /\ UNCHANGED <<dir, content, stream>>
    BY <1>3 DEF vars
  <2>2. TypeOK'
    BY <2>1 DEF IInv, TypeOK
  <2>3. StreamsHaveFiles' /\ TableSound'
    BY <2>1 DEF IInv, StreamsHaveFiles, TableSound, Running, SlotsDistinct,
                SlotsOpen, NoStreamLeaks, Live
  <2> QED
    BY <2>2, <2>3 DEF IInv
<1> QED
  BY <1>1, <1>2, <1>3 DEF Next

(* The strengthened invariant holds in every reachable state.              *)
THEOREM Invariance == Spec => []IInv
<1>1. Init => IInv
  BY InitSound
<1>2. IInv /\ [Next]_vars => IInv'
  BY StepSound
<1> QED
  BY <1>1, <1>2, PTL DEF Spec

(* Every variable keeps its type, whatever the guest calls and the host    *)
(* does.                                                                   *)
THEOREM TypeCorrect == Spec => []TypeOK
<1>1. IInv => TypeOK
  BY DEF IInv
<1> QED
  BY <1>1, Invariance, PTL

(* As long as the emulator runs, fcb_alloc and fcb_free keep one open      *)
(* stream per FCB and none besides: nothing leaks and nothing is closed    *)
(* twice, for any table size and any number of host streams.               *)
THEOREM TableStaysSound == Spec => []TableSound
<1>1. IInv => TableSound
  BY DEF IInv
<1> QED
  BY <1>1, Invariance, PTL

-----------------------------------------------------------------------------
(* What a call does to one stream st and its file, whose bytes are c: the  *)
(* pending bytes are flushed and a position is sought, ...                 *)
Flushes(c, st, c2, st2) ==
  \E k \in FlushLengths(st) :
    /\ c2 = Flushed(c, st, k)
    /\ \/ st2 = Seeked(st, st.off + k)
       \/ \E r \in RandomRecord : st2 = Seeked(st, RecordOffset(r))

(* ... a record is read and a position sought again, ...                   *)
Reads(c, st, st2) ==
  /\ st.mode # "write"
  /\ \E end \in BufferEnds(c, st) :
       \/ st2 = AfterRead(c, st, end)
       \/ \E r \in RandomRecord : st2 = Seeked(AfterRead(c, st, end), RecordOffset(r))

(* ... a record is written, or dropped, ...                                *)
Writes(c, st, c2, st2) ==
  \E d \in Record :
    \/ st2 = AfterWrite(st, d) /\ c2 = c
    \/ \E k \in FlushLengths(AfterWrite(st, d)) :
         /\ c2 = Flushed(c, AfterWrite(st, d), k)
         /\ st2 = Drained(AfterWrite(st, d), k)
    \/ /\ "dropped" \in SwitchOutcomes /\ st.mode = "read"
       /\ RoomInReadBuffer(st, d)
       /\ st2 = AfterDroppedWrite(st, d) /\ c2 = c

(* ... or the stream is closed.                                            *)
Closes(c, st, c2, st2) ==
  st2 = ClosedStream /\ \E k \in FlushLengths(st) : c2 = Flushed(c, st, k)

Moved(c, st, c2, st2) ==
  \/ c2 = c /\ st2 = st
  \/ c2 = c /\ Reads(c, st, st2)
  \/ Flushes(c, st, c2, st2)
  \/ \E st1 \in Stream : Flushes(c, st, c2, st1) /\ Reads(c2, st1, st2)
  \/ Writes(c, st, c2, st2)
  \/ Closes(c, st, c2, st2)

(* A step on the stream h alone.                                           *)
OneStream(h) ==
  /\ stream[h].mode # "closed"
  /\ \A i \in Inode : i # stream[h].ino => content'[i] = content[i]
  /\ \A g \in Handle : g # h => stream'[g] = stream[g]
  /\ Moved(content[stream[h].ino], stream[h], content'[stream[h].ino], stream'[h])

(***************************************************************************)
(* An open or create for the FCB a, on the host stream h and the file i,   *)
(* which is new and emptied, or in the directory already.                  *)
(***************************************************************************)
Opening(a, h, i, cont) ==
  /\ Running
  /\ cont \in Files
  /\ \A j \in Inode : j # i => cont[j] = content[j]
  /\ cont[i] = content[i] \/ (i \notin InodesInUse /\ cont[i] = <<>>)
  /\ SharedFiles \/ ~OthersHave(a, i)
  /\ fcb_alloc(a, h, cont, [stream EXCEPT ![h] = Opened(i)])

(***************************************************************************)
(* What a step that is no kill may do: to a stream (it moves, or was       *)
(* closed and is opened on a file no other stream has, unless files are    *)
(* shared), to a file (a stream of it moves, or it is new and empty) and   *)
(* to a directory entry.                                                   *)
(***************************************************************************)
MovedStream(g) ==
  /\ stream[g].mode # "closed"
  /\ Moved(content[stream[g].ino], stream[g],
           content'[stream[g].ino], stream'[g])

OpenedStream(g) ==
  /\ stream[g].mode = "closed"
  /\ \E i \in Inode :
       /\ stream'[g] = Opened(i)
       /\ \/ SharedFiles
          \/ \A e \in Handle \ {g} :
               stream'[e].mode # "closed" =>
                 stream'[e] = stream[e] /\ stream[e].ino # i

StreamsStep ==
  \A g \in Handle : \/ stream'[g] = stream[g]
                    \/ stream'[g] = ClosedStream /\ stream[g].mode = "closed"
                    \/ MovedStream(g)
                    \/ OpenedStream(g)

FilesStep ==
  \A i \in Inode :
    \/ content'[i] = content[i]
    \/ \E g \in Handle : stream[g].ino = i /\ MovedStream(g)
    \/ i \notin InodesInUse /\ content'[i] = <<>>

DirStep == \A f \in HostFile : dir[f] # NoInode => dir'[f] \in {dir[f], NoInode}

Killed == /\ status' = "killed"
          /\ \A h \in Handle : stream'[h] = ClosedStream
          /\ UNCHANGED <<dir, content>>

-----------------------------------------------------------------------------
(* The calls, one by one. *)

(* Positions a random read seeks are numbers. *)
LEMMA OffsetType == \A r \in RandomRecord : RecordOffset(r) \in Nat
<1>1. RecordSize \in Nat /\ RandomRecord \subseteq Nat
  BY BoundsAssumption, RecordSizeAssumption
<1> QED
  BY <1>1 DEF RecordOffset

(* A read moves its stream alone. *)
LEMMA DeliverMoves ==
  ASSUME stream \in Streams, NEW h \in Handle, NEW st \in Stream,
         st.mode # "write", NEW cont,
         NEW back \in {NoSeek} \cup {RecordOffset(r) : r \in RandomRecord},
         Deliver(h, st, cont, back)
  PROVE  /\ content' = cont
         /\ \A g \in Handle : g # h => stream'[g] = stream[g]
         /\ Reads(cont[st.ino], st, stream'[h])
<1>1. PICK end \in BufferEnds(cont[st.ino], st) :
        stream' = [stream EXCEPT
           ![h] = SeekBack(AfterRead(cont[st.ino], st, end), back)]
  BY DEF Deliver
<1> DEFINE read == AfterRead(cont[st.ino], st, end)
<1> HIDE DEF read
<1>2. /\ stream'[h] = SeekBack(read, back)
      /\ \A g \in Handle : g # h => stream'[g] = stream[g]
  BY <1>1 DEF Streams, read
<1>3. \/ stream'[h] = read
      \/ \E r \in RandomRecord : stream'[h] = Seeked(read, RecordOffset(r))
  BY <1>2 DEF SeekBack
<1> QED
  BY <1>2, <1>3 DEF Reads, Deliver, read

(* The stream of a slot that was found, and its file. *)
LEMMA FoundStream ==
  ASSUME IInv, Running, NEW a \in FcbAddr, NEW s \in Slot, fcb_search(a, s),
         NEW h, h = fcb_table[s].fp
  PROVE  /\ h \in Handle /\ stream[h] \in Stream /\ stream[h].mode # "closed"
         /\ stream[h].ino \in Inode
         /\ content[stream[h].ino] \in Seq(Byte)
         /\ stream \in Streams /\ content \in Files
  BY FoundSlot, Types DEF Files

(* Function 16, and the freeing of an FCB in function 19. *)
LEMMA CloseMoves ==
  ASSUME IInv, NEW h \in Handle, stream[h].mode # "closed",
         NEW k \in FlushLengths(stream[h]),
         content' = [content EXCEPT ![stream[h].ino] = Flushed(@, stream[h], k)],
         stream' = CloseStream(stream, h)
  PROVE  OneStream(h)
<1>1. stream \in Streams /\ content \in Files /\ stream[h].ino \in Inode
  BY Types DEF IInv, StreamsHaveFiles
<1>2. /\ content'[stream[h].ino] = Flushed(content[stream[h].ino], stream[h], k)
      /\ \A i \in Inode : i # stream[h].ino => content'[i] = content[i]
      /\ stream'[h] = ClosedStream
      /\ \A g \in Handle : g # h => stream'[g] = stream[g]
  BY <1>1 DEF Files, Streams, CloseStream
<1> QED
  BY <1>2 DEF OneStream, Moved, Closes

(* Function 20. *)
LEMMA ReadNextMoves ==
  ASSUME IInv, NEW a \in FcbAddr, ReadNext(a)
  PROVE  UNCHANGED <<content, stream>> \/ \E h \in Handle : OneStream(h)
<1>1. CASE NotFound(a) /\ reg_a' = 9 /\ UNCHANGED <<dma_buf, content, stream>>
  BY <1>1
<1>2. ASSUME NEW s \in Slot, fcb_search(a, s), Running,
             NEW h, h = fcb_table[s].fp,
             bdos_read_next_record(h, stream[h], content, NoSeek)
      PROVE  UNCHANGED <<content, stream>> \/ \E g \in Handle : OneStream(g)
  <2> DEFINE st == stream[h]
             i == stream[h].ino
  <2>1. /\ h \in Handle /\ st \in Stream /\ st.mode # "closed" /\ i \in Inode
        /\ content[i] \in Seq(Byte) /\ stream \in Streams /\ content \in Files
    BY <1>2, FoundStream
  <2>2. CASE st.mode # "write" /\ Deliver(h, st, content, NoSeek)
    <3>1. /\ content' = content
          /\ \A g \in Handle : g # h => stream'[g] = stream[g]
          /\ Reads(content[i], st, stream'[h])
      BY <2>1, <2>2, DeliverMoves
    <3>2. OneStream(h)
      BY <2>1, <3>1 DEF OneStream, Moved
    <3> QED
      BY <2>1, <3>2
  <2>3. ASSUME NEW k \in FlushLengths(st),
               NEW fl, fl = [content EXCEPT ![i] = Flushed(@, st, k)],
               NEW after, after = Seeked(st, st.off + k)
        PROVE  /\ Deliver(h, after, fl, NoSeek) => OneStream(h)
               /\ content' = fl /\ stream' = [stream EXCEPT ![h] = after]
                    => OneStream(h)
    <3>1. k \in Nat /\ st.off + k \in Nat
      <4>1. k \in 0 .. Len(Pending(st)) /\ Pending(st) \in Seq(Byte)
        BY <2>1, <2>3, FlushedType, EffectiveType
      <4> QED
        BY <2>1, <4>1 DEF Stream
    <3>2. after \in Stream /\ after.ino = i /\ after.mode = "idle"
      BY <2>1, <2>3, <3>1, SimpleStreamTypes
    <3>3. /\ fl[i] = Flushed(content[i], st, k)
          /\ \A j \in Inode : j # i => fl[j] = content[j]
      BY <2>1, <2>3 DEF Files
    <3>4. Flushes(content[i], st, fl[i], after)
      BY <2>3, <3>3 DEF Flushes
    <3>5. ASSUME Deliver(h, after, fl, NoSeek) PROVE OneStream(h)
      <4>1. /\ content' = fl
            /\ \A g \in Handle : g # h => stream'[g] = stream[g]
            /\ Reads(fl[i], after, stream'[h])
        BY <2>1, <3>2, <3>5, DeliverMoves
      <4> QED
        BY <2>1, <3>2, <3>3, <3>4, <4>1 DEF OneStream, Moved
    <3>6. ASSUME content' = fl, stream' = [stream EXCEPT ![h] = after]
          PROVE  OneStream(h)
      <4>1. /\ stream'[h] = after
            /\ \A g \in Handle : g # h => stream'[g] = stream[g]
        BY <2>1, <3>6 DEF Streams
      <4> QED
        BY <2>1, <3>3, <3>4, <3>6, <4>1 DEF OneStream, Moved
    <3> QED
      BY <3>5, <3>6
  <2>4. \/ st.mode # "write" /\ Deliver(h, st, content, NoSeek)
        \/ \E k \in FlushLengths(st) :
             LET fl == [content EXCEPT ![i] = Flushed(@, st, k)]
                 after == Seeked(st, st.off + k)
             IN  \/ Deliver(h, after, fl, NoSeek)
                 \/ content' = fl /\ stream' = [stream EXCEPT ![h] = after]
        \/ UNCHANGED <<content, stream>>
    BY <1>2 DEF bdos_read_next_record
  <2> HIDE DEF st, i
  <2> QED
    BY <2>1, <2>2, <2>3, <2>4
<1> QED
  BY <1>1, <1>2 DEF ReadNext

(* Function 33. *)
LEMMA ReadRandomMoves ==
  ASSUME IInv, NEW a \in FcbAddr, NEW r \in RandomRecord, ReadRandom(a, r)
  PROVE  UNCHANGED <<content, stream>> \/ \E h \in Handle : OneStream(h)
<1> DEFINE offs == RecordOffset(r)
<1>1. CASE NotFound(a) /\ reg_a' = 9 /\ UNCHANGED <<dma_buf, content, stream>>
  BY <1>1
<1>2. ASSUME NEW s \in Slot, fcb_search(a, s), Running,
             NEW h, h = fcb_table[s].fp,
             NEW k \in FlushLengths(stream[h]),
             NEW fl, fl = [content EXCEPT ![stream[h].ino] =
                                            Flushed(@, stream[h], k)],
             \/ bdos_read_next_record(h, Seeked(stream[h], offs), fl, offs)
             \/ content' = fl /\ stream' = [stream EXCEPT
                     ![h] = Seeked(stream[h], stream[h].off + k)]
      PROVE  OneStream(h)
  <2> DEFINE st == stream[h]
             i == stream[h].ino
             after == Seeked(st, offs)
  <2>1. /\ h \in Handle /\ st \in Stream /\ st.mode # "closed" /\ i \in Inode
        /\ content[i] \in Seq(Byte) /\ stream \in Streams /\ content \in Files
    BY <1>2, FoundStream
  <2>2. /\ fl[i] = Flushed(content[i], st, k)
        /\ \A j \in Inode : j # i => fl[j] = content[j]
    BY <1>2, <2>1 DEF Files
  <2>3. CASE content' = fl /\ stream' = [stream EXCEPT
                                          ![h] = Seeked(st, st.off + k)]
    <3>1. /\ stream'[h] = Seeked(st, st.off + k)
          /\ \A g \in Handle : g # h => stream'[g] = stream[g]
      BY <2>1, <2>3 DEF Streams
    <3>2. Flushes(content[i], st, fl[i], stream'[h])
      BY <1>2, <2>2, <3>1 DEF Flushes
    <3> QED
      BY <2>1, <2>2, <2>3, <3>1, <3>2 DEF OneStream, Moved
  <2>4. CASE bdos_read_next_record(h, after, fl, offs)
    <3>1. after \in Stream /\ after.ino = i /\ after.mode = "idle"
      <4>1. offs \in Nat
        BY OffsetType
      <4> HIDE DEF offs
      <4> QED
        BY <2>1, <4>1, SimpleStreamTypes
    <3>2. Deliver(h, after, fl, offs)
      <4> HIDE DEF after, offs
      <4> QED
        BY <2>4, <3>1 DEF bdos_read_next_record
    <3>3. Flushes(content[i], st, fl[i], after)
      BY <1>2, <2>2 DEF Flushes
    <3> HIDE DEF after
    <3>4. /\ content' = fl
          /\ \A g \in Handle : g # h => stream'[g] = stream[g]
          /\ Reads(fl[i], after, stream'[h])
      BY <2>1, <3>1, <3>2, DeliverMoves
    <3> QED
      BY <2>1, <2>2, <3>1, <3>3, <3>4 DEF OneStream, Moved
  <2> QED
    BY <1>2, <2>3, <2>4
<1>3. \/ NotFound(a) /\ reg_a' = 9 /\ UNCHANGED <<dma_buf, content, stream>>
      \/ \E s \in Slot :
           /\ fcb_search(a, s) /\ Running
           /\ LET h == fcb_table[s].fp
              IN  \E k \in FlushLengths(stream[h]) :
                    LET fl == [content EXCEPT ![stream[h].ino] =
                                                Flushed(@, stream[h], k)]
                    IN  \/ bdos_read_next_record(h, Seeked(stream[h], offs),
                                                 fl, offs)
                        \/ content' = fl /\ stream' = [stream EXCEPT
                              ![h] = Seeked(stream[h], stream[h].off + k)]
  BY DEF ReadRandom
<1> HIDE DEF offs
<1>4. ASSUME NEW s \in Slot, fcb_search(a, s) PROVE fcb_table[s].fp \in Handle
             \/ ~Running
  BY <1>4, FoundStream
<1> QED
  BY <1>1, <1>2, <1>3, <1>4

(* Function 21. *)
LEMMA WriteNextMoves ==
  ASSUME IInv, NEW a \in FcbAddr, WriteNext(a)
  PROVE  UNCHANGED <<content, stream>> \/ \E h \in Handle : OneStream(h)
<1> DEFINE data == dma_buf[dma_address]
<1>1. data \in Record
  BY Types
<1>2. ASSUME NEW s \in Slot, fcb_search(a, s), Running,
             NEW h, h = fcb_table[s].fp, NEW st, st = stream[h],
             NEW new, new = AfterWrite(st, data),
             \/ stream' = [stream EXCEPT ![h] = new] /\ UNCHANGED content
             \/ \E k \in FlushLengths(new) :
                  /\ stream' = [stream EXCEPT ![h] = Drained(new, k)]
                  /\ content' = [content EXCEPT ![st.ino] = Flushed(@, new, k)]
             \/ /\ st.mode = "read" /\ "dropped" \in SwitchOutcomes
                /\ RoomInReadBuffer(st, data)
                /\ stream' = [stream EXCEPT ![h] = AfterDroppedWrite(st, data)]
                /\ UNCHANGED content
      PROVE  h \in Handle /\ OneStream(h)
  <2>1. /\ h \in Handle /\ st \in Stream /\ st.mode # "closed"
        /\ st.ino \in Inode /\ stream \in Streams /\ content \in Files
    BY <1>2, FoundStream
  <2>2. ASSUME NEW st2, NEW c2, stream' = [stream EXCEPT ![h] = st2],
               content' = [content EXCEPT ![st.ino] = c2],
               Writes(content[st.ino], st, c2, st2)
        PROVE  OneStream(h)
    <3>1. /\ stream'[h] = st2 /\ content'[st.ino] = c2
          /\ \A g \in Handle : g # h => stream'[g] = stream[g]
          /\ \A i \in Inode : i # st.ino => content'[i] = content[i]
      BY <2>1, <2>2 DEF Streams, Files
    <3> QED
      BY <1>2, <2>1, <2>2, <3>1 DEF OneStream, Moved
  <2>3. UNCHANGED content => content' = [content EXCEPT ![st.ino] = content[st.ino]]
    BY <2>1 DEF Files
  <2>4. CASE stream' = [stream EXCEPT ![h] = new] /\ UNCHANGED content
    <3>1. Writes(content[st.ino], st, content[st.ino], new)
      BY <1>1, <1>2 DEF Writes
    <3> QED
      BY <2>1, <2>2, <2>3, <2>4, <3>1
  <2>5. ASSUME NEW k \in FlushLengths(new),
               stream' = [stream EXCEPT ![h] = Drained(new, k)],
               content' = [content EXCEPT ![st.ino] = Flushed(@, new, k)]
        PROVE  OneStream(h)
    <3>1. Writes(content[st.ino], st, Flushed(content[st.ino], new, k),
                 Drained(new, k))
      BY <1>1, <1>2, <2>5 DEF Writes
    <3>2. content' = [content EXCEPT ![st.ino] =
                                       Flushed(content[st.ino], new, k)]
      BY <2>5
    <3> QED
      BY <2>2, <2>5, <3>1, <3>2
  <2>6. CASE /\ st.mode = "read" /\ "dropped" \in SwitchOutcomes
             /\ RoomInReadBuffer(st, data)
             /\ stream' = [stream EXCEPT ![h] = AfterDroppedWrite(st, data)]
             /\ UNCHANGED content
    <3>1. Writes(content[st.ino], st, content[st.ino],
                 AfterDroppedWrite(st, data))
      BY <1>1, <2>6 DEF Writes
    <3> QED
      BY <2>1, <2>2, <2>3, <2>6, <3>1
  <2> QED
    BY <1>2, <2>1, <2>4, <2>5, <2>6
<1>3. \/ UNCHANGED <<content, stream>>
      \/ \E s \in Slot :
           /\ fcb_search(a, s) /\ Running
           /\ LET h == fcb_table[s].fp
                  st == stream[h]
                  new == AfterWrite(st, data)
              IN  \/ stream' = [stream EXCEPT ![h] = new] /\ UNCHANGED content
                  \/ \E k \in FlushLengths(new) :
                       /\ stream' = [stream EXCEPT ![h] = Drained(new, k)]
                       /\ content' = [content EXCEPT
                                        ![st.ino] = Flushed(@, new, k)]
                  \/ /\ st.mode = "read" /\ "dropped" \in SwitchOutcomes
                     /\ RoomInReadBuffer(st, data)
                     /\ stream' = [stream EXCEPT
                                     ![h] = AfterDroppedWrite(st, data)]
                     /\ UNCHANGED content
  BY DEF WriteNext
<1> HIDE DEF data
<1> QED
  BY <1>2, <1>3

(* Functions 16 and 19: the FCB's stream is closed, if it has one. *)
LEMMA FreeMoves ==
  ASSUME IInv, NEW a \in FcbAddr,
         CloseFile(a) \/ \E n \in FcbName : DeleteFile(a, n)
  PROVE  UNCHANGED <<content, stream>> \/ \E h \in Handle : OneStream(h)
<1>1. \/ UNCHANGED <<content, stream>>
      \/ \E s \in Slot :
           /\ fcb_search(a, s) /\ Running
           /\ LET h == fcb_table[s].fp
              IN  /\ \E k \in FlushLengths(stream[h]) :
                       content' = [content EXCEPT ![stream[h].ino] =
                                                    Flushed(@, stream[h], k)]
                  /\ stream' = CloseStream(stream, h)
  BY DEF CloseFile, DeleteFile
<1>2. ASSUME NEW s \in Slot, fcb_search(a, s), Running,
             NEW h, h = fcb_table[s].fp,
             NEW k \in FlushLengths(stream[h]),
             content' = [content EXCEPT ![stream[h].ino] =
                                          Flushed(@, stream[h], k)],
             stream' = CloseStream(stream, h)
      PROVE  h \in Handle /\ OneStream(h)
  <2>1. h \in Handle /\ stream[h].mode # "closed"
    BY <1>2, FoundStream
  <2> QED
    BY <1>2, <2>1, CloseMoves
<1> QED
  BY <1>1, <1>2

(* A move of one stream, as every stream and file sees it. *)
LEMMA OneStreamStep ==
  ASSUME IInv, UNCHANGED <<content, stream>> \/ \E h \in Handle : OneStream(h)
  PROVE  StreamsStep /\ FilesStep
<1>1. CASE UNCHANGED <<content, stream>>
  BY <1>1 DEF StreamsStep, FilesStep
<1>2. ASSUME NEW h \in Handle, OneStream(h)
      PROVE  StreamsStep /\ FilesStep
  <2>1. /\ MovedStream(h)
        /\ \A g \in Handle : g # h => stream'[g] = stream[g]
        /\ \A i \in Inode : i # stream[h].ino => content'[i] = content[i]
    BY <1>2 DEF OneStream, MovedStream
  <2> QED
    BY <2>1 DEF StreamsStep, FilesStep
<1> QED
  BY <1>1, <1>2

(* Functions 15 and 22, from the fopen on. *)
LEMMA OpeningStep ==
  ASSUME IInv, NEW a \in FcbAddr, NEW h \in ClosedHandles, NEW i \in Inode,
         NEW cont, Opening(a, h, i, cont)
  PROVE  StreamsStep /\ FilesStep
<1> DEFINE strm == [stream EXCEPT ![h] = Opened(i)]
<1>1. /\ h \in Handle /\ stream[h].mode = "closed" /\ stream \in Streams
      /\ Running /\ cont \in Files /\ content \in Files
  BY Types DEF Opening, ClosedHandles
<1>2. /\ strm[h] = Opened(i)
      /\ \A g \in Handle : g # h => strm[g] = stream[g]
  BY <1>1 DEF Streams
<1>3. \A g \in Handle :
        stream[g].mode # "closed" => /\ stream[g].ino \in Inode
                                     /\ cont[stream[g].ino] =
                                          content[stream[g].ino]
  <2> SUFFICES ASSUME NEW g \in Handle, stream[g].mode # "closed"
               PROVE  /\ stream[g].ino \in Inode
                      /\ cont[stream[g].ino] = content[stream[g].ino]
    OBVIOUS
  <2>1. stream[g].ino \in Inode
    BY DEF IInv, StreamsHaveFiles
  <2>2. stream[g].ino \in InodesInUse
    BY DEF InodesInUse
  <2> QED
    BY <2>1, <2>2 DEF Opening
<1>4. \A j \in Inode : cont[j] = content[j]
                       \/ (j \notin InodesInUse /\ cont[j] = <<>>)
  BY DEF Opening
(* The streams of the other FCBs are open on other files. *)
<1>5. \/ SharedFiles
      \/ \A g \in Handle :
           stream[g].mode # "closed" /\ stream[g].ino = i
             => \E s \in Slot : fcb_search(a, s) /\ fcb_table[s].fp = g
  <2> SUFFICES ASSUME ~SharedFiles, NEW g \in Handle,
                      stream[g].mode # "closed", stream[g].ino = i
               PROVE  \E s \in Slot : fcb_search(a, s) /\ fcb_table[s].fp = g
    OBVIOUS
  <2>1. PICK s \in Live : fcb_table[s].fp = g
    BY <1>1 DEF IInv, TableSound, NoStreamLeaks
  <2>2. s \in Slot /\ fcb_table[s].addr # FREE
    BY DEF Live
  <2>3. fcb_table[s].addr = a
    BY <2>1, <2>2 DEF Opening, OthersHave
  <2>4. \A t \in Slot : t # s => fcb_table[t].addr # a
    BY <1>1, <2>2, <2>3 DEF IInv, TableSound, SlotsDistinct, Live
  <2>5. \A t \in Slot : t < s => t # s
    BY TableAssumption DEF Slot
  <2>6. fcb_search(a, s)
    BY <2>2, <2>3, <2>4, <2>5 DEF fcb_search
  <2> QED
    BY <2>1, <2>2, <2>6
<1>6. ASSUME NEW s \in Slot, fcb_search(a, s),
             NEW old, old = fcb_table[s].fp,
             NEW k \in FlushLengths(strm[old]),
             content' = [cont EXCEPT ![strm[old].ino] =
                                       Flushed(@, strm[old], k)],
             stream' = CloseStream(strm, old)
      PROVE  StreamsStep /\ FilesStep
  <2>1. /\ old \in Handle /\ old # h /\ strm[old] = stream[old]
        /\ stream[old].mode # "closed" /\ stream[old].ino \in Inode
    BY <1>1, <1>2, <1>6, FoundSlot
  <2>2. /\ stream'[h] = Opened(i) /\ stream'[old] = ClosedStream
        /\ \A g \in Handle : g # h /\ g # old => stream'[g] = stream[g]
    BY <1>1, <1>6, <2>1 DEF Streams, CloseStream
  <2>3. /\ content'[stream[old].ino] =
             Flushed(content[stream[old].ino], stream[old], k)
        /\ \A j \in Inode : j # stream[old].ino => content'[j] = cont[j]
    <3> HIDE DEF strm
    <3> QED
      BY <1>1, <1>3, <1>6, <2>1 DEF Files
  <2>4. MovedStream(old)
    <3>1. Closes(content[stream[old].ino], stream[old],
                 content'[stream[old].ino], stream'[old])
      BY <1>6, <2>1, <2>2, <2>3 DEF Closes
    <3> QED
      BY <2>1, <3>1 DEF MovedStream, Moved
  <2>5. OpenedStream(h)
    <3>1. ASSUME ~SharedFiles, NEW e \in Handle, e # h,
                 stream'[e].mode # "closed"
          PROVE  stream'[e] = stream[e] /\ stream[e].ino # i
      <4>1. e # old
        BY <2>2, <3>1 DEF ClosedStream
      <4>2. stream'[e] = stream[e] /\ stream[e].mode # "closed"
        BY <2>2, <3>1, <4>1
      <4>3. ASSUME stream[e].ino = i PROVE FALSE
        <5>1. PICK t \in Slot : fcb_search(a, t) /\ fcb_table[t].fp = e
          BY <1>5, <3>1, <4>2, <4>3
        <5>2. t = s
          BY <1>6, <5>1, <1>1, AddressNotFree
             DEF fcb_search, IInv, TableSound, SlotsDistinct, Live
        <5> QED
          BY <1>6, <4>1, <5>1, <5>2
      <4> QED
        BY <4>2, <4>3
    <3> QED
      BY <1>1, <2>2, <3>1 DEF OpenedStream
  <2>6. StreamsStep
    BY <2>2, <2>4, <2>5 DEF StreamsStep
  <2>7. FilesStep
    BY <1>4, <2>1, <2>3, <2>4 DEF FilesStep
  <2> QED
    BY <2>6, <2>7
<1>7. ASSUME NotFound(a), content' = cont,
             stream' = strm \/ stream' = CloseStream(strm, h)
      PROVE  StreamsStep /\ FilesStep
  <2>1. /\ stream'[h] \in {Opened(i), ClosedStream}
        /\ \A g \in Handle : g # h => stream'[g] = stream[g]
    BY <1>1, <1>2, <1>7 DEF Streams, CloseStream
  <2>2. SharedFiles \/ \A g \in Handle : stream[g].mode # "closed"
                                          => stream[g].ino # i
    BY <1>5, <1>7 DEF NotFound, fcb_search
  <2>3. stream'[h] = Opened(i) => OpenedStream(h)
    BY <1>1, <2>1, <2>2 DEF OpenedStream
  <2> QED
    BY <1>1, <1>4, <1>7, <2>1, <2>3 DEF StreamsStep, FilesStep
<1>8. \/ \E s \in Slot :
           /\ fcb_search(a, s)
           /\ \E k \in FlushLengths(strm[fcb_table[s].fp]) :
                /\ content' = [cont EXCEPT ![strm[fcb_table[s].fp].ino] =
                                 Flushed(@, strm[fcb_table[s].fp], k)]
                /\ stream' = CloseStream(strm, fcb_table[s].fp)
      \/ /\ NotFound(a) /\ content' = cont
         /\ stream' = strm \/ stream' = CloseStream(strm, h)
  BY DEF Opening, fcb_alloc
<1> HIDE DEF strm
<1> QED
  BY <1>6, <1>7, <1>8

(* Function 15. *)
LEMMA OpenFileStep ==
  ASSUME IInv, NEW a \in FcbAddr, NEW n \in FcbName, OpenFile(a, n)
  PROVE  StreamsStep /\ FilesStep /\ DirStep
<1> DEFINE f == HostName[n]
<1>1. f \in HostFile /\ Running /\ UNCHANGED dir /\ MayUse(a, f)
  BY NamesAssumption DEF OpenFile
<1>2. DirStep
  BY <1>1 DEF DirStep
<1>3. CASE UNCHANGED <<content, stream>>
  BY <1>2, <1>3, OneStreamStep
<1>4. ASSUME dir[f] # NoInode, NEW h \in ClosedHandles,
             fcb_alloc(a, h, content, [stream EXCEPT ![h] = Opened(dir[f])])
      PROVE  StreamsStep /\ FilesStep
  <2>1. dir[f] \in Inode /\ content \in Files
    BY <1>1, <1>4, Types
  <2>2. Opening(a, h, dir[f], content)
    BY <1>1, <1>4, <2>1 DEF Opening, MayUse
  <2> HIDE DEF f
  <2> QED
    BY <2>1, <2>2, OpeningStep
<1> QED
  BY <1>2, <1>3, <1>4 DEF OpenFile

(* Function 22. *)
LEMMA CreateFileStep ==
  ASSUME IInv, NEW a \in FcbAddr, NEW n \in FcbName, CreateFile(a, n)
  PROVE  StreamsStep /\ FilesStep /\ DirStep
<1> DEFINE f == HostName[n]
<1>1. f \in HostFile /\ Running
  BY NamesAssumption DEF CreateFile
<1>2. CASE UNCHANGED hostVars
  <2>1. UNCHANGED <<content, stream>> /\ DirStep
    BY <1>2 DEF hostVars, DirStep
  <2> QED
    BY <2>1, OneStreamStep
<1>3. ASSUME dir[f] = NoInode,
             NEW h \in ClosedHandles, NEW i \in Inode \ InodesInUse,
             dir' = [dir EXCEPT ![f] = i],
             fcb_alloc(a, h, [content EXCEPT ![i] = <<>>],
                       [stream EXCEPT ![h] = Opened(i)])
      PROVE  StreamsStep /\ FilesStep /\ DirStep
  <2> DEFINE cont == [content EXCEPT ![i] = <<>>]
  <2>1. /\ cont \in Files /\ cont[i] = <<>>
        /\ \A j \in Inode : j # i => cont[j] = content[j]
    <3>1. <<>> \in Seq(Byte)
      OBVIOUS
    <3> QED
      BY <3>1, Types DEF Files
  <2>2. ~OthersHave(a, i)
    BY <1>1 DEF OthersHave, InodesInUse, IInv, TableSound, SlotsOpen, Live
  <2>3. Opening(a, h, i, cont)
    <3> HIDE DEF cont
    <3> QED
      BY <1>1, <1>3, <2>1, <2>2 DEF Opening, cont
  <2>4. DirStep
    BY <1>1, <1>3, Types DEF DirStep
  <2> HIDE DEF cont
  <2> QED
    BY <2>3, <2>4, OpeningStep
<1> QED
  BY <1>2, <1>3 DEF CreateFile, ExistedBefore

(* Every step but a kill. *)
LEMMA StepShape ==
  ASSUME IInv, [Next]_vars
  PROVE  Killed \/ (StreamsStep /\ FilesStep /\ DirStep)
<1>1. CASE UNCHANGED dir /\ (\/ UNCHANGED <<content, stream>>
                            \/ \E h \in Handle : OneStream(h))
  BY <1>1, OneStreamStep DEF DirStep
<1>2. ASSUME NEW a \in FcbAddr, NEW n \in FcbName,
             OpenFile(a, n) \/ CreateFile(a, n)
      PROVE  StreamsStep /\ FilesStep /\ DirStep
  BY <1>2, OpenFileStep, CreateFileStep
<1>3. ASSUME NEW a \in FcbAddr, NEW n \in FcbName, DeleteFile(a, n)
      PROVE  StreamsStep /\ FilesStep /\ DirStep
  <2>1. StreamsStep /\ FilesStep
    BY <1>3, FreeMoves, OneStreamStep
  <2>2. dir' = dir \/ dir' = [dir EXCEPT ![HostName[n]] = NoInode]
    BY <1>3 DEF DeleteFile
  <2>3. DirStep
    BY <2>2, Types DEF DirStep
  <2> QED
    BY <2>1, <2>3
<1>4. ASSUME NEW a \in FcbAddr,
             \/ CloseFile(a) \/ ReadNext(a) \/ WriteNext(a)
             \/ \E r \in RandomRecord : ReadRandom(a, r)
      PROVE  StreamsStep /\ FilesStep /\ DirStep
  <2>1. \/ UNCHANGED <<content, stream>>
        \/ \E h \in Handle : OneStream(h)
    BY <1>4, FreeMoves, ReadNextMoves, WriteNextMoves, ReadRandomMoves
  <2>2. UNCHANGED dir
    BY <1>4 DEF CloseFile, ReadNext, WriteNext, ReadRandom
  <2> QED
    BY <2>1, <2>2, OneStreamStep DEF DirStep
<1>5. CASE (\E d \in DmaAddr : SetDma(d)) \/ Guest \/ Exit \/ ExitEnds
  BY <1>1, <1>5 DEF SetDma, Guest, GuestFill, Exit, ExitEnds, hostVars
<1>6. ASSUME NEW h \in Handle, ExitClosesStream(h)
      PROVE  StreamsStep /\ FilesStep /\ DirStep
  <2>1. OneStream(h) /\ UNCHANGED dir
    BY <1>6, CloseMoves DEF ExitClosesStream
  <2> QED
    BY <2>1, OneStreamStep DEF DirStep
<1>7. CASE Kill
  BY <1>7 DEF Kill, Killed
<1>8. CASE UNCHANGED vars
  BY <1>1, <1>8 DEF vars
<1> QED
  BY <1>2, <1>3, <1>4, <1>5, <1>6, <1>7, <1>8 DEF Next, BdosCall, Ending

-----------------------------------------------------------------------------
(* Files are not replaced. *)

(* Whatever happens to a stream, its file does not get shorter. *)
LEMMA MovedGrows ==
  ASSUME NEW c \in Seq(Byte), NEW st \in Stream, NEW c2, NEW st2,
         Moved(c, st, c2, st2)
  PROVE  Len(c2) >= Len(c)
<1>1. Len(c) \in Nat
  OBVIOUS
<1>2. CASE c2 = c
  BY <1>1, <1>2
<1>3. CASE \E k \in FlushLengths(st) : c2 = Flushed(c, st, k)
  BY <1>3, FlushedGrows
<1>4. ASSUME NEW d \in Record, NEW k \in FlushLengths(AfterWrite(st, d)),
             c2 = Flushed(c, AfterWrite(st, d), k)
      PROVE  Len(c2) >= Len(c)
  <2>1. AfterWrite(st, d) \in Stream
    BY AfterWriteType DEF Record
  <2> QED
    BY <1>4, <2>1, FlushedGrows
<1> QED
  BY <1>2, <1>3, <1>4 DEF Moved, Flushes, Writes, Closes

(* A directory entry keeps its file until it is removed, and no file that  *)
(* is in the directory gets shorter: function 22 truncates none, and no    *)
(* flush, in part or whole, cuts one.                                      *)
THEOREM FilesStay == Spec => FilesNotReplaced
<1>1. ASSUME IInv, [Next]_vars
      PROVE  \A f \in HostFile :
               dir[f] # NoInode =>
                 /\ dir'[f] \in {dir[f], NoInode}
                 /\ Len(content'[dir[f]]) >= Len(content[dir[f]])
  <2> SUFFICES ASSUME NEW f \in HostFile, dir[f] # NoInode
               PROVE  /\ dir'[f] \in {dir[f], NoInode}
                      /\ Len(content'[dir[f]]) >= Len(content[dir[f]])
    OBVIOUS
  <2> DEFINE i == dir[f]
  <2>1. /\ i \in Inode /\ i \in InodesInUse
        /\ content[i] \in Seq(Byte) /\ stream \in Streams
    BY <1>1, Types DEF InodesInUse, Files
  <2>2. CASE Killed
    <3>1. Len(content[i]) \in Nat
      BY <2>1
    <3> QED
      BY <2>2, <3>1 DEF Killed
  <2>3. CASE FilesStep /\ DirStep
    <3>1. CASE content'[i] = content[i]
      <4>1. Len(content[i]) \in Nat
        BY <2>1
      <4> QED
        BY <2>3, <3>1, <4>1 DEF DirStep
    <3>2. ASSUME NEW g \in Handle, stream[g].ino = i, MovedStream(g)
          PROVE  Len(content'[i]) >= Len(content[i])
      <4>1. stream[g] \in Stream
            /\ Moved(content[i], stream[g], content'[i], stream'[g])
        BY <2>1, <3>2 DEF MovedStream, Streams
      <4> HIDE DEF i
      <4> QED
        BY <2>1, <4>1, MovedGrows
    <3> QED
      BY <2>1, <2>3, <3>1, <3>2 DEF DirStep, FilesStep
  <2> QED
    BY <1>1, <2>2, <2>3, StepShape
<1> QED
  BY <1>1, Invariance, PTL DEF Spec, FilesNotReplaced

-----------------------------------------------------------------------------
(* Written bytes are kept. *)

(* Kept, of one stream and its file. *)
KeptIn(old, c2, new) ==
  \A j \in 1 .. Len(Pending(old)) :
    \/ old.off + j <= Len(c2) /\ c2[old.off + j] = old.buf[j]
    \/ /\ new.mode = "write" /\ new.ino = old.ino /\ new.off = old.off
       /\ j <= Len(new.buf) /\ new.buf[j] = old.buf[j]

(* On a disk that is not full, every move of a stream keeps what it holds  *)
(* for its file.                                                           *)
LEMMA MovedKeeps ==
  ASSUME ~DiskFull, NEW c \in Seq(Byte), NEW st \in Stream, NEW c2, NEW st2,
         Moved(c, st, c2, st2)
  PROVE  KeptIn(st, c2, st2)
<1>1. CASE st.mode # "write"
  <2>1. Len(Pending(st)) = 0
    BY <1>1 DEF Pending
  <2>2. 1 .. 0 = {}
    OBVIOUS
  <2> QED
    BY <2>1, <2>2 DEF KeptIn
<1>2. CASE st.mode = "write"
  <2>1. Pending(st) = st.buf /\ st.buf \in Seq(Byte) /\ st.off \in Nat
    BY <1>2 DEF Pending, Stream
  <2>2. CASE st2 = st
    BY <1>2, <2>1, <2>2 DEF KeptIn
  <2>3. CASE \E k \in FlushLengths(st) : c2 = Flushed(c, st, k)
    <3>1. c2 = Flushed(c, st, Len(Pending(st)))
      BY <2>3 DEF FlushLengths
    <3> QED
      BY <2>1, <3>1, FlushedKeeps DEF KeptIn
  <2>4. ASSUME NEW d \in Record, NEW new, new = AfterWrite(st, d)
        PROVE  /\ new \in Stream /\ Pending(new) = st.buf \o d
               /\ new.buf = st.buf \o d /\ new.off = st.off
               /\ new.ino = st.ino /\ new.mode = "write"
               /\ Len(st.buf) <= Len(new.buf)
               /\ \A j \in 1 .. Len(st.buf) : new.buf[j] = st.buf[j]
    <3>1. new \in Stream /\ new.mode = "write" /\ new.ino = st.ino
      BY <2>4, AfterWriteType DEF Record
    <3>2. new.buf = st.buf \o d /\ new.off = st.off
      BY <1>2, <2>4 DEF AfterWrite, Stream
    <3>3. d \in Seq(Byte)
      BY DEF Record
    <3>4. /\ Len(st.buf) <= Len(st.buf \o d)
          /\ \A j \in 1 .. Len(st.buf) : (st.buf \o d)[j] = st.buf[j]
      BY <2>1, <3>3
    <3> QED
      BY <3>1, <3>2, <3>4 DEF Pending
  <2>5. ASSUME NEW d \in Record, st2 = AfterWrite(st, d)
        PROVE  KeptIn(st, c2, st2)
    <3>1. Len(st.buf) \in Nat /\ Len(st2.buf) \in Nat
      BY <2>1, <2>4, <2>5 DEF Stream
    <3> QED
      BY <2>1, <2>4, <2>5, <3>1 DEF KeptIn
  <2>6. ASSUME NEW d \in Record, NEW new, new = AfterWrite(st, d),
               NEW k \in FlushLengths(new), c2 = Flushed(c, new, k)
        PROVE  KeptIn(st, c2, st2)
    <3>1. k = Len(Pending(new))
      BY <2>6 DEF FlushLengths
    <3>2. /\ new \in Stream /\ Pending(new) = new.buf /\ new.off = st.off
          /\ Len(st.buf) <= Len(new.buf)
          /\ \A j \in 1 .. Len(st.buf) : new.buf[j] = st.buf[j]
      BY <2>4, <2>6
    <3>3. \A j \in 1 .. Len(new.buf) :
            st.off + j <= Len(c2) /\ c2[st.off + j] = new.buf[j]
      BY <2>6, <3>1, <3>2, FlushedKeeps
    <3>4. Len(st.buf) \in Nat /\ Len(new.buf) \in Nat
      BY <2>1, <3>2 DEF Stream
    <3> QED
      BY <2>1, <3>2, <3>3, <3>4 DEF KeptIn
  <2> QED
    BY <1>2, <2>2, <2>3, <2>5, <2>6 DEF Moved, Reads, Flushes, Writes, Closes
<1> QED
  BY <1>1, <1>2

(***************************************************************************)
(* Unless the disk is full, no step but a kill drops a byte that a write   *)
(* call took: not a reopened or deleted FCB, not a random read between     *)
(* writes, not the exit.                                                   *)
(***************************************************************************)
THEOREM NothingWrittenIsLost ==
  ASSUME ~DiskFull
  PROVE  Spec => WritesKept
<1>1. ASSUME IInv, [Next]_vars
      PROVE  status' # "killed" => \A h \in Handle : Kept(h)
  <2> SUFFICES ASSUME status' # "killed", NEW h \in Handle
               PROVE  KeptIn(stream[h], content'[stream[h].ino], stream'[h])
    BY DEF Kept, KeptIn
  <2>1. /\ stream[h] \in Stream
        /\ stream[h].mode # "closed" =>
             stream[h].ino \in Inode /\ content[stream[h].ino] \in Seq(Byte)
    BY <1>1, Types DEF Streams, Files, IInv, StreamsHaveFiles
  <2>2. StreamsStep
    BY <1>1, StepShape DEF Killed
  <2>3. CASE stream[h].mode = "closed"
    <3>1. Len(Pending(stream[h])) = 0
      BY <2>3 DEF Pending
    <3>2. 1 .. 0 = {}
      OBVIOUS
    <3> QED
      BY <3>1, <3>2 DEF KeptIn
  <2>4. CASE stream'[h] = stream[h]
    <3>1. stream[h].buf \in Seq(Byte)
      BY <2>1 DEF Stream
    <3>2. \A j \in 1 .. Len(Pending(stream[h])) :
            stream[h].mode = "write" /\ j <= Len(stream[h].buf)
      BY <3>1 DEF Pending
    <3> QED
      BY <2>4, <3>2 DEF KeptIn
  <2>5. CASE MovedStream(h)
    BY <2>1, <2>5, MovedKeeps DEF MovedStream
  <2> QED
    BY <2>2, <2>3, <2>4, <2>5 DEF StreamsStep, OpenedStream
<1> QED
  BY <1>1, Invariance, PTL DEF Spec, WritesKept

-----------------------------------------------------------------------------
(* Records stay aligned. *)

(***************************************************************************)
(* RecordAligned is not inductive: a flush puts the buffer where it        *)
(* starts, so that the buffer and its offset have to be whole records too. *)
(***************************************************************************)
Aligned ==
  /\ \A h \in Handle : WholeStream(stream[h])
  /\ \A i \in Inode : Whole(Len(content[i]))

(* A read keeps records whole. *)
LEMMA ReadsWhole ==
  ASSUME NEW c \in Seq(Byte), NEW st \in Stream, Whole(Len(c)), WholeStream(st),
         NEW st2, Reads(c, st, st2)
  PROVE  WholeStream(st2)
<1>1. PICK end \in BufferEnds(c, st) :
        \/ st2 = AfterRead(c, st, end)
        \/ \E r \in RandomRecord :
             st2 = Seeked(AfterRead(c, st, end), RecordOffset(r))
  BY DEF Reads
<1>2. AfterRead(c, st, end) \in Stream /\ WholeStream(AfterRead(c, st, end))
  BY AfterReadType, AfterReadWhole
<1>3. \A r \in RandomRecord : RecordOffset(r) \in Nat /\ Whole(RecordOffset(r))
  BY OffsetType, WholeSums, BoundsAssumption DEF RecordOffset
<1> QED
  BY <1>1, <1>2, <1>3, WholeMoves

(* So does a flush, if it gets through, and the seek that follows it. *)
LEMMA FlushesWhole ==
  ASSUME ~DiskFull, NEW c \in Seq(Byte), NEW st \in Stream, Whole(Len(c)),
         WholeStream(st), NEW c2, NEW st2, Flushes(c, st, c2, st2)
  PROVE  c2 \in Seq(Byte) /\ Whole(Len(c2)) /\ WholeStream(st2)
<1>1. PICK k \in FlushLengths(st) :
        /\ c2 = Flushed(c, st, k)
        /\ \/ st2 = Seeked(st, st.off + k)
           \/ \E r \in RandomRecord : st2 = Seeked(st, RecordOffset(r))
  BY DEF Flushes
<1>2. k = Len(Pending(st))
  BY DEF FlushLengths
<1>3. c2 \in Seq(Byte) /\ Whole(Len(c2)) /\ Whole(st.off + k)
  BY <1>1, <1>2, FlushedType, FlushedWhole
<1>4. st.off + k \in Nat
  BY <1>2, EffectiveType DEF Stream
<1>5. \A r \in RandomRecord : RecordOffset(r) \in Nat /\ Whole(RecordOffset(r))
  BY OffsetType, WholeSums, BoundsAssumption DEF RecordOffset
<1> QED
  BY <1>1, <1>3, <1>4, <1>5, WholeMoves

(* And so does every move. *)
LEMMA MovedWhole ==
  ASSUME ~DiskFull, NEW c \in Seq(Byte), NEW st \in Stream, Whole(Len(c)),
         WholeStream(st), NEW c2, NEW st2, Moved(c, st, c2, st2)
  PROVE  Whole(Len(c2)) /\ WholeStream(st2)
<1>1. CASE c2 = c /\ (st2 = st \/ Reads(c, st, st2))
  BY <1>1, ReadsWhole
<1>2. CASE Flushes(c, st, c2, st2)
  BY <1>2, FlushesWhole
<1>3. ASSUME NEW st1 \in Stream, Flushes(c, st, c2, st1), Reads(c2, st1, st2)
      PROVE  Whole(Len(c2)) /\ WholeStream(st2)
  <2>1. c2 \in Seq(Byte) /\ Whole(Len(c2)) /\ WholeStream(st1)
    BY <1>3, FlushesWhole
  <2> QED
    BY <1>3, <2>1, ReadsWhole
<1>4. ASSUME NEW d \in Record,
             \/ st2 = AfterWrite(st, d) /\ c2 = c
             \/ \E k \in FlushLengths(AfterWrite(st, d)) :
                  /\ c2 = Flushed(c, AfterWrite(st, d), k)
                  /\ st2 = Drained(AfterWrite(st, d), k)
             \/ /\ RoomInReadBuffer(st, d)
                /\ st2 = AfterDroppedWrite(st, d) /\ c2 = c
      PROVE  Whole(Len(c2)) /\ WholeStream(st2)
  <2> DEFINE new == AfterWrite(st, d)
  <2>1. d \in Seq(Byte) /\ Len(d) = RecordSize
    BY DEF Record
  <2>2. /\ new \in Stream /\ WholeStream(new)
        /\ RoomInReadBuffer(st, d) => WholeStream(AfterDroppedWrite(st, d))
    BY <2>1, AfterWriteType, WholeMoves
  <2>3. ASSUME NEW k \in FlushLengths(new), c2 = Flushed(c, new, k),
               st2 = Drained(new, k)
        PROVE  Whole(Len(c2)) /\ WholeStream(st2)
    <3> HIDE DEF new
    <3>1. k = Len(Pending(new))
      BY DEF FlushLengths
    <3>2. Whole(Len(c2)) /\ Whole(new.off + k) /\ k \in Nat
      BY <2>2, <2>3, <3>1, FlushedWhole, EffectiveType
    <3> QED
      BY <2>2, <2>3, <3>2, WholeMoves
  <2> HIDE DEF new
  <2> QED
    BY <1>4, <2>2, <2>3 DEF new
<1>5. CASE Closes(c, st, c2, st2)
  <2>1. PICK k \in FlushLengths(st) : c2 = Flushed(c, st, k)
    BY <1>5 DEF Closes
  <2>2. k = Len(Pending(st))
    BY DEF FlushLengths
  <2> QED
    BY <1>5, <2>1, <2>2, FlushedWhole, WholeMoves DEF Closes
<1> QED
  BY <1>1, <1>2, <1>3, <1>4, <1>5 DEF Moved, Writes

(* Files made of whole records at the start, ... *)
LEMMA AlignedStart ==
  ASSUME \A f \in DOMAIN InitialFile : Whole(Len(InitialFile[f])), Init
  PROVE  Aligned
<1>1. \A h \in Handle : WholeStream(stream[h])
  BY WholeMoves DEF Init
<1>2. ASSUME NEW i \in Inode PROVE Whole(Len(content[i]))
  <2> DEFINE first == CHOOSE f \in HostFile : dir[f] = i
  <2>1. CASE \E f \in HostFile : dir[f] = i
    <3>1. first \in HostFile /\ dir[first] = i
      BY <2>1
    <3> HIDE DEF first
    <3>2. first \in DOMAIN InitialFile
      BY <3>1, NoInodeAssumption DEF Init
    <3>3. content[i] = InitialFile[first]
      BY <2>1 DEF Init, first
    <3> QED
      BY <3>2, <3>3
  <2>2. CASE ~\E f \in HostFile : dir[f] = i
    <3>1. Len(content[i]) = 0
      BY <2>2 DEF Init
    <3> QED
      BY <3>1, WholeSums
  <2> QED
    BY <2>1, <2>2
<1> QED
  BY <1>1, <1>2 DEF Aligned

(* ... and after every step. *)
LEMMA AlignedStep ==
  ASSUME ~DiskFull, IInv, Aligned, [Next]_vars
  PROVE  Aligned'
<1>1. stream \in Streams /\ content \in Files
  BY Types
<1>2. CASE Killed
  BY <1>2, WholeMoves DEF Killed, Aligned
<1>3. ASSUME StreamsStep, FilesStep PROVE Aligned'
  <2>1. ASSUME NEW g \in Handle, MovedStream(g)
        PROVE  /\ Whole(Len(content'[stream[g].ino]))
               /\ WholeStream(stream'[g])
    <3>1. stream[g].ino \in Inode /\ stream[g].mode # "closed"
      BY <2>1 DEF MovedStream, IInv, StreamsHaveFiles
    <3>2. /\ content[stream[g].ino] \in Seq(Byte) /\ stream[g] \in Stream
          /\ Whole(Len(content[stream[g].ino])) /\ WholeStream(stream[g])
      BY <1>1, <3>1 DEF Files, Streams, Aligned
    <3> QED
      BY <2>1, <3>2, MovedWhole DEF MovedStream
  <2>2. ASSUME NEW g \in Handle PROVE WholeStream(stream'[g])
    <3>1. WholeStream(stream[g])
      BY DEF Aligned
    <3> QED
      BY <1>3, <2>1, <3>1, WholeMoves DEF StreamsStep, OpenedStream
  <2>3. ASSUME NEW i \in Inode PROVE Whole(Len(content'[i]))
    <3>1. Whole(Len(content[i]))
      BY DEF Aligned
    <3>2. CASE content'[i] = <<>>
      <4>1. Len(content'[i]) = 0
        BY <3>2
      <4> QED
        BY <4>1, WholeSums
    <3> QED
      BY <1>3, <2>1, <3>1, <3>2 DEF FilesStep
  <2> QED
    BY <2>2, <2>3 DEF Aligned
<1> QED
  BY <1>2, <1>3, StepShape

(***************************************************************************)
(* If the files the emulator starts with are made of whole records and the *)
(* disk is not full, every file and every file position stays on a record  *)
(* boundary, whatever mixture of random and sequential calls the guest     *)
(* makes.                                                                  *)
(***************************************************************************)
THEOREM RecordsStayAligned ==
  ASSUME ~DiskFull,
         \A f \in DOMAIN InitialFile : Whole(Len(InitialFile[f]))
  PROVE  Spec => []RecordAligned
<1>1. Init => Aligned
  BY AlignedStart
<1>2. IInv /\ Aligned /\ [Next]_vars => Aligned'
  BY AlignedStep
<1>3. Aligned => RecordAligned
  BY DEF Aligned, RecordAligned, WholeStream, Whole
<1> QED
  BY <1>1, <1>2, <1>3, Invariance, PTL DEF Spec

-----------------------------------------------------------------------------
(* No read is stale. *)

(***************************************************************************)
(* ReadsCurrent is not inductive: a write to a file makes stale what any   *)
(* other stream of that file has read ahead.  Exclusive says there is no   *)
(* such stream.                                                            *)
(***************************************************************************)
Exclusive ==
  \A g, h \in Handle :
    g # h /\ stream[g].mode # "closed" /\ stream[h].mode # "closed"
      => stream[g].ino # stream[h].ino

Fresh(c, st) == st.mode \in {"idle", "read"} => Current(c, st)

(* A read stays on its file, and keeps no more than the file holds. *)
LEMMA ReadsFresh ==
  ASSUME NEW c \in Seq(Byte), NEW st \in Stream, st.mode # "closed",
         Fresh(c, st), NEW st2, Reads(c, st, st2)
  PROVE  st2.ino = st.ino /\ Fresh(c, st2)
<1>1. PICK end \in BufferEnds(c, st) :
        \/ st2 = AfterRead(c, st, end)
        \/ \E r \in RandomRecord :
             st2 = Seeked(AfterRead(c, st, end), RecordOffset(r))
  BY DEF Reads
<1>2. Current(c, st)
  BY DEF Fresh, Reads, Stream, Mode
<1> DEFINE read == AfterRead(c, st, end)
<1>3. read \in Stream /\ read.ino = st.ino /\ Current(c, read)
  BY <1>2, AfterReadType, AfterReadCurrent
<1> HIDE DEF read
<1>4. ASSUME NEW r \in RandomRecord, st2 = Seeked(read, RecordOffset(r))
      PROVE  st2.ino = st.ino /\ Current(c, st2)
  BY <1>3, <1>4, OffsetType, SimpleStreamTypes, SeekedCurrent
<1> QED
  BY <1>1, <1>3, <1>4 DEF Fresh, read

(* A flush and a seek leave either an empty buffer or the one that was.    *)
LEMMA FlushesFresh ==
  ASSUME NEW c \in Seq(Byte), NEW st \in Stream, st.mode # "closed",
         Fresh(c, st), NEW c2, NEW st2, Flushes(c, st, c2, st2)
  PROVE  /\ c2 \in Seq(Byte) /\ st2.ino = st.ino /\ st2.mode = "idle"
         /\ Fresh(c2, st2)
<1>1. PICK k \in FlushLengths(st) :
        /\ c2 = Flushed(c, st, k)
        /\ \/ st2 = Seeked(st, st.off + k)
           \/ \E r \in RandomRecord : st2 = Seeked(st, RecordOffset(r))
  BY DEF Flushes
<1>2. /\ c2 \in Seq(Byte)
      /\ k \in 0 .. Len(Pending(st)) /\ Pending(st) \in Seq(Byte)
  BY <1>1, FlushedType, EffectiveType
<1>3. PICK n \in Nat : st2 = Seeked(st, n)
  <2>1. st.off + k \in Nat
    BY <1>2 DEF Stream
  <2> QED
    BY <1>1, <2>1, OffsetType
<1>4. st.mode # "write" => Current(c2, st)
  <2> SUFFICES ASSUME st.mode # "write" PROVE Current(c2, st)
    OBVIOUS
  <2>1. Pending(st) = <<>>
    BY DEF Pending
  <2>2. k = 0
    BY <1>2, <2>1
  <2>3. SubSeq(Pending(st), 1, k) = <<>>
    BY <2>1, <2>2
  <2>4. c2 = c
    BY <1>1, <2>3 DEF Flushed, Overlay
  <2> QED
    BY <2>4 DEF Fresh, Stream, Mode
<1>5. Current(c2, st2)
  BY <1>3, <1>4, SeekedCurrent
<1> QED
  BY <1>2, <1>3, <1>5, SimpleStreamTypes DEF Fresh

(* Every move stays on its file and leaves a buffer that is fresh. *)
LEMMA MovedFresh ==
  ASSUME "dropped" \notin SwitchOutcomes,
         NEW c \in Seq(Byte), NEW st \in Stream, st.mode # "closed",
         Fresh(c, st), NEW c2, NEW st2, Moved(c, st, c2, st2)
  PROVE  /\ st2.mode = "closed" \/ st2.ino = st.ino
         /\ Fresh(c2, st2)
<1>1. CASE c2 = c /\ (st2 = st \/ Reads(c, st, st2))
  BY <1>1, ReadsFresh
<1>2. CASE Flushes(c, st, c2, st2)
  BY <1>2, FlushesFresh
<1>3. ASSUME NEW st1 \in Stream, Flushes(c, st, c2, st1), Reads(c2, st1, st2)
      PROVE  st2.ino = st.ino /\ Fresh(c2, st2)
  <2>1. /\ c2 \in Seq(Byte) /\ st1.ino = st.ino /\ st1.mode = "idle"
        /\ Fresh(c2, st1)
    BY <1>3, FlushesFresh
  <2> QED
    BY <1>3, <2>1, ReadsFresh
<1>4. CASE Writes(c, st, c2, st2)
  <2>1. PICK d \in Record :
          \/ st2 = AfterWrite(st, d)
          \/ \E k \in FlushLengths(AfterWrite(st, d)) :
               st2 = Drained(AfterWrite(st, d), k)
    BY <1>4 DEF Writes
  <2> DEFINE new == AfterWrite(st, d)
  <2>2. new \in Stream /\ new.ino = st.ino /\ new.mode = "write"
    BY AfterWriteType DEF Record
  <2>3. ASSUME NEW k \in FlushLengths(new)
        PROVE  /\ Drained(new, k).ino = st.ino
               /\ Drained(new, k).mode = "write"
    <3> HIDE DEF new
    <3>1. k \in Nat
      BY <2>2, EffectiveType, FlushedType
    <3> QED
      BY <2>2, <3>1, DrainedType
  <2> HIDE DEF new
  <2> QED
    BY <2>1, <2>2, <2>3 DEF Fresh, new
<1>5. CASE Closes(c, st, c2, st2)
  BY <1>5 DEF Closes, ClosedStream, Fresh
<1> QED
  BY <1>1, <1>2, <1>3, <1>4, <1>5 DEF Moved

(* A stream stays on its file until it is closed. *)
LEMMA SameFile ==
  ASSUME "dropped" \notin SwitchOutcomes, IInv, ReadsCurrent, StreamsStep,
         NEW e \in Handle, stream'[e].mode # "closed"
  PROVE  \/ stream[e].mode # "closed" /\ stream'[e].ino = stream[e].ino
         \/ OpenedStream(e)
<1>1. CASE stream'[e] = stream[e]
  BY <1>1
<1>2. CASE stream'[e] = ClosedStream
  BY <1>2 DEF ClosedStream
<1>3. CASE MovedStream(e)
  <2>1. /\ stream[e].ino \in Inode /\ stream[e].mode # "closed"
        /\ stream[e] \in Stream /\ content[stream[e].ino] \in Seq(Byte)
    BY <1>3, Types DEF MovedStream, IInv, StreamsHaveFiles, Streams, Files
  <2>2. Fresh(content[stream[e].ino], stream[e])
    BY DEF ReadsCurrent, Fresh, Current
  <2> QED
    BY <1>3, <2>1, <2>2, MovedFresh DEF MovedStream
<1> QED
  BY <1>1, <1>2, <1>3 DEF StreamsStep

(* One stream per file, if the guest keeps to one FCB per file. *)
LEMMA ExclusiveStep ==
  ASSUME ~SharedFiles, "dropped" \notin SwitchOutcomes,
         IInv, Exclusive, ReadsCurrent, StreamsStep
  PROVE  Exclusive'
<1> SUFFICES ASSUME NEW g \in Handle, NEW h \in Handle, g # h,
                    stream'[g].mode # "closed", stream'[h].mode # "closed"
             PROVE  stream'[g].ino # stream'[h].ino
  BY DEF Exclusive
<1>1. ASSUME NEW e \in Handle, stream'[e].mode # "closed"
      PROVE  \/ stream[e].mode # "closed" /\ stream'[e].ino = stream[e].ino
             \/ OpenedStream(e)
  BY <1>1, SameFile
<1>2. ASSUME NEW e \in Handle, NEW f \in Handle, e # f, OpenedStream(e),
             stream'[f].mode # "closed"
      PROVE  stream'[e].ino # stream'[f].ino
  BY <1>2 DEF OpenedStream, Opened
<1>3. OpenedStream(g) => stream'[g].ino # stream'[h].ino
  BY <1>2
<1>4. OpenedStream(h) => stream'[g].ino # stream'[h].ino
  BY <1>2
<1>5. CASE ~OpenedStream(g) /\ ~OpenedStream(h)
  BY <1>1, <1>5 DEF Exclusive
<1> QED
  BY <1>3, <1>4, <1>5

(* What is read ahead stays what the file holds. *)
LEMMA CurrentStep ==
  ASSUME "dropped" \notin SwitchOutcomes,
         IInv, Exclusive, ReadsCurrent, StreamsStep, FilesStep
  PROVE  ReadsCurrent'
<1> SUFFICES ASSUME NEW h \in Handle
             PROVE  Fresh(content'[stream'[h].ino], stream'[h])
  BY DEF ReadsCurrent, Fresh, Current
<1>1. stream \in Streams /\ content \in Files
  BY Types
<1>2. Fresh(content[stream[h].ino], stream[h])
  BY DEF ReadsCurrent, Fresh, Current
<1>3. CASE MovedStream(h)
  <2>1. /\ stream[h].ino \in Inode /\ stream[h].mode # "closed"
        /\ stream[h] \in Stream /\ content[stream[h].ino] \in Seq(Byte)
    BY <1>1, <1>3 DEF MovedStream, IInv, StreamsHaveFiles, Streams, Files
  <2>2. /\ stream'[h].mode = "closed" \/ stream'[h].ino = stream[h].ino
        /\ Fresh(content'[stream[h].ino], stream'[h])
    BY <1>2, <1>3, <2>1, MovedFresh DEF MovedStream
  <2> QED
    BY <2>2 DEF Fresh
<1>4. CASE OpenedStream(h)
  <2>1. stream'[h].buf = <<>>
    BY <1>4 DEF OpenedStream, Opened
  <2>2. 1 .. Len(<<>>) = {}
    OBVIOUS
  <2> QED
    BY <2>1, <2>2 DEF Fresh, Current
<1>5. CASE stream'[h].mode = "closed"
  BY <1>5 DEF Fresh
<1>6. CASE stream'[h] = stream[h] /\ stream[h].mode # "closed" /\ ~MovedStream(h)
  <2> DEFINE i == stream[h].ino
  <2>1. i \in Inode /\ i \in InodesInUse
    BY <1>6 DEF IInv, StreamsHaveFiles, InodesInUse
  <2>2. ASSUME NEW g \in Handle, stream[g].ino = i, MovedStream(g) PROVE FALSE
    <3>1. g # h /\ stream[g].mode # "closed"
      BY <1>6, <2>2 DEF MovedStream
    <3> QED
      BY <1>6, <2>2, <3>1 DEF Exclusive
  <2>3. content'[i] = content[i]
    <3> HIDE DEF i
    <3> QED
      BY <2>1, <2>2 DEF FilesStep
  <2> QED
    BY <1>2, <1>6, <2>3
<1> QED
  BY <1>3, <1>4, <1>5, <1>6 DEF StreamsStep, ClosedStream

(***************************************************************************)
(* As long as the guest keeps to one FCB per file, and the C library does  *)
(* not drop a write that follows a read, no stream holds stale bytes: what *)
(* fread delivers is what the file holds, with any read-ahead and however  *)
(* writes, random reads, deletes and reopens mix.                          *)
(***************************************************************************)
THEOREM NoReadIsStale ==
  ASSUME ~SharedFiles, "dropped" \notin SwitchOutcomes
  PROVE  Spec => []ReadsCurrent
<1>1. Init => Exclusive /\ ReadsCurrent
  BY DEF Init, ClosedStream, Exclusive, ReadsCurrent
<1>2. IInv /\ Exclusive /\ ReadsCurrent /\ [Next]_vars
        => Exclusive' /\ ReadsCurrent'
  <2> SUFFICES ASSUME IInv, Exclusive, ReadsCurrent, [Next]_vars
               PROVE  Exclusive' /\ ReadsCurrent'
    OBVIOUS
  <2>1. CASE Killed
    BY <2>1 DEF Killed, ClosedStream, Exclusive, ReadsCurrent
  <2>2. CASE StreamsStep /\ FilesStep
    BY <2>2, ExclusiveStep, CurrentStep
  <2> QED
    BY <2>1, <2>2, StepShape
<1> QED
  BY <1>1, <1>2, Invariance, PTL DEF Spec

-----------------------------------------------------------------------------
(* A failed open is harmless. *)

(* A FILE object given back to the host has nothing left in it: the fclose *)
(* after a full table puts things back as they were.                       *)
ClosedEmpty ==
  \A h \in Handle : stream[h].mode = "closed" => stream[h] = ClosedStream

(* A move closes a stream only by fclose. *)
LEMMA MovedCloses ==
  ASSUME NEW c \in Seq(Byte), NEW st \in Stream, st.mode # "closed",
         NEW c2, NEW st2, Moved(c, st, c2, st2)
  PROVE  st2.mode # "closed" \/ st2 = ClosedStream
<1>1. ASSUME NEW c1 \in Seq(Byte), NEW st1 \in Stream, Reads(c1, st1, st2)
      PROVE  st2.mode # "closed"
  <2>1. PICK end \in BufferEnds(c1, st1) :
          \/ st2 = AfterRead(c1, st1, end)
          \/ \E r \in RandomRecord :
               st2 = Seeked(AfterRead(c1, st1, end), RecordOffset(r))
    BY <1>1 DEF Reads
  <2> DEFINE read == AfterRead(c1, st1, end)
  <2>2. read \in Stream /\ read.mode # "closed"
    BY AfterReadType
  <2> HIDE DEF read
  <2> QED
    BY <2>1, <2>2, OffsetType, SimpleStreamTypes DEF read
<1>2. ASSUME NEW st1, Flushes(c, st, c2, st1)
      PROVE  c2 \in Seq(Byte) /\ st1.mode # "closed"
  <2>1. PICK k \in FlushLengths(st) :
          /\ c2 = Flushed(c, st, k)
          /\ \/ st1 = Seeked(st, st.off + k)
             \/ \E r \in RandomRecord : st1 = Seeked(st, RecordOffset(r))
    BY <1>2 DEF Flushes
  <2>2. /\ c2 \in Seq(Byte)
        /\ k \in 0 .. Len(Pending(st)) /\ Pending(st) \in Seq(Byte)
    BY <2>1, FlushedType, EffectiveType
  <2>3. st.off + k \in Nat
    BY <2>2 DEF Stream
  <2> QED
    BY <2>1, <2>2, <2>3, OffsetType, SimpleStreamTypes
<1>3. CASE Writes(c, st, c2, st2)
  <2>1. PICK d \in Record :
          \/ st2 = AfterWrite(st, d)
          \/ \E k \in FlushLengths(AfterWrite(st, d)) :
               st2 = Drained(AfterWrite(st, d), k)
          \/ RoomInReadBuffer(st, d) /\ st2 = AfterDroppedWrite(st, d)
    BY <1>3 DEF Writes
  <2> DEFINE new == AfterWrite(st, d)
  <2>2. /\ new \in Stream /\ new.mode = "write"
        /\ RoomInReadBuffer(st, d) => AfterDroppedWrite(st, d).mode = st.mode
    BY AfterWriteType DEF Record
  <2>3. ASSUME NEW k \in FlushLengths(new) PROVE Drained(new, k).mode = "write"
    <3> HIDE DEF new
    <3>1. k \in Nat
      BY <2>2, EffectiveType, FlushedType
    <3> QED
      BY <2>2, <3>1, DrainedType
  <2> HIDE DEF new
  <2> QED
    BY <2>1, <2>2, <2>3 DEF new
<1> QED
  BY <1>1, <1>2, <1>3 DEF Moved, Closes

(* Every step leaves closed streams empty. *)
LEMMA ClosedEmptyStep ==
  ASSUME IInv, ClosedEmpty, [Next]_vars
  PROVE  ClosedEmpty'
<1> SUFFICES ASSUME NEW h \in Handle, stream'[h].mode = "closed"
             PROVE  stream'[h] = ClosedStream
  BY DEF ClosedEmpty
<1>0. stream'[h].mode # "idle"
  OBVIOUS
<1>1. CASE Killed
  BY <1>1 DEF Killed
<1>2. CASE MovedStream(h)
  <2>1. /\ stream[h].mode # "closed" /\ stream[h] \in Stream
        /\ content[stream[h].ino] \in Seq(Byte)
    BY <1>2, Types DEF MovedStream, IInv, StreamsHaveFiles, Streams, Files
  <2> QED
    BY <1>2, <2>1, MovedCloses DEF MovedStream
<1>3. CASE StreamsStep /\ ~MovedStream(h)
  <2>1. ~OpenedStream(h)
    <3>1. \A i \in Inode : Opened(i).mode = "idle"
      BY DEF Opened
    <3> QED
      BY <1>0, <3>1 DEF OpenedStream
  <2>2. stream[h] = ClosedStream \/ stream[h].mode # "closed"
    BY DEF ClosedEmpty
  <2> QED
    BY <1>3, <2>1, <2>2 DEF StreamsStep
<1> QED
  BY <1>1, <1>2, <1>3, StepShape

(* A failed open or create, on a host whose closed streams are empty. *)
LEMMA FailureHarmless ==
  ASSUME IInv, ClosedEmpty, NEW a \in FcbAddr, NEW n \in FcbName,
         OpenFile(a, n) \/ CreateFile(a, n),
         status' = "running", reg_a' = 255
  PROVE  /\ UNCHANGED <<fcb_table, stream>>
         /\ \A f \in HostFile :
              IF dir[f] # NoInode
              THEN dir'[f] = dir[f] /\ content'[dir[f]] = content[dir[f]]
              ELSE dir'[f] # NoInode => content'[dir'[f]] = <<>>
<1> DEFINE f == HostName[n]
<1>1. /\ f \in HostFile /\ stream \in Streams /\ content \in Files
      /\ dir \in [HostFile -> Inode \cup {NoInode}]
  BY NamesAssumption, Types
(* A full table: the new stream is closed again. *)
<1>2. ASSUME NEW h \in ClosedHandles, NEW i, NEW cont,
             fcb_alloc(a, h, cont, [stream EXCEPT ![h] = Opened(i)])
      PROVE  UNCHANGED <<fcb_table, stream>> /\ content' = cont
  <2>1. /\ NotFound(FREE) /\ content' = cont /\ UNCHANGED fcb_table
        /\ stream' = CloseStream([stream EXCEPT ![h] = Opened(i)], h)
    BY <1>2 DEF fcb_alloc
  <2>2. stream[h] = ClosedStream
    BY DEF ClosedEmpty, ClosedHandles
  <2>3. stream' = stream
    BY <1>1, <2>1, <2>2 DEF Streams, CloseStream, ClosedHandles
  <2> QED
    BY <2>1, <2>3
<1>3. CASE OpenFile(a, n)
  <2>1. UNCHANGED dir
    BY <1>3 DEF OpenFile
  <2>2. \/ UNCHANGED <<fcb_table, content, stream>>
        \/ \E h \in ClosedHandles :
             fcb_alloc(a, h, content, [stream EXCEPT ![h] = Opened(dir[f])])
    BY <1>3 DEF OpenFile
  <2> HIDE DEF f
  <2>3. UNCHANGED <<fcb_table, content, stream>>
    BY <1>2, <2>2
  <2> QED
    BY <2>1, <2>3
<1>4. CASE CreateFile(a, n)
  <2>1. \/ UNCHANGED <<fcb_table, content, stream, dir>>
        \/ /\ dir[f] = NoInode
           /\ \E h \in ClosedHandles, i \in Inode \ InodesInUse :
                /\ dir' = [dir EXCEPT ![f] = i]
                /\ fcb_alloc(a, h, [content EXCEPT ![i] = <<>>],
                             [stream EXCEPT ![h] = Opened(i)])
    BY <1>4 DEF CreateFile, ExistedBefore, hostVars
  <2> HIDE DEF f
  <2>2. CASE UNCHANGED <<fcb_table, content, stream, dir>>
    BY <2>2
  <2>3. ASSUME dir[f] = NoInode, NEW h \in ClosedHandles,
               NEW i \in Inode \ InodesInUse,
               dir' = [dir EXCEPT ![f] = i],
               fcb_alloc(a, h, [content EXCEPT ![i] = <<>>],
                         [stream EXCEPT ![h] = Opened(i)])
        PROVE  /\ UNCHANGED <<fcb_table, stream>>
               /\ \A g \in HostFile :
                    IF dir[g] # NoInode
                    THEN dir'[g] = dir[g] /\ content'[dir[g]] = content[dir[g]]
                    ELSE dir'[g] # NoInode => content'[dir'[g]] = <<>>
    <3>1. UNCHANGED <<fcb_table, stream>> /\ content' = [content EXCEPT ![i] = <<>>]
      BY <1>2, <2>3
    <3>2. ASSUME NEW g \in HostFile, dir[g] # NoInode
          PROVE  dir'[g] = dir[g] /\ content'[dir[g]] = content[dir[g]]
      <4>1. g # f /\ dir[g] # i /\ dir[g] \in Inode
        BY <1>1, <2>3, <3>2 DEF InodesInUse
      <4> QED
        BY <1>1, <2>3, <3>1, <4>1 DEF Files
    <3>3. ASSUME NEW g \in HostFile, dir[g] = NoInode, dir'[g] # NoInode
          PROVE  content'[dir'[g]] = <<>>
      <4>1. dir'[g] = i
        BY <1>1, <2>3, <3>3
      <4> QED
        BY <1>1, <2>3, <3>1, <4>1 DEF Files
    <3> QED
      BY <3>1, <3>2, <3>3
  <2> QED
    BY <2>1, <2>2, <2>3
<1> QED
  BY <1>3, <1>4

(***************************************************************************)
(* An open or create that fails, for whatever reason, leaves the table,    *)
(* the streams and every existing file as they were, and at most a new,    *)
(* empty file behind.                                                      *)
(***************************************************************************)
THEOREM FailedOpensAreHarmless == Spec => FailedOpenHarmless
<1>1. Init => ClosedEmpty
  BY DEF Init, ClosedEmpty
<1>2. IInv /\ ClosedEmpty /\ [Next]_vars => ClosedEmpty'
  BY ClosedEmptyStep
<1>3. ASSUME IInv, ClosedEmpty, [Next]_vars
      PROVE  \A a \in FcbAddr, n \in FcbName :
               /\ OpenFile(a, n) \/ CreateFile(a, n)
               /\ status' = "running"
               /\ reg_a' = 255
               => /\ UNCHANGED <<fcb_table, stream>>
                  /\ \A f \in HostFile :
                       IF dir[f] # NoInode
                       THEN dir'[f] = dir[f] /\ content'[dir[f]] = content[dir[f]]
                       ELSE dir'[f] # NoInode => content'[dir'[f]] = <<>>
  BY <1>3, FailureHarmless
<1> QED
  BY <1>1, <1>2, <1>3, Invariance, PTL DEF Spec, FailedOpenHarmless
=============================================================================
