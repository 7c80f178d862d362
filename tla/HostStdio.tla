------------------------------ MODULE HostStdio ------------------------------
(***************************************************************************)
(* The C library's buffered streams, as xcpm.c uses them: fopen, fread,    *)
(* fwrite, fseek and fclose on update streams ("r+b", "w+b").  None of     *)
(* this code is in the repository; every operator is a function on the     *)
(* value of one stream (the FILE object) and of one host file, so that     *)
(* the modules of the emulator keep the state and apply these.             *)
(*                                                                         *)
(* A stream owns one buffer.  In mode "write" the buffer holds bytes that  *)
(* the program has written and the host file has not received yet; in the  *)
(* other modes it is a copy of a stretch of the file, taken at an earlier  *)
(* read.  ISO C leaves a write that directly follows a read undefined (and *)
(* a read that follows a write) unless a seek comes between, or the read   *)
(* met the end of the file; SwitchOutcomes lists what the library of the   *)
(* build may do then.                                                      *)
(***************************************************************************)
EXTENDS Integers, Sequences

CONSTANTS
  Byte,            \* the byte values that the properties tell apart
  Inode,           \* identities of host files
  NoInode,         \* "no file"
  RecordSize,      \* bytes in a CP/M record: 128 in the code
  DiskFull,        \* TRUE when the host may refuse a part of a write
  ReadAhead,       \* TRUE when a read may fetch more than it delivers
  SwitchOutcomes   \* subset of {"works", "fails", "dropped"}

ASSUME ByteAssumption == 0 \in Byte /\ Byte \subseteq 0 .. 255
ASSUME RecordSizeAssumption == RecordSize \in Nat \ {0}
ASSUME NoInodeAssumption == NoInode \notin Inode
ASSUME HostAssumption ==
  /\ DiskFull \in BOOLEAN
  /\ ReadAhead \in BOOLEAN
  /\ SwitchOutcomes \subseteq {"works", "fails", "dropped"}
  /\ SwitchOutcomes # {}

Mode == {"closed", "idle", "read", "write"}

Stream == [ino: Inode \cup {NoInode}, mode: Mode, pos: Nat,
           off: Nat, buf: Seq(Byte)]

ClosedStream ==
  [ino |-> NoInode, mode |-> "closed", pos |-> 0, off |-> 0, buf |-> <<>>]

(***************************************************************************)
(* The bytes d laid over the contents c from offset off on; a gap between  *)
(* the old end and off reads as zeroes.                                    *)
(***************************************************************************)
Overlay(c, off, d) ==
  IF d = <<>> THEN c
  ELSE LET end == off + Len(d)
       IN  [j \in 1 .. (IF end > Len(c) THEN end ELSE Len(c)) |->
              CASE off < j /\ j <= end -> d[j - off]
                [] ~(off < j /\ j <= end) /\ j <= Len(c) -> c[j]
                [] OTHER -> 0]

(* What the stream shows its user of a file whose contents are c. *)
Effective(c, st) == Overlay(c, st.off, st.buf)

(* Bytes accepted by fwrite and not yet given to the host. *)
Pending(st) == IF st.mode = "write" THEN st.buf ELSE <<>>

(* How many of the pending bytes a flush gets through. *)
FlushLengths(st) ==
  IF DiskFull THEN 0 .. Len(Pending(st)) ELSE {Len(Pending(st))}

FlushOK(st, k) == k = Len(Pending(st))

(* The file after the first k pending bytes reached it. *)
Flushed(c, st, k) == Overlay(c, st.off, SubSeq(Pending(st), 1, k))

(* fopen *)
Opened(i) ==
  [ino |-> i, mode |-> "idle", pos |-> 0, off |-> 0, buf |-> <<>>]

(* fseek(SEEK_SET): pending bytes are flushed, a read buffer is kept. *)
Seeked(st, offs) ==
  [st EXCEPT !.mode = "idle", !.pos = offs,
             !.off = IF st.mode = "write" THEN 0 ELSE @,
             !.buf = IF st.mode = "write" THEN <<>> ELSE @]

(* The bytes fread delivers from a stream that is not writing. *)
ReadCount(c, st) ==
  LET left == Len(Effective(c, st)) - st.pos
  IN  CASE left <= 0 -> 0
        [] left \in 1 .. RecordSize -> left
        [] OTHER -> RecordSize

ReadBytes(c, st) ==
  SubSeq(Effective(c, st), st.pos + 1, st.pos + ReadCount(c, st))

(* The ends a read may leave its buffer at: nothing kept, or a fetch to    *)
(* the end of the file.                                                    *)
BufferEnds(c, st) ==
  {st.pos} \cup (IF ReadAhead THEN {Len(Effective(c, st))} ELSE {})

(***************************************************************************)
(* The stream after that fread, its buffer reaching up to end.  A read     *)
(* that met the end of the file may be followed by a write.                *)
(***************************************************************************)
AfterRead(c, st, end) ==
  LET n == ReadCount(c, st)
      kept == IF end > st.pos
              THEN SubSeq(Effective(c, st), st.pos + 1, end) ELSE <<>>
  IN  [st EXCEPT !.mode = IF n < RecordSize THEN "idle" ELSE "read",
                 !.pos = @ + n,
                 !.off = IF kept = <<>> THEN 0 ELSE st.pos,
                 !.buf = kept]

(* The stream after a successful flush in mid-writing. *)
Drained(st, k) == [st EXCEPT !.pos = st.off + k, !.off = st.off + k,
                             !.buf = <<>>]

(* The stream after fwrite buffered the bytes d. *)
AfterWrite(st, d) ==
  [st EXCEPT !.mode = "write", !.pos = @ + Len(d),
             !.off = IF st.mode = "write" THEN @ ELSE st.pos,
             !.buf = IF st.mode = "write" THEN @ \o d ELSE d]

(* A read buffer that fwrite may take for room to write into. *)
RoomInReadBuffer(st, d) ==
  st.off <= st.pos /\ st.pos + Len(d) <= st.off + Len(st.buf)

(* The stream after fwrite put d there: nothing will carry it to the file. *)
AfterDroppedWrite(st, d) ==
  [st EXCEPT !.pos = @ + Len(d), !.buf = Overlay(@, st.pos - st.off, d)]
=============================================================================
