------------------------------ MODULE BdosFiles ------------------------------
(***************************************************************************)
(* The file functions of the BDOS emulation in xcpm.c: the table that maps *)
(* the address of a guest's File Control Block (FCB) to a host stream, the *)
(* DMA address, and the calls 15 (open), 16 (close), 19 (delete), 20 (read *)
(* next), 21 (write next), 22 (create), 26 (set DMA) and 33 (random read), *)
(* together with the host files they act on and with the end of the        *)
(* process: exit(), which flushes every stream, or a kill, which does not. *)
(*                                                                         *)
(* The guest program decides which call comes next, with which FCB, file   *)
(* name and random record number; it puts these in its memory before the   *)
(* call, so they are the parameters of the actions.  One action is one     *)
(* whole BDOS call.                                                        *)
(***************************************************************************)
EXTENDS HostStdio

CONSTANTS
  FcbAddr,        \* addresses at which the guest keeps FCBs
  FcbName,        \* names the guest writes into FCBs
  HostFile,       \* host directory entries
  HostName,       \* fcb_to_filename: FcbName -> HostFile
  InitialFile,    \* the files that exist before the start, and their bytes
  DmaAddr,        \* addresses the guest uses for its record buffers
  DefaultDma,     \* 0x80
  GuestRecord,    \* records the guest writes
  MAX_OPEN_FILES, \* slots of fcb_table: 1000 in the code
  Handle,         \* FILE objects the host grants the process
  NoHandle,       \* NULL
  RandomRecord,   \* bound: random record numbers the guest asks for
  MaxFileLen,     \* bound: no write beyond this offset
  SharedFiles,    \* TRUE when the guest may open a file through two FCBs
  RemoveOpenFails,\* TRUE on hosts that refuse to remove an open file
  HostRefuses     \* TRUE on hosts that may refuse any open or removal: a file
                  \* that is read-only, a permission, a lock

VARIABLES
  fcb_table,      \* Slot -> [addr, fp]
  dma_address,
  dma_buf,        \* the guest memory at the DMA addresses
  reg_a,          \* Z80_A (= Z80_L) as the last call left it
  status,         \* of the emulator process
  dir,            \* host directory: HostFile -> Inode or NoInode
  content,        \* Inode -> Seq(Byte)
  stream          \* Handle -> Stream

emuVars == <<fcb_table, dma_address, dma_buf, reg_a>>
hostVars == <<dir, content, stream>>
vars == <<fcb_table, dma_address, dma_buf, reg_a, status,
          dir, content, stream>>

FREE == -1
Slot == 1 .. MAX_OPEN_FILES
Record == {r \in Seq(Byte) : Len(r) = RecordSize}
Padded(d) == [j \in 1 .. RecordSize |-> IF j <= Len(d) THEN d[j] ELSE 0]

ASSUME FcbAddrAssumption == FcbAddr \subseteq Nat   \* a Uint16 is never FREE
ASSUME NamesAssumption == HostName \in [FcbName -> HostFile]
ASSUME InitialFileAssumption ==
  /\ DOMAIN InitialFile \subseteq HostFile
  /\ InitialFile \in [DOMAIN InitialFile -> Seq(Byte)]
ASSUME DmaAssumption == DefaultDma \in DmaAddr
ASSUME GuestRecordAssumption == GuestRecord \subseteq Record
ASSUME TableAssumption == MAX_OPEN_FILES \in Nat
ASSUME HandleAssumption == NoHandle \notin Handle
ASSUME BoundsAssumption == RandomRecord \subseteq Nat /\ MaxFileLen \in Nat
ASSUME GuestAndHostAssumption ==
  SharedFiles \in BOOLEAN /\ RemoveOpenFails \in BOOLEAN /\ HostRefuses \in BOOLEAN

Init ==
  /\ fcb_table = [s \in Slot |-> [addr |-> FREE, fp |-> NoHandle]]
  /\ dma_address = DefaultDma
  /\ dma_buf = [d \in DmaAddr |-> [j \in 1 .. RecordSize |-> 0]]
  /\ reg_a = 255
  /\ status = "running"
  /\ dir \in [HostFile -> Inode \cup {NoInode}]
  /\ \A f \in HostFile : dir[f] # NoInode <=> f \in DOMAIN InitialFile
  /\ \A f, g \in DOMAIN InitialFile : dir[f] = dir[g] => f = g
  /\ content = [i \in Inode |->
                  IF \E f \in HostFile : dir[f] = i
                  THEN InitialFile[CHOOSE f \in HostFile : dir[f] = i]
                  ELSE <<>>]
  /\ stream = [h \in Handle |-> ClosedStream]

-----------------------------------------------------------------------------
(* The table. *)

(* fcb_search: s is the first slot that holds the address a. *)
fcb_search(a, s) ==
  /\ fcb_table[s].addr = a
  /\ \A t \in Slot : t < s => fcb_table[t].addr # a

NotFound(a) == \A s \in Slot : fcb_table[s].addr # a

(* Mutants of fcb_free: the slot stays taken; the stream stays open. *)
TableWithout_keeps(s) == fcb_table
CloseStream_forgets(strm, h) == strm

(* fcb_free on the slot s: the table and the streams after it. *)
TableWithout(s) == [fcb_table EXCEPT ![s].addr = FREE]
CloseStream(strm, h) == [strm EXCEPT ![h] = ClosedStream]

(***************************************************************************)
(* fcb_alloc(a, h) and the rest of bdos_open_file.  The FCB's old stream,  *)
(* if there is one, is closed and its slot used again; otherwise the first *)
(* free slot is taken; with none, the new stream h is closed again.        *)
(* cont and strm are the files and streams after the fopen.                *)
(***************************************************************************)
fcb_alloc(a, h, cont, strm) ==
  \/ \E s \in Slot :
       /\ fcb_search(a, s)
       /\ LET old == fcb_table[s].fp
          IN  \E k \in FlushLengths(strm[old]) :
                /\ content' = [cont EXCEPT
                      ![strm[old].ino] = Flushed(@, strm[old], k)]
                /\ stream' = CloseStream(strm, old)
       /\ fcb_table' = [fcb_table EXCEPT ![s] = [addr |-> a, fp |-> h]]
       /\ reg_a' = 0
  \/ /\ NotFound(a)
     /\ content' = cont
     /\ \/ \E s \in Slot :
             /\ fcb_search(FREE, s)
             /\ fcb_table' = [fcb_table EXCEPT ![s] = [addr |-> a, fp |-> h]]
             /\ stream' = strm
             /\ reg_a' = 0
        \/ /\ NotFound(FREE)
           /\ stream' = CloseStream(strm, h)
           /\ reg_a' = 255
           /\ UNCHANGED fcb_table

Running == status = "running"
ClosedHandles == {h \in Handle : stream[h].mode = "closed"}
InodesInUse == {dir[f] : f \in HostFile} \cup {stream[h].ino : h \in Handle}

(* The guest keeps to one FCB per file, unless SharedFiles. *)
OthersHave(a, i) ==
  \E s \in Slot : /\ fcb_table[s].addr \notin {a, FREE}
                  /\ stream[fcb_table[s].fp].ino = i
MayUse(a, f) == SharedFiles \/ dir[f] = NoInode \/ ~OthersHave(a, dir[f])

-----------------------------------------------------------------------------
(* The BDOS calls. *)

(* Function 15, bdos_open_file(a, 0): the file is opened for update or not *)
(* at all.                                                                 *)
OpenFile(a, n) ==
  LET f == HostName[n]
  IN  /\ Running
      /\ MayUse(a, f)
      /\ \/ /\ dir[f] = NoInode \/ ClosedHandles = {} \/ HostRefuses
            /\ reg_a' = 255
            /\ UNCHANGED <<fcb_table, content, stream>>
         \/ /\ dir[f] # NoInode
            /\ \E h \in ClosedHandles :
                 fcb_alloc(a, h, content, [stream EXCEPT ![h] = Opened(dir[f])])
      /\ UNCHANGED <<dma_address, dma_buf, dir, status>>

(* Mutant: the file is created without a look for an older one. *)
ExistedBefore_never(f) == FALSE
ExistedBefore(f) == dir[f] # NoInode

(* Function 22, bdos_open_file(a, 1): an existing file ends the emulator.  *)
(* A refusal is of both fopens, for nothing of XCPM comes between them;    *)
(* what other processes may do there is in SharedHost.                     *)
CreateFile(a, n) ==
  LET f == HostName[n]
  IN  /\ Running
      /\ MayUse(a, f)
      /\ \/ /\ \/ ClosedHandles = {} \/ HostRefuses
               \/ DiskFull /\ dir[f] = NoInode
            /\ reg_a' = 255
            /\ UNCHANGED <<fcb_table, status, hostVars>>
         \/ /\ ClosedHandles # {}
            /\ ExistedBefore(f)
            /\ status' = "exiting"
            /\ UNCHANGED <<fcb_table, reg_a, hostVars>>
         \/ /\ ~ExistedBefore(f)
            /\ \E h \in ClosedHandles, i \in Inode \ InodesInUse :
                 /\ dir' = [dir EXCEPT ![f] = i]
                 /\ fcb_alloc(a, h, [content EXCEPT ![i] = <<>>],
                              [stream EXCEPT ![h] = Opened(i)])
            /\ UNCHANGED status
      /\ UNCHANGED <<dma_address, dma_buf>>

(* Function 16, bdos_close_file: always reports success. *)
CloseFile(a) ==
  /\ Running
  /\ \/ NotFound(a) /\ UNCHANGED <<fcb_table, content, stream>>
     \/ \E s \in Slot :
          /\ fcb_search(a, s)
          /\ LET h == fcb_table[s].fp
             IN  \E k \in FlushLengths(stream[h]) :
                   /\ content' = [content EXCEPT
                         ![stream[h].ino] = Flushed(@, stream[h], k)]
                   /\ stream' = CloseStream(stream, h)
          /\ fcb_table' = TableWithout(s)
  /\ reg_a' = 0
  /\ UNCHANGED <<dma_address, dma_buf, dir, status>>

(* Function 19, bdos_delete_file: the FCB is freed whatever remove() says. *)
DeleteFile(a, n) ==
  LET f == HostName[n]
      Remove(strm) ==
        \/ /\ dir[f] # NoInode
           /\ dir' = [dir EXCEPT ![f] = NoInode]
           /\ reg_a' = 0
        \/ /\ \/ dir[f] = NoInode
              \/ HostRefuses
              \/ /\ RemoveOpenFails
                 /\ \E h \in Handle : strm[h].ino = dir[f]
           /\ reg_a' = 255
           /\ UNCHANGED dir
  IN  /\ Running
      /\ MayUse(a, f)
      /\ \/ /\ NotFound(a)
            /\ Remove(stream)
            /\ UNCHANGED <<fcb_table, content, stream>>
         \/ \E s \in Slot :
              /\ fcb_search(a, s)
              /\ LET h == fcb_table[s].fp
                     closed == CloseStream(stream, h)
                 IN  /\ \E k \in FlushLengths(stream[h]) :
                          content' = [content EXCEPT
                            ![stream[h].ino] = Flushed(@, stream[h], k)]
                     /\ stream' = closed
                     /\ Remove(closed)
              /\ fcb_table' = TableWithout(s)
      /\ UNCHANGED <<dma_address, dma_buf, status>>

(***************************************************************************)
(* bdos_read_next_record on a stream whose value is st (after the seek of  *)
(* a random read, if any) over the files cont, and the seek back to the    *)
(* offset back that a random read ends with.  A record cut short by the    *)
(* end of the file is filled with zeroes; nothing read at all is the end   *)
(* of the file.                                                            *)
(***************************************************************************)
NoSeek == -1
(* Mutants: the seek back is forgotten; it goes one record too far. *)
SeekBack_none(st, back) == st
SeekBack_far(st, back) ==
  IF back = NoSeek THEN st ELSE Seeked(st, back - RecordSize)
SeekBack(st, back) == IF back = NoSeek THEN st ELSE Seeked(st, back)

Deliver(h, st, cont, back) ==
  LET c == cont[st.ino]
  IN  /\ \E end \in BufferEnds(c, st) :
           stream' = [stream EXCEPT
                        ![h] = SeekBack(AfterRead(c, st, end), back)]
      /\ content' = cont
      /\ IF ReadCount(c, st) = 0
         THEN reg_a' = 1 /\ UNCHANGED dma_buf
         ELSE /\ reg_a' = 0
              /\ dma_buf' = [dma_buf EXCEPT
                               ![dma_address] = Padded(ReadBytes(c, st))]

bdos_read_next_record(h, st, cont, back) ==
  \/ /\ st.mode # "write"
     /\ Deliver(h, st, cont, back)
  \/ /\ st.mode = "write"
     /\ "works" \in SwitchOutcomes
     /\ \E k \in FlushLengths(st) :
          LET flushed == [cont EXCEPT ![st.ino] = Flushed(@, st, k)]
              after == Seeked(st, st.off + k)
          IN  IF FlushOK(st, k)
              THEN Deliver(h, after, flushed, back)
              ELSE /\ reg_a' = 1
                   /\ content' = flushed
                   /\ stream' = [stream EXCEPT ![h] = after]
                   /\ UNCHANGED dma_buf
  \/ /\ st.mode = "write"
     /\ "fails" \in SwitchOutcomes
     /\ reg_a' = 1
     /\ content' = cont
     /\ UNCHANGED <<dma_buf, stream>>

(* Function 20. *)
ReadNext(a) ==
  /\ Running
  /\ \/ NotFound(a) /\ reg_a' = 9 /\ UNCHANGED <<dma_buf, content, stream>>
     \/ \E s \in Slot :
          /\ fcb_search(a, s)
          /\ LET h == fcb_table[s].fp
             IN  bdos_read_next_record(h, stream[h], content, NoSeek)
  /\ UNCHANGED <<fcb_table, dma_address, dir, status>>

(* Mutant: records counted one byte short. *)
RecordOffset_short(r) == r * (RecordSize - 1)
RecordOffset(r) == r * RecordSize

(***************************************************************************)
(* Function 33: seek, read as function 20 does, seek back, so that the     *)
(* next sequential call meets the same record.                             *)
(***************************************************************************)
ReadRandom(a, r) ==
  LET offs == RecordOffset(r)
  IN  /\ Running
      /\ \/ NotFound(a) /\ reg_a' = 9 /\ UNCHANGED <<dma_buf, content, stream>>
         \/ \E s \in Slot :
              /\ fcb_search(a, s)
              /\ LET h == fcb_table[s].fp
                     st == stream[h]
                 IN  \E k \in FlushLengths(st) :
                      LET cont == [content EXCEPT ![st.ino] = Flushed(@, st, k)]
                      IN  IF FlushOK(st, k)
                          THEN bdos_read_next_record(h, Seeked(st, offs), cont,
                                                     offs)
                          ELSE /\ reg_a' = 6
                               /\ content' = cont
                               /\ stream' = [stream EXCEPT
                                    ![h] = Seeked(st, st.off + k)]
                               /\ UNCHANGED dma_buf
      /\ UNCHANGED <<fcb_table, dma_address, dir, status>>

(***************************************************************************)
(* Function 21.  fwrite buffers the record, and may then give the host all *)
(* that is pending.                                                        *)
(***************************************************************************)
WriteNext(a) ==
  LET data == dma_buf[dma_address]
      Accept(h, st) ==
        LET new == AfterWrite(st, data)
        IN  \/ /\ stream' = [stream EXCEPT ![h] = new]
               /\ reg_a' = 0
               /\ UNCHANGED content
            \/ \E k \in FlushLengths(new) :
                 /\ stream' = [stream EXCEPT ![h] = Drained(new, k)]
                 /\ content' = [content EXCEPT ![st.ino] = Flushed(@, new, k)]
                 /\ reg_a' = IF FlushOK(new, k) THEN 0 ELSE 2
      Write(h, st) ==
        /\ st.pos + RecordSize <= MaxFileLen
        /\ \/ /\ st.mode # "read" \/ "works" \in SwitchOutcomes
              /\ Accept(h, st)
           \/ /\ st.mode = "read" /\ "fails" \in SwitchOutcomes
              /\ reg_a' = 2
              /\ UNCHANGED <<content, stream>>
           \/ /\ st.mode = "read" /\ "dropped" \in SwitchOutcomes
              /\ RoomInReadBuffer(st, data)
              /\ stream' = [stream EXCEPT ![h] = AfterDroppedWrite(st, data)]
              /\ reg_a' = 0
              /\ UNCHANGED content
  IN  /\ Running
      /\ \/ NotFound(a) /\ reg_a' = 9 /\ UNCHANGED <<content, stream>>
         \/ \E s \in Slot :
              /\ fcb_search(a, s)
              /\ Write(fcb_table[s].fp, stream[fcb_table[s].fp])
      /\ UNCHANGED <<fcb_table, dma_address, dma_buf, dir, status>>

(* Function 26. *)
SetDma(d) ==
  /\ Running
  /\ dma_address' = d
  /\ UNCHANGED <<fcb_table, dma_buf, reg_a, status, hostVars>>

(* The guest prepares a record in its own memory. *)
GuestFill(d, r) ==
  /\ Running
  /\ dma_buf' = [dma_buf EXCEPT ![d] = r]
  /\ UNCHANGED <<fcb_table, dma_address, reg_a, status, hostVars>>

-----------------------------------------------------------------------------
(* The end of the process. *)

(* Mutant: the process ends without exit()'s flush. *)
Exit_abort ==
  /\ Running
  /\ status' = "exited"
  /\ stream' = [h \in Handle |-> ClosedStream]
  /\ UNCHANGED <<emuVars, dir, content>>

(* cbios_call: a cold start and a warm boot end the emulator, any other    *)
(* BIOS call, or a BDOS call it does not know, is fatal.  The exit code,   *)
(* which tells them apart, is left out.                                    *)
Exit ==
  /\ Running
  /\ status' = "exiting"
  /\ UNCHANGED <<emuVars, hostVars>>

(* exit() flushes and closes the open streams, in an order of its own. *)
ExitClosesStream(h) ==
  /\ status = "exiting"
  /\ stream[h].mode # "closed"
  /\ \E k \in FlushLengths(stream[h]) :
       content' = [content EXCEPT
                     ![stream[h].ino] = Flushed(@, stream[h], k)]
  /\ stream' = CloseStream(stream, h)
  /\ UNCHANGED <<emuVars, status, dir>>

ExitEnds ==
  /\ status = "exiting"
  /\ ClosedHandles = Handle
  /\ status' = "exited"
  /\ UNCHANGED <<emuVars, hostVars>>

(* The process dies without exit(): what the streams hold is lost. *)
Kill ==
  /\ status \in {"running", "exiting"}
  /\ status' = "killed"
  /\ stream' = [h \in Handle |-> ClosedStream]
  /\ UNCHANGED <<emuVars, dir, content>>

BdosCall ==
  \/ \E a \in FcbAddr, n \in FcbName :
       OpenFile(a, n) \/ CreateFile(a, n) \/ DeleteFile(a, n)
  \/ \E a \in FcbAddr : CloseFile(a) \/ ReadNext(a) \/ WriteNext(a)
  \/ \E a \in FcbAddr, r \in RandomRecord : ReadRandom(a, r)
  \/ \E d \in DmaAddr : SetDma(d)

Guest == \E d \in DmaAddr, r \in GuestRecord : GuestFill(d, r)

Ending ==
  \/ Exit
  \/ \E h \in Handle : ExitClosesStream(h)
  \/ ExitEnds

Next == BdosCall \/ Guest \/ Ending \/ Kill

Spec == Init /\ [][Next]_vars

-----------------------------------------------------------------------------
(* Properties. *)

(* The types of the variables. *)
TypeOK ==
  /\ fcb_table \in [Slot -> [addr: FcbAddr \cup {FREE},
                             fp: Handle \cup {NoHandle}]]
  /\ dma_address \in DmaAddr
  /\ dma_buf \in [DmaAddr -> Record]
  /\ reg_a \in {0, 1, 2, 6, 9, 255}
  /\ status \in {"running", "exiting", "exited", "killed"}
  /\ dir \in [HostFile -> Inode \cup {NoInode}]
  /\ content \in [Inode -> Seq(Byte)]
  /\ stream \in [Handle -> Stream]

Live == {s \in Slot : fcb_table[s].addr # FREE}

(***************************************************************************)
(* The table and the open streams agree: an FCB has one slot, a slot has a *)
(* stream of its own that is open, and no open stream is without a slot.   *)
(* fcb_alloc and fcb_free keep this through reopened FCBs, failed opens    *)
(* and a full table; a slip leaks host files or closes one twice.          *)
(***************************************************************************)
SlotsDistinct ==
  \A s, t \in Live :
    s # t => /\ fcb_table[s].addr # fcb_table[t].addr
             /\ fcb_table[s].fp # fcb_table[t].fp

SlotsOpen == \A s \in Live : /\ fcb_table[s].fp \in Handle
                            /\ stream[fcb_table[s].fp].mode # "closed"

NoStreamLeaks ==
  \A h \in Handle :
    stream[h].mode # "closed" => \E s \in Live : fcb_table[s].fp = h

TableSound == Running => SlotsDistinct /\ SlotsOpen /\ NoStreamLeaks

(***************************************************************************)
(* Bytes a write call took are not dropped by a later step: they are in    *)
(* the file or still in the buffer, whatever is opened, reopened, deleted, *)
(* read or exited in between.  Only a kill loses them.                     *)
(***************************************************************************)
Kept(h) ==
  LET old == stream[h]
      new == stream'[h]
  IN  \A j \in 1 .. Len(Pending(old)) :
        \/ /\ old.off + j <= Len(content'[old.ino])
           /\ content'[old.ino][old.off + j] = old.buf[j]
        \/ /\ new.mode = "write"
           /\ new.ino = old.ino
           /\ new.off = old.off
           /\ j <= Len(new.buf)
           /\ new.buf[j] = old.buf[j]

WritesKept == [][status' # "killed" => \A h \in Handle : Kept(h)]_vars

(***************************************************************************)
(* The comment at xcpm.c:344 has a problem in writing reported.  fwrite    *)
(* leaves the problem to the fclose of function 16: a close that loses     *)
(* bytes which a write call took does not answer 0.                        *)
(***************************************************************************)
LostWritesReported ==
  [][\A a \in FcbAddr :
       CloseFile(a) /\ (\E h \in Handle : ~Kept(h)) => reg_a' # 0]_vars

(***************************************************************************)
(* No call replaces or truncates a host file: a directory entry keeps its  *)
(* file until it is removed, and files only grow.  Function 22 ends the    *)
(* emulator rather than to truncate.                                       *)
(***************************************************************************)
FilesNotReplaced ==
  [][\A f \in HostFile :
       dir[f] # NoInode =>
         /\ dir'[f] \in {dir[f], NoInode}
         /\ Len(content'[dir[f]]) >= Len(content[dir[f]])]_vars

(***************************************************************************)
(* An open or create that fails leaves every open FCB, stream and existing *)
(* file as it was, though fcb_alloc runs after the fopen and its stream    *)
(* has to be closed again: all it may leave behind is a new, empty file.   *)
(***************************************************************************)
FailedOpenHarmless ==
  [][\A a \in FcbAddr, n \in FcbName :
       /\ OpenFile(a, n) \/ CreateFile(a, n)
       /\ status' = "running"
       /\ reg_a' = 255
       => /\ UNCHANGED <<fcb_table, stream>>
          /\ \A f \in HostFile :
               IF dir[f] # NoInode
               THEN dir'[f] = dir[f] /\ content'[dir[f]] = content[dir[f]]
               ELSE dir'[f] # NoInode => content'[dir'[f]] = <<>>]_vars

(***************************************************************************)
(* What a stream has read ahead is what the file holds, so that no read    *)
(* delivers stale bytes.  It needs the guest to keep to one FCB per file.  *)
(***************************************************************************)
ReadsCurrent ==
  \A h \in Handle :
    stream[h].mode \in {"idle", "read"} =>
      LET st == stream[h]
          c == content[st.ino]
      IN  \A j \in 1 .. Len(st.buf) :
            st.off + j <= Len(c) /\ st.buf[j] = c[st.off + j]

(* Files made of whole records stay so, and so do the file positions.      *)
RecordAligned ==
  /\ \A h \in Handle : stream[h].pos % RecordSize = 0
  /\ \A i \in Inode : Len(content[i]) % RecordSize = 0
=============================================================================
