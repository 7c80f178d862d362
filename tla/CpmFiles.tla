------------------------------ MODULE CpmFiles ------------------------------
(***************************************************************************)
(* What the file calls of the BDOS promise a guest: files are sequences of *)
(* records, an open FCB is a place in a file, and every call is one step.  *)
(* There are no streams, no buffers and no table here.  What a call wrote  *)
(* is in the file at once for the guest; the host catches up later (sync), *)
(* at the latest when the file is closed or the emulator exits, so that    *)
(* only a kill loses records.                                              *)
(***************************************************************************)
EXTENDS Integers, Sequences, FiniteSets

CONSTANTS
  Record, ZeroRecord,
  FcbAddr, FcbName,
  HostFile, HostName,   \* which file an FCB's name stands for
  InitialRecords,       \* the files at the start: f \in ... |-> Seq(Record)
  DmaAddr, DefaultDma,
  RandomRecord,
  MaxOpen               \* the number of FCBs that can always be open at once

VARIABLES
  data,        \* the files that exist, as the guest sees them
  durable,     \* the same files, as a kill would leave them
  cur,         \* FcbAddr -> Closed or the file and its next record
  dma_address, dma_buf, reg_a, status

vars == <<data, durable, cur, dma_address, dma_buf, reg_a, status>>

Closed == [open |-> FALSE]
At(f, n) == [open |-> TRUE, file |-> f, next |-> n]

Init ==
  /\ data = InitialRecords
  /\ durable = InitialRecords
  /\ cur = [a \in FcbAddr |-> Closed]
  /\ dma_address = DefaultDma
  /\ dma_buf = [d \in DmaAddr |-> ZeroRecord]
  /\ reg_a = 255
  /\ status = "running"

Running == status = "running"
OpenFcbs == {a \in FcbAddr : cur[a].open}
Exists(f) == f \in DOMAIN data

With(files, f, recs) ==
  [g \in DOMAIN files \cup {f} |-> IF g = f THEN recs ELSE files[g]]
Without(files, f) == [g \in DOMAIN files \ {f} |-> files[g]]

(* The record r (from 0) of a file written over; a gap before it is zero.  *)
WithRecord(recs, r, rec) ==
  [n \in 1 .. (IF r + 1 > Len(recs) THEN r + 1 ELSE Len(recs)) |->
     IF n = r + 1 THEN rec ELSE IF n <= Len(recs) THEN recs[n] ELSE ZeroRecord]

(* The host receives the file f, if there is such a file.                  *)
Synced(files, f) == IF Exists(f) THEN With(files, f, data[f]) ELSE files
MustSync(a) ==
  IF cur[a].open THEN Synced(durable, cur[a].file) ELSE durable

Open(a, n) ==
  LET f == HostName[n]
  IN  /\ Running
      /\ \/ /\ Exists(f)
            /\ durable' = MustSync(a)
            /\ cur' = [cur EXCEPT ![a] = At(f, 0)]
            /\ reg_a' = 0
         \/ /\ ~Exists(f) \/ Cardinality(OpenFcbs) >= MaxOpen
            /\ reg_a' = 255
            /\ UNCHANGED <<durable, cur>>
      /\ UNCHANGED <<data, dma_address, dma_buf, status>>

(* The emulator ends rather than to replace a file.                        *)
Create(a, n) ==
  LET f == HostName[n]
  IN  /\ Running
      /\ \/ /\ ~Exists(f)
            /\ data' = With(data, f, <<>>)
            /\ durable' = With(MustSync(a), f, <<>>)
            /\ cur' = [cur EXCEPT ![a] = At(f, 0)]
            /\ reg_a' = 0
            /\ UNCHANGED status
         \/ /\ Exists(f)
            /\ status' = "exiting"
            /\ cur' = [b \in FcbAddr |-> Closed]
            /\ UNCHANGED <<data, durable, reg_a>>
         \/ /\ Cardinality(OpenFcbs) >= MaxOpen
            /\ reg_a' = 255
            /\ \/ UNCHANGED <<data, durable>>
               \/ /\ ~Exists(f)       \* an empty file is left behind
                  /\ data' = With(data, f, <<>>)
                  /\ durable' = With(durable, f, <<>>)
            /\ UNCHANGED <<cur, status>>
      /\ UNCHANGED <<dma_address, dma_buf>>

Close(a) ==
  /\ Running
  /\ durable' = MustSync(a)
  /\ cur' = [cur EXCEPT ![a] = Closed]
  /\ reg_a' = 0
  /\ UNCHANGED <<data, dma_address, dma_buf, status>>

Delete(a, n) ==
  LET f == HostName[n]
  IN  /\ Running
      /\ data' = Without(data, f)
      /\ durable' = Without(MustSync(a), f)
      /\ cur' = [cur EXCEPT ![a] = Closed]
      /\ reg_a' = IF Exists(f) THEN 0 ELSE 255
      /\ UNCHANGED <<dma_address, dma_buf, status>>

(* The record r of the FCB's file, or the end of the file.                 *)
Deliver(a, r) ==
  LET recs == data[cur[a].file]
  IN  IF r < Len(recs)
      THEN /\ reg_a' = 0
           /\ dma_buf' = [dma_buf EXCEPT ![dma_address] = recs[r + 1]]
      ELSE reg_a' = 1 /\ UNCHANGED dma_buf

Read(a) ==
  /\ Running
  /\ \/ /\ ~cur[a].open
        /\ reg_a' = 9
        /\ UNCHANGED <<durable, cur, dma_buf>>
     \/ /\ cur[a].open
        /\ Deliver(a, cur[a].next)
        /\ cur' = [cur EXCEPT ![a].next =
                     IF @ < Len(data[cur[a].file]) THEN @ + 1 ELSE @]
        /\ durable' \in {durable, MustSync(a)}
  /\ UNCHANGED <<data, dma_address, status>>

(* A sequential call after it meets the same record.                       *)
ReadAt(a, r) ==
  /\ Running
  /\ \/ /\ ~cur[a].open
        /\ reg_a' = 9
        /\ UNCHANGED <<durable, cur, dma_buf>>
     \/ /\ cur[a].open
        /\ Deliver(a, r)
        /\ cur' = [cur EXCEPT ![a].next = r]
        /\ durable' \in {durable, MustSync(a)}
  /\ UNCHANGED <<data, dma_address, status>>

Write(a) ==
  /\ Running
  /\ \/ /\ ~cur[a].open
        /\ reg_a' = 9
        /\ UNCHANGED <<data, durable, cur>>
     \/ /\ cur[a].open
        /\ LET f == cur[a].file
               new == WithRecord(data[f], cur[a].next, dma_buf[dma_address])
           IN  /\ data' = [data EXCEPT ![f] = new]
               /\ durable' \in {durable, [durable EXCEPT ![f] = new]}
        /\ cur' = [cur EXCEPT ![a].next = @ + 1]
        /\ reg_a' = 0
  /\ UNCHANGED <<dma_address, dma_buf, status>>

SetDma(d) ==
  /\ Running
  /\ dma_address' = d
  /\ UNCHANGED <<data, durable, cur, dma_buf, reg_a, status>>

GuestFill(d, rec) ==
  /\ Running
  /\ dma_buf' = [dma_buf EXCEPT ![d] = rec]
  /\ UNCHANGED <<data, durable, cur, dma_address, reg_a, status>>

Exit ==
  /\ Running
  /\ status' = "exiting"
  /\ cur' = [a \in FcbAddr |-> Closed]
  /\ UNCHANGED <<data, durable, dma_address, dma_buf, reg_a>>

ExitSyncs(f) ==
  /\ status = "exiting"
  /\ durable' = Synced(durable, f)
  /\ UNCHANGED <<data, cur, dma_address, dma_buf, reg_a, status>>

ExitEnds ==
  /\ status = "exiting"
  /\ durable = data
  /\ status' = "exited"
  /\ UNCHANGED <<data, durable, cur, dma_address, dma_buf, reg_a>>

Kill ==
  /\ status \in {"running", "exiting"}
  /\ status' = "killed"
  /\ data' = durable
  /\ cur' = [a \in FcbAddr |-> Closed]
  /\ UNCHANGED <<durable, dma_address, dma_buf, reg_a>>

Next ==
  \/ \E a \in FcbAddr, n \in FcbName : Open(a, n) \/ Create(a, n) \/ Delete(a, n)
  \/ \E a \in FcbAddr : Close(a) \/ Read(a) \/ Write(a)
  \/ \E a \in FcbAddr, r \in RandomRecord : ReadAt(a, r)
  \/ \E d \in DmaAddr : SetDma(d) \/ \E rec \in Record : GuestFill(d, rec)
  \/ Exit \/ (\E f \in HostFile : ExitSyncs(f)) \/ ExitEnds
  \/ Kill

Spec == Init /\ [][Next]_vars
=============================================================================
