-------------------------- MODULE BdosImplementsCpm --------------------------
(***************************************************************************)
(* BdosFiles implements CpmFiles as long as the host keeps its promises    *)
(* (no full disk, switches between reading and writing work), files are    *)
(* made of whole records and the guest keeps to one FCB per file.          *)
(***************************************************************************)
EXTENDS BdosFiles

CONSTANT MaxOpen   \* FCBs that can be open at once: see CpmFiles

ASSUME MaxOpenAssumption == MaxOpen \in Nat

(* The whole records of a host file. *)
RecordsOf(c) ==
  [r \in 1 .. Len(c) \div RecordSize |->
     SubSeq(c, (r - 1) * RecordSize + 1, r * RecordSize)]

Existing == {f \in HostFile : dir[f] # NoInode}

(* The guest sees a file through the stream that has it open. *)
dataBar ==
  [f \in Existing |->
     LET on == {h \in Handle : stream[h].ino = dir[f]}
         c == content[dir[f]]
     IN  RecordsOf(IF on = {} THEN c
                   ELSE LET st == stream[CHOOSE h \in on : TRUE]
                        IN  Overlay(c, st.off, Pending(st)))]

durableBar == [f \in Existing |-> RecordsOf(content[dir[f]])]

Fcb(a) == CHOOSE s \in Slot : fcb_table[s].addr = a

curBar ==
  [a \in FcbAddr |->
     IF Running /\ ~NotFound(a)
     THEN LET st == stream[fcb_table[Fcb(a)].fp]
          IN  [open |-> TRUE,
               file |-> CHOOSE f \in Existing : dir[f] = st.ino,
               next |-> st.pos \div RecordSize]
     ELSE [open |-> FALSE]]

Cpm == INSTANCE CpmFiles WITH
  Record <- GuestRecord,
  ZeroRecord <- Padded(<<>>),
  InitialRecords <- [f \in DOMAIN InitialFile |-> RecordsOf(InitialFile[f])],
  data <- dataBar,
  durable <- durableBar,
  cur <- curBar

(***************************************************************************)
(* Every BDOS call, with its flushes, closings of old streams and searches *)
(* of the table, is one step of the abstract specification or no step.     *)
(***************************************************************************)
ImplementsCpm == Cpm!Spec
=============================================================================
