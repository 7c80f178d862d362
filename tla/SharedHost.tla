------------------------------ MODULE SharedHost ------------------------------
(***************************************************************************)
(* Function 22 beside other processes of the host.  bdos_open_file first   *)
(* looks for an older file with an fopen of its own (xcpm.c:251) and then  *)
(* makes the file with a second, truncating one (xcpm.c:257).  BdosFiles   *)
(* has the two as one step.  Here they are two, and another process may    *)
(* make or remove a file at any moment, also between them.                 *)
(***************************************************************************)
EXTENDS BdosFiles

CONSTANTS
  NoCall,        \* no function 22 is between its two fopens
  OtherContent   \* what other processes put into the files they make

ASSUME SharedHostAssumption ==
  /\ NoCall \notin [addr: FcbAddr, file: HostFile]
  /\ OtherContent \subseteq Seq(Byte)

VARIABLES
  creating,      \* the call between its two fopens, or NoCall
  unseen         \* the files that its first fopen had no chance to open

sharedVars == <<vars, creating, unseen>>

SharedInit == Init /\ creating = NoCall /\ unseen = {}

-----------------------------------------------------------------------------
(* The two steps of function 22. *)

(* fopen(fn, "rb"): a file it opens ends the emulator.  It is not opened   *)
(* when there is none, and when the host refuses.                          *)
CreateTest(a, n) ==
  LET f == HostName[n]
      GoesOn(missed) == /\ creating' = [addr |-> a, file |-> f]
                        /\ unseen' = missed
                        /\ UNCHANGED status
  IN  /\ Running
      /\ creating = NoCall
      /\ MayUse(a, f)
      /\ \/ /\ ExistedBefore(f)
            /\ ClosedHandles # {}
            /\ status' = "exiting"
            /\ UNCHANGED <<creating, unseen>>
         \/ /\ ~ExistedBefore(f)
            /\ GoesOn({})
         \/ /\ ClosedHandles = {} \/ HostRefuses
            /\ GoesOn({dir[f]} \ {NoInode})
      /\ UNCHANGED <<emuVars, hostVars>>

(* The second fopen fails. *)
Refused ==
  /\ \/ ClosedHandles = {} \/ HostRefuses
     \/ DiskFull /\ dir[creating.file] = NoInode
  /\ reg_a' = 255
  /\ UNCHANGED <<fcb_table, hostVars>>

(* fopen(fn, "w+b") and the rest: a file that is there by now is emptied.  *)
CreateOpen ==
  LET a == creating.addr
      f == creating.file
      Allocates(h, i) == fcb_alloc(a, h, [content EXCEPT ![i] = <<>>],
                                   [stream EXCEPT ![h] = Opened(i)])
  IN  /\ Running
      /\ creating # NoCall
      /\ \/ Refused
         \/ \E h \in ClosedHandles :
              \/ /\ dir[f] # NoInode
                 /\ Allocates(h, dir[f])
                 /\ UNCHANGED dir
              \/ /\ dir[f] = NoInode
                 /\ \E i \in Inode \ InodesInUse :
                      /\ dir' = [dir EXCEPT ![f] = i]
                      /\ Allocates(h, i)
      /\ creating' = NoCall
      /\ unseen' = {}
      /\ UNCHANGED <<dma_address, dma_buf, status>>

-----------------------------------------------------------------------------
(* The other processes. *)

OtherMakes(f) ==
  /\ dir[f] = NoInode
  /\ \E i \in Inode \ InodesInUse, c \in OtherContent :
       /\ dir' = [dir EXCEPT ![f] = i]
       /\ content' = [content EXCEPT ![i] = c]
       /\ unseen' = IF creating # NoCall /\ creating.file = f
                    THEN unseen \cup {i} ELSE unseen
  /\ UNCHANGED <<emuVars, status, stream, creating>>

OtherRemoves(f) ==
  /\ dir[f] # NoInode
  /\ dir' = [dir EXCEPT ![f] = NoInode]
  /\ UNCHANGED <<emuVars, status, content, stream, creating, unseen>>

Others == \E f \in HostFile : OtherMakes(f) \/ OtherRemoves(f)

-----------------------------------------------------------------------------
Create ==
  \/ \E a \in FcbAddr, n \in FcbName : CreateTest(a, n)
  \/ CreateOpen

(* Everything else XCPM does, which never falls between the two fopens. *)
OtherCall ==
  /\ creating = NoCall
  /\ \/ \E a \in FcbAddr, n \in FcbName : OpenFile(a, n) \/ DeleteFile(a, n)
     \/ \E a \in FcbAddr : CloseFile(a) \/ ReadNext(a) \/ WriteNext(a)
     \/ \E a \in FcbAddr, r \in RandomRecord : ReadRandom(a, r)
     \/ \E d \in DmaAddr : SetDma(d)
     \/ Guest
     \/ Ending
  /\ UNCHANGED <<creating, unseen>>

SharedKill == Kill /\ creating' = NoCall /\ unseen' = {}

SharedNext == Create \/ OtherCall \/ SharedKill \/ Others

SharedSpec == SharedInit /\ [][SharedNext]_sharedVars

-----------------------------------------------------------------------------
(* Properties. *)

(***************************************************************************)
(* The two steps of function 22 are as good as the one of BdosFiles.  A    *)
(* step of XCPM is one of BdosFiles and shortens no file of the directory, *)
(* whatever others do between the two fopens, with one exception: a create *)
(* empties the file if another process put it there after the look of this *)
(* very call, or if the look was refused.  (The FCB's old stream may write *)
(* into that file once more when it is closed, so that it can end longer.) *)
(***************************************************************************)
Shortens(f) == dir[f] # NoInode /\ Len(content'[dir[f]]) < Len(content[dir[f]])

CreateAsOneStep ==
  [][\/ Others
     \/ \E i \in unseen : content'[i] # content[i]
     \/ [Next]_vars /\ ~\E f \in HostFile : Shortens(f)]_sharedVars
=============================================================================
