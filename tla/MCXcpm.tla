------------------------------- MODULE MCXcpm -------------------------------
(***************************************************************************)
(* Xcpm with guests that CP/M users know: a program that copies a file, as *)
(* PIP does, one that types a file, one that looks up records, one that    *)
(* replaces a file, one that updates a record in its place, one that       *)
(* echoes a line; and every short guest that calls a function and ends.    *)
(* Memory is scaled to 256 bytes, a record to 8, a name to 2 + 1           *)
(* characters; the FCBs, the tail and the program touch each other as they *)
(* do at their real addresses.                                             *)
(***************************************************************************)
EXTENDS Xcpm

Buffer == 120                          \* the guest's own record or line buffer
AA == <<65, 46, 65>>                   \* A.A, and so on
BA == <<66, 46, 65>>
ba == <<98, 46, 65>>
MCHostFile == {AA, BA, <<65>>}
COPY ==
  <<\h21, \h0C, \h00, \h11, \h66, \h00,   \* LD HL,Fcb2; LD DE,fcb
    \h01, \h04, \h00, \hED, \hB0,         \* LD BC,4; LDIR
    \h11, \h08, \h00, \h0E, \h0F,         \* LD DE,Fcb1; LD C,15
    \hCD, \h05, \h00, \h3C, \h28, \h21,   \* CALL 5; INC A; JR Z,fail
    \h11, \h66, \h00, \h0E, \h16,         \* LD DE,fcb; LD C,22
    \hCD, \h05, \h00, \h2C, \h28, \h16,   \* CALL 5; INC L; JR Z,fail
    \h11, \h08, \h00, \h0E, \h14,         \* loop: LD DE,Fcb1; LD C,20
    \hCD, \h05, \h00, \hB7, \h20, \h0F,   \* CALL 5; OR A; JR NZ,done
    \h11, \h66, \h00, \h0E, \h15,         \* LD DE,fcb; LD C,21
    \hCD, \h05, \h00, \hB7, \h28, \hEA,   \* CALL 5; OR A; JR Z,loop
    \h1E, \h3F, \h18, \h0A,               \* fail: LD E,'?'; JR say
    \h11, \h66, \h00, \h0E, \h10,         \* done: LD DE,fcb; LD C,16
    \hCD, \h05, \h00, \h1E, \h4B,         \* CALL 5; LD E,'K'
    \h0E, \h02, \hCD, \h05, \h00,         \* say: LD C,2; CALL 5
    \hC3, \h00, \h00,                     \* JP 0
    \h00                                  \* fcb: fcb
  >>

TYPE ==
  <<\h11, \h08, \h00, \h0E, \h0F,         \* LD DE,Fcb1; LD C,15
    \hCD, \h05, \h00, \h3C, \h28, \h1F,   \* CALL 5; INC A; JR Z,end
    \h11, \h08, \h00, \h0E, \h14,         \* next: LD DE,Fcb1; LD C,20
    \hCD, \h05, \h00, \hB7, \h20, \h14,   \* CALL 5; OR A; JR NZ,end
    \h21, \h11, \h00, \h06, \h08,         \* LD HL,0080h; LD B,8
    \hC5, \hE5, \h5E,                     \* char: PUSH BC; PUSH HL; LD E,(HL)
    \h0E, \h02, \hCD, \h05, \h00, \hE1,   \* LD C,2; CALL 5; POP HL
    \hC1, \h23, \h10, \hF3, \h18, \hE1,   \* POP BC; INC HL; DJNZ char; JR next
    \hC3, \h00, \h00                      \* end: JP 0
  >>

PEEK(k) ==
  <<\h11, \h08, \h00, \h0E, \h0F,         \* LD DE,Fcb1; LD C,15
    \hCD, \h05, \h00, \h11, \h78, \h00,   \* CALL 5; LD DE,Buffer
    \h0E, \h1A, \hCD, \h05, \h00,         \* LD C,26; CALL 5
    \h3E, k, \h32, \h0F, \h00,            \* LD A,k; LD (Fcb1+21h),A
    \h11, \h08, \h00, \h0E, \h21,         \* LD DE,Fcb1; LD C,33
    \hCD, \h41, \h00, \h11, \h08, \h00,   \* CALL show; LD DE,Fcb1
    \h0E, \h14, \hCD, \h41, \h00,         \* LD C,20; CALL show
    \hC3, \h00, \h00,                     \* JP 0
    \hCD, \h05, \h00, \hB7, \hC0,         \* show: CALL 5; OR A; RET NZ
    \h3A, \h78, \h00, \h5F, \h0E, \h02,   \* LD A,(Buffer); LD E,A; LD C,2
    \hC3, \h05, \h00                      \* JP 5
  >>

ECHO ==
  <<\h11, \h78, \h00, \h0E, \h0A,         \* LD DE,Buffer; LD C,10
    \hCD, \h05, \h00, \h21, \h78, \h00,   \* CALL 5; LD HL,Buffer
    \h5E, \h16, \h00, \h23, \hE5,         \* LD E,(HL); LD D,0; INC HL; PUSH HL
    \h19, \h36, \h24, \hD1,               \* ADD HL,DE; LD (HL),'$'; POP DE
    \h0E, \h09, \hCD, \h05, \h00,         \* LD C,9; CALL 5
    \hC3, \h00, \h00                      \* JP 0
  >>

REPLACE ==
  <<\h11, \h08, \h00, \h0E, \h13,         \* LD DE,Fcb1; LD C,19
    \hCD, \h05, \h00, \h11, \h08, \h00,   \* CALL 5; LD DE,Fcb1
    \h0E, \h16, \hCD, \h05, \h00, \h3C,   \* LD C,22; CALL 5; INC A
    \h28, \h08, \h11, \h08, \h00,         \* JR Z,end; LD DE,Fcb1
    \h0E, \h15, \hCD, \h05, \h00,         \* LD C,21; CALL 5
    \hC3, \h00, \h00                      \* end: JP 0
  >>

UPDATE(k) ==
  <<\h11, \h08, \h00, \h0E, \h0F,         \* LD DE,Fcb1; LD C,15
    \hCD, \h05, \h00, \h3E, k,            \* CALL 5; LD A,k
    \h32, \h0F, \h00, \h11, \h08, \h00,   \* LD (Fcb1+21h),A; LD DE,Fcb1
    \h0E, \h21, \hCD, \h05, \h00, \hB7,   \* LD C,33; CALL 5; OR A
    \h20, \h0C, \h21, \h11, \h00, \h34,   \* JR NZ,end; LD HL,0080h; INC (HL)
    \h11, \h08, \h00, \h0E, \h15,         \* LD DE,Fcb1; LD C,21
    \hCD, \h05, \h00,                     \* CALL 5
    \hC3, \h00, \h00                      \* end: JP 0
  >>
-----------------------------------------------------------------------------
(* Short guests: a function, its call, an end. *)
Functions ==
  {<<14, 2>>, <<14, 12>>, <<14, 25>>, <<14, 40>>,   \* LD C,2; C,12; C,25; C,40
   <<62, 36, 17, LoadAddr, 0, 14, 9>>,  \* LD A,'$'; LD DE,LoadAddr; LD C,9
   <<17, Fcb1, 0, 14, 15>>,             \* LD DE,Fcb1; LD C,15
   <<17, Fcb1, 0, 14, 22>>}             \* LD DE,Fcb1; LD C,22
Calls == {<<205, 5, 0>>, <<195, 5, 0>>}              \* CALL 5; JP 5
Ends ==
  {<<195, 0, 0>>, <<201>>, <<237, 255>>,            \* JP 0; RET; a trap of its own
   <<195, CBIOS_JUMP_TABLE_ADDR, 0>>,               \* JP to the cold start
   <<195, CBIOS_JUMP_TABLE_ADDR + 6, 0>>,           \* JP to the console status
   <<195, CBIOS_JUMP_TABLE_ADDR + 1, 0>>,           \* JP into a trap
   <<33, 237, 255, 34, CBIOS_JUMP_TABLE_ADDR + 1, 0, \* LD HL,FFEDh; LD (nn),HL:
     195, CBIOS_JUMP_TABLE_ADDR + 1, 0>>}           \* the same on a trap moved there
ShortGuests == {f \o c \o e : f \in Functions, c \in Calls, e \in Ends}

Text(n) == [j \in 1 .. n |-> 96 + j]
Session(tool, args, program, files, line) ==
  [tool |-> tool, argv |-> args, file |-> program,
   dir |-> [f \in DOMAIN files |-> IF f = AA THEN 1 ELSE 2],
   content |-> [i \in Inode |->
                  LET f == IF i = 1 THEN AA ELSE BA
                  IN  IF f \in DOMAIN files THEN files[f] ELSE <<>>],
   typed |-> line]
NoFiles == [f \in {} |-> <<>>]
Source(n) == [f \in {AA} |-> Text(n)]
Both(n) == [f \in {AA, BA} |-> IF f = AA THEN Text(n) ELSE <<122>>]

MCSessions ==
  {Session("copy", <<AA, b>>, COPY, files, <<>>) :
     b \in {BA, ba}, files \in {NoFiles, Both(3)} \cup {Source(n) : n \in {0, 5, 8, 16}}}
  \cup {Session("type", <<AA>>, TYPE, files, <<>>) :
          files \in {NoFiles} \cup {Source(n) : n \in {0, 3, 8, 10}}}
  \cup {Session("peek", <<AA>>, PEEK(k), Source(12), <<>>) : k \in 0 .. 2}
  \cup {Session("echo", <<>>, ECHO, NoFiles, line) :
          line \in {<<>>, <<97, 10>>, <<97, 98>>, <<97, 13, 10, 98>>}}
  \cup {Session("replace", <<AA>>, REPLACE, files, <<>>) :
          files \in {NoFiles, Source(12)}}
  \cup {Session("update", <<AA>>, UPDATE(k), Source(12), <<>>) : k \in 0 .. 2}
  \cup {Session("short", args, g, Source(3), <<>>) :
          g \in ShortGuests, args \in {<<>>, <<AA>>, << <<65, 66>> >>}}
  \cup {Session("refused", args, f, NoFiles, <<>>) :
          args \in {<<>>, <<AA, BA>>}, f \in {Missing, <<>>}}

-----------------------------------------------------------------------------
Started(tool) == session.tool = tool /\ status = "started"
Ended == process = "exited"
OnDisk(f) == content[dir[f]]
Before(f) == session.content[session.dir[f]]
Printed(c) == Contains(stdout, c)

(* As many records as the bytes d need, the last one filled with zeroes.   *)
Records(d) ==
  [j \in 1 .. RecordSize * ((Len(d) + RecordSize - 1) \div RecordSize) |->
     IF j <= Len(d) THEN d[j] ELSE 0]

(* How a copy ends that is not killed. *)
CopyOutcome ==
  CASE BA \in DOMAIN session.dir -> exit = "1" /\ stdout = <<>>
    [] BA \notin DOMAIN session.dir /\ AA \in DOMAIN session.dir ->
         exit = "0" /\ Printed(75)
    [] OTHER -> exit = "0" /\ stdout = <<63>> /\ dir[BA] = NoInode

(* The file d with the record k's first byte one up, if there is one.      *)
Updated(d, k) ==
  IF k * RecordSize >= Len(d) THEN d
  ELSE LET all == Records(d)
       IN  [j \in 1 .. (IF (k + 1) * RecordSize > Len(d) THEN Len(all) ELSE Len(d)) |->
              IF j = k * RecordSize + 1 THEN all[j] + 1 ELSE all[j]]

(***************************************************************************)
(* Files, across the whole emulator.  A copy never touches its source nor  *)
(* a file that was there under the new name.  Once the program has said    *)
(* that it is done, the copy is on disk, whatever happens to the emulator  *)
(* then; and unless it is killed, it says so exactly when there was a      *)
(* source and nothing in the way.  A file that was deleted, created and    *)
(* written but not closed holds its record when the emulator has exited.   *)
(* A record that was looked up by its number, changed and written is the   *)
(* one that changes, and no other; a kill leaves the old or the new file.  *)
(***************************************************************************)
FilesExact ==
  /\ Started("copy") =>
       /\ \A f \in DOMAIN session.dir :
            dir[f] = session.dir[f] /\ OnDisk(f) = Before(f)
       /\ Printed(75) => OnDisk(BA) = Records(Before(AA))
       /\ Ended => CopyOutcome
  /\ Started("update") =>
       LET new == Updated(Before(AA), session.file[10])  \* LD A,k
       IN  OnDisk(AA) = new \/ (~Ended /\ OnDisk(AA) = Before(AA))
  /\ Started("replace") /\ Ended =>
       dir[AA] # NoInode /\ OnDisk(AA) = <<3>> \o AA \o <<0, 0, 0, 0>>

(***************************************************************************)
(* Reading.  What is typed is the file, record by record, the last one     *)
(* filled with zeroes.  A record that is looked up by its number comes     *)
(* where the guest wants it, not over its command tail; the sequential     *)
(* read that follows finds the same record again.                          *)
(***************************************************************************)
TypeExact ==
  /\ Started("type") =>
       LET all == IF AA \in DOMAIN session.dir THEN Records(Before(AA)) ELSE <<>>
       IN  IsPrefix(stdout, all) /\ (Ended => stdout = all)
  /\ Started("peek") =>
       LET k == session.file[18]                     \* LD A,k
           all == Records(Before(AA))
           found == IF k * RecordSize < Len(all)
                    THEN LET c == all[k * RecordSize + 1] IN <<c, c>> ELSE <<>>
       IN  /\ IsPrefix(stdout, found) /\ (Ended => stdout = found)
           /\ Bytes(memory, TailLength, 1 + Len(AA)) = <<Len(AA)>> \o AA

(***************************************************************************)
(* A line that is typed and printed again comes out without its end,       *)
(* through the guest's memory and '$', whatever ends it.                   *)
(***************************************************************************)
EchoExact ==
  Started("echo") =>
    LET stop == SelectInSeq(session.typed, LAMBDA c : c \in {10, 13})
        line == IF stop = 0 THEN session.typed
                ELSE SubSeq(session.typed, 1, stop - 1)
    IN  IsPrefix(stdout, line) /\ (Ended => stdout = line)
=============================================================================
