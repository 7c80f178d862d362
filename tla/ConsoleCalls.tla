---------------------------- MODULE ConsoleCalls ----------------------------
(***************************************************************************)
(* The console functions of the BDOS emulation: 2 (one character out), 9   *)
(* (a string that '$' ends) and 10 (a line in).  The guest's memory is     *)
(* between the calls the guest's own; the host's standard input is what    *)
(* was typed, taken by fgets in pieces of at most BufSize - 1 characters.  *)
(*                                                                         *)
(* Output walks over the memory one character at a time and looks for      *)
(* nothing but '$': the end of the memory is no end for it.                *)
(***************************************************************************)
EXTENDS Integers, Sequences, SequencesExt

CONSTANTS
  Top,       \* 0x10000
  BufSize,   \* 256: char buffer[256]
  CountMax,  \* 255: the largest count that fits its byte
  Beginning, \* what is in memory and what will be typed: a set of pairs
  Buffers,   \* addresses of the guest's line buffers
  Start,     \* addresses the guest prints from
  OutChar,   \* characters the guest prints one by one
  MaxOut     \* bound: no output begins beyond so many characters

NUL == 0
LF == 10
CR == 13
Dollar == 36

Addr == 0 .. Top - 1

ASSUME SizesAssumption ==
  Top \in Nat /\ BufSize \in Nat /\ BufSize > 1 /\ CountMax \in 0 .. 255
ASSUME BeginningAssumption ==
  Beginning \subseteq [memory : [Addr -> 0 .. 255], typed : Seq(0 .. 255)]
(* Buffers have room: what lies beyond the memory is not the guest's.      *)
ASSUME BuffersAssumption == \A b \in Buffers : b \in Nat /\ b + CountMax < Top
ASSUME StartAssumption == Start \subseteq Addr

VARIABLES
  memory,
  typed,     \* everything that will ever be typed
  stdin,     \* what fgets has not taken yet
  stdout,    \* what was printed
  p,         \* the output pointer: an address, Idle, or Stray
  from,      \* history: where the output began
  before,    \* history: stdout when it began
  given      \* history: the lines as the guest found them in its buffer

vars == <<memory, typed, stdin, stdout, p, from, before, given>>

Idle == -1
Stray == -2

Init ==
  /\ \E b \in Beginning : memory = b.memory /\ typed = b.typed
  /\ stdin = typed
  /\ stdout = <<>> /\ before = <<>>
  /\ p = Idle /\ from = Idle
  /\ given = <<>>

-----------------------------------------------------------------------------
(* bdos_buffered_console_input *)

(* fgets: up to a line feed, which it keeps, or the size of its buffer.    *)
Take(s) ==
  LET nl == SelectInSeq(s, LAMBDA c : c = LF)
      most == IF Len(s) < BufSize - 1 THEN Len(s) ELSE BufSize - 1
  IN  IF nl \in 1 .. most THEN nl ELSE most

(* The characters of a piece that the loop copies.  Mutants: the last one  *)
(* is taken for the line feed; only a line feed ends them.                 *)
Line_short(s) == SubSeq(s, 1, Len(s) - 1)
Line_LF(s) == IF s # <<>> /\ Last(s) = LF THEN Front(s) ELSE s
Line(s) ==
  LET stop == SelectInSeq(s, LAMBDA c : c \in {NUL, CR, LF})
      n == IF stop = 0 THEN Len(s) ELSE stop - 1
  IN  SubSeq(s, 1, IF n < CountMax THEN n ELSE CountMax)

(* The count at the buffer's first byte, the characters behind it.         *)
Stored(buf, line) ==
  [x \in Addr |-> CASE x = buf -> Len(line)
                    [] x \in buf + 1 .. buf + Len(line) -> line[x - buf]
                    [] OTHER -> memory[x]]

(* The line the guest finds at buf. *)
Found(m, buf) == [j \in 1 .. m[buf] |-> m[buf + j]]

BufferedInput(buf) ==
  /\ p = Idle
  /\ LET n == Take(stdin)
     IN  /\ memory' = Stored(buf, Line(SubSeq(stdin, 1, n)))
         /\ stdin' = SubSeq(stdin, n + 1, Len(stdin))
         /\ given' = IF n = 0 THEN given       \* the end: an empty line
                     ELSE Append(given, Found(memory', buf))
  /\ UNCHANGED <<typed, stdout, p, from, before>>

-----------------------------------------------------------------------------
(* putchar(Z80_E) *)
ConsoleOutput(c) ==
  /\ p = Idle
  /\ stdout' = Append(stdout, c)
  /\ UNCHANGED <<memory, typed, stdin, p, from, before, given>>

(* bdos_output_string: its beginning and its loop. *)
OutputString(a) ==
  /\ p = Idle
  /\ p' = a /\ from' = a /\ before' = stdout
  /\ UNCHANGED <<memory, typed, stdin, stdout, given>>

(* Mutants: the '$' is printed too; the first character is printed before  *)
(* any is looked at.                                                       *)
AtEnd_after == p > from /\ memory[p - 1] = Dollar
AtEnd_late == p > from /\ memory[p] = Dollar
AtEnd == memory[p] = Dollar

PutNext ==
  /\ p \in Addr
  /\ ~AtEnd
  /\ stdout' = Append(stdout, memory[p])
  /\ p' = IF p + 1 < Top THEN p + 1 ELSE Stray
  /\ UNCHANGED <<memory, typed, stdin, from, before, given>>

OutputDone ==
  /\ p \in Addr
  /\ AtEnd
  /\ p' = Idle
  /\ UNCHANGED <<memory, typed, stdin, stdout, from, before, given>>

Output == PutNext \/ OutputDone

Next ==
  \/ \E b \in Buffers : BufferedInput(b)
  \/ Len(stdout) < MaxOut /\ \E c \in OutChar : ConsoleOutput(c)
  \/ Len(stdout) < MaxOut /\ \E a \in Start : OutputString(a)
  \/ Output

Spec == Init /\ [][Next]_vars

(* The loop of function 9 goes on until it is done; the calls may stop.    *)
FairSpec == Spec /\ WF_vars(Output)

-----------------------------------------------------------------------------
(* What fgets has taken. *)
Consumed == SubSeq(typed, 1, Len(typed) - Len(stdin))
Plain(s) == \A j \in 1 .. Len(s) : s[j] \notin {NUL, CR}

(***************************************************************************)
(* Nothing that was typed is lost, doubled or moved on its way into the    *)
(* guest's memory, however the lines are cut into pieces by the size of    *)
(* the host's buffer and the largest count: the lines the guest finds add  *)
(* up to what was taken, without the line feeds.                           *)
(***************************************************************************)
WithoutLF(s) ==
  FlattenSeq([j \in DOMAIN s |-> IF s[j] = LF THEN <<>> ELSE <<s[j]>>])
InputConserved ==
  Plain(typed) => FlattenSeq(given) = WithoutLF(Consumed)

(***************************************************************************)
(* Lines that fit the host's buffer arrive one by one, one per call, and   *)
(* without their ends, be these LF or CR LF.                               *)
(***************************************************************************)
SplitLines(s) ==
  FoldLeft(LAMBDA lines, c :
             IF c = LF THEN Append(lines, <<>>)
             ELSE [lines EXCEPT ![Len(lines)] =
                     IF c = CR THEN @ ELSE Append(@, c)],
           << <<>> >>, s)
LinesFit(s) ==
  /\ s # <<>> /\ Last(s) = LF
  /\ \A j \in 1 .. Len(s) :
       /\ s[j] # NUL
       /\ s[j] = CR => s[j + 1] = LF
       /\ \E k \in j .. j + BufSize - 2 : k <= Len(s) /\ s[k] = LF
LineByLine ==
  LinesFit(typed) => given = Front(SplitLines(Consumed))

(***************************************************************************)
(* A string that is printed is all there is from where it starts to the    *)
(* first '$', whatever other bytes are in it, and nothing more.            *)
(***************************************************************************)
Text(first, end) == [j \in 1 .. end - first |-> memory[first + j - 1]]
EndOf(a) == CHOOSE x \in a .. Top - 1 :
              memory[x] = Dollar /\ \A y \in a .. x - 1 : memory[y] # Dollar
OutputExact ==
  [][p' = Idle /\ p # Idle => stdout' = before \o Text(from, EndOf(from))]_vars

(***************************************************************************)
(* Whether an output ever comes back to the guest depends on one thing: a  *)
(* '$' where it begins or behind.  With one it always does, from the last  *)
(* byte of the memory too; without, it always runs out of the memory.      *)
(***************************************************************************)
HasEnd(a) == \E x \in Addr : x >= a /\ memory[x] = Dollar
OutputEnds ==
  p \in Addr ~> p = (IF HasEnd(from) THEN Idle ELSE Stray)
=============================================================================
