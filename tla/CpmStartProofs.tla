--------------------------- MODULE CpmStartProofs ---------------------------
(***************************************************************************)
(* What a started guest finds, for every layout that LayoutAssumption      *)
(* allows, every program file and every command line: its traps, its       *)
(* program, the names in its FCBs and its command tail.                    *)
(*                                                                         *)
(* The argument is about what overlaps what.  As long as arguments are     *)
(* taken, the first eight bytes and all from LoadAddr on are still as they *)
(* were laid down (a tail that fills its room puts its NUL on a zero), and *)
(* the tail ends in its room: IInv.                                        *)
(* That the tail is the arguments joined needs what it is after each of    *)
(* them: JInv.                                                             *)
(***************************************************************************)
EXTENDS CpmStart, Numbers, SequenceTheorems, TLAPS

(* A C string of n characters at the address a. *)
EndsAt(m, a, n) ==
  /\ a + n \in Addr /\ m[a + n] = 0
  /\ \A y \in a .. a + n - 1 : m[y] # 0

FcbAt(k) == IF k = 1 THEN Fcb1 ELSE Fcb2

(* The bytes of an FCB that names the argument arg. *)
Holds(m, k, arg) ==
  \A j \in 1 .. 1 + NameLen : m[FcbAt(k) + j - 1] = FcbBytes(arg)[j]

Given(k) == IF k <= Len(argv) THEN argv[k] ELSE <<>>

Laying ==
  /\ next \in 1 .. Len(argv) + 1
  /\ \A x \in Addr : x \in 0 .. 7 \/ x >= LoadAddr => memory[x] = TrapMemory[x]
  /\ \E n \in 0 .. MaxTail : EndsAt(memory, TailAddr, n)
  /\ \A k \in 1 .. 2 : Holds(memory, k, IF k < next THEN argv[k] ELSE <<>>)

Standing ==
  /\ \A x \in Addr :
       x \in 0 .. 7 \/ x >= BDOS_ENTRY_ADDR => memory[x] = TrapMemory[x]
  /\ file \in Files
  /\ \A j \in 1 .. Len(file) : memory[LoadAddr + j - 1] = file[j]
  /\ \A k \in 1 .. 2 : Holds(memory, k, Given(k))

IInv ==
  /\ argv \in BoundedSeq(Argument, MaxArgs)
  /\ file \in {Missing} \cup Files
  /\ status \in {"arguments", "started", "refused"}
  /\ status = "arguments" => Laying
  /\ status = "started" => Standing

-----------------------------------------------------------------------------
(* The layout. *)

(* The regions, in their order. *)
LEMMA Layout ==
  /\ Top \in Nat /\ Fcb1 \in Nat /\ Fcb2 \in Nat /\ NameLen \in Nat
  /\ TailLength \in Nat /\ TailAddr \in Nat /\ MaxTail \in Nat
  /\ LoadAddr \in Nat /\ MaxProgram \in Nat /\ MaxArg \in Nat
  /\ BDOS_ENTRY_ADDR \in Nat /\ CBIOS_JUMP_TABLE_ADDR \in Nat
  /\ NameLen > 0
  /\ 8 <= Fcb1 /\ Fcb1 + NameLen < Fcb2 /\ Fcb2 + NameLen < TailLength
  /\ TailAddr = TailLength + 1 /\ LoadAddr = TailAddr + MaxTail
  /\ 0 < MaxProgram /\ LoadAddr + MaxProgram <= BDOS_ENTRY_ADDR
  /\ BDOS_ENTRY_ADDR + 3 <= CBIOS_JUMP_TABLE_ADDR
  /\ CBIOS_JUMP_TABLE_ADDR + 6 <= Top
  /\ LoadAddr + MaxArg + 1 < Top
<1>1. /\ Top \in Nat /\ Fcb1 \in Nat /\ Fcb2 \in Nat
      /\ TailLength \in Nat /\ MaxTail \in Nat
      /\ LoadAddr \in Nat /\ MaxProgram \in Nat
      /\ BDOS_ENTRY_ADDR \in Nat /\ CBIOS_JUMP_TABLE_ADDR \in Nat
  BY LayoutAssumption
<1>2. NameLen \in Nat /\ NameLen > 0 /\ MaxArg \in Nat
  BY LengthsAssumption, MaxArgAssumption DEF NameLen
<1>3. TailAddr \in Nat /\ TailAddr = TailLength + 1
  BY <1>1 DEF TailAddr
<1> QED
  BY <1>1, <1>2, <1>3, LayoutAssumption, ArgumentAssumption

(* Laying bytes down changes the memory there and nowhere else. *)
LEMMA LaidBytes ==
  ASSUME NEW m, NEW a \in Nat, NEW S, NEW d \in Seq(S), NEW x \in Addr
  PROVE  /\ ~(x \in a .. a + Len(d) - 1) => Laid(m, a, d)[x] = m[x]
         /\ x \in a .. a + Len(d) - 1 => Laid(m, a, d)[x] = d[x - a + 1]
  BY DEF Laid

(* A C string is what lies before its NUL. *)
LEMMA StringThere ==
  ASSUME NEW m, NEW a \in Nat, NEW n \in Nat, EndsAt(m, a, n)
  PROVE  StringAt(m, a) = [j \in 1 .. n |-> m[a + j - 1]]
<1> DEFINE Here(x) == m[x] = 0 /\ \A y \in a .. x - 1 : m[y] # 0
           end == CHOOSE x \in a .. Top - 1 : Here(x)
<1>1. Top \in Nat
  BY Layout
<1>2. a + n \in a .. Top - 1 /\ Here(a + n)
  BY <1>1 DEF EndsAt, Addr
<1>3. end \in a .. Top - 1 /\ Here(end)
  <2> HIDE DEF Here
  <2> QED
    BY <1>2
<1> HIDE DEF end
<1>4. end = a + n
  BY <1>1, <1>2, <1>3
<1>5. StringAt(m, a) = [j \in 1 .. end - a |-> m[a + j - 1]]
  BY DEF StringAt, end
<1>6. end - a = n
  BY <1>1, <1>3, <1>4
<1> QED
  BY <1>5, <1>6

(* An FCB's bytes: the drive and the name, which is blank without an       *)
(* argument.                                                               *)
LEMMA FcbBytesThere ==
  /\ \A arg : \E S : FcbBytes(arg) \in Seq(S) /\ Len(FcbBytes(arg)) = 1 + NameLen
  /\ FcbBytes(<<>>)[1] = 0
  /\ \A j \in 2 .. 1 + NameLen : FcbBytes(<<>>)[j] = Blank
<1>0. NameLen \in Nat
  BY Layout
<1>1. ASSUME NEW arg
      PROVE  \E S : /\ write_filename_to_fcb(arg) \in Seq(S) /\ <<0>> \in Seq(S)
                    /\ Len(write_filename_to_fcb(arg)) = NameLen
  <2> DEFINE w == write_filename_to_fcb(arg)
             S == {w[j] : j \in 1 .. NameLen} \cup {0}
  <2>1. w = [j \in 1 .. NameLen |-> w[j]]
    BY DEF write_filename_to_fcb
  <2> HIDE DEF w
  <2>2. w \in [1 .. NameLen -> S]
    BY <2>1
  <2> HIDE DEF S
  <2>3. w \in Seq(S) /\ Len(w) = NameLen
    BY <1>0, <2>2
  <2>4. 0 \in S
    BY DEF S
  <2>5. <<0>> \in Seq(S)
    BY <2>4
  <2> QED
    BY <2>3, <2>5 DEF w
<1>2. ASSUME NEW arg
      PROVE  \E S : FcbBytes(arg) \in Seq(S) /\ Len(FcbBytes(arg)) = 1 + NameLen
  <2>1. PICK S : /\ write_filename_to_fcb(arg) \in Seq(S) /\ <<0>> \in Seq(S)
                 /\ Len(write_filename_to_fcb(arg)) = NameLen
    BY <1>1
  <2> QED
    BY <1>0, <2>1 DEF FcbBytes
<1>3. PICK S : /\ write_filename_to_fcb(<<>>) \in Seq(S) /\ <<0>> \in Seq(S)
               /\ Len(write_filename_to_fcb(<<>>)) = NameLen
  BY <1>1
<1>4. FcbBytes(<<>>)[1] = 0
  BY <1>0, <1>3 DEF FcbBytes
<1>5. ASSUME NEW j \in 2 .. 1 + NameLen
      PROVE  FcbBytes(<<>>)[j] = Blank
  <2>1. j - 1 \in 1 .. NameLen
    BY <1>0
  <2>2. FcbBytes(<<>>)[j] = write_filename_to_fcb(<<>>)[j - 1]
    BY <1>0, <1>3, <2>1 DEF FcbBytes
  <2>3. Before(<<>>) = <<>> /\ After(<<>>) = <<>>
    BY DEF Before, After, Contains
  <2>4. \A i \in Int : i > 0 => PadTo(<<>>, i) = Blank
    BY DEF PadTo
  <2>5. BaseLen \in Nat
    BY LengthsAssumption
  <2>6. CASE j - 1 <= BaseLen
    BY <2>1, <2>2, <2>3, <2>4, <2>6 DEF write_filename_to_fcb
  <2>7. CASE ~(j - 1 <= BaseLen)
    <3>1. j - 1 - BaseLen \in Int /\ j - 1 - BaseLen > 0
      BY <1>0, <2>5, <2>7
    <3>2. write_filename_to_fcb(<<>>)[j - 1] = PadTo(<<>>, j - 1 - BaseLen)
      BY <2>1, <2>3, <2>7 DEF write_filename_to_fcb
    <3> QED
      BY <2>2, <2>4, <3>1, <3>2
  <2> QED
    BY <2>6, <2>7
<1> QED
  BY <1>2, <1>4, <1>5

(* Where the entries of the BIOS and the BDOS are. *)
LEMMA EntriesApart ==
  /\ \A e \in Entries : e \in Nat /\ BDOS_ENTRY_ADDR <= e /\ e + 2 < Top
  /\ \A e, f \in Entries, x \in Int :
       x \in e .. e + 2 /\ x \in f .. f + 2 => e = f
<1> DEFINE n == CBIOS_ENTRIES
<1>1. n \in Int /\ 3 * n <= Top - CBIOS_JUMP_TABLE_ADDR
  BY Layout DEF CBIOS_ENTRIES
<1>2. \A e \in Entries : \/ e = BDOS_ENTRY_ADDR
                         \/ \E k \in 0 .. n - 1 : e = CBIOS_JUMP_TABLE_ADDR + 3 * k
  BY DEF Entries
<1> HIDE DEF n
<1>3. ASSUME NEW e \in Entries
      PROVE  e \in Nat /\ BDOS_ENTRY_ADDR <= e /\ e + 2 < Top
  BY <1>1, <1>2, Layout
<1>4. ASSUME NEW e \in Entries, NEW f \in Entries, NEW x \in Int,
             x \in e .. e + 2, x \in f .. f + 2
      PROVE  e = f
  BY <1>1, <1>2, <1>4, Layout
<1> QED
  BY <1>3, <1>4

(* The memory before the arguments. *)
LEMMA TrapsLaid ==
  /\ \A x \in 0 .. 2 :
       TrapMemory[x] = JumpTo(CBIOS_JUMP_TABLE_ADDR + 3)[x + 1]
  /\ \A x \in 5 .. 7 : TrapMemory[x] = JumpTo(BDOS_ENTRY_ADDR)[x - 4]
  /\ \A k \in 1 .. 2 : Holds(TrapMemory, k, <<>>)
  /\ \A x \in TailLength .. BDOS_ENTRY_ADDR - 1 : TrapMemory[x] = 0
  /\ \A e \in Entries : \A x \in e .. e + 2 :
       x \in Addr /\ TrapMemory[x] = TrapBytes[x - e + 1]
<1> DEFINE First(x) == x \in 0 .. 2
           Second(x) == x \in 5 .. 7
           Third(x) == x \in Fcb1 + 1 .. Fcb1 + NameLen
           Fourth(x) == x \in Fcb2 + 1 .. Fcb2 + NameLen
           Fifth(x) == \E e \in Entries : x \in e .. e + 2
           byte(x) == TrapBytes[x - (CHOOSE e \in Entries : x \in e .. e + 2) + 1]
<1>1. \A x \in Addr : TrapMemory[x] =
        CASE First(x) -> JumpTo(CBIOS_JUMP_TABLE_ADDR + 3)[x + 1]
          [] Second(x) -> JumpTo(BDOS_ENTRY_ADDR)[x - 4]
          [] Third(x) -> Blank
          [] Fourth(x) -> Blank
          [] Fifth(x) -> byte(x)
          [] OTHER -> 0
  BY DEF TrapMemory
<1>2. ASSUME NEW x \in Int, Fifth(x) PROVE x >= BDOS_ENTRY_ADDR
  BY <1>2, EntriesApart, Layout
<1> HIDE DEF Fifth, byte
<1>3. ASSUME NEW x \in Addr
      PROVE  /\ First(x) => TrapMemory[x] = JumpTo(CBIOS_JUMP_TABLE_ADDR + 3)[x + 1]
             /\ Second(x) => TrapMemory[x] = JumpTo(BDOS_ENTRY_ADDR)[x - 4]
             /\ Third(x) \/ Fourth(x) => TrapMemory[x] = Blank
             /\ Fifth(x) => TrapMemory[x] = byte(x)
             /\ ~(First(x) \/ Second(x) \/ Third(x) \/ Fourth(x) \/ Fifth(x))
                  => TrapMemory[x] = 0
  BY <1>1, <1>2, Layout DEF Addr
<1>4. 0 .. BDOS_ENTRY_ADDR - 1 \subseteq Addr
  BY Layout DEF Addr
<1>5. \A x \in 0 .. BDOS_ENTRY_ADDR - 1 : x \in Addr /\ ~Fifth(x)
  BY <1>2, <1>4, Layout
<1>6. \A x \in 0 .. 2 : TrapMemory[x] = JumpTo(CBIOS_JUMP_TABLE_ADDR + 3)[x + 1]
  BY <1>3, <1>4, Layout
<1>7. \A x \in 5 .. 7 : TrapMemory[x] = JumpTo(BDOS_ENTRY_ADDR)[x - 4]
  BY <1>3, <1>4, Layout
<1>8. ASSUME NEW k \in 1 .. 2 PROVE Holds(TrapMemory, k, <<>>)
  <2>1. FcbAt(k) \in {Fcb1, Fcb2}
    BY DEF FcbAt
  <2>2. TrapMemory[FcbAt(k)] = 0
    <3>1. /\ FcbAt(k) \in 0 .. BDOS_ENTRY_ADDR - 1
          /\ ~First(FcbAt(k)) /\ ~Second(FcbAt(k))
          /\ ~Third(FcbAt(k)) /\ ~Fourth(FcbAt(k))
      BY <2>1, Layout
    <3> QED
      BY <1>3, <1>5, <3>1
  <2>3. ASSUME NEW j \in 2 .. 1 + NameLen PROVE TrapMemory[FcbAt(k) + j - 1] = Blank
    <3>1. /\ FcbAt(k) + j - 1 \in 0 .. BDOS_ENTRY_ADDR - 1
          /\ Third(FcbAt(k) + j - 1) \/ Fourth(FcbAt(k) + j - 1)
      BY <2>1, Layout
    <3> QED
      BY <1>3, <1>5, <3>1
  <2>4. FcbAt(k) + 1 - 1 = FcbAt(k)
    BY <2>1, Layout
  <2>5. \A j \in 1 .. 1 + NameLen : j = 1 \/ j \in 2 .. 1 + NameLen
    BY Layout
  <2> QED
    BY <2>2, <2>3, <2>4, <2>5, FcbBytesThere DEF Holds
<1>9. \A x \in TailLength .. BDOS_ENTRY_ADDR - 1 : TrapMemory[x] = 0
  <2>1. \A x \in TailLength .. BDOS_ENTRY_ADDR - 1 :
          /\ x \in 0 .. BDOS_ENTRY_ADDR - 1
          /\ ~First(x) /\ ~Second(x) /\ ~Third(x) /\ ~Fourth(x)
    BY Layout
  <2> QED
    BY <1>3, <1>5, <2>1
<1>10. ASSUME NEW e \in Entries, NEW x \in e .. e + 2
       PROVE  x \in Addr /\ TrapMemory[x] = TrapBytes[x - e + 1]
  <2>1. x \in Addr /\ x \in Int
    BY EntriesApart, Layout DEF Addr
  <2>2. Fifth(x)
    BY DEF Fifth
  <2>3. (CHOOSE f \in Entries : x \in f .. f + 2) = e
    BY <2>1, EntriesApart
  <2> QED
    BY <1>3, <2>1, <2>2, <2>3 DEF byte
<1> QED
  BY <1>6, <1>7, <1>8, <1>9, <1>10

-----------------------------------------------------------------------------
(* The invariant. *)

(* Before the first argument. *)
LEMMA InitSound == Init => IInv
<1> SUFFICES ASSUME Init PROVE IInv
  OBVIOUS
<1>1. /\ argv \in BoundedSeq(Argument, MaxArgs) /\ file \in {Missing} \cup Files
      /\ memory = TrapMemory /\ next = 1 /\ status = "arguments"
  BY DEF Init
<1>2. argv \in Seq(Argument)
  BY <1>1 DEF BoundedSeq, SeqOf
<1>3. next \in 1 .. Len(argv) + 1
  BY <1>1, <1>2
<1>4. EndsAt(memory, TailAddr, 0) /\ 0 \in 0 .. MaxTail
  BY <1>1, TrapsLaid, Layout DEF EndsAt, Addr
<1>5. \A k \in 1 .. 2 : Holds(memory, k, IF k < next THEN argv[k] ELSE <<>>)
  BY <1>1, TrapsLaid
<1>6. Laying
  BY <1>1, <1>3, <1>4, <1>5 DEF Laying
<1> QED
  BY <1>1, <1>6 DEF IInv

(* The arguments, one by one. *)
LEMMA ArgumentType ==
  ASSUME argv \in BoundedSeq(Argument, MaxArgs), NEW k \in 1 .. Len(argv)
  PROVE  /\ argv \in Seq(Argument)
         /\ argv[k] \in Seq(Char \ {0}) /\ Len(argv[k]) \in 0 .. MaxArg
<1>1. argv \in Seq(Argument) /\ argv[k] \in Argument
  BY DEF BoundedSeq, SeqOf
<1> QED
  BY <1>1, Layout DEF Argument, BoundedSeq, SeqOf

(* Naming an FCB after the argument k, for k at most 2. *)
LEMMA FcbWritten ==
  ASSUME NEW m, NEW k \in Nat \ {0}
  PROVE  /\ \A x \in Addr : ~(x \in Fcb1 .. Fcb2 + NameLen)
                              => WithFcb(m, k)[x] = m[x]
         /\ \A i \in 1 .. 2 :
              IF i = k THEN Holds(WithFcb(m, k), i, argv[k])
              ELSE \A arg : Holds(m, i, arg) => Holds(WithFcb(m, k), i, arg)
<1>1. CASE k > 2
  <2>1. k # 1 /\ k # 2 /\ WithFcb(m, k) = m
    BY <1>1 DEF WithFcb
  <2> QED
    BY <2>1
<1>2. CASE k \in 1 .. 2
  <2> DEFINE d == FcbBytes(argv[k])
             a == FcbAt(k)
  <2>1. WithFcb(m, k) = Laid(m, a, d)
    BY <1>2 DEF WithFcb, FcbAt
  <2>2. PICK S : d \in Seq(S) /\ Len(d) = 1 + NameLen
    BY FcbBytesThere
  <2> HIDE DEF d
  <2>3. a \in Nat /\ Fcb1 <= a /\ a + NameLen <= Fcb2 + NameLen
    BY Layout DEF FcbAt
  <2> HIDE DEF a
  <2>4. \A x \in Addr :
          /\ x \in a .. a + NameLen => WithFcb(m, k)[x] = d[x - a + 1]
          /\ ~(x \in a .. a + NameLen) => WithFcb(m, k)[x] = m[x]
    <3>1. a + Len(d) - 1 = a + NameLen
      BY <2>2, <2>3, Layout
    <3> QED
      BY <2>1, <2>2, <2>3, <3>1, LaidBytes
  <2>5. \A x \in Addr : ~(x \in Fcb1 .. Fcb2 + NameLen)
                        => WithFcb(m, k)[x] = m[x]
    BY <2>3, <2>4, Layout DEF Addr
  <2>6. Holds(WithFcb(m, k), k, argv[k])
    <3> SUFFICES ASSUME NEW j \in 1 .. 1 + NameLen
                 PROVE  WithFcb(m, k)[a + j - 1] = d[j]
      BY DEF Holds, d, a
    <3>1. /\ a + j - 1 \in Addr /\ a + j - 1 \in a .. a + NameLen
          /\ (a + j - 1) - a + 1 = j
      BY <2>3, Layout DEF Addr
    <3> QED
      BY <2>4, <3>1
  <2>7. ASSUME NEW i \in 1 .. 2, i # k, NEW arg, Holds(m, i, arg)
        PROVE  Holds(WithFcb(m, k), i, arg)
    <3> SUFFICES ASSUME NEW j \in 1 .. 1 + NameLen
                 PROVE  WithFcb(m, k)[FcbAt(i) + j - 1] = m[FcbAt(i) + j - 1]
      BY <2>7 DEF Holds
    <3>1. /\ FcbAt(i) + j - 1 \in Addr
          /\ ~(FcbAt(i) + j - 1 \in a .. a + NameLen)
      BY <1>2, <2>7, Layout DEF Addr, FcbAt, a
    <3> QED
      BY <2>4, <3>1
  <2> QED
    BY <2>5, <2>6, <2>7
<1> QED
  BY <1>1, <1>2

(* One more argument, parted by a blank from what there is. *)
JoinNext(text, w) == IF text = <<>> THEN w ELSE text \o <<Blank>> \o w

(* Appending an argument to a tail that ended in its room. *)
LEMMA TailWritten ==
  ASSUME NEW m, NEW k \in 1 .. Len(argv), argv \in BoundedSeq(Argument, MaxArgs),
         NEW n \in 0 .. MaxTail, EndsAt(m, TailAddr, n)
  PROVE  \E l \in Nat :
           /\ EndsAt(WithTail(m, k), TailAddr, l)
           /\ \A x \in Addr : ~(x \in TailAddr .. TailAddr + l)
                              => WithTail(m, k)[x] = m[x]
           /\ WithTail(m, k)[TailAddr + l] = 0
           /\ StringAt(WithTail(m, k), TailAddr)
                = JoinNext(StringAt(m, TailAddr), argv[k])
<1> DEFINE old == StringAt(m, TailAddr)
           pre == IF old = <<>> THEN old ELSE old \o <<Blank>>
           d == pre \o argv[k] \o NUL
           S == {m[x] : x \in Addr} \cup Char \cup {0}
<1>1. n \in Nat /\ n <= MaxTail /\ argv[k] \in Seq(Char \ {0})
      /\ Len(argv[k]) \in 0 .. MaxArg
  BY ArgumentType, Layout
<1>2. old = [j \in 1 .. n |-> m[TailAddr + j - 1]]
  BY <1>1, StringThere, Layout
<1>3. old \in Seq(S \ {0}) /\ Len(old) = n
  <2>1. \A j \in 1 .. n : /\ TailAddr + j - 1 \in Addr
                          /\ TailAddr + j - 1 \in TailAddr .. TailAddr + n - 1
    BY <1>1, Layout DEF Addr
  <2>2. \A j \in 1 .. n : m[TailAddr + j - 1] \in S \ {0}
    BY <2>1 DEF EndsAt
  <2> HIDE DEF S
  <2> QED
    BY <1>1, <1>2, <2>2
<1>4. argv[k] \in Seq(S \ {0}) /\ <<Blank>> \in Seq(S \ {0}) /\ NUL \in Seq(S)
  <2>1. Char \ {0} \subseteq S \ {0} /\ Blank \in S \ {0} /\ 0 \in S
    BY CharAssumption DEF Blank
  <2> HIDE DEF S
  <2> QED
    BY <1>1, <2>1 DEF NUL
<1> HIDE DEF old, S
<1>5. pre \in Seq(S \ {0}) /\ Len(pre) \in 0 .. MaxTail + 1
  <2>1. Len(<<Blank>>) = 1
    OBVIOUS
  <2>2. /\ old \o <<Blank>> \in Seq(S \ {0})
        /\ Len(old \o <<Blank>>) = n + 1
    BY <1>1, <1>3, <1>4, <2>1
  <2>3. n + 1 \in 0 .. MaxTail + 1 /\ n \in 0 .. MaxTail + 1
    BY <1>1, Layout
  <2> QED
    BY <1>3, <2>2, <2>3
<1> HIDE DEF pre
<1> DEFINE text == pre \o argv[k]
           l == Len(text)
<1>6. text \in Seq(S \ {0}) /\ l \in 0 .. MaxTail + 1 + MaxArg
  BY <1>1, <1>4, <1>5, Layout
<1> HIDE DEF text
<1>7. /\ d = text \o NUL /\ text \in Seq(S) /\ d \in Seq(S) /\ Len(d) = l + 1
      /\ d[l + 1] = 0
      /\ \A j \in 1 .. l : d[j] = text[j] /\ d[j] # 0
  <2>1. text \in Seq(S)
    BY <1>6
  <2>2. d = text \o NUL
    BY DEF text
  <2>3. NUL[1] = 0 /\ Len(NUL) = 1
    BY DEF NUL
  <2> HIDE DEF d
  <2>4. d \in Seq(S) /\ Len(d) = l + 1 /\ d[l + 1] = NUL[1]
    <3>1. d \in Seq(S) /\ Len(d) = Len(text) + Len(NUL)
      BY <1>4, <2>1, <2>2
    <3>2. \A i \in 1 .. Len(text) + Len(NUL) :
            i > Len(text) => (text \o NUL)[i] = NUL[i - Len(text)]
      BY <1>4, <2>1
    <3>3. l + 1 \in 1 .. Len(text) + Len(NUL) /\ l + 1 > Len(text)
          /\ (l + 1) - Len(text) = 1
      BY <2>1, <2>3
    <3> QED
      BY <2>2, <2>3, <3>1, <3>2, <3>3
  <2>5. ASSUME NEW j \in 1 .. l PROVE d[j] = text[j] /\ d[j] # 0
    <3>1. text[j] \in S \ {0}
      BY <1>6
    <3>2. d[j] = text[j]
      BY <1>4, <2>1, <2>2
    <3> QED
      BY <3>1, <3>2
  <2> QED
    BY <2>1, <2>2, <2>3, <2>4, <2>5
<1>8. WithTail(m, k) = Laid(m, TailAddr, d)
  BY DEF WithTail, pre, old
<1> HIDE DEF d
<1>9. \A x \in Addr :
        /\ x \in TailAddr .. TailAddr + l
             => WithTail(m, k)[x] = d[x - TailAddr + 1]
        /\ ~(x \in TailAddr .. TailAddr + l) => WithTail(m, k)[x] = m[x]
  <2>1. TailAddr + Len(d) - 1 = TailAddr + l
    BY <1>6, <1>7, Layout
  <2> QED
    <3> SUFFICES ASSUME NEW x \in Addr
                 PROVE  /\ x \in TailAddr .. TailAddr + l
                             => WithTail(m, k)[x] = d[x - TailAddr + 1]
                        /\ ~(x \in TailAddr .. TailAddr + l)
                             => WithTail(m, k)[x] = m[x]
      OBVIOUS
    <3>1. TailAddr \in Nat /\ d \in Seq(S)
      BY <1>7, Layout
    <3>2. /\ ~(x \in TailAddr .. TailAddr + Len(d) - 1)
               => Laid(m, TailAddr, d)[x] = m[x]
          /\ x \in TailAddr .. TailAddr + Len(d) - 1
               => Laid(m, TailAddr, d)[x] = d[x - TailAddr + 1]
      BY DEF Laid
    <3> QED
      BY <1>8, <2>1, <3>2
<1>10. l \in Nat /\ TailAddr + l \in Addr
  BY <1>6, Layout DEF Addr
<1>11. WithTail(m, k)[TailAddr + l] = 0
  <2>1. /\ TailAddr + l \in TailAddr .. TailAddr + l
        /\ (TailAddr + l) - TailAddr + 1 = l + 1
    BY <1>10, Layout
  <2> QED
    BY <1>7, <1>9, <1>10, <2>1
<1>12. ASSUME NEW y \in TailAddr .. TailAddr + l - 1
       PROVE  WithTail(m, k)[y] # 0
  <2>1. /\ y \in Addr /\ y \in TailAddr .. TailAddr + l
        /\ y - TailAddr + 1 \in 1 .. l
    BY <1>10, Layout DEF Addr
  <2> QED
    BY <1>7, <1>9, <2>1
<1> HIDE DEF l
<1>13. EndsAt(WithTail(m, k), TailAddr, l)
  BY <1>10, <1>11, <1>12 DEF EndsAt
<1>14. StringAt(WithTail(m, k), TailAddr) = text
  <2>1. StringAt(WithTail(m, k), TailAddr)
          = [j \in 1 .. l |-> WithTail(m, k)[TailAddr + j - 1]]
    BY <1>10, <1>13, StringThere, Layout
  <2>2. ASSUME NEW j \in 1 .. l PROVE WithTail(m, k)[TailAddr + j - 1] = text[j]
    <3>1. /\ TailAddr + j - 1 \in Addr /\ TailAddr + j - 1 \in TailAddr .. TailAddr + l
          /\ (TailAddr + j - 1) - TailAddr + 1 = j
      BY <1>10, Layout DEF Addr
    <3>2. WithTail(m, k)[TailAddr + j - 1] = d[j]
      BY <1>9, <3>1
    <3> QED
      BY <1>7, <3>2
  <2>3. text = [j \in 1 .. l |-> text[j]]
    BY <1>6 DEF l
  <2> QED
    BY <2>1, <2>2, <2>3
<1>15. text = JoinNext(old, argv[k])
  <2>1. CASE old = <<>>
    <3>1. text = <<>> \o argv[k]
      BY <2>1 DEF text, pre
    <3>2. <<>> \o argv[k] = argv[k]
      BY <1>1
    <3> QED
      BY <2>1, <3>1, <3>2 DEF JoinNext
  <2>2. CASE old # <<>>
    BY <2>2 DEF text, pre, JoinNext
  <2> QED
    BY <2>1, <2>2
<1> QED
  BY <1>9, <1>10, <1>11, <1>13, <1>14, <1>15 DEF old

(* Bytes of an FCB lie in it. *)
LEMMA FcbRange ==
  \A k \in 1 .. 2, j \in 1 .. 1 + NameLen :
    FcbAt(k) + j - 1 \in Addr /\ FcbAt(k) + j - 1 \in Fcb1 .. TailLength - 1
  BY Layout DEF FcbAt, Addr

(* An argument that is taken keeps the invariant: if the tail outgrew its  *)
(* room, the emulator ends.                                                *)
LEMMA TakeArgSound == IInv /\ TakeArg => IInv'
<1> SUFFICES ASSUME IInv, TakeArg PROVE IInv'
  OBVIOUS
<1>1. /\ status = "arguments" /\ next <= Len(argv)
      /\ memory' = WithTail(WithFcb(memory, next), next)
      /\ next' = next + 1 /\ UNCHANGED <<argv, file>>
      /\ status' = IF TailTooLong(memory') THEN "refused" ELSE status
  BY DEF TakeArg
<1>2. /\ argv \in BoundedSeq(Argument, MaxArgs) /\ file \in {Missing} \cup Files
      /\ Laying
  BY <1>1 DEF IInv
<1>3. CASE TailTooLong(memory')
  BY <1>1, <1>2, <1>3 DEF IInv
<1>4. CASE ~TailTooLong(memory')
  <2> DEFINE m == WithFcb(memory, next)
  <2>1. next \in 1 .. Len(argv) /\ next \in Nat \ {0} /\ Len(argv) \in Nat
    <3>1. argv \in Seq(Argument)
      BY <1>2 DEF BoundedSeq, SeqOf
    <3> QED
      BY <1>1, <1>2, <3>1 DEF Laying
  <2>2. /\ \A x \in Addr : ~(x \in Fcb1 .. Fcb2 + NameLen) => m[x] = memory[x]
        /\ \A i \in 1 .. 2 :
             IF i = next THEN Holds(m, i, argv[next])
             ELSE \A arg : Holds(memory, i, arg) => Holds(m, i, arg)
    BY <2>1, FcbWritten
  <2> HIDE DEF m
  <2>3. PICK n \in 0 .. MaxTail : EndsAt(memory, TailAddr, n)
    BY <1>2 DEF Laying
  <2>4. EndsAt(m, TailAddr, n)
    <3>1. /\ TailAddr + n \in Addr /\ ~(TailAddr + n \in Fcb1 .. Fcb2 + NameLen)
          /\ \A y \in TailAddr .. TailAddr + n - 1 :
               y \in Addr /\ ~(y \in Fcb1 .. Fcb2 + NameLen)
      BY Layout DEF Addr
    <3> QED
      BY <2>2, <2>3, <3>1 DEF EndsAt
  <2>5. PICK l \in Nat :
          /\ EndsAt(memory', TailAddr, l)
          /\ \A x \in Addr : ~(x \in TailAddr .. TailAddr + l)
                             => memory'[x] = m[x]
          /\ memory'[TailAddr + l] = 0
    <3>1. memory' = WithTail(m, next)
      BY <1>1 DEF m
    <3> QED
      BY <1>2, <2>1, <2>4, <3>1, TailWritten
  <2>6. l <= MaxTail
    <3>1. StringAt(memory', TailAddr) = [j \in 1 .. l |-> memory'[TailAddr + j - 1]]
      BY <2>5, StringThere, Layout
    <3>2. Len(StringAt(memory', TailAddr)) = l
      BY <3>1
    <3> QED
      BY <1>4, <3>2, Layout DEF TailTooLong
  <2>7. ASSUME NEW x \in Addr, x \in 0 .. 7 \/ x >= LoadAddr
        PROVE  memory'[x] = TrapMemory[x]
    <3>1. CASE x = TailAddr + l
      <4>1. x \in TailLength .. BDOS_ENTRY_ADDR - 1
        BY <2>6, <3>1, Layout
      <4> QED
        BY <2>5, <3>1, <4>1, TrapsLaid
    <3>2. CASE x # TailAddr + l
      <4>1. ~(x \in TailAddr .. TailAddr + l) /\ ~(x \in Fcb1 .. Fcb2 + NameLen)
        BY <2>6, <2>7, <3>2, Layout DEF Addr
      <4> QED
        BY <1>2, <2>2, <2>5, <2>7, <4>1 DEF Laying
    <3> QED
      BY <3>1, <3>2
  <2>8. ASSUME NEW k \in 1 .. 2
        PROVE  Holds(memory', k, IF k < next' THEN argv'[k] ELSE <<>>)
    <3>1. ASSUME NEW arg, Holds(m, k, arg) PROVE Holds(memory', k, arg)
      <4>1. \A j \in 1 .. 1 + NameLen :
              ~(FcbAt(k) + j - 1 \in TailAddr .. TailAddr + l)
        BY FcbRange, Layout
      <4> QED
        BY <2>5, <3>1, <4>1, FcbRange DEF Holds
    <3>2. CASE k = next
      <4>1. k < next' /\ argv'[k] = argv[next]
        BY <1>1, <2>1, <3>2
      <4> QED
        BY <2>2, <3>1, <3>2, <4>1
    <3>3. CASE k # next
      <4>1. (k < next') <=> (k < next)
        BY <1>1, <2>1, <3>3
      <4>2. Holds(memory, k, IF k < next THEN argv[k] ELSE <<>>)
        BY <1>2 DEF Laying
      <4>3. Holds(memory', k, IF k < next THEN argv[k] ELSE <<>>)
        BY <2>2, <3>1, <3>3, <4>2
      <4> QED
        BY <1>1, <4>1, <4>3
    <3> QED
      BY <3>2, <3>3
  <2>9. next' \in 1 .. Len(argv') + 1
    BY <1>1, <2>1
  <2>10. \E i \in 0 .. MaxTail : EndsAt(memory', TailAddr, i)
    BY <2>5, <2>6, Layout
  <2>11. Laying'
    <3>1. \A x \in Addr :
            x \in 0 .. 7 \/ x >= LoadAddr => memory'[x] = TrapMemory[x]
      BY <2>7
    <3> QED
      BY <2>8, <2>9, <2>10, <3>1 DEF Laying, Holds, EndsAt
  <2> QED
    BY <1>1, <1>2, <1>4, <2>11 DEF IInv
<1> QED
  BY <1>3, <1>4

(* The program, laid over what is there, keeps the invariant if it fits.   *)
LEMMA LoadSound == IInv /\ Load => IInv'
<1> SUFFICES ASSUME IInv, Load PROVE IInv'
  OBVIOUS
<1>1. /\ status = "arguments" /\ next > Len(argv) /\ UNCHANGED <<argv, file, next>>
      /\ status' \in {"started", "refused"}
      /\ status' = "started" => /\ file # Missing /\ memory' = WithProgram(memory)
                               /\ Fits(Len(Loaded))
  BY DEF Load
<1>2. /\ argv \in BoundedSeq(Argument, MaxArgs) /\ file \in {Missing} \cup Files
      /\ Laying
  BY <1>1 DEF IInv
<1>3. CASE status' = "refused"
  BY <1>1, <1>2, <1>3 DEF IInv
<1>4. CASE status' = "started"
  <2> DEFINE n == Len(file)
  <2>1. file \in Files /\ file \in Seq(0 .. 255) /\ n \in Nat
    BY <1>1, <1>2, <1>4, FileAssumption
  (* All of the file was read: a longer one would not have fitted.         *)
  <2>2. n <= MaxProgram /\ Loaded = file
    <3>1. ReadLimit \in Nat /\ ReadLimit > MaxProgram
      BY Layout DEF ReadLimit
    <3>2. n < ReadLimit => Loaded = file
      BY <2>1 DEF Loaded
    <3>3. ~(n < ReadLimit) => Len(Loaded) = ReadLimit
      BY <2>1, <3>1 DEF Loaded
    <3>4. Len(Loaded) <= MaxProgram
      BY <1>1, <1>4 DEF Fits
    <3>5. n < ReadLimit
      BY <2>1, <3>1, <3>3, <3>4, Layout
    <3> QED
      BY <3>2, <3>4, <3>5
  <2> DEFINE count == <<Len(StringAt(memory, TailAddr))>>
             m == Laid(memory, TailLength, count)
  <2>3. memory' = Laid(m, LoadAddr, file)
    BY <1>1, <1>4, <2>2 DEF WithProgram
  <2>4. \A x \in Addr : x # TailLength => m[x] = memory[x]
    <3>1. TailLength + Len(count) - 1 = TailLength
      BY Layout
    <3> HIDE DEF count
    <3> QED
      BY <3>1, Layout DEF Laid, Addr
  <2> HIDE DEF count, m
  <2>5. \A x \in Addr :
          /\ x \in LoadAddr .. LoadAddr + n - 1
               => memory'[x] = file[x - LoadAddr + 1]
          /\ ~(x \in LoadAddr .. LoadAddr + n - 1) /\ x # TailLength
               => memory'[x] = memory[x]
    BY <2>1, <2>3, <2>4, LaidBytes, Layout
  <2> HIDE DEF n
  <2>6. ASSUME NEW x \in Addr, x \in 0 .. 7 \/ x >= BDOS_ENTRY_ADDR
        PROVE  memory'[x] = TrapMemory[x]
    <3>1. /\ ~(x \in LoadAddr .. LoadAddr + n - 1) /\ x # TailLength
          /\ x \in 0 .. 7 \/ x >= LoadAddr
      BY <2>1, <2>2, <2>6, Layout DEF Addr
    <3> QED
      BY <1>2, <2>5, <3>1 DEF Laying
  <2>7. ASSUME NEW j \in 1 .. n PROVE memory'[LoadAddr + j - 1] = file[j]
    <3>1. /\ LoadAddr + j - 1 \in Addr
          /\ LoadAddr + j - 1 \in LoadAddr .. LoadAddr + n - 1
          /\ (LoadAddr + j - 1) - LoadAddr + 1 = j
      BY <2>1, <2>2, Layout DEF Addr
    <3> QED
      BY <2>5, <3>1
  <2>8. ASSUME NEW k \in 1 .. 2 PROVE Holds(memory', k, Given(k))
    <3>1. argv \in Seq(Argument) /\ Len(argv) \in Nat /\ next = Len(argv) + 1
      <4>1. argv \in Seq(Argument) /\ Len(argv) \in Nat
        BY <1>2 DEF BoundedSeq, SeqOf
      <4> QED
        BY <1>1, <1>2, <4>1 DEF Laying
    <3>2. Holds(memory, k, Given(k))
      <4>1. (k < next) <=> (k <= Len(argv))
        BY <3>1
      <4> QED
        BY <1>2, <4>1 DEF Laying, Given
    <3>3. \A j \in 1 .. 1 + NameLen :
            /\ ~(FcbAt(k) + j - 1 \in LoadAddr .. LoadAddr + n - 1)
            /\ FcbAt(k) + j - 1 # TailLength
      BY <2>1, FcbRange, Layout
    <3> QED
      BY <2>5, <3>2, <3>3, FcbRange DEF Holds
  <2>9. Standing'
    <3>1. \A x \in Addr : x \in 0 .. 7 \/ x >= BDOS_ENTRY_ADDR
                          => memory'[x] = TrapMemory[x]
      BY <2>6
    <3>2. \A k \in 1 .. 2 : Holds(memory', k, Given(k)')
      BY <1>1, <2>8 DEF Given
    <3> QED
      BY <1>1, <2>1, <2>7, <3>1, <3>2 DEF Standing, Holds, n
  <2> QED
    BY <1>1, <1>2, <1>4, <2>9 DEF IInv
<1> QED
  BY <1>1, <1>3, <1>4

(* The invariant holds in every reachable state. *)
THEOREM Invariance == Spec => []IInv
<1>1. Init => IInv
  BY InitSound
<1>2. IInv /\ [Next]_vars => IInv'
  <2> SUFFICES ASSUME IInv, [Next]_vars PROVE IInv'
    OBVIOUS
  <2>1. CASE UNCHANGED vars
    BY <2>1 DEF vars, IInv, Laying, Standing, EndsAt, Holds, Given
  <2> QED
    BY <2>1, TakeArgSound, LoadSound DEF Next
<1> QED
  BY <1>1, <1>2, PTL DEF Spec

(* No program file and no command line spoils an entry of the BIOS or the  *)
(* BDOS, or the jumps at 0 and 5, of a guest that is started.              *)
THEOREM TrapsStand == Spec => []TrapsIntact
<1>1. IInv => TrapsIntact
  <2> SUFFICES ASSUME IInv, Started PROVE TrapsIntact
    BY DEF TrapsIntact
  <2>1. Standing
    BY DEF IInv, Started
  <2>2. ASSUME NEW e \in Entries PROVE Bytes(e, 3) = TrapBytes
    <3>1. \A j \in 1 .. 3 : /\ e + j - 1 \in e .. e + 2
                            /\ (e + j - 1) - e + 1 = j
                            /\ e + j - 1 >= BDOS_ENTRY_ADDR
      BY EntriesApart, Layout
    <3>2. \A j \in 1 .. 3 : memory[e + j - 1] = TrapBytes[j]
      BY <2>1, <3>1, TrapsLaid DEF Standing
    <3> QED
      BY <3>2 DEF Bytes, TrapBytes
  <2>3. 0 .. 7 \subseteq Addr
    BY Layout DEF Addr
  <2>4. Bytes(0, 3) = JumpTo(CBIOS_JUMP_TABLE_ADDR + 3)
    <3>1. \A j \in 1 .. 3 : 0 + j - 1 \in 0 .. 2 /\ (0 + j - 1) + 1 = j
      OBVIOUS
    <3>2. \A j \in 1 .. 3 : memory[0 + j - 1] = JumpTo(CBIOS_JUMP_TABLE_ADDR + 3)[j]
      BY <2>1, <2>3, <3>1, TrapsLaid DEF Standing
    <3> QED
      BY <3>2 DEF Bytes, JumpTo
  <2>5. Bytes(5, 3) = JumpTo(BDOS_ENTRY_ADDR)
    <3>1. \A j \in 1 .. 3 : 5 + j - 1 \in 5 .. 7 /\ (5 + j - 1) - 4 = j
      OBVIOUS
    <3>2. \A j \in 1 .. 3 : memory[5 + j - 1] = JumpTo(BDOS_ENTRY_ADDR)[j]
      BY <2>1, <2>3, <3>1, TrapsLaid DEF Standing
    <3> QED
      BY <3>2 DEF Bytes, JumpTo
  <2> QED
    BY <2>2, <2>4, <2>5 DEF TrapsIntact
<1> QED
  BY <1>1, Invariance, PTL

(* A started guest's program is the whole file. *)
THEOREM ProgramStands == Spec => []ProgramIntact
<1>1. IInv => ProgramIntact
  <2> SUFFICES ASSUME IInv, Started PROVE Bytes(LoadAddr, Len(file)) = file
    BY DEF ProgramIntact
  <2>1. Standing /\ file \in Seq(0 .. 255)
    BY FileAssumption DEF IInv, Started, Standing
  <2>2. file = [j \in 1 .. Len(file) |-> file[j]]
    BY <2>1
  <2>3. \A j \in 1 .. Len(file) : memory[LoadAddr + j - 1] = file[j]
    BY <2>1 DEF Standing
  <2>4. Bytes(LoadAddr, Len(file)) = [j \in 1 .. Len(file) |-> file[j]]
    BY <2>3 DEF Bytes
  <2> QED
    BY <2>2, <2>4
<1> QED
  BY <1>1, Invariance, PTL

(* The FCBs of a started guest name its first two arguments: what is       *)
(* written behind them has not spoilt them.                                *)
THEOREM FcbsStand == Spec => []FcbsNamed
<1>1. IInv => FcbsNamed
  <2> SUFFICES ASSUME IInv, Started, NEW k \in 1 .. 2
               PROVE  Bytes(FcbAt(k), 1 + NameLen) = FcbBytes(Given(k))
    BY DEF FcbsNamed, FcbAt, Given
  <2> DEFINE d == FcbBytes(Given(k))
  <2>1. Holds(memory, k, Given(k))
    BY DEF IInv, Started, Standing
  <2>2. PICK S : d \in Seq(S) /\ Len(d) = 1 + NameLen
    BY FcbBytesThere
  <2> HIDE DEF d
  <2>3. d = [j \in 1 .. 1 + NameLen |-> d[j]]
    BY <2>2
  <2>4. \A j \in 1 .. 1 + NameLen : memory[FcbAt(k) + j - 1] = d[j]
    BY <2>1 DEF Holds, d
  <2>5. Bytes(FcbAt(k), 1 + NameLen) = [j \in 1 .. 1 + NameLen |-> d[j]]
    BY <2>4 DEF Bytes
  <2> QED
    BY <2>3, <2>5 DEF d
<1> QED
  BY <1>1, Invariance, PTL

-----------------------------------------------------------------------------
(* The arguments joined. *)

(* t is what the first k arguments are, joined one after the other. *)
JoinedTo(k, t) ==
  \E g \in [0 .. k -> Seq(Char)] :
    /\ g[0] = <<>> /\ g[k] = t
    /\ \A i \in 1 .. k : g[i] = JoinNext(g[i - 1], argv[i])

LEMMA JoinNextType ==
  ASSUME NEW t \in Seq(Char), NEW w \in Seq(Char)
  PROVE  JoinNext(t, w) \in Seq(Char)
<1>1. <<Blank>> \in Seq(Char)
  BY CharAssumption
<1>2. t \o <<Blank>> \in Seq(Char)
  BY <1>1, ConcatProperties
<1>3. (t \o <<Blank>>) \o w \in Seq(Char)
  BY <1>2, ConcatProperties
<1> QED
  BY <1>3 DEF JoinNext

LEMMA JoinedMore ==
  ASSUME NEW k \in Nat, NEW t, JoinedTo(k, t), argv[k + 1] \in Seq(Char)
  PROVE  JoinedTo(k + 1, JoinNext(t, argv[k + 1]))
<1>1. PICK g \in [0 .. k -> Seq(Char)] :
        /\ g[0] = <<>> /\ g[k] = t
        /\ \A i \in 1 .. k : g[i] = JoinNext(g[i - 1], argv[i])
  BY DEF JoinedTo
<1> DEFINE e == JoinNext(t, argv[k + 1])
           h == [i \in 0 .. k + 1 |-> IF i <= k THEN g[i] ELSE e]
<1>2. e \in Seq(Char)
  <2>1. t \in Seq(Char)
    BY <1>1
  <2> QED
    BY <2>1, JoinNextType
<1> HIDE DEF e
<1>3. h \in [0 .. k + 1 -> Seq(Char)]
  <2>1. \A i \in 0 .. k + 1 : i <= k => i \in 0 .. k
    OBVIOUS
  <2> QED
    BY <1>2, <2>1
<1>4. h[0] = <<>> /\ h[k + 1] = e /\ h[k] = t /\ \A i \in 0 .. k : h[i] = g[i]
  BY <1>1
<1> HIDE DEF h
<1>5. ASSUME NEW i \in 1 .. k + 1 PROVE h[i] = JoinNext(h[i - 1], argv[i])
  <2>1. CASE i = k + 1
    <3>1. i - 1 = k
      BY <2>1
    <3> QED
      BY <1>4, <2>1, <3>1 DEF e
  <2>2. CASE i # k + 1
    <3>1. i \in 1 .. k /\ i \in 0 .. k /\ i - 1 \in 0 .. k
      BY <2>2
    <3> QED
      BY <1>1, <1>4, <3>1
  <2> QED
    BY <2>1, <2>2
<1>6. JoinedTo(k + 1, e)
  BY <1>3, <1>4, <1>5 DEF JoinedTo
<1> QED
  BY <1>6 DEF e

(* The fold joins one word after the other. *)
LEMMA JoinIs ==
  ASSUME NEW s \in Seq(Seq(Char)), NEW g \in [0 .. Len(s) -> Seq(Char)],
         g[0] = <<>>, \A i \in 1 .. Len(s) : g[i] = JoinNext(g[i - 1], s[i])
  PROVE  FoldLeft(LAMBDA text, w :
                    IF text = <<>> THEN w ELSE text \o <<Blank>> \o w, <<>>, s)
           = g[Len(s)]
<1> DEFINE n == Len(s)
           C == Seq(Char)
           base == <<>>
           G == [q \in (1 .. n) \X C |-> JoinNext(q[2], s[q[1]])]
           rhs(f) == [S \in SUBSET (1 .. n) |->
                        IF S = {} THEN base
                        ELSE JoinNext(f[S \ {Max(S)}], s[Max(S)])]
           fold == CHOOSE f : f = rhs(f)
<1>1. /\ n \in Nat /\ base \in C /\ DOMAIN s = 1 .. n
      /\ \A i \in 1 .. n : s[i] \in C
  OBVIOUS
<1>2. FoldLeft(LAMBDA text, w :
                 IF text = <<>> THEN w ELSE text \o <<Blank>> \o w, <<>>, s)
        = fold[1 .. n]
  BY <1>1 DEF FoldLeft, MapThenFoldSet, JoinNext
<1>3. G \in [(1 .. n) \X C -> C]
  <2>1. \A q \in (1 .. n) \X C : JoinNext(q[2], s[q[1]]) \in C
    BY <1>1, JoinNextType
  <2> QED
    BY <2>1
<1>4. \E f : f = rhs(f)
  <2>1. PICK f \in [SUBSET (1 .. n) -> C] : Folding(n, base, G, f)
    <3> HIDE DEF G, base, n, C
    <3> QED
      BY <1>1, <1>3, FoldingExists
  <2>2. f = [S \in SUBSET (1 .. n) |->
               IF S = {} THEN base ELSE G[<<Max(S), f[S \ {Max(S)}]>>]]
    BY <2>1 DEF Folding
  <2>3. ASSUME NEW S \in SUBSET (1 .. n), S # {}
        PROVE  G[<<Max(S), f[S \ {Max(S)}]>>] = JoinNext(f[S \ {Max(S)}], s[Max(S)])
    <3>1. Max(S) \in 1 .. n
      BY <1>1, <2>3, GreatestOf
    <3>2. f[S \ {Max(S)}] \in C
      OBVIOUS
    <3> QED
      BY <3>1, <3>2
  <2> HIDE DEF G, base
  <2>4. f = rhs(f)
    BY <2>2, <2>3
  <2> QED
    BY <2>4
<1>5. fold = rhs(fold)
  <2> HIDE DEF rhs
  <2> QED
    BY <1>4
<1> HIDE DEF fold
<1> DEFINE Agree(k) == fold[1 .. k] = g[k]
           T == {k \in 0 .. n : Agree(k)}
<1>6. 0 \in T
  <2>1. 1 .. 0 = {} /\ {} \in SUBSET (1 .. n)
    OBVIOUS
  <2>2. fold[{}] = base
    BY <1>5, <2>1
  <2>3. Agree(0)
    BY <2>1, <2>2
  <2> HIDE DEF Agree
  <2> QED
    BY <1>1, <2>3
<1>7. ASSUME NEW k \in 0 .. n - 1, k \in T PROVE k + 1 \in T
  <2>1. /\ 1 .. k + 1 \in SUBSET (1 .. n) /\ 1 .. k + 1 # {}
        /\ Max(1 .. k + 1) = k + 1 /\ (1 .. k + 1) \ {k + 1} = 1 .. k
    BY <1>1, GreatestFirst
  <2>2. fold[1 .. k + 1] = JoinNext(fold[1 .. k], s[k + 1])
    <3>1. \A S \in SUBSET (1 .. n) :
            S # {} => fold[S] = JoinNext(fold[S \ {Max(S)}], s[Max(S)])
      <4> HIDE DEF base
      <4> QED
        BY <1>5
    <3> HIDE DEF n
    <3>2. fold[1 .. k + 1] = JoinNext(fold[(1 .. k + 1) \ {k + 1}], s[k + 1])
      BY <2>1, <3>1
    <3> QED
      BY <2>1, <3>2
  <2>3. k + 1 \in 1 .. n /\ (k + 1) - 1 = k
    BY <1>1
  <2>4. g[k + 1] = JoinNext(g[k], s[k + 1])
    BY <2>3
  <2>5. fold[1 .. k + 1] = g[k + 1]
    BY <1>7, <2>2, <2>4
  <2> QED
    BY <2>3, <2>5
<1> HIDE DEF T
<1>8. 0 .. n \subseteq T
  BY <1>1, <1>6, <1>7, Induction
<1>9. n \in T
  BY <1>1, <1>8
<1> QED
  BY <1>2, <1>9 DEF T

(* The empty arguments before the first word leave the text empty.         *)
LEMMA JoinedIs ==
  ASSUME argv \in Seq(Seq(Char)), NEW t, JoinedTo(Len(argv), t)
  PROVE  Joined(argv) = t /\ t \in Seq(Char)
<1> DEFINE N == Len(argv)
           first == {k \in 1 .. N : argv[k] # <<>>}
           from == IF first = {} THEN N + 1
                   ELSE CHOOSE k \in first : \A j \in first : k <= j
           ws == SubSeq(argv, from, N)
           n == N - from + 1
<1>1. N \in Nat /\ \A j \in 1 .. N : argv[j] \in Seq(Char)
  OBVIOUS
<1>2. from \in 1 .. N + 1 /\ \A j \in 1 .. from - 1 : j \in 1 .. N /\ argv[j] = <<>>
  <2>1. first \in SUBSET Nat /\ \A j \in 1 .. N : j \in first <=> argv[j] # <<>>
    BY <1>1
  <2>2. \A j \in first : j \in 1 .. N
    OBVIOUS
  <2> HIDE DEF first, N
  <2>3. CASE first = {}
    BY <1>1, <2>1, <2>3
  <2>4. CASE first # {}
    <3>1. PICK x \in first : \A y \in first : x <= y
      BY <2>1, <2>4, LeastNumber
    <3>2. from \in first /\ \A j \in first : from <= j
      BY <2>4, <3>1
    <3> HIDE DEF from
    <3>3. from \in 1 .. N
      BY <2>2, <3>2
    <3>4. ASSUME NEW j \in 1 .. from - 1 PROVE j \in 1 .. N /\ argv[j] = <<>>
      <4>1. j \in 1 .. N /\ ~(from <= j)
        BY <1>1, <3>3
      <4> QED
        BY <2>1, <3>2, <4>1
    <3> QED
      BY <1>1, <3>3, <3>4
  <2> QED
    BY <2>3, <2>4
<1>3. Words(argv) = ws
  BY DEF Words
<1>4. PICK g \in [0 .. N -> Seq(Char)] :
        /\ g[0] = <<>> /\ g[N] = t
        /\ \A i \in 1 .. N : g[i] = JoinNext(g[i - 1], argv[i])
  BY DEF JoinedTo
<1> HIDE DEF from, N
<1>5. g[from - 1] = <<>>
  <2> DEFINE a == from - 1
             Empty(k) == g[k] = <<>>
             T == {k \in 0 .. a : Empty(k)}
  <2>1. a \in 0 .. N
    BY <1>1, <1>2
  <2>2. 0 \in T
    BY <1>4, <2>1
  <2>3. ASSUME NEW k \in 0 .. a - 1, k \in T PROVE k + 1 \in T
    <3>1. k + 1 \in 1 .. N /\ k + 1 \in 1 .. from - 1 /\ (k + 1) - 1 = k
      BY <1>1, <2>1
    <3>2. g[k + 1] = JoinNext(g[k], argv[k + 1]) /\ argv[k + 1] = <<>>
      BY <1>2, <1>4, <3>1
    <3>3. Empty(k + 1)
      BY <2>3, <3>2 DEF JoinNext
    <3> HIDE DEF Empty
    <3> QED
      BY <2>1, <3>1, <3>3
  <2> HIDE DEF T
  <2>4. a \in Nat
    BY <2>1
  <2>5. 0 .. a \subseteq T
    BY <2>2, <2>3, <2>4, Induction
  <2>6. a \in T
    BY <2>4, <2>5
  <2> QED
    BY <2>6 DEF T
<1>6. /\ n \in 0 .. N /\ from - 1 + n = N
      /\ \A i \in 0 .. n : from - 1 + i \in 0 .. N
      /\ \A i \in 1 .. n : /\ from - 1 + i \in 1 .. N
                           /\ (from - 1 + i) - 1 = from - 1 + (i - 1)
  BY <1>1, <1>2
<1>7. /\ ws \in Seq(Seq(Char)) /\ Len(ws) = n
      /\ \A i \in 1 .. n : ws[i] = argv[from - 1 + i]
  <2>1. from \in Int /\ N \in Int /\ \A i \in from .. N : argv[i] \in Seq(Char)
    BY <1>1, <1>2
  <2>2. /\ ws \in Seq(Seq(Char)) /\ Len(ws) = IF from <= N THEN N - from + 1 ELSE 0
        /\ \A i \in 1 .. N - from + 1 : ws[i] = argv[from + i - 1]
    BY <2>1, SubSeqProperties
  <2> HIDE DEF ws
  <2>3. Len(ws) = n
    BY <1>1, <1>2, <2>2
  <2> HIDE DEF n
  <2>4. ASSUME NEW i \in 1 .. n PROVE ws[i] = argv[from - 1 + i]
    <3>1. i \in 1 .. N - from + 1 /\ from + i - 1 = from - 1 + i
      BY <2>1 DEF n
    <3> QED
      BY <2>2, <3>1
  <2> QED
    BY <2>2, <2>3, <2>4
<1> DEFINE h == [i \in 0 .. n |-> g[from - 1 + i]]
<1>8. /\ h \in [0 .. n -> Seq(Char)]
      /\ \A i \in 0 .. n : h[i] = g[from - 1 + i]
  <2> HIDE DEF n
  <2>1. \A i \in 0 .. n : g[from - 1 + i] \in Seq(Char)
    BY <1>6
  <2> QED
    BY <2>1
<1> HIDE DEF h, ws, n
<1>9. h[0] = <<>> /\ h[n] = t
  <2>1. 0 \in 0 .. n /\ n \in 0 .. n /\ from - 1 + 0 = from - 1
    BY <1>1, <1>2, <1>6
  <2> QED
    BY <1>4, <1>5, <1>6, <1>8, <2>1
<1>10. ASSUME NEW i \in 1 .. n PROVE h[i] = JoinNext(h[i - 1], ws[i])
  <2>1. i \in 0 .. n /\ i - 1 \in 0 .. n
    BY <1>1, <1>6
  <2>2. h[i] = g[from - 1 + i] /\ h[i - 1] = g[from - 1 + (i - 1)]
    BY <1>8, <2>1
  <2>3. g[from - 1 + i] = JoinNext(g[(from - 1 + i) - 1], argv[from - 1 + i])
    BY <1>4, <1>6
  <2> QED
    BY <1>6, <1>7, <2>2, <2>3
<1>11. Joined(argv) = h[n]
  <2>1. Joined(argv) =
          FoldLeft(LAMBDA text, w :
                     IF text = <<>> THEN w ELSE text \o <<Blank>> \o w, <<>>, ws)
    BY <1>3 DEF Joined
  <2> QED
    BY <1>7, <1>8, <1>9, <1>10, <2>1, JoinIs
<1>12. t \in Seq(Char)
  BY <1>1, <1>4
<1> QED
  BY <1>9, <1>11, <1>12

-----------------------------------------------------------------------------
(* As long as arguments are taken the tail is what was taken, joined; the  *)
(* program that is read over the byte behind it leaves it as it is.        *)
JInv ==
  /\ status = "arguments" => JoinedTo(next - 1, StringAt(memory, TailAddr))
  /\ status = "started" =>
       \E t : /\ JoinedTo(Len(argv), t)
              /\ memory[TailLength] = Len(t)
              /\ \A j \in 1 .. Len(t) : memory[TailLength + j] = t[j]

LEMMA TakeArgJoined == IInv /\ JInv /\ TakeArg => JInv'
<1> SUFFICES ASSUME IInv, JInv, TakeArg PROVE JInv'
  OBVIOUS
<1>1. /\ status = "arguments" /\ next <= Len(argv)
      /\ memory' = WithTail(WithFcb(memory, next), next)
      /\ next' = next + 1 /\ UNCHANGED <<argv, file>>
      /\ status' # "started"
  BY DEF TakeArg
<1>2. argv \in BoundedSeq(Argument, MaxArgs) /\ Laying
  BY <1>1 DEF IInv
<1>3. /\ argv \in Seq(Argument) /\ Len(argv) \in Nat
      /\ next \in 1 .. Len(argv) /\ next \in Nat \ {0}
  <2>1. argv \in Seq(Argument)
    BY <1>2 DEF BoundedSeq, SeqOf
  <2> QED
    BY <1>1, <1>2, <2>1 DEF Laying
<1> DEFINE m == WithFcb(memory, next)
           old == StringAt(memory, TailAddr)
<1>4. PICK n \in 0 .. MaxTail : EndsAt(memory, TailAddr, n)
  BY <1>2 DEF Laying
<1>5. \A x \in Addr : ~(x \in Fcb1 .. Fcb2 + NameLen) => m[x] = memory[x]
  BY <1>3, FcbWritten
<1> HIDE DEF m
<1>6. EndsAt(m, TailAddr, n) /\ StringAt(m, TailAddr) = old
  <2>1. /\ TailAddr + n \in Addr /\ ~(TailAddr + n \in Fcb1 .. Fcb2 + NameLen)
        /\ \A y \in TailAddr .. TailAddr + n - 1 :
             y \in Addr /\ ~(y \in Fcb1 .. Fcb2 + NameLen)
    BY Layout DEF Addr
  <2>2. EndsAt(m, TailAddr, n)
    BY <1>4, <1>5, <2>1 DEF EndsAt
  <2>3. \A j \in 1 .. n : m[TailAddr + j - 1] = memory[TailAddr + j - 1]
    <3>1. \A j \in 1 .. n : TailAddr + j - 1 \in TailAddr .. TailAddr + n - 1
      BY Layout
    <3> QED
      BY <1>5, <2>1, <3>1
  <2>4. /\ old = [j \in 1 .. n |-> memory[TailAddr + j - 1]]
        /\ StringAt(m, TailAddr) = [j \in 1 .. n |-> m[TailAddr + j - 1]]
    BY <1>4, <2>2, StringThere, Layout
  <2> QED
    BY <2>2, <2>3, <2>4
<1>7. StringAt(memory', TailAddr) = JoinNext(old, argv[next])
  BY <1>1, <1>2, <1>3, <1>6, TailWritten DEF m
<1>8. JoinedTo(next - 1, old)
  BY <1>1 DEF JInv
<1>9. argv[next] \in Seq(Char)
  <2>1. argv[next] \in Seq(Char \ {0})
    BY <1>2, <1>3, ArgumentType
  <2> QED
    BY <2>1
<1> HIDE DEF old
<1>10. JoinedTo(next, JoinNext(old, argv[next]))
  <2> DEFINE k == next - 1
  <2>1. k \in Nat /\ k + 1 = next
    BY <1>3
  <2>2. JoinedTo(k, old)
    BY <1>8
  <2> HIDE DEF k
  <2> QED
    BY <1>9, <2>1, <2>2, JoinedMore
<1>11. PICK t : t = JoinNext(old, argv[next])
  OBVIOUS
<1>12. PICK k : k = next
  OBVIOUS
<1>13. JoinedTo(k, t)' /\ k = next' - 1 /\ t = StringAt(memory', TailAddr)
  <2>1. JoinedTo(k, t)
    BY <1>10, <1>11, <1>12
  <2>2. JoinedTo(k, t)'
    BY <1>1, <2>1 DEF JoinedTo
  <2> QED
    BY <1>1, <1>3, <1>7, <1>11, <1>12, <2>2
<1>14. JoinedTo(next - 1, StringAt(memory, TailAddr))'
  BY <1>13 DEF JoinedTo, StringAt
<1> QED
  BY <1>1, <1>14 DEF JInv

LEMMA LoadJoined == IInv /\ JInv /\ Load => JInv'
<1> SUFFICES ASSUME IInv, JInv, Load PROVE JInv'
  OBVIOUS
<1>1. /\ status = "arguments" /\ next > Len(argv) /\ UNCHANGED <<argv, file, next>>
      /\ status' \in {"started", "refused"}
      /\ status' = "started" => memory' = WithProgram(memory)
  BY DEF Load
<1>2. CASE status' = "refused"
  BY <1>2 DEF JInv
<1>3. CASE status' = "started"
  <2>1. argv \in BoundedSeq(Argument, MaxArgs) /\ Laying
    BY <1>1 DEF IInv
  <2>2. next - 1 = Len(argv)
    <3>1. argv \in Seq(Argument)
      BY <2>1 DEF BoundedSeq, SeqOf
    <3> QED
      BY <1>1, <2>1, <3>1 DEF Laying
  <2>3. PICK n \in 0 .. MaxTail : EndsAt(memory, TailAddr, n)
    BY <2>1 DEF Laying
  <2> DEFINE t0 == StringAt(memory, TailAddr)
  <2>4. t0 = [j \in 1 .. n |-> memory[TailAddr + j - 1]]
    BY <2>3, StringThere, Layout
  <2>5. PICK t : t = t0
    OBVIOUS
  <2> HIDE DEF t0
  <2>6. Len(t) = n /\ \A j \in 1 .. n : t[j] = memory[TailAddr + j - 1]
    BY <2>4, <2>5
  <2>7. JoinedTo(Len(argv), t)
    BY <1>1, <2>2, <2>5 DEF JInv, t0
  <2> DEFINE m == Laid(memory, TailLength, <<Len(t)>>)
  <2>8. memory' = Laid(m, LoadAddr, Loaded)
    BY <1>1, <1>3, <2>5 DEF WithProgram, t0
  <2>9. m[TailLength] = Len(t) /\ \A x \in Addr : x # TailLength => m[x] = memory[x]
    <3> DEFINE count == <<Len(t)>>
    <3>1. Len(count) = 1 /\ count[1] = Len(t)
      OBVIOUS
    <3> HIDE DEF count
    <3>2. /\ TailLength \in Addr /\ TailLength + Len(count) - 1 = TailLength
          /\ TailLength - TailLength + 1 = 1 /\ TailLength \in TailLength .. TailLength
      BY <3>1, Layout DEF Addr
    <3>3. m = [x \in Addr |-> IF x \in TailLength .. TailLength
                              THEN count[x - TailLength + 1] ELSE memory[x]]
      BY <3>2 DEF Laid, count
    <3>4. m[TailLength] = Len(t)
      BY <3>1, <3>2, <3>3
    <3>5. \A x \in Addr : x # TailLength => ~(x \in TailLength .. TailLength)
      BY Layout DEF Addr
    <3> QED
      BY <3>3, <3>4, <3>5
  <2> HIDE DEF m
  <2>10. \A x \in Addr : x < LoadAddr => memory'[x] = m[x]
    BY <2>8, Layout DEF Laid, Addr
  <2>11. memory'[TailLength] = Len(t)
    <3>1. TailLength \in Addr /\ TailLength < LoadAddr
      BY Layout DEF Addr
    <3> QED
      BY <2>9, <2>10, <3>1
  <2>12. ASSUME NEW j \in 1 .. Len(t) PROVE memory'[TailLength + j] = t[j]
    <3>1. /\ j \in 1 .. n /\ TailLength + j \in Addr /\ TailLength + j < LoadAddr
          /\ TailLength + j # TailLength /\ TailAddr + j - 1 = TailLength + j
      BY <2>6, Layout DEF Addr
    <3> QED
      BY <2>6, <2>9, <2>10, <3>1
  <2>13. JoinedTo(Len(argv), t)'
    BY <1>1, <2>7 DEF JoinedTo
  <2> QED
    BY <1>3, <2>11, <2>12, <2>13 DEF JInv
<1> QED
  BY <1>1, <1>2, <1>3

LEMMA JoinedInvariance == Spec => []JInv
<1>1. ASSUME Init PROVE JInv
  <2>1. next = 1 /\ status = "arguments"
    BY <1>1 DEF Init
  <2>2. EndsAt(memory, TailAddr, 0)
    BY <1>1, TrapsLaid, Layout DEF Init, EndsAt, Addr
  <2>3. StringAt(memory, TailAddr) = [j \in 1 .. 0 |-> memory[TailAddr + j - 1]]
    BY <2>2, StringThere, Layout
  <2>4. StringAt(memory, TailAddr) = <<>>
    BY <2>3
  <2>5. JoinedTo(0, <<>>)
    <3> DEFINE g == [i \in 0 .. 0 |-> <<>>]
    <3>1. /\ g \in [0 .. 0 -> Seq(Char)] /\ g[0] = <<>>
          /\ \A i \in 1 .. 0 : g[i] = JoinNext(g[i - 1], argv[i])
      OBVIOUS
    <3> HIDE DEF g
    <3> QED
      BY <3>1 DEF JoinedTo
  <2> QED
    BY <2>1, <2>4, <2>5 DEF JInv
<1>2. ASSUME IInv, JInv, [Next]_vars PROVE JInv'
  <2>1. CASE UNCHANGED vars
    <3>1. UNCHANGED <<argv, memory, next, status>>
      BY <2>1 DEF vars
    <3>2. \A k, t : JoinedTo(k, t) => JoinedTo(k, t)'
      BY <3>1 DEF JoinedTo
    <3>3. StringAt(memory, TailAddr)' = StringAt(memory, TailAddr)
      BY <3>1 DEF StringAt
    <3>4. JoinedTo(next - 1, StringAt(memory, TailAddr))
            => JoinedTo(next - 1, StringAt(memory, TailAddr))'
      BY <3>1, <3>2, <3>3 DEF JoinedTo
    <3> QED
      BY <1>2, <3>1, <3>2, <3>4 DEF JInv, JoinedTo
  <2> QED
    BY <1>2, <2>1, TakeArgJoined, LoadJoined DEF Next
<1> QED
  BY <1>1, <1>2, Invariance, PTL DEF Spec

(***************************************************************************)
(* cpm_init: a started guest finds its arguments in the command tail,      *)
(* parted by single blanks, and their length before them, for every        *)
(* command line and program file: the program has not cut a full tail.     *)
(***************************************************************************)
THEOREM TailStands == Spec => []TailIsJoined
<1>1. IInv /\ JInv => TailIsJoined
  <2> SUFFICES ASSUME IInv, JInv, Started
               PROVE  Bytes(TailLength, 1 + Len(Joined(argv)))
                        = <<Len(Joined(argv))>> \o Joined(argv)
    BY DEF TailIsJoined
  <2>1. PICK t : /\ JoinedTo(Len(argv), t)
                 /\ memory[TailLength] = Len(t)
                 /\ \A j \in 1 .. Len(t) : memory[TailLength + j] = t[j]
    BY DEF JInv, Started
  <2>2. argv \in Seq(Seq(Char))
    <3>1. argv \in BoundedSeq(Argument, MaxArgs)
      BY DEF IInv
    <3>2. argv \in Seq(Argument)
      BY <3>1 DEF BoundedSeq, SeqOf
    <3>3. \A k \in 1 .. Len(argv) : argv[k] \in Seq(Char)
      <4>1. \A k \in 1 .. Len(argv) : argv[k] \in Seq(Char \ {0})
        BY <3>1, ArgumentType
      <4> QED
        BY <4>1
    <3> QED
      BY <3>2, <3>3
  <2>3. Joined(argv) = t /\ t \in Seq(Char)
    BY <2>1, <2>2, JoinedIs
  <2> DEFINE n == Len(t)
             S == Char \cup {n}
             d == <<n>> \o t
  <2>4. n \in Nat /\ t \in Seq(S) /\ <<n>> \in Seq(S)
    BY <2>3
  <2>5. d \in Seq(S) /\ Len(d) = 1 + n
        /\ \A j \in 1 .. 1 + n : d[j] = IF j <= 1 THEN n ELSE t[j - 1]
    <3> DEFINE e == <<n>>
    <3>1. Len(e) = 1 /\ e[1] = n /\ e \in Seq(S)
      BY <2>4
    <3> HIDE DEF e, n, S
    <3>2. /\ e \o t \in Seq(S) /\ Len(e \o t) = Len(e) + Len(t)
          /\ \A j \in 1 .. Len(e) + Len(t) :
               (e \o t)[j] = IF j <= Len(e) THEN e[j] ELSE t[j - Len(e)]
      BY <2>4, <3>1, ConcatProperties
    <3>3. \A j \in 1 .. 1 + n : j <= 1 => e[j] = n
      BY <3>1
    <3> QED
      BY <3>1, <3>2, <3>3 DEF e, n
  <2>6. ASSUME NEW j \in 1 .. 1 + n PROVE memory[TailLength + j - 1] = d[j]
    <3>1. CASE j = 1
      <4>1. TailLength + j - 1 = TailLength
        BY <3>1, Layout
      <4> QED
        BY <2>1, <2>5, <3>1, <4>1
    <3>2. CASE j # 1
      <4>1. j - 1 \in 1 .. n /\ TailLength + j - 1 = TailLength + (j - 1) /\ ~(j <= 1)
        BY <2>4, <3>2, Layout
      <4> HIDE DEF d
      <4> QED
        BY <2>1, <2>5, <4>1
    <3> QED
      BY <3>1, <3>2
  <2> HIDE DEF d
  <2>7. d = [j \in 1 .. 1 + n |-> d[j]]
    BY <2>5
  <2>8. Bytes(TailLength, 1 + n) = [j \in 1 .. 1 + n |-> d[j]]
    BY <2>6 DEF Bytes
  <2> QED
    BY <2>3, <2>7, <2>8 DEF d
<1> QED
  BY <1>1, Invariance, JoinedInvariance, PTL
=============================================================================
