------------------------------ MODULE Z80Instr ------------------------------
(***************************************************************************)
(* The Z80's control as its programmer knows it: an instruction, prefixes  *)
(* and all, is one step; HALT waits behind itself; interrupts come between *)
(* instructions, not right after EI, and return to the instruction that    *)
(* would have been next.                                                   *)
(***************************************************************************)
EXTENDS Integers, Sequences

CONSTANTS Top, RST38, NMI66, VectorIM2, BCTop, MaxStack

VARIABLES mem, pc, bc, stack, iff1, iff2, im, pv,
          shadow,    \* the last instruction was EI
          ldai,      \* the last instruction was LD A,I
          waiting    \* in HALT

vars == <<mem, pc, bc, stack, iff1, iff2, im, pv, shadow, ldai, waiting>>

Addr == 0 .. Top - 1
At(n) == mem[(pc + n) % Top]
Past(n) == (pc + n) % Top

(* n index prefixes (DD, FD) begin the instruction at pc. *)
Indexed(n) ==
  /\ \A k \in 0 .. n - 1 : At(k) \in {221, 253}
  /\ At(n) \notin {221, 253}

Go(n) == pc' = Past(n)

Init ==
  /\ pc = 0 /\ bc = BCTop - 1 /\ stack = <<>>
  /\ iff1 = FALSE /\ iff2 = FALSE /\ im = 0 /\ pv = TRUE
  /\ shadow = FALSE /\ ldai = FALSE /\ waiting = FALSE

Calm == shadow' = FALSE /\ ldai' = FALSE

(* Values from registers that are left out. *)
Data(loadsBC, setsPV) ==
  /\ bc' \in IF loadsBC THEN 0 .. BCTop - 1 ELSE {bc}
  /\ pv' \in IF setsPV THEN BOOLEAN ELSE {pv}

(* CB instructions, and all others without an effect on control. *)
Plain(n) ==
  /\ \/ /\ At(n) = 203
        /\ Go(IF n = 0 THEN 2 ELSE n + 3)
        /\ LET op == At(IF n = 0 THEN 1 ELSE n + 2)
           IN  Data(op \in {0, 176, 201}, op < 128)
     \/ /\ At(n) \notin {118, 201, 203, 237, 243, 251, 255}
        /\ Go(IF n > 0 /\ At(n) \in {70, 86, 94} THEN n + 2 ELSE n + 1)
        /\ Data(At(n) \in {69, 70, 77}, At(n) = 176)
     \/ /\ At(n) = 237 /\ At(n + 1) \notin {69, 70, 77, 86, 87, 94, 118, 176}
        /\ Go(n + 2)
        /\ UNCHANGED <<bc, pv>>
  /\ UNCHANGED <<stack, iff1, iff2, im, waiting>>
  /\ Calm

HALT(n) ==
  /\ At(n) = 118
  /\ Go(n + 1)
  /\ waiting' = TRUE
  /\ UNCHANGED <<bc, stack, iff1, iff2, im, pv>>
  /\ Calm

EI(n) ==
  /\ At(n) = 251
  /\ Go(n + 1)
  /\ iff1' = TRUE /\ iff2' = TRUE
  /\ shadow' = TRUE /\ ldai' = FALSE
  /\ UNCHANGED <<bc, stack, im, pv, waiting>>

DI(n) ==
  /\ At(n) = 243
  /\ Go(n + 1)
  /\ iff1' = FALSE /\ iff2' = FALSE
  /\ UNCHANGED <<bc, stack, im, pv, waiting>>
  /\ Calm

(* The MaxStack words pushed last are known; a return beyond them may go   *)
(* anywhere.                                                               *)
Pushed(w) == SubSeq(<<w>> \o stack, 1,
                    IF Len(stack) < MaxStack THEN Len(stack) + 1 ELSE MaxStack)
Return ==
  \/ stack # <<>> /\ pc' = Head(stack) /\ stack' = Tail(stack)
  \/ stack = <<>> /\ pc' \in Addr /\ UNCHANGED stack

RET(n) ==
  /\ At(n) = 201
  /\ Return
  /\ UNCHANGED <<bc, iff1, iff2, im, pv, waiting>>
  /\ Calm

RETN(n) ==
  /\ At(n) = 237 /\ At(n + 1) \in {69, 77}
  /\ Return
  /\ iff1' = iff2
  /\ UNCHANGED <<bc, iff2, im, pv, waiting>>
  /\ Calm

RST(n) ==
  /\ At(n) = 255
  /\ stack' = Pushed(Past(n + 1))
  /\ pc' = RST38
  /\ UNCHANGED <<bc, iff1, iff2, im, pv, waiting>>
  /\ Calm

LD_A_I(n) ==
  /\ At(n) = 237 /\ At(n + 1) = 87
  /\ Go(n + 2)
  /\ pv' = iff2
  /\ shadow' = FALSE /\ ldai' = TRUE
  /\ UNCHANGED <<bc, stack, iff1, iff2, im, waiting>>

SetIM(n, m) ==
  /\ At(n) = 237
  /\ At(n + 1) \in CASE m = 0 -> {70} [] m = 1 -> {86, 118} [] m = 2 -> {94}
  /\ Go(n + 2)
  /\ im' = m
  /\ UNCHANGED <<bc, stack, iff1, iff2, pv, waiting>>
  /\ Calm

(* One round of the copy; an interrupt may come before the next. *)
LDIR(n) ==
  /\ At(n) = 237 /\ At(n + 1) = 176
  /\ bc' = (bc - 1) % BCTop
  /\ pv' = (bc' # 0)
  /\ Go(IF bc' = 0 THEN n + 2 ELSE n)
  /\ UNCHANGED <<stack, iff1, iff2, im, waiting>>
  /\ Calm

Instruction ==
  /\ ~waiting
  /\ UNCHANGED mem
  /\ \E n \in 0 .. Top :
       /\ Indexed(n)
       /\ \/ Plain(n) \/ HALT(n) \/ EI(n) \/ DI(n) \/ RET(n) \/ RETN(n)
          \/ RST(n) \/ LD_A_I(n) \/ LDIR(n) \/ \E m \in 0 .. 2 : SetIM(n, m)

(* A waiting CPU lets the window after EI or LD A,I pass. *)
Wait == /\ waiting
        /\ Calm
        /\ UNCHANGED <<mem, pc, bc, stack, iff1, iff2, im, pv, waiting>>

Interrupt(target) ==
  /\ ~shadow
  /\ stack' = Pushed(pc)
  /\ pc' = target
  /\ waiting' = FALSE
  /\ iff1' = FALSE
  /\ UNCHANGED <<mem, bc, im, shadow>>

NMI == /\ Interrupt(NMI66)
       /\ UNCHANGED <<iff2, pv, ldai>>

INT == /\ iff1
       /\ Interrupt(IF im = 2 THEN VectorIM2 ELSE RST38)
       /\ iff2' = FALSE
       /\ pv' = (pv /\ ~ldai)
       /\ ldai' = FALSE

Next == Instruction \/ Wait \/ NMI \/ INT

Spec == Init /\ [][Next]_vars
=============================================================================
