--------------------------- MODULE MCConsoleCalls ---------------------------
(***************************************************************************)
(* ConsoleCalls on a memory of seven bytes and a host buffer of three      *)
(* characters and the NUL.                                                 *)
(***************************************************************************)
EXTENDS ConsoleCalls

CONSTANT MaxTyped   \* bound: characters typed

Lines == BoundedSeq({NUL, LF, CR, 97, 98}, MaxTyped)
Texts == [Addr -> {NUL, Dollar, 97}]

(* Either much is typed, or there is much to print. *)
MCBeginning ==
  [memory : {[x \in Addr |-> IF x = Top - 1 THEN Dollar ELSE NUL]}, typed : Lines]
    \cup [memory : Texts, typed : {<<>>}]
=============================================================================
