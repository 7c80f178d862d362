----------------------------- MODULE MCBdosFiles -----------------------------
(***************************************************************************)
(* Small instances of BdosFiles for TLC.                                   *)
(***************************************************************************)
EXTENDS BdosImplementsCpm, FiniteSets, TLC

CONSTANTS n1, n2, f1, f2

MCFcbAddr == {92, 108}          \* 0x5C and 0x6C
MCThreeFcbs == {92, 108, 512}
MCHostName == n1 :> f1 @@ n2 :> f2
MCOneName == n1 :> f1

(* f1 exists: with one record, with one of two bytes, with two records of  *)
(* one byte.                                                               *)
MCOneRecord == f1 :> <<1>>
MCOneLong == f1 :> <<1, 2>>
MCTwoZeroes == f1 :> <<0, 0>>

MCTwos == {<<2>>}

Symmetry == Permutations(Handle) \cup Permutations(Inode)
=============================================================================
