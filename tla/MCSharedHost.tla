----------------------------- MODULE MCSharedHost -----------------------------
(***************************************************************************)
(* A small instance of SharedHost for TLC.                                 *)
(***************************************************************************)
EXTENDS SharedHost, TLC

CONSTANTS n1, f1

MCHostName == n1 :> f1
MCInitialFile == f1 :> <<1, 2>>
MCRecords == {<<2, 1>>}

(* What other processes make is empty or of one record. *)
MCOtherContent == {<<>>, <<1, 1>>}

Symmetry == Permutations(Handle) \cup Permutations(Inode)
=============================================================================
