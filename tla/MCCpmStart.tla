----------------------------- MODULE MCCpmStart -----------------------------
(***************************************************************************)
(* CpmStart on program files of every length up to the room in front of    *)
(* the BDOS entry and beyond it.                                           *)
(***************************************************************************)
EXTENDS CpmStart

CONSTANT MaxFile   \* bound: length of a program file

MCFiles == {[j \in 1 .. n |-> 1] : n \in 0 .. MaxFile}
=============================================================================
