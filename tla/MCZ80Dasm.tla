------------------------------ MODULE MCZ80Dasm ------------------------------
(* Every opcode on every page, with zeros for its operands and behind it.  *)
EXTENDS Z80Dasm

Op == 0 .. 255
Plain == {<<op>> : op \in Op}
         \cup {<<page, op>> : page \in {\hCB, \hED, \hDD, \hFD}, op \in Op}
IndexedBits == {<<page, \hCB, 5, op>> : page \in {\hDD, \hFD}, op \in Op}
MCCodes == Plain \cup IndexedBits

(* Without the pages DDCB and FDCB. *)
OtherCodes == {code \in Plain : code[1] \in {\hDD, \hFD} => code # <<code[1], \hCB>>}
=============================================================================
