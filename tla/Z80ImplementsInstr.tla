------------------------- MODULE Z80ImplementsInstr -------------------------
(***************************************************************************)
(* Z80Step, which steps from byte to byte, implements Z80Instr, which      *)
(* steps from instruction to instruction.                                  *)
(***************************************************************************)
EXTENDS Z80Step

(***************************************************************************)
(* Between boundaries the programmer's state is that of the last boundary; *)
(* a halted CPU waits behind its HALT.                                     *)
(***************************************************************************)
InstrPC == IF prefix # 0 THEN start.pc ELSE AfterHalt
InstrShadow == IF prefix # 0 THEN start.noint_once ELSE noint_once
InstrLdai == IF prefix # 0 THEN start.ldai ELSE reset_PV_on_int

Instr == INSTANCE Z80Instr WITH
  pc <- InstrPC, shadow <- InstrShadow, ldai <- InstrLdai,
  bc <- BC, iff1 <- IFF1, iff2 <- IFF2, im <- IM, pv <- PV, waiting <- halted

(***************************************************************************)
(* Steps of single bytes with interrupts in between amount to whole        *)
(* instructions with interrupts between them: none is split, none follows  *)
(* EI directly, and every return address is the next instruction's.        *)
(***************************************************************************)
ImplementsInstr == Instr!Spec
=============================================================================
