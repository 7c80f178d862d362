----------------------------- MODULE MCZ80Step -----------------------------
(***************************************************************************)
(* Z80Step on all programs of a few bytes, and its refinement of Z80Instr. *)
(***************************************************************************)
EXTENDS Z80ImplementsInstr

(* HALT (behind ED: IM 1), prefixes, EI, the returns and IM 2; a few more  *)
(* opcodes for programs that enable interrupts at once.                    *)
ControlOpcode == {0, 69, 94, 118, 201, 221, 237, 251}
ModeOpcode == {70, 87, 94, 176, 203, 237, 243, 251, 253, 255}

MCOpcode == ControlOpcode \cup ModeOpcode
MCPrograms ==
  [Addr -> ControlOpcode] \cup {m \in [Addr -> ModeOpcode] : m[0] = 251}
=============================================================================
