------------------------------- MODULE Z80Dasm -------------------------------
(***************************************************************************)
(* z80ex_dasm and the listing it is made for: the caller adds the length   *)
(* that each call returns to the address it lists next.  Of a mnemonic the *)
(* model keeps the operands in their order, written as in opcodes_dasm.c:  *)
(* @ a word, # a byte, $ a displacement, % a relative address.  The        *)
(* output buffer is taken to be as long as the mnemonics need.             *)
(***************************************************************************)
EXTENDS Integers, Sequences

CONSTANTS
  Size,      \* bytes of code
  Codes      \* the code to list: a set of sequences of at most Size bytes

VARIABLES
  mem,
  addr,       \* the argument of the call, moved over what it has read
  base,       \* the address listed
  bytes,      \* what the call will return
  operands,   \* those of the mnemonic still to be printed
  have_disp,
  calling,
  pc          \* where the CPU would find the instruction to be listed

vars == <<mem, addr, base, bytes, operands, have_disp, calling, pc>>

(* Behind the code there are zeros. *)
Read(a) == IF a < Size THEN mem[a] ELSE 0

-----------------------------------------------------------------------------
(* The operands in the tables of mnemonics. *)

Words == {\h01, \h11, \h21, \h31, \h22, \h2A, \h32, \h3A, \hC3, \hCD}
         \cup {8 * k + \hC2 : k \in 0 .. 7} \cup {8 * k + \hC4 : k \in 0 .. 7}
Bytes == {8 * k + 6 : k \in 0 .. 7} \cup {8 * k + \hC6 : k \in 0 .. 7} \cup {\hD3, \hDB}
Relatives == {\h10, \h18, \h20, \h28, \h30, \h38}
dasm_base(op) == IF op \in Words THEN <<"@">>
                 ELSE IF op \in Bytes THEN <<"#">>
                 ELSE IF op \in Relatives THEN <<"%">> ELSE <<>>

(* The same for IX and IY: what names (HL) or HL. *)
Displaced == {\h34, \h35} \cup (\h70 .. \h77 \ {\h76})
             \cup {8 * k + 6 : k \in (8 .. 13) \cup (15 .. 23)}
IndexWords == {\h21, \h22, \h2A}
IndexBytes == {\h26, \h2E}
dasm_dd(op) == IF op \in IndexWords THEN <<"@">>
               ELSE IF op \in IndexBytes THEN <<"#">>
               ELSE IF op \in Displaced THEN <<"$">>
               ELSE IF op = \h36 THEN <<"$", "#">>
               ELSE dasm_base(op)                        \* mirrored

dasm_ed(op) == IF op \in {8 * k + 3 : k \in 8 .. 15} THEN <<"@">> ELSE <<>>
dasm_cb(op) == <<>>
dasm_ddcb(op) == <<"$">>

-----------------------------------------------------------------------------
(* The bytes an instruction takes from the code when it is executed: the   *)
(* opcode functions of z80ex read their own operands.                      *)

BaseReads(op) == IF op \in Words THEN 2
                 ELSE IF op \in Bytes \cup Relatives THEN 1 ELSE 0
IndexReads(op) == IF op \in IndexWords \cup {\h36} THEN 2
                  ELSE IF op \in IndexBytes \cup Displaced THEN 1
                  ELSE BaseReads(op)

(* A prefix before another that makes no pair with it is a step alone. *)
Executed(a) ==
  LET op == Read(a)
      next == Read(a + 1)
  IN  CASE op = \hCB -> 2
        [] op = \hED -> IF next \in {8 * k + 3 : k \in 8 .. 15} THEN 4 ELSE 2
        [] op \in {\hDD, \hFD} /\ next \in {\hDD, \hED, \hFD} -> 1
        [] op \in {\hDD, \hFD} /\ next = \hCB -> 4
        [] op \in {\hDD, \hFD} /\ next \notin {\hCB, \hDD, \hED, \hFD} ->
             2 + IndexReads(next)
        [] OTHER -> 1 + BaseReads(op)

-----------------------------------------------------------------------------
Init ==
  /\ \E code \in Codes :
       mem = [a \in 0 .. Size - 1 |-> IF a < Len(code) THEN code[a + 1] ELSE 0]
  /\ addr = 0 /\ base = 0 /\ bytes = 0 /\ pc = 0
  /\ operands = <<>> /\ have_disp = FALSE /\ calling = FALSE

(* What the switch leaves: so much read, so much counted, a mnemonic. *)
Decoded(read, counted, mnemonic, disp) ==
  /\ addr' = addr + read /\ bytes' = counted
  /\ operands' = mnemonic /\ have_disp' = disp
  /\ calling' = TRUE
  /\ UNCHANGED <<mem, base, pc>>

Decode ==
  /\ ~calling /\ base < Size
  /\ LET opc == Read(addr)
         next == Read(addr + 1)
     IN  \/ /\ opc \in {\hDD, \hFD} /\ next \in {\hDD, \hED, \hFD}
            /\ Decoded(2, 1, <<>>, FALSE)                \* NOP*
         \/ /\ opc \in {\hDD, \hFD} /\ next = \hCB
            /\ Decoded(4, 4, dasm_ddcb(Read(addr + 3)), TRUE)
         \/ /\ opc \in {\hDD, \hFD} /\ next \notin {\hCB, \hDD, \hED, \hFD}
            /\ Decoded(2, 2, dasm_dd(next), FALSE)
         \/ opc = \hED /\ Decoded(2, 2, dasm_ed(next), FALSE)
         \/ opc = \hCB /\ Decoded(2, 2, dasm_cb(next), FALSE)
         \/ /\ opc \notin {\hCB, \hDD, \hED, \hFD}
            /\ Decoded(1, 1, dasm_base(opc), FALSE)

(* One operand of the mnemonic; a displacement may have been read before.  *)
Operand ==
  /\ calling /\ operands # <<>>
  /\ LET read == CASE Head(operands) = "@" -> 2
                   [] Head(operands) \in {"$", "%"} -> IF have_disp THEN 0 ELSE 1
                   [] Head(operands) = "#" -> 1
     IN  addr' = addr + read
  /\ bytes' = bytes + (IF Head(operands) = "@" THEN 2 ELSE 1)
  /\ operands' = Tail(operands)
  /\ UNCHANGED <<mem, base, have_disp, calling, pc>>

(* The caller goes on to the next instruction. *)
Return ==
  /\ calling /\ operands = <<>>
  /\ base' = base + bytes /\ addr' = base'
  /\ bytes' = 0 /\ have_disp' = FALSE /\ calling' = FALSE
  /\ pc' = pc + Executed(pc)
  /\ UNCHANGED <<mem, operands>>

Next == Decode \/ Operand \/ Return

Spec == Init /\ [][Next]_vars

-----------------------------------------------------------------------------
(* z80ex_dasm.h: it "returns: length of processed instruction in bytes".   *)
(* Each line of a listing then begins where the CPU begins an instruction. *)
ListingKeepsStep == ~calling => base = pc
=============================================================================
