----------------------------- MODULE FcbFormat -----------------------------
(***************************************************************************)
(* The blank-padded 8+3 names of CP/M's File Control Blocks, and how       *)
(* write_filename_to_fcb makes one from an argument of the command line.   *)
(*                                                                         *)
(* A name is a function on 1 .. BaseLen + ExtLen, as the code counts (the  *)
(* byte 0 of an FCB is the drive).  Text is a sequence of bytes.           *)
(***************************************************************************)
EXTENDS Integers, Sequences, SequencesExt

CONSTANTS
  BaseLen, ExtLen,   \* 8 and 3
  Char,              \* bytes that occur in names
  MaxArg             \* bound: length of an argument

Blank == 32
Dot == 46

ASSUME LengthsAssumption == BaseLen \in Nat \ {0} /\ ExtLen \in Nat \ {0}
ASSUME MaxArgAssumption == MaxArg \in Nat
ASSUME CharAssumption == Char \subseteq 0 .. 255 /\ {Blank, Dot} \subseteq Char

NameLen == BaseLen + ExtLen
NameBytes == [1 .. NameLen -> Char]
Argument == BoundedSeq(Char \ {0}, MaxArg)

(* The text before the first '.' and after it.  An argument has no NUL.    *)
FirstDot(s) == SelectInSeq(s, LAMBDA c : c = Dot)
Before(s) == IF Contains(s, Dot) THEN SubSeq(s, 1, FirstDot(s) - 1) ELSE s
After(s) == IF Contains(s, Dot) THEN SubSeq(s, FirstDot(s) + 1, Len(s)) ELSE <<>>

(* Mutant: the last character of a field is lost. *)
PadTo_short(s, j) == IF j < Len(s) THEN s[j] ELSE Blank
PadTo(s, j) == IF j <= Len(s) THEN s[j] ELSE Blank

(* Each part is cut to its field, or filled up with blanks. *)
write_filename_to_fcb(s) ==
  [j \in 1 .. NameLen |-> IF j <= BaseLen THEN PadTo(Before(s), j)
                          ELSE PadTo(After(s), j - BaseLen)]
=============================================================================
