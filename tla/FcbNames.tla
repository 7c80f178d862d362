------------------------------ MODULE FcbNames ------------------------------
(***************************************************************************)
(* fcb_to_filename, which turns the name in an FCB into the host's, one    *)
(* byte of the FCB at a time.  The FCB was filled from an argument of the  *)
(* command line, or by the guest program with any bytes.                   *)
(***************************************************************************)
EXTENDS FcbFormat

VARIABLES
  arg,     \* the argument that filled the FCB, <<>> when the guest filled it
  fcb,     \* the 11 bytes of the name
  a,       \* fcb_to_filename's index
  fn,      \* what it has written so far
  result   \* "none", "loop", "name", or "stray": see Truncate

vars == <<arg, fcb, a, fn, result>>

(* c & 127, and the host's letters are capitals. *)
SevenBit(c) == c % 128
Upper(c) == IF c \in 97 .. 122 THEN c - 32 ELSE c

Init ==
  /\ arg = <<>>
  /\ fcb = [j \in 1 .. NameLen |-> Blank]
  /\ a = 0
  /\ fn = <<>>
  /\ result = "none"

(* An argument of the command line names the file. *)
FillFromArg ==
  /\ result = "none"
  /\ arg' \in Argument
  /\ fcb' = write_filename_to_fcb(arg')
  /\ result' = "loop"
  /\ UNCHANGED <<a, fn>>

(* The guest names the file itself. *)
GuestFills ==
  /\ result = "none"
  /\ fcb' \in NameBytes
  /\ result' = "loop"
  /\ UNCHANGED <<arg, a, fn>>

-----------------------------------------------------------------------------
(* fcb_to_filename: one action per branch of its loop. *)

InLoop == result = "loop" /\ a < NameLen
Next_c == SevenBit(fcb[a + 1])

(***************************************************************************)
(* The extension is empty: the byte before fn is cleared.  No '.' is there *)
(* (the line that would have put it is commented out), so that the name    *)
(* loses its last character; with nothing written yet the stray zero falls *)
(* before the buffer, which stays as it was: uninitialized.                *)
(***************************************************************************)
Truncate ==
  /\ InLoop /\ Next_c <= Blank /\ a + 1 = BaseLen + 1
  /\ a' = a + 1
  /\ \/ fn # <<>> /\ fn' = Front(fn) /\ result' = "name"
     \/ fn = <<>> /\ fn' = fn /\ result' = "stray"
  /\ UNCHANGED <<arg, fcb>>

(* A blank in the extension ends the name. *)
EndOfExtension ==
  /\ InLoop /\ Next_c <= Blank /\ a + 1 > BaseLen + 1
  /\ a' = a + 1
  /\ result' = "name"
  /\ UNCHANGED <<arg, fcb, fn>>

(* Mutants: the index after a blank in the base name is one too far; the   *)
(* loop starts again.                                                      *)
AfterBase_late == BaseLen + 1
AfterBase_again == 0
AfterBase == BaseLen

(* A blank in the base name skips the rest of it. *)
EndOfBase ==
  /\ InLoop /\ Next_c <= Blank /\ a + 1 < BaseLen + 1
  /\ a' = AfterBase
  /\ UNCHANGED <<arg, fcb, fn, result>>

(* Mutant: a '.' before every byte of the extension. *)
Separator_each(i) == IF i > BaseLen THEN <<Dot>> ELSE <<>>
Separator(i) == IF i = BaseLen + 1 THEN <<Dot>> ELSE <<>>

CopyByte ==
  /\ InLoop /\ Next_c > Blank
  /\ a' = a + 1
  /\ fn' = fn \o Separator(a') \o <<Upper(Next_c)>>
  /\ UNCHANGED <<arg, fcb, result>>

EndOfName ==
  /\ result = "loop" /\ a = NameLen
  /\ result' = "name"
  /\ UNCHANGED <<arg, fcb, a, fn>>

Loop == Truncate \/ EndOfExtension \/ EndOfBase \/ CopyByte \/ EndOfName
Next == FillFromArg \/ GuestFills \/ Loop

Spec == Init /\ [][Next]_vars /\ WF_vars(Loop)

-----------------------------------------------------------------------------
(* The meaning of a blank-padded name, against which the loop is checked.  *)

(* The bytes of a field up to its first blank. *)
Field(name, first, last) ==
  LET stops == {j \in first .. last : SevenBit(name[j]) <= Blank}
      end == IF stops = {} THEN last
             ELSE (CHOOSE j \in stops : \A k \in stops : j <= k) - 1
  IN  [j \in 1 .. end - first + 1 |-> Upper(SevenBit(name[first + j - 1]))]

Base(name) == Field(name, 1, BaseLen)
Ext(name) == Field(name, BaseLen + 1, NameLen)
HostText(name) == Base(name) \o <<Dot>> \o Ext(name)

(***************************************************************************)
(* The bytes written fit the buffer at its end, where fn[14] has room for  *)
(* the 8 + 1 + 3 and the NUL; and the one write before it, of xcpm.c:179,  *)
(* is made for the names that are all blank, and for no others.            *)
(***************************************************************************)
AllBlank(name) == Base(name) = <<>> /\ Ext(name) = <<>>
BufferBound ==
  /\ Len(fn) <= BaseLen + 1 + ExtLen
  /\ result = "stray" => AllBlank(fcb)
  /\ result = "name" => ~AllBlank(fcb)

(* With an extension the host's name is BASE.EXT in capitals, however the  *)
(* blanks, the lower case and the high bits lie in the FCB.                *)
NamedByFields ==
  result = "name" /\ Ext(fcb) # <<>> => fn = HostText(fcb)

(***************************************************************************)
(* An argument BASE.EXT on the command line names, through the FCB and     *)
(* back, the host file of that name in capitals, cut to 8 and 3.           *)
(***************************************************************************)
Printable(s) == \A j \in 1 .. Len(s) : s[j] \in 33 .. 126
Cut(s, n) == SubSeq(s, 1, IF Len(s) < n THEN Len(s) ELSE n)
ArgumentRoundTrip ==
  result = "name" /\ Printable(arg) /\ After(arg) # <<>>
    => fn = LET text == Cut(Before(arg), BaseLen) \o <<Dot>>
                          \o Cut(After(arg), ExtLen)
            IN  [j \in 1 .. Len(text) |-> Upper(text[j])]

(***************************************************************************)
(* xcpm.c:179 says of an empty extension that the '.' that was placed is   *)
(* deleted: the host's name would be the base name.                        *)
(***************************************************************************)
EmptyExtensionKeepsBase ==
  result = "name" /\ Ext(fcb) = <<>> => fn = Base(fcb)

(* The conversion ends. *)
Converts == result = "loop" ~> result \in {"name", "stray"}
=============================================================================
