--------------------------- MODULE KeystreamTape ---------------------------
(***************************************************************************)
(* What every keystream of the cipher promises: readers that were set up   *)
(* alike read one tape, each from its beginning, byte after byte.          *)
(***************************************************************************)
EXTENDS Integers, Sequences

CONSTANT Readers

VARIABLES
  tape,     (* settled at the set-up                                       *)
  out       (* per reader: the bytes read so far                           *)

Init == out = [r \in Readers |-> <<>>]

Read(r) ==
  /\ Len(out[r]) \in DOMAIN tape
  /\ out' = [out EXCEPT ![r] = Append(@, tape[Len(@)])]
  /\ UNCHANGED tape

Next == \E r \in Readers : Read(r)

Spec == Init /\ [][Next]_<<tape, out>>
=============================================================================
