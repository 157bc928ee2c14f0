--------------------------- MODULE StreamTransfer ---------------------------
(***************************************************************************)
(* What the streaming AEAD promises, with no keys, salts, tags or frames:  *)
(* every sender writes a sequence of chunks and may end it; a receiver     *)
(* settles on one of the sequences, obtains its chunks from the first on   *)
(* without gap or repetition, and learns of the end only at the end.       *)
(***************************************************************************)
EXTENDS Naturals, Sequences

CONSTANTS
  Streams,
  Data,
  Undecided   (* the receiver has not settled on a stream yet *)

VARIABLES
  written,    (* per stream, the chunks written so far               *)
  ended,      (* per stream, whether the last chunk was written      *)
  reading,    (* the stream the receiver settled on, or Undecided    *)
  obtained,   (* the chunks the receiver obtained                    *)
  complete    (* the receiver knows that there are no more chunks    *)

vars == <<written, ended, reading, obtained, complete>>

Init ==
  /\ written = [s \in Streams |-> <<>>]
  /\ ended = [s \in Streams |-> FALSE]
  /\ reading = Undecided
  /\ obtained = <<>>
  /\ complete = FALSE

Write(s) ==
  /\ ~ended[s]
  /\ \E d \in Data : written' = [written EXCEPT ![s] = Append(@, d)]
  /\ \E last \in BOOLEAN : ended' = [ended EXCEPT ![s] = last]
  /\ UNCHANGED <<reading, obtained, complete>>

Settle(s) ==
  /\ reading = Undecided
  /\ reading' = s
  /\ UNCHANGED <<written, ended, obtained, complete>>

Obtain ==
  /\ reading # Undecided
  /\ ~complete
  /\ Len(obtained) < Len(written[reading])
  /\ obtained' = Append(obtained, written[reading][Len(obtained) + 1])
  /\ complete' = (ended[reading] /\ Len(obtained') = Len(written[reading]))
  /\ UNCHANGED <<written, ended, reading>>

Next == (\E s \in Streams : Write(s) \/ Settle(s)) \/ Obtain

Spec == Init /\ [][Next]_vars
=============================================================================
