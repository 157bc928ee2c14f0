-------------------------- MODULE InOrderDelivery --------------------------
(***************************************************************************)
(* What a forward-secret session promises to its two callers, with no      *)
(* mention of keys, chains or wires.                                       *)
(*                                                                         *)
(* The sender places payloads at consecutive positions (a position may     *)
(* stay empty).  The receiver keeps a horizon: it hands up a payload only  *)
(* from a position at or above the horizon, and the horizon then moves     *)
(* past that position and never returns.  Nothing promises that a position *)
(* is delivered at all.                                                    *)
(***************************************************************************)
EXTENDS Naturals, Sequences

CONSTANT Payloads

VARIABLES
  next,       (* the position the sender fills next                        *)
  sealed,     (* the positions filled so far, with their payloads          *)
  horizon,    (* the lowest position the receiver may still hand up        *)
  delivered   (* what the receiver handed up, oldest first                 *)

vars == <<next, sealed, horizon, delivered>>

Message == [pos : Nat, pt : Payloads]

Init ==
  /\ next = 0
  /\ sealed = {}
  /\ horizon = 0
  /\ delivered = <<>>

Fill ==
  /\ next' = next + 1
  /\ \E pt \in Payloads : sealed' = sealed \cup {[pos |-> next, pt |-> pt]}
  /\ UNCHANGED <<horizon, delivered>>

LeaveEmpty ==
  /\ next' = next + 1
  /\ UNCHANGED <<sealed, horizon, delivered>>

Deliver ==
  /\ \E m \in sealed :
       /\ m.pos >= horizon
       /\ delivered' = Append(delivered, m)
       /\ horizon' = m.pos + 1
  /\ UNCHANGED <<next, sealed>>

GiveUp ==
  /\ horizon' \in Nat
  /\ horizon' > horizon
  /\ UNCHANGED <<next, sealed, delivered>>

Next == Fill \/ LeaveEmpty \/ Deliver \/ GiveUp

Spec == Init /\ [][Next]_vars

(***************************************************************************)
(* The promise: what was handed up is a strictly ascending selection of    *)
(* what was sealed, so nothing is invented, altered, repeated or reordered.*)
(***************************************************************************)
InOrder ==
  /\ \A j \in DOMAIN delivered : delivered[j] \in sealed
  /\ \A j, k \in DOMAIN delivered : j < k => delivered[j].pos < delivered[k].pos
=============================================================================
