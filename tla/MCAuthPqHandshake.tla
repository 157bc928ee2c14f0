-------------------------- MODULE MCAuthPqHandshake --------------------------
(***************************************************************************)
(* TLC instances of AuthPqHandshake.  "bob" is a Responder of identity B   *)
(* that expects A.  Among the Initiators, "alice" is A reaching B and      *)
(* "carol" is C reaching B, whom bob does not expect.                      *)
(***************************************************************************)
EXTENDS AuthPqScripts, TLC

CONSTANTS alice, carol, bob, ben, A, B, C

MCIdentities == {A, B, C}
MCInfos      == {"x", "y"}

Initiator(id, peer, info) ==
  [role |-> "initiator", id |-> id, peer |-> peer, info |-> info]
Responder(id, peer, info) ==
  [role |-> "responder", id |-> id, peer |-> peer, info |-> info]

(* The expected initiator, and one nobody expects.                         *)
Unexpected ==
  (alice :> Initiator(A, B, "x")) @@ (carol :> Initiator(C, B, "x"))
    @@ (bob :> Responder(B, A, "x"))

(* Two responders of one identity, one of them given another info.         *)
TwoDevices ==
  (alice :> Initiator(A, B, "x"))
    @@ (bob :> Responder(B, A, "x")) @@ (ben :> Responder(B, A, "y"))

(* One identity in both roles: B calls itself.                             *)
OwnIdentity ==
  (alice :> Initiator(B, B, "x")) @@ (bob :> Responder(B, B, "x"))

MCCasts == {Unexpected, TwoDevices, OwnIdentity}
=============================================================================
