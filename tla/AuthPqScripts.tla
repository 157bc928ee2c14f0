--------------------------- MODULE AuthPqScripts ---------------------------
(***************************************************************************)
(* What the repository builds on the authenticated handshake: the helper   *)
(* that runs its three flights, the impersonator of                        *)
(* attacks/auth_pq_attack.py, and the known answer of kat/generate_kat.py. *)
(* The impersonator is nobody's session: her ephemeral is Stray, and she   *)
(* encapsulates in the name of Stray.                                      *)
(***************************************************************************)
EXTENDS AuthPqHandshake

(* What anyone of the model can encapsulate.                               *)
Encapsulations == [to : KemKeys, by : AllSessions \cup {Stray}, call : 0 .. MaxResponds]

(* The impersonator's values are no session's.                             *)
ASSUME ImpersonatorAssumption ==
  /\ Stray \notin AllSessions \cup {Degenerate}
  /\ Stray \notin {Ephemeral(s) : s \in AllSessions} \cup {Static(p) : p \in Identities}
  /\ Malformed \notin Encapsulations
  /\ None \notin {Encapsulated(ct) : ct \in Encapsulations}

Start(i) == [dhI |-> Ephemeral(i), kemI |-> KemKey(i)]

Flight2(r, m) ==
  [dhR |-> Ephemeral(r),
   ct  |-> Encapsulate(m.kemI, r),
   sig |-> Signature(IdOf(r), "responder", RespondTranscript(r, m))]

(***************************************************************************)
(* authenticated_pq_agree: start, respond, finish, confirm; None where it  *)
(* raises.                                                                 *)
(***************************************************************************)
AuthenticatedPqAgree(i, r) ==
  LET m2  == Flight2(r, Start(i))
      sig == Signature(IdOf(i), "initiator", FinishTranscript(i, m2))
      key == FinishKey(i, m2)
  IN  IF /\ FinishAccepts(i, m2)
         /\ Verifies(sig, PeerOf(r), "initiator", RespondTranscript(r, Start(i)))
         /\ key = RespondKey(r, Start(i))
      THEN key
      ELSE None

(***************************************************************************)
(* generate_kat.py, vector 13: the same key from both parties' exponents,  *)
(* without running the handshake.                                          *)
(***************************************************************************)
KatKey_Fault_StaticOrder(i, r) ==
  LET ct == Encapsulate(KemKey(i), r)
  IN  Combine(RawShared(Ephemeral(i), Ephemeral(r)), Encapsulated(ct),
              RawShared(Ephemeral(i), Static(IdOf(i))),
              RawShared(Static(IdOf(r)), Ephemeral(r)),
              Transcript(IdOf(i), IdOf(r), Ephemeral(i), KemKey(i), Ephemeral(r), ct),
              InfoOf(i))

KatKey(i, r) ==
  LET ct == Encapsulate(KemKey(i), r)
  IN  Combine(RawShared(Ephemeral(i), Ephemeral(r)), Encapsulated(ct),
              RawShared(Ephemeral(i), Static(IdOf(r))),
              RawShared(Static(IdOf(i)), Ephemeral(r)),
              Transcript(IdOf(i), IdOf(r), Ephemeral(i), KemKey(i), Ephemeral(r), ct),
              InfoOf(i))

-----------------------------------------------------------------------------
(* _forge_responder_msg: flight 2 for i, signed by p.                      *)
ForgeResponderMsg(i, p) ==
  LET ct == Encapsulate(KemKey(i), Stray)
  IN  [dhR |-> Stray,
       ct  |-> ct,
       sig |-> Signature(p, "responder",
                 Transcript(IdOf(i), PeerOf(i), Ephemeral(i), KemKey(i), Stray, ct))]

(* Parts 2 and 3a: signed by an identity that is not the expected one, with *)
(* or without the expected one's static exponent, which the message does   *)
(* not use.                                                                *)
ImpostorRejected(i) ==
  \A p \in Identities \ {PeerOf(i)} : ~FinishAccepts(i, ForgeResponderMsg(i, p))

(* Part 3b: signed by the expected identity, the message is accepted, and  *)
(* the key with two terms guessed is not Alice's.                          *)
SignerLockedOut(i) ==
  LET m    == ForgeResponderMsg(i, PeerOf(i))
      ee   == RawShared(Stray, Ephemeral(i))
      se   == RawShared(Stray, Static(IdOf(i)))
      mine == Combine(ee, None, {None}, se, FinishTranscript(i, m), InfoOf(i))
  IN  /\ FinishAccepts(i, m)
      /\ mine # FinishKey(i, m)

(* Part 4: one field of a genuine flight 2 altered.                        *)
TamperCaught(i) ==
  \A m \in msg2s : FinishAccepts(i, m) =>
    \A n \in Msg2Arrivals :
      Cardinality({f \in DOMAIN m : n[f] # m[f]}) = 1 => ~FinishAccepts(i, n)

(* Part 5: the key depends on the ML-KEM secret.                           *)
KeyNeedsPq(i, r) ==
  LET k == KatKey(i, r)
  IN  \A pq \in {None, Encapsulated(Encapsulate(KemKey(i), Stray)), Encapsulated(Malformed)} :
        [k EXCEPT !.pq = pq] # k

-----------------------------------------------------------------------------
(***************************************************************************)
(* What was broken for the impersonator: of each identity, the static      *)
(* exponent ("static") or the signing key ("sign").  She computes a shared *)
(* element of which she knows one exponent, and knows what she             *)
(* encapsulated herself or what was encapsulated to her.                   *)
(***************************************************************************)
Grants(s) == SUBSET ({"static", "sign"} \X {IdOf(s), PeerOf(s)})

Exponents(grants) == {Stray} \cup {Static(g[2]) : g \in {h \in grants : h[1] = "static"}}

Signers(s, grants) ==
  (Identities \ {IdOf(s), PeerOf(s)}) \cup {g[2] : g \in {h \in grants : h[1] = "sign"}}

Knows(grants, key) ==
  /\ \A x \in {key.ee} \cup key.static : x \cap Exponents(grants) # {}
  /\ key.pq[2].by = Stray \/ key.pq[2].to = Stray

(* She poses as the responder of i ...                                     *)
PosesAsResponder(i, grants) ==
  \E p \in Signers(i, grants) :
    LET m == ForgeResponderMsg(i, p)
    IN  FinishAccepts(i, m) /\ Knows(grants, FinishKey(i, m))

(* ... or as the initiator of r, with a KEM key of her own.                *)
PosesAsInitiator(r, grants) ==
  LET m1 == [dhI |-> Stray, kemI |-> Stray]
  IN  /\ \E p \in Signers(r, grants) :
           Verifies(Signature(p, "initiator", RespondTranscript(r, m1)),
                    PeerOf(r), "initiator", RespondTranscript(r, m1))
      /\ Knows(grants, RespondKey(r, m1))

-----------------------------------------------------------------------------
(***************************************************************************)
(* Authentication is hybrid: "an attacker must break BOTH the classical    *)
(* static-DH binding AND ML-DSA-65 to impersonate"                         *)
(* (auth_pq_attack.py:213-214): the impersonator ends up holding a key a   *)
(* session accepted exactly when both long-term keys of the identity that  *)
(* session expects are hers, whatever else she was given, the session's    *)
(* own long-term keys included.                                            *)
(***************************************************************************)
BothLegsNeeded ==
  \A s \in Sessions : \A grants \in Grants(s) :
    (\/ s \in Initiators /\ PosesAsResponder(s, grants)
     \/ s \in Responders /\ PosesAsInitiator(s, grants))
    <=> {"static", "sign"} \X {PeerOf(s)} \subseteq grants

(***************************************************************************)
(* The helper agrees exactly for sessions built for each other with one    *)
(* info; the vector generator, which calls the combiner itself, arrives at *)
(* the key both parties derive; and the attack script reports at every     *)
(* stage of other handshakes what it asserts.                              *)
(***************************************************************************)
ScriptsPass ==
  /\ \A i \in Initiators, r \in Responders :
       /\ AuthenticatedPqAgree(i, r) =
            IF Paired(i, r) /\ InfoOf(i) = InfoOf(r) THEN KatKey(i, r) ELSE None
       /\ KeyNeedsPq(i, r)
  /\ \A i \in Initiators :
       ImpostorRejected(i) /\ SignerLockedOut(i) /\ TamperCaught(i)
=============================================================================
