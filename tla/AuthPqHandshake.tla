-------------------------- MODULE AuthPqHandshake --------------------------
(***************************************************************************)
(* The authenticated post-quantum handshake: Initiator and Responder of    *)
(* cipher/auth_pq_keyexchange.py.  The Rust port (rust/src/auth_pq.rs) has *)
(* the same computations and leaves the state to its caller.  Several      *)
(* handshakes run at once over a transport that loses, repeats, redirects  *)
(* and alters messages, and every method may be called any number of times.*)
(*                                                                         *)
(* Primitives are symbolic.  A Diffie-Hellman value is named by its        *)
(* private exponent and a shared element by the two names; a KEM           *)
(* ciphertext names the key it was made for; a signature verifies iff it   *)
(* is the signer's, in that role, over that transcript.                    *)
(*                                                                         *)
(* An operator X_Fault_Y is X with a plausible slip Y; no specification    *)
(* uses it, it shows that the properties would notice the slip.            *)
(***************************************************************************)
EXTENDS Integers, FiniteSets

CONSTANTS
  Identities,   (* long-term identities, each a signature and a static key  *)
  Infos,        (* values of the info= argument                             *)
  Casts,        (* sets of sessions that may be built: per session object,  *)
                (* its role and what its constructor was given              *)
  Degenerate,   (* a peer value outside 2 .. P-2                            *)
  Stray,        (* a value in range that no party of the model generated    *)
  Malformed,    (* bytes that decode to no key, ciphertext or signature     *)
  None,
  MaxResponds   (* bound of the model: respond() calls of all Responders    *)

Roles == {"initiator", "responder"}

(* DHParty and ML-KEM, by name.                                            *)
Ephemeral(s) == <<"ephemeral", s>>
Static(p)    == <<"static", p>>
KemKey(i)    == <<"kem", i>>

(* What the parties compute and send, over all casts.                      *)
AllSessions == UNION {DOMAIN c : c \in Casts}
ValidPoints == {Ephemeral(s) : s \in AllSessions} \cup {Static(p) : p \in Identities}
                 \cup {Stray}
DhValues    == {Ephemeral(s) : s \in AllSessions} \cup {Degenerate, Stray}
KemKeys     == {KemKey(s) : s \in AllSessions} \cup {Stray}
Calls       == 0 .. MaxResponds - 1
Ciphertexts == [to : KemKeys, by : AllSessions, call : Calls]
Transcripts == [init : Identities, resp : Identities, dhI : DhValues,
                kemI : KemKeys, dhR : DhValues, ct : Ciphertexts]
Signatures  == [by : Identities, role : Roles, tr : Transcripts]
KemSecrets  == {<<"kem secret", ct>> : ct \in Ciphertexts}
                 \cup {<<"kem reject", s, ct>> : s \in AllSessions, ct \in Ciphertexts}
Keys        == [ee : SUBSET ValidPoints, pq : KemSecrets,
                static : SUBSET SUBSET ValidPoints, tr : Transcripts, info : Infos]

ASSUME HandshakeAssumption ==
  /\ \A c \in Casts :
       c \in [DOMAIN c -> [role : Roles, id : Identities, peer : Identities,
                         info : Infos]]
  /\ MaxResponds \in Nat

(* What is malformed or out of range is nothing a party computes.          *)
ASSUME ForeignValues ==
  /\ Degenerate \notin ValidPoints
  /\ Malformed \notin Ciphertexts \cup Signatures

VARIABLES
  cast,         (* the session objects there are                            *)
  ini,          (* per Initiator: _key                                      *)
  rsp,          (* per Responder: _key, _transcript; what confirm() did     *)
  calls,        (* respond() calls so far, each encapsulates afresh         *)
  msg2s,        (* every flight 2 sent                                      *)
  sigs,         (* every signature sent                                     *)
  derived       (* per session: every key it ever computed (history)        *)

vars == <<cast, ini, rsp, calls, msg2s, sigs, derived>>

Sessions   == DOMAIN cast
Initiators == {s \in Sessions : cast[s].role = "initiator"}
Responders == {s \in Sessions : cast[s].role = "responder"}
IdOf(s)    == cast[s].id
PeerOf(s)  == cast[s].peer
InfoOf(s)  == cast[s].info

-----------------------------------------------------------------------------
ValidPeer_Fault_NotChecked(pub) == TRUE

ValidPeer(pub) == pub # Degenerate

RawShared(mine, theirs) == {mine, theirs}

Encapsulate(kemKey, r) == [to |-> kemKey, by |-> r, call |-> calls]

Decapsulate(i, ct) ==
  IF ct.to = KemKey(i) THEN <<"kem secret", ct>> ELSE <<"kem reject", i, ct>>

Encapsulated(ct) == <<"kem secret", ct>>

(***************************************************************************)
(* auth_transcript and auth_combine.  The two static terms are sorted, so  *)
(* the combiner sees them without their order.                             *)
(***************************************************************************)
Transcript_Fault_NoCiphertext(init, resp, dhI, kemI, dhR, ct) ==
  [init |-> init, resp |-> resp, dhI |-> dhI, kemI |-> kemI, dhR |-> dhR,
   ct |-> CHOOSE any \in Ciphertexts : TRUE]

Transcript(init, resp, dhI, kemI, dhR, ct) ==
  [init |-> init, resp |-> resp, dhI |-> dhI, kemI |-> kemI,
   dhR |-> dhR, ct |-> ct]

Combine_Fault_NoStatic(ee, pq, es, se, tr, info) ==
  [ee |-> ee, pq |-> pq, static |-> {}, tr |-> tr, info |-> info]

Combine(ee, pq, es, se, tr, info) ==
  [ee |-> ee, pq |-> pq, static |-> {es, se}, tr |-> tr, info |-> info]

Signature(p, role, tr) == [by |-> p, role |-> role, tr |-> tr]

Verifies(sig, p, role, tr) == sig = Signature(p, role, tr)

-----------------------------------------------------------------------------
(* What the transport may hand over. *)

DhArrivals == {Ephemeral(s) : s \in Sessions} \cup {Degenerate, Stray}

Msg1Arrivals ==
  [dhI  : DhArrivals,
   kemI : {KemKey(i) : i \in Initiators} \cup {Stray, Malformed}]

Msg2Arrivals ==
  [dhR : DhArrivals,
   ct  : {m.ct : m \in msg2s} \cup {Malformed},
   sig : sigs \cup {Malformed}]

(***************************************************************************)
(* Responder.respond.  The transcript is stored before the Diffie-Hellman  *)
(* values are checked; the key only after.  A KEM key that does not decode *)
(* raises before either.                                                   *)
(***************************************************************************)
RespondTranscript(r, m) ==
  Transcript(PeerOf(r), IdOf(r), m.dhI, m.kemI, Ephemeral(r),
             Encapsulate(m.kemI, r))

RespondKey(r, m) ==
  LET ct == Encapsulate(m.kemI, r)
      ee == RawShared(Ephemeral(r), m.dhI)
      es == RawShared(Static(IdOf(r)), m.dhI)
      se == RawShared(Ephemeral(r), Static(PeerOf(r)))
  IN  Combine(ee, Encapsulated(ct), se, es, RespondTranscript(r, m), InfoOf(r))

Respond(r, m) ==
  LET tr  == RespondTranscript(r, m)
      key == RespondKey(r, m)
      sig == Signature(IdOf(r), "responder", tr)
  IN
  /\ m.kemI # Malformed
  /\ calls < MaxResponds
  /\ calls' = calls + 1
  /\ \/ /\ ValidPeer(m.dhI)
        /\ rsp' = [rsp EXCEPT ![r].tr = tr, ![r].key = key]
        /\ derived' = [derived EXCEPT ![r] = @ \cup {key}]
        /\ sigs' = sigs \cup {sig}
        /\ msg2s' = msg2s \cup
             {[dhR |-> Ephemeral(r), ct |-> Encapsulate(m.kemI, r), sig |-> sig]}
     \/ /\ ~ValidPeer(m.dhI)
        /\ rsp' = [rsp EXCEPT ![r].tr = tr]
        /\ UNCHANGED <<derived, sigs, msg2s>>
  /\ UNCHANGED <<cast, ini>>

(***************************************************************************)
(* Initiator.finish: the responder's signature is verified first, the      *)
(* Diffie-Hellman values after, and only a call that raises nothing        *)
(* replaces the key.                                                       *)
(***************************************************************************)
FinishTranscript(i, m) ==
  Transcript(IdOf(i), PeerOf(i), Ephemeral(i), KemKey(i), m.dhR, m.ct)

FinishKey(i, m) ==
  LET ee == RawShared(Ephemeral(i), m.dhR)
      es == RawShared(Ephemeral(i), Static(PeerOf(i)))
      se == RawShared(Static(IdOf(i)), m.dhR)
  IN  Combine(ee, Decapsulate(i, m.ct), es, se, FinishTranscript(i, m), InfoOf(i))

FinishAccepts(i, m) ==
  /\ Verifies(m.sig, PeerOf(i), "responder", FinishTranscript(i, m))
  /\ ValidPeer(m.dhR)
  /\ m.ct # Malformed

Finish(i, m) ==
  /\ FinishAccepts(i, m)
  /\ ini' = [ini EXCEPT ![i].key = FinishKey(i, m)]
  /\ derived' = [derived EXCEPT ![i] = @ \cup {FinishKey(i, m)}]
  /\ sigs' = sigs \cup {Signature(IdOf(i), "initiator", FinishTranscript(i, m))}
  /\ UNCHANGED <<cast, rsp, calls, msg2s>>

FinishRaises(i, m) ==
  /\ ~FinishAccepts(i, m)
  /\ UNCHANGED vars

(***************************************************************************)
(* Responder.confirm.                                                      *)
(***************************************************************************)
ConfirmAccepts(r, sig) == Verifies(sig, PeerOf(r), "initiator", rsp[r].tr)

Confirm(r, sig) ==
  /\ rsp[r].tr # None /\ rsp[r].key # None
  /\ \/ /\ ConfirmAccepts(r, sig)
        /\ rsp' = [rsp EXCEPT ![r].confirmed = rsp[r].key, ![r].refused = FALSE]
     \/ /\ ~ConfirmAccepts(r, sig)
        /\ rsp' = [rsp EXCEPT ![r].refused = TRUE]
  /\ UNCHANGED <<cast, ini, calls, msg2s, sigs, derived>>

-----------------------------------------------------------------------------
Init ==
  /\ cast \in Casts
  /\ ini = [i \in Initiators |-> [key |-> None]]
  /\ rsp = [r \in Responders |->
             [key |-> None, tr |-> None, confirmed |-> None, refused |-> FALSE]]
  /\ calls = 0
  /\ msg2s = {}
  /\ sigs = {}
  /\ derived = [s \in Sessions |-> {}]

Next ==
  \/ \E r \in Responders, m \in Msg1Arrivals : Respond(r, m)
  \/ \E i \in Initiators, m \in Msg2Arrivals : Finish(i, m) \/ FinishRaises(i, m)
  \/ \E r \in Responders, sig \in sigs \cup {Malformed} : Confirm(r, sig)

Spec == Init /\ [][Next]_vars
-----------------------------------------------------------------------------
(* Built to talk to each other. *)
Paired(i, r) == PeerOf(i) = IdOf(r) /\ PeerOf(r) = IdOf(i)

(***************************************************************************)
(* Type invariant: every key was computed from Diffie-Hellman values in    *)
(* range (_validate_peer), what a session remembers it derived itself, and *)
(* flight 2 carries a signature that was made.                             *)
(***************************************************************************)
TypeOK ==
  /\ ini \in [Initiators -> [key : Keys \cup {None}]]
  /\ rsp \in [Responders -> [key : Keys \cup {None}, tr : Transcripts \cup {None},
                            confirmed : Keys \cup {None}, refused : BOOLEAN]]
  /\ calls \in 0 .. MaxResponds
  /\ sigs \subseteq Signatures
  /\ msg2s \subseteq [dhR : DhValues, ct : Ciphertexts, sig : sigs]
  /\ derived \in [Sessions -> SUBSET Keys]
  /\ \A i \in Initiators : ini[i].key \in derived[i] \cup {None}
  /\ \A r \in Responders : {rsp[r].key, rsp[r].confirmed} \subseteq derived[r] \cup {None}

(***************************************************************************)
(* finish() authenticates the responder: the key an initiator holds was    *)
(* derived by a responder of the identity it was built to reach, which was *)
(* itself built to reach this initiator.  It is the very same key exactly  *)
(* when both were given the same info, which is no part of the transcript. *)
(***************************************************************************)
InitiatorAgreement ==
  \A i \in Initiators :
    ini[i].key # None =>
      \E r \in Responders :
        /\ Paired(i, r)
        /\ \E k \in derived[r] :
             /\ k.tr = ini[i].key.tr
             /\ InfoOf(i) = InfoOf(r) <=> k = ini[i].key

(***************************************************************************)
(* confirm() authenticates the initiator: the key it returned was derived  *)
(* by an initiator of the expected identity, whichever respond() calls     *)
(* came in between, completed or broken off.                               *)
(***************************************************************************)
ResponderAgreement ==
  \A r \in Responders :
    rsp[r].confirmed # None =>
      \E i \in Initiators :
        /\ Paired(i, r)
        /\ \E k \in derived[i] :
             /\ k.tr = rsp[r].confirmed.tr
             /\ InfoOf(i) = InfoOf(r) <=> k = rsp[r].confirmed

(* Both ends are authenticated.                                            *)
MutualAgreement == InitiatorAgreement /\ ResponderAgreement

(***************************************************************************)
(* "Any failure -> the handshake raises (impersonation/tamper caught); the *)
(* key is never returned" (auth_pq_keyexchange.py:43-44): a Responder whose*)
(* confirm() raised has no key to return.                                  *)
(***************************************************************************)
FailureReturnsNoKey ==
  \A r \in Responders : rsp[r].refused => rsp[r].key = None
=============================================================================
