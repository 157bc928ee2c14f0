-------------------------- MODULE HandshakeScripts --------------------------
(***************************************************************************)
(* The helpers, scripts and known answers built on the three exchanges,    *)
(* for the exponents a and b of two parties and m of the network.          *)
(***************************************************************************)
EXTENDS KeyAgreement

Agreed(ka, kb) == IF ka # kb THEN Raised ELSE ka

AgreeKey(a, b, info) ==
  Agreed(SharedKey(a, Public(b), info), SharedKey(b, Public(a), info))

AuthenticatedAgree(a, sa, ida, b, sb, idb, info) ==
  Agreed(SessionKey(a, sa, ida, Public(b), info), SessionKey(b, sb, idb, Public(a), info))

HybridAgree(a, b, info) ==
  LET ct == Encapsulate("alice", "bob")
      kb == ResponderKey(RawShared(b, Public(a)), b, Public(a), "alice", ct, info)
  IN  Agreed(InitiatorKey(RawShared(a, Public(b)), a, Public(b), ct, info), kb)

-----------------------------------------------------------------------------
(* dh_mitm.py, and the last lines of keyexchange.py: the product of the two  *)
(* public values is not the shared element.                                  *)
PassiveFails(a, b, info) ==
  LET guess == Hash("dh", <<info, (Public(a) * Public(b)) % P>>)
  IN  AgreeKey(a, b, info) \notin {guess, Raised}

ActiveSucceeds(a, b, m, info) ==
  /\ SharedKey(a, Public(m), info) = SharedKey(m, Public(a), info)
  /\ SharedKey(b, Public(m), info) = SharedKey(m, Public(b), info)

Fingerprint(public) == <<"fingerprint", public>>
FingerprintCatches(b, m) == Fingerprint(Public(b)) # Fingerprint(Public(m))

(* auth_dh_mitm.py: the same attack on the authenticated exchange, with an   *)
(* identity of the network's own, sm.                                        *)
LegitWorks(a, b, info) ==
  AuthenticatedAgree(a, Statics["alice"], Public(Statics["bob"]),
                     b, Statics["bob"], Public(Statics["alice"]), info) # Raised

ActiveFails(a, b, m, sm, info) ==
  LET idA == Public(Statics["alice"])
      idB == Public(Statics["bob"])
  IN  /\ SessionKey(a, Statics["alice"], idB, Public(m), info)
           # SessionKey(m, sm, idA, Public(a), info)
      /\ SessionKey(b, Statics["bob"], idA, Public(m), info)
           # SessionKey(m, sm, idB, Public(b), info)

(* pq_hybrid_attack.py, parts 1 and 2. *)
HybridAgrees(a, b, info) == HybridAgree(a, b, info) # Raised

HybridSurvives(a, b, m, info) ==
  LET ct        == Encapsulate("alice", "bob")
      classical == RawShared(a, Public(b))
      pq        == Encapsulated(ct)
      tr        == Transcript(Public(a), Public(b), "alice", ct)
      real      == Combine(classical, pq, tr, info)
  IN  /\ Combine(classical, Encapsulated(Encapsulate("alice", "mallory")), tr, info) # real
      /\ Combine(RawShared(m, Public(b)), pq, tr, info) # real

-----------------------------------------------------------------------------
(* generate_kat.py, vectors 11 and 12: put together from the parts, with the *)
(* exponents and the ciphertext pinned.                                      *)
KatExchange(a, b, info) ==
  [publicA |-> Public(a), publicB |-> Public(b),
   raw |-> RawShared(a, Public(b)), key |-> SharedKey(a, Public(b), info)]

KatHybrid_Fault_Transcript(a, b, info) ==
  LET ct  == Encapsulate("alice", "bob")
      tr  == Transcript(Public(b), Public(a), "alice", ct)
  IN  [transcript |-> tr,
       key |-> Combine(KatExchange(a, b, info).raw, Encapsulated(ct), tr, info)]

KatHybrid(a, b, info) ==
  LET ct  == Encapsulate("alice", "bob")
      tr  == Transcript(Public(a), Public(b), "alice", ct)
  IN  [transcript |-> tr,
       key |-> Combine(KatExchange(a, b, info).raw, Encapsulated(ct), tr, info)]

-----------------------------------------------------------------------------
(***************************************************************************)
(* Every script comes to its verdict, and the known answers are the keys   *)
(* the objects agree on, for any exponents two parties draw.               *)
(***************************************************************************)
ScriptsPass ==
  (\A p \in Parties : generated[p] /\ heard[p] = None) =>
    LET a == dh["alice"]
        b == dh["bob"]
    IN  \A info \in Infos :
          /\ PassiveFails(a, b, info) /\ LegitWorks(a, b, info) /\ HybridAgrees(a, b, info)
          /\ KatExchange(a, b, info).key = AgreeKey(a, b, info)
          /\ KatExchange(a, b, info).raw = RawShared(b, Public(a))
          /\ KatHybrid(a, b, info).key = HybridAgree(a, b, info)
          /\ \A m \in Mallory :
               /\ ActiveSucceeds(a, b, m, info) /\ FingerprintCatches(b, m)
               /\ ActiveFails(a, b, m, m, info) /\ HybridSurvives(a, b, m, info)
=============================================================================
