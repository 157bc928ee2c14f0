---------------------------- MODULE KeyAgreement ----------------------------
(***************************************************************************)
(* Two parties agree on a key over a network that may replace every public *)
(* value: plain Diffie-Hellman (keyexchange.py), the authenticated triple  *)
(* exchange (auth_keyexchange.py), and the hybrid with ML-KEM              *)
(* (pq_keyexchange.py, keyexchange.rs).                                    *)
(*                                                                         *)
(* The group is a real one, of a small safe prime P = 2Q + 1, so that the  *)
(* range checks, the two degenerate subgroups and the negation of a public *)
(* value are the code's own.  SHA-512 and ML-KEM are free constructors.    *)
(***************************************************************************)
EXTENDS Integers, FiniteSets, Functions

CONSTANTS
  P, G,       (* the group                                                 *)
  Width,      (* 2^2048: values Rust can parse are below it                *)
  Draws,      (* what os.urandom may give a party for its exponent         *)
  Supplied,   (* exponents a caller may pass instead                       *)
  Statics,    (* party -> exponent of its long-term identity               *)
  Mallory,    (* the exponents the network itself has                      *)
  Infos,      (* the `info` of a call                                      *)
  None, Raised

Q == (P - 1) \div 2
Parties == {"alice", "bob"}
Other(p) == IF p = "alice" THEN "bob" ELSE "alice"
Modes == {"dh", "auth", "hybrid"}
Legs == {"dh", "kem"}

ASSUME KeyAssumption ==
  /\ P \in Nat /\ P > 4 /\ P % 2 = 1 /\ G \in 2..P - 2 /\ Width \in Nat /\ Width > P
  /\ Draws \subseteq 0..Q - 3 /\ Supplied \subseteq Nat
  /\ Statics \in [Parties -> 2..Q - 1] /\ Mallory \subseteq 2..Q - 1

VARIABLES
  mode,       (* which exchange this is                                    *)
  peer,       (* the identity each party has verified as its peer's        *)
  dh,         (* the exponent of each party's ephemeral key                *)
  generated,  (* whether it was drawn by the constructor                   *)
  heard,      (* what each party was last given                            *)
  out         (* what its last call came to                                *)

vars == <<mode, peer, dh, generated, heard, out>>

-----------------------------------------------------------------------------
(* keyexchange.py *)

Pow(y, x) ==
  LET pow[e \in 0..x] ==
        IF e = 0 THEN 1
        ELSE LET half == pow[e \div 2]
                 square == (half * half) % P
             IN  IF e % 2 = 0 THEN square ELSE (square * y) % P
  IN  pow[x]

(* RFC 3526: a safe prime, in whose group every power of P - 1 is 1.         *)
IsPrime(n) == n > 1 /\ \A d \in 2..n - 1 : n % d # 0

ASSUME SafePrime ==
  IsPrime(P) /\ IsPrime(Q) /\ \A y \in 1..P - 1 : Pow(y, P - 1) = 1

InRange(v) == 2 <= v /\ v <= P - 2
Generate_Fault_NoOffset(r) == r % (P - 1)
Generate(r) == 2 + (r % (P - 3))
Public(x) == Pow(G, x)

ValidatePeer(y) == InRange(y) /\ y \notin {1, P - 1}

RawShared(x, y) == IF ValidatePeer(y) THEN Pow(y, x) ELSE Raised

Hash(label, parts) == [label |-> label, parts |-> parts]

SharedKey_Fault_NoInfo(x, y, info) ==
  IF RawShared(x, y) = Raised THEN Raised ELSE Hash("dh", <<RawShared(x, y)>>)

SharedKey(x, y, info) ==
  IF RawShared(x, y) = Raised THEN Raised
  ELSE Hash("dh", <<info, RawShared(x, y)>>)

(* keyexchange.rs: exponents and values come as bytes and are checked there. *)
Parses(v) == v < Width
RsRawShared(x, y) ==
  IF Parses(x) /\ Parses(y) /\ InRange(x) /\ InRange(y) THEN Pow(y, x) ELSE Raised
RsSharedKey(x, y, info) ==
  IF RsRawShared(x, y) = Raised THEN Raised
  ELSE Hash("dh", <<info, RsRawShared(x, y)>>)

-----------------------------------------------------------------------------
(* auth_keyexchange.py: the ephemeral and the static exponent, the peer's    *)
(* verified identity and the ephemeral value that arrived.                   *)

SessionKey_Fault_Unsorted(x, s, id, y, info) ==
  IF ~ValidatePeer(id) \/ ~ValidatePeer(y) THEN Raised
  ELSE Hash("auth", <<info, RawShared(x, y), RawShared(x, id), RawShared(s, y)>>)

SessionKey(x, s, id, y, info) ==
  LET ee == RawShared(x, y)
      es == RawShared(x, id)
      se == RawShared(s, y)
  IN  IF ee = Raised \/ es = Raised \/ se = Raised THEN Raised
      ELSE IF es <= se THEN Hash("auth", <<info, ee, es, se>>)
      ELSE Hash("auth", <<info, ee, se, es>>)

-----------------------------------------------------------------------------
(* pq_keyexchange.py and its ML-KEM, external.  Alice's key pair and Bob's   *)
(* encapsulation are fresh; the network has one of its own.                  *)

KemKeys == {"alice", "mallory"}
Encapsulate(pk, who) == [pk |-> pk, by |-> who]
Encapsulated(ct) == <<"secret", ct>>
Decapsulate(pk, ct) == IF ct.pk = pk THEN Encapsulated(ct) ELSE <<"rejected", pk, ct>>

Transcript(dhA, dhB, pk, ct) == <<dhA, dhB, pk, ct>>

Combine_Fault_NoPq(classical, pq, transcript, info) ==
  Hash("hybrid", <<info, classical, Encapsulated(Encapsulate("mallory", "mallory")), transcript>>)
Combine(classical, pq, transcript, info) ==
  Hash("hybrid", <<info, classical, pq, transcript>>)

InitiatorKey(raw, x, y, ct, info) ==
  IF raw = Raised THEN Raised
  ELSE Combine(raw, Decapsulate("alice", ct), Transcript(Public(x), y, "alice", ct), info)

ResponderKey(raw, x, y, pk, ct, info) ==
  IF raw = Raised THEN Raised
  ELSE Combine(raw, Encapsulated(ct), Transcript(y, Public(x), pk, ct), info)

-----------------------------------------------------------------------------
(***************************************************************************)
(* The network: every public value there is, its negation, and the ends of *)
(* the ranges.                                                             *)
(***************************************************************************)
Publics ==
  {Public(x) : x \in {dh[p] : p \in Parties} \ {None}}
    \cup {Public(Statics[p]) : p \in Parties} \cup {Public(m) : m \in Mallory}

Edges == {0, 1, 2, P - 2, P - 1, P, P + 1, Width}
Arrivals == Publics \cup {P - y : y \in Publics} \cup Edges

(* The identities a party may have verified; one of them is degenerate. *)
Identities ==
  {Public(Statics[p]) : p \in Parties} \cup {Public(m) : m \in Mallory} \cup {P - 1}

Init ==
  /\ mode \in Modes
  /\ peer \in IF mode = "auth" THEN [Parties -> Identities] ELSE [Parties -> {None}]
  /\ dh = [p \in Parties |-> None]
  /\ generated = [p \in Parties |-> FALSE]
  /\ heard = [p \in Parties |-> None]
  /\ out = [p \in Parties |-> None]

(* DHParty(), AuthHandshake(identity, peer), HybridInitiator(),              *)
(* HybridResponder().  No exponent is drawn twice.                           *)
Create(p, r) ==
  /\ dh[p] = None /\ out[p] = None
  /\ \A q \in Parties : dh[q] # Generate(r)
  /\ IF mode = "auth" /\ ~ValidatePeer(peer[p])
     THEN out' = [out EXCEPT ![p] = Raised] /\ UNCHANGED <<dh, generated>>
     ELSE /\ dh' = [dh EXCEPT ![p] = Generate(r)]
          /\ generated' = [generated EXCEPT ![p] = TRUE]
          /\ UNCHANGED out
  /\ UNCHANGED <<mode, peer, heard>>

(* DHParty(private): only plain Diffie-Hellman takes one from a caller. *)
CreateSupplied(p, x) ==
  /\ mode = "dh" /\ dh[p] = None /\ out[p] = None
  /\ IF InRange(x)
     THEN dh' = [dh EXCEPT ![p] = x] /\ UNCHANGED out
     ELSE out' = [out EXCEPT ![p] = Raised] /\ UNCHANGED dh
  /\ UNCHANGED <<mode, peer, generated, heard>>

HasKey(p) == out[p] \notin {None, Raised}

(* An object may be called again, after an exception or a key. *)
MayCall(p) == dh[p] # None

Called(p, y, pk, ct, info, result) ==
  /\ heard' = [heard EXCEPT ![p] = [y |-> y, pk |-> pk, ct |-> ct, info |-> info]]
  /\ out' = [out EXCEPT ![p] = result]
  /\ UNCHANGED <<mode, peer, dh, generated>>

CallShared(p, y, info) ==
  /\ mode = "dh" /\ MayCall(p)
  /\ Called(p, y, None, None, info, SharedKey(dh[p], y, info))

CallSession(p, y, info) ==
  /\ mode = "auth" /\ MayCall(p)
  /\ Called(p, y, None, None, info, SessionKey(dh[p], Statics[p], peer[p], y, info))

(* Encapsulates afresh each time; not called again once it came to a key     *)
(* (bound of the model).                                                     *)
CallRespond(y, pk, info) ==
  /\ mode = "hybrid" /\ MayCall("bob") /\ ~HasKey("bob")
  /\ LET ct == Encapsulate(pk, "bob")
     IN  Called("bob", y, pk, ct, info,
                ResponderKey(RawShared(dh["bob"], y), dh["bob"], y, pk, ct, info))

Ciphertexts ==
  {Encapsulate("alice", "mallory")}
    \cup (IF HasKey("bob") THEN {heard["bob"].ct} ELSE {})

CallInitiator(y, ct, info) ==
  /\ mode = "hybrid" /\ MayCall("alice")
  /\ Called("alice", y, None, ct, info,
            InitiatorKey(RawShared(dh["alice"], y), dh["alice"], y, ct, info))

Next ==
  \/ \E p \in Parties, r \in Draws : Create(p, r)
  \/ \E p \in Parties, x \in Supplied : CreateSupplied(p, x)
  \/ \E p \in Parties, y \in Arrivals, info \in Infos :
       CallShared(p, y, info) \/ CallSession(p, y, info)
  \/ \E y \in Arrivals, pk \in KemKeys, info \in Infos : CallRespond(y, pk, info)
  \/ \E y \in Arrivals, ct \in Ciphertexts, info \in Infos : CallInitiator(y, ct, info)

Spec == Init /\ [][Next]_vars

-----------------------------------------------------------------------------
BothHaveKeys == \A p \in Parties : HasKey(p)

(* What a party was given is what its peer sent. *)
Genuine(p) ==
  /\ dh[Other(p)] # None
  /\ heard[p].y = Public(dh[Other(p)])
  /\ mode = "hybrid" => heard[p].ct = Encapsulate("alice", "bob")
  /\ mode = "auth" => peer[p] = Public(Statics[Other(p)])

(***************************************************************************)
(* keyexchange.py:85 - with a drawn exponent no accepted peer value, of    *)
(* whatever subgroup, makes the shared element 0, 1 or P - 1.              *)
(***************************************************************************)
NeverDegenerate ==
  \A p \in Parties :
    generated[p] /\ HasKey(p) => RawShared(dh[p], heard[p].y) \notin {0, 1, P - 1}

(* The shapes of the states; a drawn exponent lies below the group order. *)
TypeOK ==
  /\ \A p \in Parties : generated[p] => dh[p] \in 2..Q - 1
  /\ \A p \in Parties : dh[p] # None => InRange(dh[p])
  /\ \A p \in Parties : HasKey(p) => out[p].label = mode /\ DOMAIN heard[p] = {"y", "pk", "ct", "info"}
  /\ NeverDegenerate

(***************************************************************************)
(* Two parties that heard each other, with the same info, have one key:    *)
(* also when the cross terms of the triple exchange compare either way.    *)
(***************************************************************************)
Agreement ==
  BothHaveKeys /\ (\A p \in Parties : Genuine(p)) =>
    (out["alice"] = out["bob"] <=> heard["alice"].info = heard["bob"].info)

(***************************************************************************)
(* auth_keyexchange.py: parties with equal keys have verified each other.  *)
(* The ephemeral values are bound up to their sign only: the triple        *)
(* exchange hashes no transcript, and an even exponent does not see it.    *)
(***************************************************************************)
AuthMeansPeer ==
  mode = "auth" /\ BothHaveKeys /\ out["alice"] = out["bob"] =>
    \A p \in Parties :
      LET sent == Public(dh[Other(p)])
      IN  /\ peer[p] = Public(Statics[Other(p)])
          /\ heard[p].y \in {sent, P - sent}

(***************************************************************************)
(* pq_keyexchange.py:76 - any changed public value makes the keys differ.  *)
(***************************************************************************)
HybridMeansUnchanged ==
  mode = "hybrid" /\ BothHaveKeys /\ out["alice"] = out["bob"] =>
    \A p \in Parties : Genuine(p)

(* Equal keys are what those who heard each other have, in every mode.      *)
KeyMeansAgreement == Agreement /\ HybridMeansUnchanged

(* What the network can compute from its own exponents, or, where it can     *)
(* break a leg, from everyone's.                                             *)
Elements(broken) ==
  LET theirs == IF "dh" \in broken THEN ({dh[p] : p \in Parties} \cup Range(Statics)) \ {None}
                ELSE {}
  IN  UNION {{Pow(y, e), P - Pow(y, e)} : y \in Publics \cup {2}, e \in {1} \cup Mallory \cup theirs}

KemKnown(pq, broken) ==
  \/ "kem" \in broken
  \/ \E ct \in {Encapsulate(pk, "mallory") : pk \in KemKeys}
             \cup {Encapsulate("mallory", who) : who \in {"bob", "mallory"}} :
       pq = Encapsulated(ct)

Known(key, broken) ==
  CASE key.label = "dh"     -> key.parts[2] \in Elements(broken)
    [] key.label = "auth"   -> \A i \in 2..4 : key.parts[i] \in Elements(broken)
    [] key.label = "hybrid" -> key.parts[2] \in Elements(broken) /\ KemKnown(key.parts[3], broken)

(***************************************************************************)
(* The network does not have a key: of the plain exchange, if it did not   *)
(* replace the value; of the triple exchange, whatever it sent, if the     *)
(* verified identity is an honest one; of the hybrid, if it replaced       *)
(* nothing and can break no more than one leg.                             *)
(***************************************************************************)
KeySecret ==
  \A p \in Parties :
    HasKey(p) /\ generated[p] /\ generated[Other(p)] =>
      /\ mode = "dh" /\ Genuine(p) => ~Known(out[p], {"kem"})
      /\ mode = "auth" /\ peer[p] \in {Public(Statics[q]) : q \in Parties}
           => ~Known(out[p], {"kem"})
      /\ mode = "hybrid" /\ Genuine(p) => \A leg \in Legs : ~Known(out[p], {leg})

(* A key is its two parties' alone.  Both parts hold as long as no two      *)
(* elements of the group coincide by chance.                                *)
OnlyTheirs == AuthMeansPeer /\ KeySecret

(***************************************************************************)
(* Python and Rust accept the same values and derive the same keys.        *)
(***************************************************************************)
PortsAgree ==
  \A p \in Parties :
    dh[p] # None /\ heard[p] # None /\ mode # "auth" =>
      LET h   == heard[p]
          raw == RsRawShared(dh[p], h.y)
      IN  out[p] = IF mode = "dh" THEN RsSharedKey(dh[p], h.y, h.info)
                   ELSE IF p = "bob" THEN ResponderKey(raw, dh[p], h.y, h.pk, h.ct, h.info)
                   ELSE InitiatorKey(raw, dh[p], h.y, h.ct, h.info)
=============================================================================
