---------------------------- MODULE AuthPqProofs ----------------------------
(***************************************************************************)
(* The authenticated handshake, for any casts of sessions and any number   *)
(* of flights: both ends are authenticated, whatever the transport does    *)
(* and however often each method is called, and nobody without both        *)
(* long-term keys of an identity passes for it.                            *)
(*                                                                         *)
(* The argument: a signature pins its transcript, and whoever signed it    *)
(* derived a key from just that transcript (Signed).  What a Responder     *)
(* holds may belong to an older call than its transcript, because          *)
(* respond() stores the transcript before it validates the Diffie-Hellman  *)
(* value; then the transcript names a value out of range, which no         *)
(* initiator signs (Held).  Two sides with one transcript compute one key  *)
(* (KeysMeet).  What is proved of the helper, the vectors and the attack   *)
(* script needs of the state no more than its types.                       *)
(***************************************************************************)
EXTENDS AuthPqScripts, FiniteSetTheorems, TLAPS

(* What a Responder computes in its respond() call number n ...            *)
CtAt(kemI, r, n) == [to |-> kemI, by |-> r, call |-> n]

TrR(r, dhI, kemI, n) ==
  Transcript(PeerOf(r), IdOf(r), dhI, kemI, Ephemeral(r), CtAt(kemI, r, n))

KeyR(r, dhI, kemI, n) ==
  Combine(RawShared(Ephemeral(r), dhI), Encapsulated(CtAt(kemI, r, n)),
          RawShared(Ephemeral(r), Static(PeerOf(r))), RawShared(Static(IdOf(r)), dhI),
          TrR(r, dhI, kemI, n), InfoOf(r))

(* ... and an Initiator for the values of a flight 2.                      *)
TrI(i, dhR, ct) == Transcript(IdOf(i), PeerOf(i), Ephemeral(i), KemKey(i), dhR, ct)

KeyI(i, dhR, ct) ==
  Combine(RawShared(Ephemeral(i), dhR), Decapsulate(i, ct),
          RawShared(Ephemeral(i), Static(PeerOf(i))), RawShared(Static(IdOf(i)), dhR),
          TrI(i, dhR, ct), InfoOf(i))

SignedByResponder(sig) ==
  \E r \in Responders, dhI \in DhValues, kemI \in KemKeys, n \in Calls :
    /\ sig = Signature(IdOf(r), "responder", TrR(r, dhI, kemI, n))
    /\ KeyR(r, dhI, kemI, n) \in derived[r]

SignedByInitiator(sig) ==
  \E i \in Initiators, dhR \in DhValues, ct \in Ciphertexts :
    /\ sig = Signature(IdOf(i), "initiator", TrI(i, dhR, ct))
    /\ KeyI(i, dhR, ct) \in derived[i]

Signed == \A sig \in sigs : SignedByResponder(sig) \/ SignedByInitiator(sig)

HeldBy(r) ==
  \E dhI \in DhValues, kemI \in KemKeys, n \in Calls :
    /\ rsp[r].tr = TrR(r, dhI, kemI, n)
    /\ dhI = Degenerate \/ rsp[r].key = KeyR(r, dhI, kemI, n)

Held == \A r \in Responders : rsp[r].tr = None \/ HeldBy(r)

IInv == cast \in Casts /\ TypeOK /\ Signed /\ Held

FullInv == IInv /\ MutualAgreement

-----------------------------------------------------------------------------
(* The sessions there are, were given identities and an info.              *)
LEMMA CastParts ==
  ASSUME cast \in Casts
  PROVE  /\ Sessions \subseteq AllSessions
         /\ \A s \in Sessions :
              IdOf(s) \in Identities /\ PeerOf(s) \in Identities /\ InfoOf(s) \in Infos
         /\ Initiators \subseteq Sessions /\ Responders \subseteq Sessions
<1>1. cast \in [Sessions -> [role : Roles, id : Identities, peer : Identities, info : Infos]]
  BY HandshakeAssumption DEF Sessions
<1>2. Sessions \subseteq AllSessions
  BY DEF Sessions, AllSessions
<1>3. \A s \in Sessions :
        IdOf(s) \in Identities /\ PeerOf(s) \in Identities /\ InfoOf(s) \in Infos
  BY <1>1 DEF IdOf, PeerOf, InfoOf
<1> QED
  BY <1>2, <1>3 DEF Initiators, Responders

(* A signature names its signer, role and transcript.                      *)
LEMMA SignatureParts ==
  ASSUME NEW p, NEW role, NEW tr, NEW q, NEW other, NEW ur,
         Signature(p, role, tr) = Signature(q, other, ur)
  PROVE  p = q /\ role = other /\ tr = ur
<1>1. Signature(p, role, tr).by = p /\ Signature(p, role, tr).role = role
        /\ Signature(p, role, tr).tr = tr
  BY DEF Signature
<1>2. Signature(q, other, ur).by = q /\ Signature(q, other, ur).role = other
        /\ Signature(q, other, ur).tr = ur
  BY DEF Signature
<1> QED
  BY <1>1, <1>2

(* A transcript names all six of its parts.                                *)
LEMMA TranscriptParts ==
  ASSUME NEW a, NEW b, NEW c, NEW d, NEW e, NEW f,
         NEW g, NEW h, NEW i, NEW j, NEW k, NEW l,
         Transcript(a, b, c, d, e, f) = Transcript(g, h, i, j, k, l)
  PROVE  a = g /\ b = h /\ c = i /\ d = j /\ e = k /\ f = l
<1> DEFINE t == Transcript(a, b, c, d, e, f)
           u == Transcript(g, h, i, j, k, l)
<1>1. /\ t.init = a /\ t.resp = b /\ t.dhI = c
      /\ t.kemI = d /\ t.dhR = e /\ t.ct = f
  BY DEF Transcript
<1>2. /\ u.init = g /\ u.resp = h /\ u.dhI = i
      /\ u.kemI = j /\ u.dhR = k /\ u.ct = l
  BY DEF Transcript
<1>3. t = u
  OBVIOUS
<1> HIDE DEF t, u
<1> QED
  BY <1>1, <1>2, <1>3

(* What one transcript of both sides says of them.                         *)
LEMMA TranscriptsMeet ==
  ASSUME NEW i, NEW r, NEW dhI, NEW kemI, NEW n, NEW dhR, NEW ct,
         TrI(i, dhR, ct) = TrR(r, dhI, kemI, n)
  PROVE  /\ Paired(i, r)
         /\ dhI = Ephemeral(i) /\ kemI = KemKey(i)
         /\ dhR = Ephemeral(r) /\ ct = CtAt(kemI, r, n)
<1>1. /\ IdOf(i) = PeerOf(r) /\ PeerOf(i) = IdOf(r)
      /\ Ephemeral(i) = dhI /\ KemKey(i) = kemI
      /\ dhR = Ephemeral(r) /\ ct = CtAt(kemI, r, n)
  <2>1. Transcript(IdOf(i), PeerOf(i), Ephemeral(i), KemKey(i), dhR, ct)
          = Transcript(PeerOf(r), IdOf(r), dhI, kemI, Ephemeral(r), CtAt(kemI, r, n))
    BY DEF TrI, TrR
  <2> QED
    BY <2>1, TranscriptParts
<1> QED
  BY <1>1 DEF Paired

(***************************************************************************)
(* The key schedule is symmetric: the same elements, whose two static      *)
(* terms are combined without their order, and the secret of a ciphertext  *)
(* made for the initiator.                                                 *)
(***************************************************************************)
LEMMA KeysMeet ==
  ASSUME NEW i, NEW r, NEW n, Paired(i, r),
         TrI(i, Ephemeral(r), CtAt(KemKey(i), r, n))
           = TrR(r, Ephemeral(i), KemKey(i), n)
  PROVE  /\ KeyI(i, Ephemeral(r), CtAt(KemKey(i), r, n)).tr
              = KeyR(r, Ephemeral(i), KemKey(i), n).tr
         /\ InfoOf(i) = InfoOf(r) <=>
              KeyI(i, Ephemeral(r), CtAt(KemKey(i), r, n))
                = KeyR(r, Ephemeral(i), KemKey(i), n)
<1> DEFINE ct == CtAt(KemKey(i), r, n)
           tr == TrR(r, Ephemeral(i), KemKey(i), n)
           ee == RawShared(Ephemeral(i), Ephemeral(r))
           es == RawShared(Ephemeral(i), Static(PeerOf(i)))
           se == RawShared(Static(IdOf(i)), Ephemeral(r))
<1>1. Decapsulate(i, ct) = Encapsulated(ct)
  BY DEF Decapsulate, Encapsulated, CtAt
<1>2. /\ RawShared(Ephemeral(r), Ephemeral(i)) = ee
      /\ RawShared(Static(IdOf(r)), Ephemeral(i)) = es
      /\ RawShared(Ephemeral(r), Static(PeerOf(r))) = se
  BY DEF RawShared, Paired
<1>3. KeyI(i, Ephemeral(r), ct) = Combine(ee, Encapsulated(ct), es, se, tr, InfoOf(i))
  BY <1>1 DEF KeyI
<1>4. KeyR(r, Ephemeral(i), KemKey(i), n)
        = Combine(ee, Encapsulated(ct), se, es, tr, InfoOf(r))
  BY <1>2 DEF KeyR
<1> HIDE DEF ct, tr, ee, es, se
<1>5. {es, se} = {se, es}
  OBVIOUS
<1>6. /\ Combine(ee, Encapsulated(ct), es, se, tr, InfoOf(i)).tr = tr
      /\ Combine(ee, Encapsulated(ct), se, es, tr, InfoOf(r)).tr = tr
      /\ Combine(ee, Encapsulated(ct), es, se, tr, InfoOf(i)).info = InfoOf(i)
      /\ Combine(ee, Encapsulated(ct), se, es, tr, InfoOf(r)).info = InfoOf(r)
  BY DEF Combine
<1>7. InfoOf(i) = InfoOf(r) <=>
        Combine(ee, Encapsulated(ct), es, se, tr, InfoOf(i))
          = Combine(ee, Encapsulated(ct), se, es, tr, InfoOf(r))
  BY <1>5, <1>6 DEF Combine
<1> QED
  BY <1>3, <1>4, <1>6, <1>7 DEF ct

-----------------------------------------------------------------------------
(* Both sides combine values of their types.                               *)
LEMMA CombineType ==
  ASSUME NEW a \in ValidPoints, NEW b \in ValidPoints, NEW c \in ValidPoints,
         NEW d \in ValidPoints, NEW e \in ValidPoints, NEW f \in ValidPoints,
         NEW pq \in KemSecrets, NEW tr \in Transcripts, NEW info \in Infos
  PROVE  Combine(RawShared(a, b), pq, RawShared(c, d), RawShared(e, f), tr, info) \in Keys
<1>1. /\ RawShared(a, b) \in SUBSET ValidPoints
      /\ {RawShared(c, d), RawShared(e, f)} \in SUBSET SUBSET ValidPoints
  BY DEF RawShared
<1> QED
  BY <1>1 DEF Combine, Keys

LEMMA ResponderTypes ==
  ASSUME cast \in Casts, NEW r \in Responders, NEW dhI \in DhValues,
         NEW kemI \in KemKeys, NEW n \in Calls
  PROVE  /\ CtAt(kemI, r, n) \in Ciphertexts
         /\ TrR(r, dhI, kemI, n) \in Transcripts
         /\ Ephemeral(r) \in DhValues
         /\ dhI # Degenerate => KeyR(r, dhI, kemI, n) \in Keys
<1>1. /\ r \in AllSessions /\ IdOf(r) \in Identities
      /\ PeerOf(r) \in Identities /\ InfoOf(r) \in Infos
  BY CastParts
<1>2. CtAt(kemI, r, n) \in Ciphertexts
  BY <1>1 DEF CtAt, Ciphertexts
<1>3. Ephemeral(r) \in DhValues /\ Ephemeral(r) \in ValidPoints
  BY <1>1 DEF DhValues, ValidPoints
<1>4. TrR(r, dhI, kemI, n) \in Transcripts
  BY <1>1, <1>2, <1>3 DEF TrR, Transcript, Transcripts
<1>5. ASSUME dhI # Degenerate PROVE KeyR(r, dhI, kemI, n) \in Keys
  <2>1. dhI \in ValidPoints
    BY <1>5 DEF DhValues, ValidPoints
  <2>2. Static(PeerOf(r)) \in ValidPoints /\ Static(IdOf(r)) \in ValidPoints
    BY <1>1 DEF ValidPoints
  <2>3. Encapsulated(CtAt(kemI, r, n)) \in KemSecrets
    BY <1>2 DEF Encapsulated, KemSecrets
  <2> QED
    BY <1>1, <1>3, <1>4, <2>1, <2>2, <2>3, CombineType DEF KeyR
<1> QED
  BY <1>2, <1>3, <1>4, <1>5

LEMMA InitiatorTypes ==
  ASSUME cast \in Casts, NEW i \in Initiators, NEW dhR \in DhValues, NEW ct \in Ciphertexts
  PROVE  /\ TrI(i, dhR, ct) \in Transcripts
         /\ dhR # Degenerate => KeyI(i, dhR, ct) \in Keys
         /\ Ephemeral(i) # Degenerate
<1>1. /\ i \in AllSessions /\ IdOf(i) \in Identities
      /\ PeerOf(i) \in Identities /\ InfoOf(i) \in Infos
  BY CastParts
<1>2. Ephemeral(i) \in DhValues /\ Ephemeral(i) \in ValidPoints /\ KemKey(i) \in KemKeys
  BY <1>1 DEF DhValues, ValidPoints, KemKeys
<1>3. TrI(i, dhR, ct) \in Transcripts
  BY <1>1, <1>2 DEF TrI, Transcript, Transcripts
<1>4. ASSUME dhR # Degenerate PROVE KeyI(i, dhR, ct) \in Keys
  <2>1. dhR \in ValidPoints
    BY <1>4 DEF DhValues, ValidPoints
  <2>2. Static(PeerOf(i)) \in ValidPoints /\ Static(IdOf(i)) \in ValidPoints
    BY <1>1 DEF ValidPoints
  <2>3. Decapsulate(i, ct) \in KemSecrets
    BY <1>1 DEF Decapsulate, KemSecrets
  <2> QED
    BY <1>1, <1>2, <1>3, <2>1, <2>2, <2>3, CombineType DEF KeyI
<1> QED
  BY <1>2, <1>3, <1>4, ForeignValues

-----------------------------------------------------------------------------
(* Nobody joins or leaves, and what was computed stays what it was.        *)
LEMMA CastStays ==
  ASSUME cast' = cast
  PROVE  /\ Sessions' = Sessions /\ Initiators' = Initiators /\ Responders' = Responders
         /\ \A s : IdOf(s)' = IdOf(s) /\ PeerOf(s)' = PeerOf(s) /\ InfoOf(s)' = InfoOf(s)
         /\ \A i, r : Paired(i, r)' = Paired(i, r)
         /\ \A r, dhI, kemI, n :
              /\ TrR(r, dhI, kemI, n)' = TrR(r, dhI, kemI, n)
              /\ KeyR(r, dhI, kemI, n)' = KeyR(r, dhI, kemI, n)
         /\ \A i, dhR, ct :
              /\ TrI(i, dhR, ct)' = TrI(i, dhR, ct)
              /\ KeyI(i, dhR, ct)' = KeyI(i, dhR, ct)
<1>1. Sessions' = Sessions /\ Initiators' = Initiators /\ Responders' = Responders
  BY DEF Sessions, Initiators, Responders
<1>2. \A s : IdOf(s)' = IdOf(s) /\ PeerOf(s)' = PeerOf(s) /\ InfoOf(s)' = InfoOf(s)
  BY DEF IdOf, PeerOf, InfoOf
<1>3. \A i, r : Paired(i, r)' = Paired(i, r)
  BY DEF Paired, IdOf, PeerOf
<1>4. \A r, dhI, kemI, n : TrR(r, dhI, kemI, n)' = TrR(r, dhI, kemI, n)
  BY DEF TrR, IdOf, PeerOf
<1>5. \A r, dhI, kemI, n : KeyR(r, dhI, kemI, n)' = KeyR(r, dhI, kemI, n)
  BY <1>4 DEF KeyR, IdOf, PeerOf, InfoOf
<1>6. \A i, dhR, ct : TrI(i, dhR, ct)' = TrI(i, dhR, ct)
  BY DEF TrI, IdOf, PeerOf
<1>7. \A i, dhR, ct : KeyI(i, dhR, ct)' = KeyI(i, dhR, ct)
  BY <1>6 DEF KeyI, IdOf, PeerOf, InfoOf
<1> QED
  BY <1>1, <1>2, <1>3, <1>4, <1>5, <1>6, <1>7

(* What is demanded of a held key.                                         *)
ResponderOf(i, key) ==
  \E r \in Responders :
    /\ Paired(i, r)
    /\ \E k \in derived[r] : k.tr = key.tr /\ (InfoOf(i) = InfoOf(r) <=> k = key)

InitiatorOf(r, key) ==
  \E i \in Initiators :
    /\ Paired(i, r)
    /\ \E k \in derived[i] : k.tr = key.tr /\ (InfoOf(i) = InfoOf(r) <=> k = key)

LEMMA AgreementParts ==
  /\ InitiatorAgreement = \A i \in Initiators : ini[i].key # None => ResponderOf(i, ini[i].key)
  /\ ResponderAgreement =
       \A r \in Responders : rsp[r].confirmed # None => InitiatorOf(r, rsp[r].confirmed)
<1>1. InitiatorAgreement =
        \A i \in Initiators : ini[i].key # None => ResponderOf(i, ini[i].key)
  BY DEF InitiatorAgreement, ResponderOf
<1>2. ResponderAgreement =
        \A r \in Responders : rsp[r].confirmed # None => InitiatorOf(r, rsp[r].confirmed)
  BY DEF ResponderAgreement, InitiatorOf
<1> QED
  BY <1>1, <1>2

(* Derived keys are never forgotten by the history.                        *)
Grows == cast' = cast /\ \A s \in Sessions : derived[s] \subseteq derived'[s]

LEMMA Persist ==
  ASSUME Grows
  PROVE  /\ \A sig : SignedByResponder(sig) => SignedByResponder(sig)'
         /\ \A sig : SignedByInitiator(sig) => SignedByInitiator(sig)'
         /\ \A i, key : ResponderOf(i, key) => ResponderOf(i, key)'
         /\ \A r, key : InitiatorOf(r, key) => InitiatorOf(r, key)'
<1>0. /\ cast' = cast
      /\ \A s \in Initiators \cup Responders : derived[s] \subseteq derived'[s]
  BY DEF Grows, Initiators, Responders
<1>1. ASSUME NEW sig, SignedByResponder(sig) PROVE SignedByResponder(sig)'
  <2>1. PICK r \in Responders, dhI \in DhValues, kemI \in KemKeys, n \in Calls :
          /\ sig = Signature(IdOf(r), "responder", TrR(r, dhI, kemI, n))
          /\ KeyR(r, dhI, kemI, n) \in derived[r]
    BY <1>1 DEF SignedByResponder
  <2>2. /\ r \in Responders'
        /\ sig = Signature(IdOf(r), "responder", TrR(r, dhI, kemI, n))'
        /\ KeyR(r, dhI, kemI, n)' \in derived'[r]
    BY <1>0, <2>1, CastStays DEF Signature
  <2> QED
    BY <2>2 DEF SignedByResponder
<1>2. ASSUME NEW sig, SignedByInitiator(sig) PROVE SignedByInitiator(sig)'
  <2>1. PICK i \in Initiators, dhR \in DhValues, ct \in Ciphertexts :
          /\ sig = Signature(IdOf(i), "initiator", TrI(i, dhR, ct))
          /\ KeyI(i, dhR, ct) \in derived[i]
    BY <1>2 DEF SignedByInitiator
  <2>2. /\ i \in Initiators'
        /\ sig = Signature(IdOf(i), "initiator", TrI(i, dhR, ct))'
        /\ KeyI(i, dhR, ct)' \in derived'[i]
    BY <1>0, <2>1, CastStays DEF Signature
  <2> QED
    BY <2>2 DEF SignedByInitiator
<1>3. ASSUME NEW i, NEW key, ResponderOf(i, key) PROVE ResponderOf(i, key)'
  BY <1>0, <1>3, CastStays DEF ResponderOf
<1>4. ASSUME NEW r, NEW key, InitiatorOf(r, key) PROVE InitiatorOf(r, key)'
  BY <1>0, <1>4, CastStays DEF InitiatorOf
<1> QED
  BY <1>1, <1>2, <1>3, <1>4

-----------------------------------------------------------------------------
(* What respond() does in the terms of the invariant.                      *)
LEMMA RespondParts ==
  ASSUME IInv, NEW r \in Responders, NEW m \in Msg1Arrivals, m.kemI # Malformed,
         calls < MaxResponds
  PROVE  /\ m.dhI \in DhValues /\ m.kemI \in KemKeys /\ calls \in Calls
         /\ RespondTranscript(r, m) = TrR(r, m.dhI, m.kemI, calls)
         /\ RespondKey(r, m) = KeyR(r, m.dhI, m.kemI, calls)
         /\ Encapsulate(m.kemI, r) = CtAt(m.kemI, r, calls)
<1>1. Sessions \subseteq AllSessions /\ Initiators \subseteq AllSessions
  BY CastParts DEF IInv
<1>2. m.dhI \in DhValues
  BY <1>1 DEF Msg1Arrivals, DhArrivals, DhValues
<1>3. m.kemI \in KemKeys
  BY <1>1 DEF Msg1Arrivals, KemKeys
<1>4. calls \in Calls
  BY HandshakeAssumption DEF IInv, TypeOK, Calls
<1>5. Encapsulate(m.kemI, r) = CtAt(m.kemI, r, calls)
  BY DEF Encapsulate, CtAt
<1>6. RespondTranscript(r, m) = TrR(r, m.dhI, m.kemI, calls)
  BY <1>5 DEF RespondTranscript, TrR
<1>7. RespondKey(r, m) = KeyR(r, m.dhI, m.kemI, calls)
  BY <1>5, <1>6 DEF RespondKey, KeyR, RawShared
<1> QED
  BY <1>2, <1>3, <1>4, <1>5, <1>6, <1>7

LEMMA FinishParts ==
  ASSUME IInv, NEW i \in Initiators, NEW m \in Msg2Arrivals, FinishAccepts(i, m)
  PROVE  /\ m.dhR \in DhValues \ {Degenerate} /\ m.ct \in Ciphertexts
         /\ FinishTranscript(i, m) = TrI(i, m.dhR, m.ct)
         /\ FinishKey(i, m) = KeyI(i, m.dhR, m.ct)
         /\ Signature(PeerOf(i), "responder", TrI(i, m.dhR, m.ct)) \in sigs
<1>1. Sessions \subseteq AllSessions
  BY CastParts DEF IInv
<1>2. m.dhR \in DhValues \ {Degenerate}
  BY <1>1 DEF Msg2Arrivals, DhArrivals, DhValues, FinishAccepts, ValidPeer
<1>3. m.ct \in Ciphertexts
  BY DEF Msg2Arrivals, FinishAccepts, IInv, TypeOK
<1>4. FinishTranscript(i, m) = TrI(i, m.dhR, m.ct)
  BY DEF FinishTranscript, TrI
<1>5. FinishKey(i, m) = KeyI(i, m.dhR, m.ct)
  BY <1>4 DEF FinishKey, KeyI
<1>6. m.sig = Signature(PeerOf(i), "responder", TrI(i, m.dhR, m.ct))
  BY <1>4 DEF FinishAccepts, Verifies
<1>7. TrI(i, m.dhR, m.ct) \in Transcripts
  BY <1>2, <1>3, InitiatorTypes DEF IInv
<1>8. PeerOf(i) \in Identities
  BY CastParts DEF IInv
<1>9. m.sig \in Signatures
  BY <1>6, <1>7, <1>8 DEF Signature, Signatures, Roles
<1>10. m.sig \in sigs
  BY <1>9, ForeignValues DEF Msg2Arrivals
<1> QED
  BY <1>2, <1>3, <1>4, <1>5, <1>6, <1>10

-----------------------------------------------------------------------------
LEMMA InitHolds ==
  ASSUME Init PROVE FullInv
<1>1. cast \in Casts
  BY DEF Init
<1>2. TypeOK
  <2>1. /\ ini \in [Initiators -> [key : Keys \cup {None}]]
        /\ rsp \in [Responders -> [key : Keys \cup {None}, tr : Transcripts \cup {None},
                                   confirmed : Keys \cup {None}, refused : BOOLEAN]]
        /\ derived \in [Sessions -> SUBSET Keys]
    BY DEF Init
  <2>2. calls \in 0 .. MaxResponds
    BY HandshakeAssumption DEF Init
  <2> QED
    BY <2>1, <2>2 DEF Init, TypeOK
<1>3. Signed /\ Held
  BY DEF Init, Signed, Held
<1>4. MutualAgreement
  BY AgreementParts DEF Init, MutualAgreement
<1> QED
  BY <1>1, <1>2, <1>3, <1>4 DEF FullInv, IInv

(* What a Responder holds stays held ...                                   *)
LEMMA HeldStays ==
  ASSUME cast' = cast, NEW r, rsp'[r].tr = rsp[r].tr, rsp'[r].key = rsp[r].key, HeldBy(r)
  PROVE  HeldBy(r)'
<1>1. PICK dhI \in DhValues, kemI \in KemKeys, n \in Calls :
        /\ rsp[r].tr = TrR(r, dhI, kemI, n)
        /\ dhI = Degenerate \/ rsp[r].key = KeyR(r, dhI, kemI, n)
  BY DEF HeldBy
<1>2. /\ rsp'[r].tr = TrR(r, dhI, kemI, n)'
      /\ dhI = Degenerate \/ rsp'[r].key = KeyR(r, dhI, kemI, n)'
  BY <1>1, CastStays
<1> QED
  BY <1>2 DEF HeldBy

(* ... and so does what both ends returned, while it is not replaced.      *)
LEMMA InitiatorStays ==
  ASSUME InitiatorAgreement, Grows, NEW i \in Initiators, ini'[i].key = ini[i].key,
         ini'[i].key # None
  PROVE  ResponderOf(i, ini[i].key)'
<1> PICK key : key = ini[i].key
  OBVIOUS
<1>1. ResponderOf(i, key)
  BY AgreementParts
<1>2. ResponderOf(i, key)'
  BY <1>1, Persist
<1> QED
  BY <1>2 DEF ResponderOf

LEMMA ResponderStays ==
  ASSUME ResponderAgreement, Grows, NEW r \in Responders,
         rsp'[r].confirmed = rsp[r].confirmed, rsp'[r].confirmed # None
  PROVE  InitiatorOf(r, rsp[r].confirmed)'
<1> PICK key : key = rsp[r].confirmed
  OBVIOUS
<1>1. InitiatorOf(r, key)
  BY AgreementParts
<1>2. InitiatorOf(r, key)'
  BY <1>1, Persist
<1> QED
  BY <1>2 DEF InitiatorOf

LEMMA AgreementParted ==
  /\ InitiatorAgreement' =
       \A i \in Initiators' : ini'[i].key # None => ResponderOf(i, ini[i].key)'
  /\ ResponderAgreement' =
       \A r \in Responders' : rsp'[r].confirmed # None => InitiatorOf(r, rsp[r].confirmed)'
<1>1. InitiatorAgreement' =
        \A i \in Initiators' : ini'[i].key # None => ResponderOf(i, ini[i].key)'
  BY DEF InitiatorAgreement, ResponderOf
<1>2. ResponderAgreement' =
        \A r \in Responders' : rsp'[r].confirmed # None => InitiatorOf(r, rsp[r].confirmed)'
  BY DEF ResponderAgreement, InitiatorOf
<1> QED
  BY <1>1, <1>2

LEMMA AgreementStays ==
  ASSUME MutualAgreement, Grows, ini' = ini,
         \A r \in Responders : rsp'[r].confirmed = rsp[r].confirmed
  PROVE  MutualAgreement'
<1>0. Initiators' = Initiators /\ Responders' = Responders
        /\ InitiatorAgreement /\ ResponderAgreement
  BY CastStays DEF Grows, MutualAgreement
<1>1. InitiatorAgreement'
  BY <1>0, InitiatorStays, AgreementParted
<1>2. ResponderAgreement'
  BY <1>0, ResponderStays, AgreementParted
<1> QED
  BY <1>1, <1>2 DEF MutualAgreement

(* respond() with a Diffie-Hellman value in range.                         *)
LEMMA RespondHolds ==
  ASSUME FullInv, NEW r \in Responders, NEW m \in Msg1Arrivals,
         Respond(r, m), ValidPeer(m.dhI)
  PROVE  FullInv'
<1> PICK n : n = calls
  OBVIOUS
<1> DEFINE ct  == CtAt(m.kemI, r, n)
           tr  == TrR(r, m.dhI, m.kemI, n)
           key == KeyR(r, m.dhI, m.kemI, n)
           sig == Signature(IdOf(r), "responder", tr)
<1>0. IInv /\ MutualAgreement /\ cast \in Casts /\ TypeOK
  BY DEF FullInv, IInv
<1>1. /\ m.dhI \in DhValues /\ m.kemI \in KemKeys /\ n \in Calls
      /\ RespondTranscript(r, m) = tr /\ RespondKey(r, m) = key
      /\ Encapsulate(m.kemI, r) = ct
  BY <1>0, RespondParts DEF Respond
<1>2. m.dhI # Degenerate
  BY DEF ValidPeer
<1>3. /\ ct \in Ciphertexts /\ tr \in Transcripts
      /\ key \in Keys /\ Ephemeral(r) \in DhValues
  BY <1>0, <1>1, <1>2, ResponderTypes
<1>4. /\ rsp' = [rsp EXCEPT ![r].tr = tr, ![r].key = key]
      /\ derived' = [derived EXCEPT ![r] = @ \cup {key}]
      /\ sigs' = sigs \cup {sig}
      /\ msg2s' = msg2s \cup {[dhR |-> Ephemeral(r), ct |-> ct, sig |-> sig]}
      /\ calls' = calls + 1 /\ cast' = cast /\ ini' = ini
  BY <1>1 DEF Respond
<1>5. IdOf(r) \in Identities /\ r \in Sessions /\ Responders \subseteq Sessions
        /\ Initiators \subseteq Sessions
  BY <1>0, CastParts
<1>6. sig \in Signatures
  BY <1>3, <1>5 DEF Signature, Signatures, Roles
<1> HIDE DEF ct, tr, key, sig
<1>7. derived \in [Sessions -> SUBSET Keys]
        /\ rsp \in [Responders -> [key : Keys \cup {None}, tr : Transcripts \cup {None},
                                  confirmed : Keys \cup {None}, refused : BOOLEAN]]
  BY <1>0 DEF TypeOK
<1>8. Grows /\ key \in derived'[r]
  BY <1>4, <1>5, <1>7 DEF Grows
<1>9. /\ Sessions' = Sessions /\ Initiators' = Initiators /\ Responders' = Responders
  BY <1>4, CastStays
<1>10. /\ rsp'[r] = [rsp[r] EXCEPT !.tr = tr, !.key = key]
       /\ rsp'[r].key = key /\ rsp'[r].tr = tr
       /\ rsp'[r].confirmed = rsp[r].confirmed /\ rsp'[r].refused = rsp[r].refused
       /\ \A s \in Responders : s # r => rsp'[s] = rsp[s]
  BY <1>4, <1>7
<1>11. TypeOK'
  <2>1. rsp' \in [Responders -> [key : Keys \cup {None}, tr : Transcripts \cup {None},
                                 confirmed : Keys \cup {None}, refused : BOOLEAN]]
    BY <1>3, <1>4, <1>7
  <2>2. calls' \in 0 .. MaxResponds
    BY <1>0, <1>4, HandshakeAssumption DEF TypeOK, Respond
  <2>3. sigs' \subseteq Signatures
    BY <1>0, <1>4, <1>6 DEF TypeOK
  <2>4. msg2s' \subseteq [dhR : DhValues, ct : Ciphertexts, sig : sigs']
    BY <1>0, <1>3, <1>4 DEF TypeOK
  <2>5. derived' \in [Sessions -> SUBSET Keys]
    BY <1>3, <1>4, <1>7
  <2>6. \A i \in Initiators : ini'[i].key \in derived'[i] \cup {None}
    BY <1>0, <1>4, <1>5, <1>8 DEF TypeOK, Grows
  <2>7. \A s \in Responders : {rsp'[s].key, rsp'[s].confirmed} \subseteq derived'[s] \cup {None}
    <3>1. ASSUME NEW s \in Responders, s # r
          PROVE  rsp'[s].key \in derived'[s] \cup {None} /\ rsp'[s].confirmed \in derived'[s] \cup {None}
      <4>1. rsp[s].key \in derived[s] \cup {None} /\ rsp[s].confirmed \in derived[s] \cup {None}
        BY <1>0 DEF TypeOK
      <4> QED
        BY <1>5, <1>8, <1>10, <3>1, <4>1 DEF Grows
    <3>2. rsp'[r].key \in derived'[r] \cup {None} /\ rsp'[r].confirmed \in derived'[r] \cup {None}
      <4>1. rsp[r].confirmed \in derived[r] \cup {None}
        BY <1>0 DEF TypeOK
      <4> QED
        BY <1>5, <1>8, <1>10, <4>1 DEF Grows
    <3> QED
      BY <3>1, <3>2
  <2> QED
    BY <1>0, <1>4, <1>9, <2>1, <2>2, <2>3, <2>4, <2>5, <2>6, <2>7 DEF TypeOK
<1>12. Signed'
  <2>1. ASSUME NEW g, g = sig PROVE SignedByResponder(g)'
    <3>1. /\ r \in Responders' /\ g = Signature(IdOf(r), "responder", TrR(r, m.dhI, m.kemI, n))'
          /\ KeyR(r, m.dhI, m.kemI, n)' \in derived'[r]
      BY <1>4, <1>8, <1>9, <2>1, CastStays DEF sig, tr, key, Signature
    <3> QED
      BY <1>1, <3>1 DEF SignedByResponder
  <2>2. \A g \in sigs : SignedByResponder(g)' \/ SignedByInitiator(g)'
    BY <1>0, <1>8, Persist DEF Signed, IInv
  <2> QED
    BY <1>4, <2>1, <2>2 DEF Signed
<1>13. Held'
  <2>1. HeldBy(r)'
    <3>1. rsp'[r].tr = TrR(r, m.dhI, m.kemI, n)' /\ rsp'[r].key = KeyR(r, m.dhI, m.kemI, n)'
      BY <1>4, <1>10, CastStays DEF tr, key
    <3> QED
      BY <1>1, <3>1 DEF HeldBy
  <2>2. ASSUME NEW s \in Responders, rsp'[s] = rsp[s], HeldBy(s) PROVE HeldBy(s)'
    BY <1>4, <2>2, HeldStays
  <2> QED
    BY <1>0, <1>9, <1>10, <2>1, <2>2 DEF Held, IInv
<1>14. MutualAgreement'
  BY <1>0, <1>4, <1>8, <1>10, AgreementStays
<1> QED
  BY <1>0, <1>4, <1>11, <1>12, <1>13, <1>14 DEF FullInv, IInv

(* respond() with one that is not: the transcript is stored, the key kept. *)
LEMMA BrokenRespondHolds ==
  ASSUME FullInv, NEW r \in Responders, NEW m \in Msg1Arrivals,
         Respond(r, m), ~ValidPeer(m.dhI)
  PROVE  FullInv'
<1> PICK n : n = calls
  OBVIOUS
<1> DEFINE tr == TrR(r, m.dhI, m.kemI, n)
<1>0. IInv /\ MutualAgreement /\ cast \in Casts /\ TypeOK
  BY DEF FullInv, IInv
<1>1. /\ m.dhI \in DhValues /\ m.kemI \in KemKeys /\ n \in Calls
      /\ RespondTranscript(r, m) = tr
  BY <1>0, RespondParts DEF Respond
<1>2. m.dhI = Degenerate
  BY DEF ValidPeer
<1>3. tr \in Transcripts
  BY <1>0, <1>1, ResponderTypes
<1>4. /\ rsp' = [rsp EXCEPT ![r].tr = tr]
      /\ derived' = derived /\ sigs' = sigs /\ msg2s' = msg2s
      /\ calls' = calls + 1 /\ cast' = cast /\ ini' = ini
  BY <1>1 DEF Respond
<1> HIDE DEF tr
<1>7. rsp \in [Responders -> [key : Keys \cup {None}, tr : Transcripts \cup {None},
                              confirmed : Keys \cup {None}, refused : BOOLEAN]]
  BY <1>0 DEF TypeOK
<1>8. Grows
  BY <1>4 DEF Grows
<1>9. /\ Sessions' = Sessions /\ Initiators' = Initiators /\ Responders' = Responders
  BY <1>4, CastStays
<1>10. /\ rsp'[r].tr = tr
       /\ \A s \in Responders :
            /\ rsp'[s].key = rsp[s].key /\ rsp'[s].confirmed = rsp[s].confirmed
            /\ s # r => rsp'[s] = rsp[s]
  BY <1>4, <1>7
<1>11. TypeOK'
  <2>1. rsp' \in [Responders -> [key : Keys \cup {None}, tr : Transcripts \cup {None},
                                 confirmed : Keys \cup {None}, refused : BOOLEAN]]
    BY <1>3, <1>4, <1>7
  <2>2. calls' \in 0 .. MaxResponds
    BY <1>0, <1>4, HandshakeAssumption DEF TypeOK, Respond
  <2>3. \A s \in Responders : {rsp'[s].key, rsp'[s].confirmed} \subseteq derived'[s] \cup {None}
    BY <1>0, <1>4, <1>10 DEF TypeOK
  <2> QED
    BY <1>0, <1>4, <1>9, <2>1, <2>2, <2>3 DEF TypeOK
<1>12. Signed'
  BY <1>0, <1>4, <1>8, Persist DEF Signed, IInv
<1>13. Held'
  <2>1. HeldBy(r)'
    <3>1. rsp'[r].tr = TrR(r, m.dhI, m.kemI, n)'
      BY <1>4, <1>10, CastStays DEF tr
    <3> QED
      BY <1>1, <1>2, <3>1 DEF HeldBy
  <2>2. ASSUME NEW s \in Responders, rsp'[s] = rsp[s], HeldBy(s) PROVE HeldBy(s)'
    BY <1>4, <2>2, HeldStays
  <2> QED
    BY <1>0, <1>9, <1>10, <2>1, <2>2 DEF Held, IInv
<1>14. MutualAgreement'
  BY <1>0, <1>4, <1>8, <1>10, AgreementStays
<1> QED
  BY <1>0, <1>4, <1>11, <1>12, <1>13, <1>14 DEF FullInv, IInv

(* finish(): a signed transcript leads to the responder that signed it.    *)
LEMMA FinishMeets ==
  ASSUME IInv, NEW i \in Initiators, NEW m \in Msg2Arrivals, FinishAccepts(i, m)
  PROVE  ResponderOf(i, FinishKey(i, m))
<1>1. /\ m.dhR \in DhValues /\ m.ct \in Ciphertexts
      /\ FinishKey(i, m) = KeyI(i, m.dhR, m.ct)
      /\ Signature(PeerOf(i), "responder", TrI(i, m.dhR, m.ct)) \in sigs
  BY FinishParts
<1> PICK sig \in sigs : sig = Signature(PeerOf(i), "responder", TrI(i, m.dhR, m.ct))
  BY <1>1
<1>2. ~SignedByInitiator(sig)
  BY SignatureParts DEF SignedByInitiator
<1>3. PICK r \in Responders, dhI \in DhValues, kemI \in KemKeys, n \in Calls :
        /\ sig = Signature(IdOf(r), "responder", TrR(r, dhI, kemI, n))
        /\ KeyR(r, dhI, kemI, n) \in derived[r]
  BY <1>2 DEF IInv, Signed, SignedByResponder
<1>4. TrI(i, m.dhR, m.ct) = TrR(r, dhI, kemI, n)
  BY <1>3, SignatureParts
<1>5. /\ Paired(i, r) /\ dhI = Ephemeral(i) /\ kemI = KemKey(i)
      /\ m.dhR = Ephemeral(r) /\ m.ct = CtAt(kemI, r, n)
  BY <1>4, TranscriptsMeet
<1>6. /\ KeyI(i, m.dhR, m.ct).tr = KeyR(r, dhI, kemI, n).tr
      /\ InfoOf(i) = InfoOf(r) <=> KeyI(i, m.dhR, m.ct) = KeyR(r, dhI, kemI, n)
  BY <1>4, <1>5, KeysMeet
<1> QED
  BY <1>1, <1>3, <1>5, <1>6 DEF ResponderOf

LEMMA FinishHolds ==
  ASSUME FullInv, NEW i \in Initiators, NEW m \in Msg2Arrivals, Finish(i, m)
  PROVE  FullInv'
<1> DEFINE tr  == TrI(i, m.dhR, m.ct)
           key == KeyI(i, m.dhR, m.ct)
           sig == Signature(IdOf(i), "initiator", tr)
<1>0. IInv /\ MutualAgreement /\ cast \in Casts /\ TypeOK
  BY DEF FullInv, IInv
<1>1. /\ m.dhR \in DhValues \ {Degenerate} /\ m.ct \in Ciphertexts
      /\ FinishTranscript(i, m) = tr /\ FinishKey(i, m) = key
  BY <1>0, FinishParts DEF Finish
<1>2. tr \in Transcripts /\ key \in Keys
  BY <1>0, <1>1, InitiatorTypes
<1>3. /\ ini' = [ini EXCEPT ![i].key = key]
      /\ derived' = [derived EXCEPT ![i] = @ \cup {key}]
      /\ sigs' = sigs \cup {sig}
      /\ cast' = cast /\ rsp' = rsp /\ calls' = calls /\ msg2s' = msg2s
  BY <1>1 DEF Finish
<1>4. /\ IdOf(i) \in Identities /\ i \in Sessions
      /\ Initiators \subseteq Sessions /\ Responders \subseteq Sessions
  BY <1>0, CastParts
<1>5. sig \in Signatures
  BY <1>2, <1>4 DEF Signature, Signatures, Roles
<1>6. ResponderOf(i, key)
  BY <1>0, <1>1, FinishMeets DEF Finish
<1> HIDE DEF tr, key, sig
<1>7. /\ derived \in [Sessions -> SUBSET Keys]
      /\ ini \in [Initiators -> [key : Keys \cup {None}]]
  BY <1>0 DEF TypeOK
<1>8. Grows /\ key \in derived'[i]
  BY <1>3, <1>4, <1>7 DEF Grows
<1>9. /\ Sessions' = Sessions /\ Initiators' = Initiators /\ Responders' = Responders
  BY <1>3, CastStays
<1>10. ini'[i].key = key /\ \A j \in Initiators : j # i => ini'[j] = ini[j]
  BY <1>3, <1>7
<1>11. TypeOK'
  <2>1. ini' \in [Initiators -> [key : Keys \cup {None}]]
    BY <1>2, <1>3, <1>7
  <2>2. sigs' \subseteq Signatures /\ msg2s' \subseteq [dhR : DhValues, ct : Ciphertexts, sig : sigs']
    BY <1>0, <1>3, <1>5 DEF TypeOK
  <2>3. derived' \in [Sessions -> SUBSET Keys]
    BY <1>2, <1>3, <1>7
  <2>4. \A j \in Initiators : ini'[j].key \in derived'[j] \cup {None}
    BY <1>0, <1>4, <1>8, <1>10 DEF TypeOK, Grows
  <2>5. \A r \in Responders : {rsp'[r].key, rsp'[r].confirmed} \subseteq derived'[r] \cup {None}
    BY <1>0, <1>3, <1>4, <1>8 DEF TypeOK, Grows
  <2> QED
    BY <1>0, <1>3, <1>9, <2>1, <2>2, <2>3, <2>4, <2>5 DEF TypeOK
<1>12. Signed'
  <2>1. ASSUME NEW g, g = sig PROVE SignedByInitiator(g)'
    <3>1. /\ i \in Initiators' /\ g = Signature(IdOf(i), "initiator", TrI(i, m.dhR, m.ct))'
          /\ KeyI(i, m.dhR, m.ct)' \in derived'[i]
      BY <1>3, <1>8, <1>9, <2>1, CastStays DEF sig, tr, key, Signature
    <3> QED
      BY <1>1, <3>1 DEF SignedByInitiator
  <2>2. \A g \in sigs : SignedByResponder(g)' \/ SignedByInitiator(g)'
    BY <1>0, <1>8, Persist DEF Signed, IInv
  <2> QED
    BY <1>3, <2>1, <2>2 DEF Signed
<1>13. Held'
  <2>1. ASSUME NEW s \in Responders, HeldBy(s) PROVE HeldBy(s)'
    BY <1>3, <2>1, HeldStays
  <2> QED
    BY <1>0, <1>3, <1>9, <2>1 DEF Held, IInv
<1>14. MutualAgreement'
  <2>0. InitiatorAgreement /\ ResponderAgreement
    BY <1>0 DEF MutualAgreement
  <2>1. ResponderOf(i, ini[i].key)'
    <3> PICK k : k = key
      OBVIOUS
    <3>1. ResponderOf(i, k)'
      BY <1>6, <1>8, Persist
    <3> QED
      BY <1>10, <3>1 DEF ResponderOf
  <2>2. InitiatorAgreement'
    BY <1>8, <1>9, <1>10, <2>0, <2>1, InitiatorStays, AgreementParted
  <2>3. ResponderAgreement'
    BY <1>3, <1>8, <1>9, <2>0, ResponderStays, AgreementParted
  <2> QED
    BY <2>2, <2>3 DEF MutualAgreement
<1> QED
  BY <1>0, <1>3, <1>11, <1>12, <1>13, <1>14 DEF FullInv, IInv

(***************************************************************************)
(* confirm(): the transcript is that of the last respond() call.  Had that *)
(* call been broken off, an initiator would have signed a value out of     *)
(* range as its own; so the key is of the same call.                       *)
(***************************************************************************)
LEMMA ConfirmMeets ==
  ASSUME IInv, NEW r \in Responders, NEW sig \in sigs \cup {Malformed},
         rsp[r].tr # None, ConfirmAccepts(r, sig)
  PROVE  InitiatorOf(r, rsp[r].key)
<1>1. PICK dhI \in DhValues, kemI \in KemKeys, n \in Calls :
        /\ rsp[r].tr = TrR(r, dhI, kemI, n)
        /\ dhI = Degenerate \/ rsp[r].key = KeyR(r, dhI, kemI, n)
  BY DEF IInv, Held, HeldBy
<1>2. sig = Signature(PeerOf(r), "initiator", TrR(r, dhI, kemI, n))
  BY <1>1 DEF ConfirmAccepts, Verifies
<1>3. sig \in sigs
  <2>1. TrR(r, dhI, kemI, n) \in Transcripts
    BY ResponderTypes DEF IInv
  <2>2. PeerOf(r) \in Identities
    BY CastParts DEF IInv
  <2>3. sig \in Signatures
    BY <1>2, <2>1, <2>2 DEF Signature, Signatures, Roles
  <2> QED
    BY <2>3, ForeignValues
<1>4. ~SignedByResponder(sig)
  BY <1>2, SignatureParts DEF SignedByResponder
<1>5. PICK i \in Initiators, dhR \in DhValues, ct \in Ciphertexts :
        /\ sig = Signature(IdOf(i), "initiator", TrI(i, dhR, ct))
        /\ KeyI(i, dhR, ct) \in derived[i]
  BY <1>3, <1>4 DEF IInv, Signed, SignedByInitiator
<1>6. TrI(i, dhR, ct) = TrR(r, dhI, kemI, n)
  BY <1>2, <1>5, SignatureParts
<1>7. /\ Paired(i, r) /\ dhI = Ephemeral(i) /\ kemI = KemKey(i)
      /\ dhR = Ephemeral(r) /\ ct = CtAt(kemI, r, n)
  BY <1>6, TranscriptsMeet
<1>8. Ephemeral(i) # Degenerate
  BY InitiatorTypes DEF IInv
<1>9. rsp[r].key = KeyR(r, dhI, kemI, n)
  BY <1>1, <1>7, <1>8
<1>10. /\ KeyI(i, dhR, ct).tr = KeyR(r, dhI, kemI, n).tr
       /\ InfoOf(i) = InfoOf(r) <=> KeyI(i, dhR, ct) = KeyR(r, dhI, kemI, n)
  BY <1>6, <1>7, KeysMeet
<1> QED
  BY <1>5, <1>7, <1>9, <1>10 DEF InitiatorOf

LEMMA ConfirmHolds ==
  ASSUME FullInv, NEW r \in Responders, NEW sig \in sigs \cup {Malformed}, Confirm(r, sig)
  PROVE  FullInv'
<1>0. IInv /\ MutualAgreement /\ cast \in Casts /\ TypeOK
  BY DEF FullInv, IInv
<1>1. /\ cast' = cast /\ ini' = ini /\ calls' = calls
      /\ msg2s' = msg2s /\ sigs' = sigs /\ derived' = derived
  BY DEF Confirm
<1>2. rsp \in [Responders -> [key : Keys \cup {None}, tr : Transcripts \cup {None},
                              confirmed : Keys \cup {None}, refused : BOOLEAN]]
  BY <1>0 DEF TypeOK
<1>3. /\ rsp' \in [Responders -> [key : Keys \cup {None}, tr : Transcripts \cup {None},
                                 confirmed : Keys \cup {None}, refused : BOOLEAN]]
      /\ \A s \in Responders :
           /\ rsp'[s].key = rsp[s].key /\ rsp'[s].tr = rsp[s].tr
           /\ s # r => rsp'[s].confirmed = rsp[s].confirmed
           /\ rsp'[s].confirmed \in {rsp[s].confirmed, rsp[s].key}
           /\ rsp'[r].confirmed # rsp[r].confirmed =>
                ConfirmAccepts(r, sig) /\ rsp'[r].confirmed = rsp[r].key
  <2>1. CASE rsp' = [rsp EXCEPT ![r].confirmed = rsp[r].key, ![r].refused = FALSE]
                /\ ConfirmAccepts(r, sig)
    <3> PICK key \in Keys \cup {None} : key = rsp[r].key
      BY <1>2
    <3>1. rsp' = [rsp EXCEPT ![r].confirmed = key, ![r].refused = FALSE]
      BY <2>1
    <3>2. /\ rsp' \in [Responders -> [key : Keys \cup {None}, tr : Transcripts \cup {None},
                                      confirmed : Keys \cup {None}, refused : BOOLEAN]]
          /\ \A s \in Responders : s # r => rsp'[s] = rsp[s]
          /\ rsp'[r].key = rsp[r].key /\ rsp'[r].tr = rsp[r].tr
          /\ rsp'[r].confirmed = key
      BY <1>2, <3>1
    <3> QED
      BY <2>1, <3>2
  <2>2. CASE rsp' = [rsp EXCEPT ![r].refused = TRUE]
    BY <1>2, <2>2
  <2> QED
    BY <2>1, <2>2 DEF Confirm
<1>4. Grows
  BY <1>1 DEF Grows
<1>5. /\ Sessions' = Sessions /\ Initiators' = Initiators /\ Responders' = Responders
  BY <1>1, CastStays
<1>6. TypeOK'
  <2>1. \A s \in Responders : {rsp'[s].key, rsp'[s].confirmed} \subseteq derived[s] \cup {None}
    BY <1>0, <1>3 DEF TypeOK
  <2> QED
    BY <1>0, <1>1, <1>3, <1>5, <2>1 DEF TypeOK
<1>7. Signed'
  BY <1>0, <1>1, <1>4, Persist DEF Signed, IInv
<1>8. Held'
  <2>1. ASSUME NEW s \in Responders, HeldBy(s) PROVE HeldBy(s)'
    BY <1>1, <1>3, <2>1, HeldStays
  <2> QED
    BY <1>0, <1>3, <1>5, <2>1 DEF Held, IInv
<1>9. MutualAgreement'
  <2>0. InitiatorAgreement /\ ResponderAgreement
    BY <1>0 DEF MutualAgreement
  <2>1. InitiatorAgreement'
    BY <1>1, <1>4, <1>5, <2>0, InitiatorStays, AgreementParted
  <2>2. ASSUME NEW s \in Responders, rsp'[s].confirmed # None,
               rsp'[s].confirmed # rsp[s].confirmed
        PROVE  InitiatorOf(s, rsp[s].confirmed)'
    <3>1. s = r /\ ConfirmAccepts(r, sig) /\ rsp'[r].confirmed = rsp[r].key
      BY <1>3, <2>2
    <3> PICK k : k = rsp[r].key
      OBVIOUS
    <3>2. InitiatorOf(r, k)
      BY <1>0, <3>1, ConfirmMeets DEF Confirm
    <3>3. InitiatorOf(r, k)'
      BY <1>4, <3>2, Persist
    <3> QED
      BY <3>1, <3>3 DEF InitiatorOf
  <2>3. ResponderAgreement'
    BY <1>4, <1>5, <2>0, <2>2, ResponderStays, AgreementParted
  <2> QED
    BY <2>1, <2>3 DEF MutualAgreement
<1> QED
  BY <1>0, <1>1, <1>6, <1>7, <1>8, <1>9 DEF FullInv, IInv

LEMMA StutterHolds ==
  ASSUME FullInv, UNCHANGED vars PROVE FullInv'
<1>1. /\ cast' = cast /\ ini' = ini /\ rsp' = rsp /\ calls' = calls
      /\ msg2s' = msg2s /\ sigs' = sigs /\ derived' = derived
  BY DEF vars
<1>2. Grows
  BY <1>1 DEF Grows
<1>3. /\ Sessions' = Sessions /\ Initiators' = Initiators /\ Responders' = Responders
  BY <1>1, CastStays
<1>4. TypeOK'
  BY <1>1, <1>3 DEF FullInv, IInv, TypeOK
<1>5. Signed'
  BY <1>1, <1>2, Persist DEF FullInv, IInv, Signed
<1>6. Held'
  BY <1>1, <1>3, HeldStays DEF FullInv, IInv, Held
<1>7. MutualAgreement'
  BY <1>1, <1>2, AgreementStays DEF FullInv
<1> QED
  BY <1>1, <1>4, <1>5, <1>6, <1>7 DEF FullInv, IInv

LEMMA NextHolds ==
  ASSUME FullInv, [Next]_vars PROVE FullInv'
<1>1. ASSUME NEW r \in Responders, NEW m \in Msg1Arrivals, Respond(r, m) PROVE FullInv'
  BY <1>1, RespondHolds, BrokenRespondHolds
<1>2. ASSUME NEW i \in Initiators, NEW m \in Msg2Arrivals, Finish(i, m) PROVE FullInv'
  BY <1>2, FinishHolds
<1>3. ASSUME NEW i \in Initiators, NEW m \in Msg2Arrivals, FinishRaises(i, m) PROVE FullInv'
  BY <1>3, StutterHolds DEF FinishRaises
<1>4. ASSUME NEW r \in Responders, NEW sig \in sigs \cup {Malformed}, Confirm(r, sig)
      PROVE  FullInv'
  BY <1>4, ConfirmHolds
<1>5. CASE UNCHANGED vars
  BY <1>5, StutterHolds
<1> QED
  BY <1>1, <1>2, <1>3, <1>4, <1>5 DEF Next

-----------------------------------------------------------------------------
(* The names of the values are apart.                                      *)
LEMMA NamesApart ==
  ASSUME cast \in Casts, calls \in 0 .. MaxResponds, NEW s \in Sessions
  PROVE  /\ IdOf(s) \in Identities /\ PeerOf(s) \in Identities
         /\ Ephemeral(s) # Stray /\ Ephemeral(s) # Degenerate /\ s # Stray
         /\ \A p \in Identities : Static(p) # Stray /\ Static(p) # Ephemeral(s)
         /\ \A p, q : Static(p) = Static(q) <=> p = q
         /\ KemKey(s) \in KemKeys
<1>1. s \in AllSessions /\ IdOf(s) \in Identities /\ PeerOf(s) \in Identities
  BY CastParts
<1>2. Ephemeral(s) # Stray /\ Ephemeral(s) # Degenerate /\ s # Stray
  BY <1>1, ImpersonatorAssumption, ForeignValues DEF ValidPoints
<1>3. \A p \in Identities : Static(p) # Stray
  BY ImpersonatorAssumption
<1>4. \A p : Static(p) # Ephemeral(s)
  BY DEF Static, Ephemeral
<1>5. \A p, q : Static(p) = Static(q) <=> p = q
  BY DEF Static
<1>6. KemKey(s) \in KemKeys
  BY <1>1 DEF KemKeys
<1> QED
  BY <1>1, <1>2, <1>3, <1>4, <1>5, <1>6

(* An encapsulation of a session or of the impersonator decodes.           *)
LEMMA EncapsulationParts ==
  ASSUME calls \in 0 .. MaxResponds, NEW k \in KemKeys, NEW by \in AllSessions \cup {Stray}
  PROVE  /\ Encapsulate(k, by) \in Encapsulations
         /\ Encapsulate(k, by) # Malformed
         /\ Encapsulated(Encapsulate(k, by)) # None
         /\ Encapsulate(k, by).to = k /\ Encapsulate(k, by).by = by
         /\ Encapsulated(Encapsulate(k, by))[2] = Encapsulate(k, by)
<1>1. Encapsulate(k, by) \in Encapsulations
  BY DEF Encapsulate, Encapsulations
<1>2. Encapsulate(k, by).to = k /\ Encapsulate(k, by).by = by
  BY DEF Encapsulate
<1>3. Encapsulated(Encapsulate(k, by))[2] = Encapsulate(k, by)
  BY DEF Encapsulated
<1> QED
  BY <1>1, <1>2, <1>3, ImpersonatorAssumption

(* A signature over the verified transcript verifies iff it is of the peer. *)
LEMMA VerifiesOwn ==
  ASSUME NEW p, NEW q, NEW role, NEW tr
  PROVE  Verifies(Signature(p, role, tr), q, role, tr) = (p = q)
<1>1. Verifies(Signature(p, role, tr), q, role, tr) => p = q
  BY SignatureParts DEF Verifies
<1> QED
  BY <1>1 DEF Verifies

(* finish() takes a forged flight 2 if the expected identity signed it.    *)
LEMMA ForgedAccepted ==
  ASSUME cast \in Casts, calls \in 0 .. MaxResponds, NEW i \in Initiators, NEW p
  PROVE  FinishAccepts(i, ForgeResponderMsg(i, p)) = (p = PeerOf(i))
<1> DEFINE ct == Encapsulate(KemKey(i), Stray)
           m  == ForgeResponderMsg(i, p)
           tr == Transcript(IdOf(i), PeerOf(i), Ephemeral(i), KemKey(i), Stray, ct)
<1>1. /\ m.dhR = Stray /\ m.ct = ct
      /\ m.sig = Signature(p, "responder", tr)
  BY DEF ForgeResponderMsg
<1>2. ct # Malformed
  BY NamesApart, EncapsulationParts DEF Initiators
<1>3. ValidPeer(Stray)
  BY ImpersonatorAssumption DEF ValidPeer
<1> HIDE DEF ct, m
<1>4. FinishTranscript(i, m) = tr
  BY <1>1 DEF FinishTranscript
<1> HIDE DEF tr
<1>5. Verifies(m.sig, PeerOf(i), "responder", FinishTranscript(i, m)) = (p = PeerOf(i))
  BY <1>1, <1>4, VerifiesOwn
<1> QED
  BY <1>1, <1>2, <1>3, <1>5 DEF FinishAccepts, m

(* The elements of which the impersonator knows an exponent.               *)
LEMMA KnownExponents ==
  ASSUME cast \in Casts, calls \in 0 .. MaxResponds, NEW s \in Sessions,
         NEW grants \in Grants(s)
  PROVE  /\ Stray \in Exponents(grants)
         /\ Ephemeral(s) \notin Exponents(grants)
         /\ Static(PeerOf(s)) \in Exponents(grants) <=> <<"static", PeerOf(s)>> \in grants
         /\ PeerOf(s) \in Signers(s, grants) <=> <<"sign", PeerOf(s)>> \in grants
<1> DEFINE St == {h \in grants : h[1] = "static"}
           Si == {h \in grants : h[1] = "sign"}
<1>1. \A g \in grants : g = <<g[1], g[2]>> /\ g[2] \in {IdOf(s), PeerOf(s)}
  BY DEF Grants
<1>2. \A g \in St : g = <<"static", g[2]>> /\ g[2] \in Identities /\ g \in grants
  BY <1>1, NamesApart
<1>3. \A g \in Si : g = <<"sign", g[2]>> /\ g \in grants
  BY <1>1
<1>4. <<"static", PeerOf(s)>> \in grants => <<"static", PeerOf(s)>> \in St
  OBVIOUS
<1>5. <<"sign", PeerOf(s)>> \in grants => <<"sign", PeerOf(s)>> \in Si
  OBVIOUS
<1> HIDE DEF St, Si
<1>6. Exponents(grants) = {Stray} \cup {Static(g[2]) : g \in St}
  BY DEF Exponents, St
<1>7. Signers(s, grants) = (Identities \ {IdOf(s), PeerOf(s)}) \cup {g[2] : g \in Si}
  BY DEF Signers, Si
<1>8. Ephemeral(s) \notin Exponents(grants)
  BY <1>2, <1>6, NamesApart
<1>9. Static(PeerOf(s)) \in Exponents(grants) <=> <<"static", PeerOf(s)>> \in grants
  <2>1. ASSUME Static(PeerOf(s)) \in Exponents(grants) PROVE <<"static", PeerOf(s)>> \in grants
    <3>1. Static(PeerOf(s)) # Stray
      BY NamesApart
    <3>2. PICK g \in St : Static(PeerOf(s)) = Static(g[2])
      BY <2>1, <3>1, <1>6
    <3>3. g[2] = PeerOf(s)
      BY <3>2, NamesApart
    <3> QED
      BY <3>3, <1>2
  <2>2. ASSUME <<"static", PeerOf(s)>> \in grants PROVE Static(PeerOf(s)) \in Exponents(grants)
    <3>1. <<"static", PeerOf(s)>> \in St /\ <<"static", PeerOf(s)>>[2] = PeerOf(s)
      BY <2>2, <1>4
    <3> QED
      BY <3>1, <1>6
  <2> QED
    BY <2>1, <2>2
<1>10. PeerOf(s) \in Signers(s, grants) <=> <<"sign", PeerOf(s)>> \in grants
  <2>1. <<"sign", PeerOf(s)>>[2] = PeerOf(s)
    OBVIOUS
  <2> QED
    BY <1>3, <1>5, <1>7, <2>1
<1> QED
  BY <1>6, <1>8, <1>9, <1>10

(* She knows a key made of two elements of hers and one that is its own    *)
(* session's ephemeral with the expected identity's static exponent, iff   *)
(* that exponent is hers.                                                  *)
LEMMA KnowsParts ==
  ASSUME cast \in Casts, calls \in 0 .. MaxResponds, NEW s \in Sessions,
         NEW grants \in Grants(s), NEW pq, NEW a, NEW b, NEW tr, NEW info, NEW key,
         pq[2].by = Stray \/ pq[2].to = Stray,
         LET ee == {Stray, a}  es == {Ephemeral(s), Static(PeerOf(s))}  se == {Stray, b}
         IN  key = [ee |-> ee, pq |-> pq, static |-> {es, se}, tr |-> tr, info |-> info]
  PROVE  Knows(grants, key) <=> <<"static", PeerOf(s)>> \in grants
<1> DEFINE ee == {Stray, a}
           es == {Ephemeral(s), Static(PeerOf(s))}
           se == {Stray, b}
<1>1. key.ee = ee /\ key.static = {es, se} /\ key.pq = pq
  OBVIOUS
<1>2. ee \cap Exponents(grants) # {} /\ se \cap Exponents(grants) # {}
  BY KnownExponents
<1>3. es \cap Exponents(grants) # {} <=> <<"static", PeerOf(s)>> \in grants
  BY KnownExponents
<1> HIDE DEF ee, es, se
<1> QED
  BY <1>1, <1>2, <1>3 DEF Knows

(* Both long-term keys of p.                                               *)
LEMMA BothGranted ==
  ASSUME NEW p, NEW grants
  PROVE  {"static", "sign"} \X {p} \subseteq grants
           <=> <<"sign", p>> \in grants /\ <<"static", p>> \in grants
<1>1. <<"sign", p>> \in {"static", "sign"} \X {p} /\ <<"static", p>> \in {"static", "sign"} \X {p}
  OBVIOUS
<1>2. \A g \in {"static", "sign"} \X {p} : g = <<"sign", p>> \/ g = <<"static", p>>
  OBVIOUS
<1> QED
  BY <1>1, <1>2

(* Posing as a responder takes both long-term keys, as an initiator too.   *)
LEMMA ResponderPose ==
  ASSUME cast \in Casts, calls \in 0 .. MaxResponds, NEW i \in Initiators,
         NEW grants \in Grants(i)
  PROVE  PosesAsResponder(i, grants) <=> {"static", "sign"} \X {PeerOf(i)} \subseteq grants
<1>0. i \in Sessions
  BY DEF Initiators
<1> DEFINE m(p) == ForgeResponderMsg(i, p)
           ct == Encapsulate(KemKey(i), Stray)
           ee == {Stray, Ephemeral(i)}
           es == {Ephemeral(i), Static(PeerOf(i))}
           se == {Stray, Static(IdOf(i))}
<1>1. ASSUME NEW p PROVE Knows(grants, FinishKey(i, m(p))) <=> <<"static", PeerOf(i)>> \in grants
  <2>1. m(p).dhR = Stray /\ m(p).ct = ct
    BY DEF ForgeResponderMsg
  <2>2. ct.to = KemKey(i) /\ ct.by = Stray
    BY DEF Encapsulate
  <2> HIDE DEF m, ct
  <2>3. Decapsulate(i, ct) = Encapsulated(ct) /\ Encapsulated(ct)[2] = ct
    BY <2>2 DEF Decapsulate, Encapsulated
  <2>4. FinishKey(i, m(p)) =
          [ee |-> ee, pq |-> Encapsulated(ct), static |-> {es, se},
           tr |-> FinishTranscript(i, m(p)), info |-> InfoOf(i)]
    <3>1. /\ RawShared(Ephemeral(i), m(p).dhR) = ee
          /\ RawShared(Ephemeral(i), Static(PeerOf(i))) = es
          /\ RawShared(Static(IdOf(i)), m(p).dhR) = se
      BY <2>1 DEF RawShared
    <3> HIDE DEF ee, es, se
    <3> QED
      BY <2>1, <2>3, <3>1 DEF FinishKey, Combine
  <2> QED
    BY <1>0, <2>2, <2>3, <2>4, KnowsParts
<1>2. PosesAsResponder(i, grants) <=>
        PeerOf(i) \in Signers(i, grants) /\ <<"static", PeerOf(i)>> \in grants
  BY <1>1, ForgedAccepted DEF PosesAsResponder
<1>4. PeerOf(i) \in Signers(i, grants) <=> <<"sign", PeerOf(i)>> \in grants
  BY <1>0, KnownExponents
<1>5. PosesAsResponder(i, grants) <=>
        <<"sign", PeerOf(i)>> \in grants /\ <<"static", PeerOf(i)>> \in grants
  BY <1>2, <1>4
<1> QED
  BY <1>5, BothGranted

LEMMA InitiatorPose ==
  ASSUME cast \in Casts, calls \in 0 .. MaxResponds, NEW r \in Responders,
         NEW grants \in Grants(r)
  PROVE  PosesAsInitiator(r, grants) <=> {"static", "sign"} \X {PeerOf(r)} \subseteq grants
<1>0. r \in Sessions
  BY DEF Responders
<1> DEFINE m1 == [dhI |-> Stray, kemI |-> Stray]
           ct == Encapsulate(Stray, r)
           ee == {Stray, Ephemeral(r)}
           es == {Ephemeral(r), Static(PeerOf(r))}
           se == {Stray, Static(IdOf(r))}
           tr == RespondTranscript(r, m1)
<1>1. Knows(grants, RespondKey(r, m1)) <=> <<"static", PeerOf(r)>> \in grants
  <2>1. m1.dhI = Stray /\ m1.kemI = Stray
    OBVIOUS
  <2>2. ct.to = Stray /\ Encapsulated(ct)[2] = ct
    BY DEF Encapsulate, Encapsulated
  <2> HIDE DEF m1, tr
  <2>3. RespondKey(r, m1) =
          [ee |-> ee, pq |-> Encapsulated(ct), static |-> {es, se},
           tr |-> tr, info |-> InfoOf(r)]
    <3>1. /\ RawShared(Ephemeral(r), m1.dhI) = ee
          /\ RawShared(Static(IdOf(r)), m1.dhI) = se
          /\ RawShared(Ephemeral(r), Static(PeerOf(r))) = es
          /\ Encapsulate(m1.kemI, r) = ct
      BY <2>1 DEF RawShared
    <3> HIDE DEF ee, es, se, ct
    <3> QED
      BY <3>1 DEF RespondKey, Combine, tr
  <2> QED
    BY <1>0, <2>2, <2>3, KnowsParts
<1>2. \A p : Verifies(Signature(p, "initiator", tr), PeerOf(r), "initiator", tr) = (p = PeerOf(r))
  BY VerifiesOwn
<1> HIDE DEF tr
<1>3. PosesAsInitiator(r, grants) <=>
        PeerOf(r) \in Signers(r, grants) /\ <<"static", PeerOf(r)>> \in grants
  BY <1>1, <1>2 DEF PosesAsInitiator, tr
<1>4. PeerOf(r) \in Signers(r, grants) <=> <<"sign", PeerOf(r)>> \in grants
  BY <1>0, KnownExponents
<1>5. PosesAsInitiator(r, grants) <=>
        <<"sign", PeerOf(r)>> \in grants /\ <<"static", PeerOf(r)>> \in grants
  BY <1>3, <1>4
<1> QED
  BY <1>5, BothGranted

(* Every session is one of the two.                                        *)
LEMMA BothLegs ==
  ASSUME cast \in Casts, calls \in 0 .. MaxResponds
  PROVE  BothLegsNeeded
<1> SUFFICES ASSUME NEW s \in Sessions, NEW grants \in Grants(s)
             PROVE  (\/ s \in Initiators /\ PosesAsResponder(s, grants)
                     \/ s \in Responders /\ PosesAsInitiator(s, grants))
                    <=> {"static", "sign"} \X {PeerOf(s)} \subseteq grants
  BY DEF BothLegsNeeded
<1>1. s \in Initiators \/ s \in Responders
  <2>1. cast[s].role \in Roles
    BY HandshakeAssumption DEF Sessions
  <2> QED
    BY <2>1 DEF Initiators, Responders, Roles
<1> QED
  BY <1>1, ResponderPose, InitiatorPose

(* The genuine flights, as the values of respond() call number `calls`.    *)
LEMMA GenuineFlights ==
  ASSUME NEW i, NEW r, NEW ct, ct = CtAt(KemKey(i), r, calls)
  PROVE  /\ RespondTranscript(r, Start(i)) = TrR(r, Ephemeral(i), KemKey(i), calls)
         /\ RespondKey(r, Start(i)) = KeyR(r, Ephemeral(i), KemKey(i), calls)
         /\ Flight2(r, Start(i)).dhR = Ephemeral(r) /\ Flight2(r, Start(i)).ct = ct
         /\ Flight2(r, Start(i)).sig =
              Signature(IdOf(r), "responder", TrR(r, Ephemeral(i), KemKey(i), calls))
         /\ FinishTranscript(i, Flight2(r, Start(i))) = TrI(i, Ephemeral(r), ct)
         /\ FinishKey(i, Flight2(r, Start(i))) = KeyI(i, Ephemeral(r), ct)
<1> DEFINE m1 == Start(i)
           m2 == Flight2(r, m1)
<1>1. m1.dhI = Ephemeral(i) /\ m1.kemI = KemKey(i)
  BY DEF Start
<1>2. Encapsulate(m1.kemI, r) = ct
  BY <1>1 DEF Encapsulate, CtAt
<1> HIDE DEF m1
<1>3. RespondTranscript(r, m1) = TrR(r, Ephemeral(i), KemKey(i), calls)
  BY <1>1, <1>2 DEF RespondTranscript, TrR
<1>4. RespondKey(r, m1) = KeyR(r, Ephemeral(i), KemKey(i), calls)
  BY <1>1, <1>2, <1>3 DEF RespondKey, KeyR
<1>5. /\ m2.dhR = Ephemeral(r) /\ m2.ct = ct
      /\ m2.sig = Signature(IdOf(r), "responder", TrR(r, Ephemeral(i), KemKey(i), calls))
  BY <1>2, <1>3 DEF Flight2
<1> HIDE DEF m2
<1>6. FinishTranscript(i, m2) = TrI(i, Ephemeral(r), ct)
  BY <1>5 DEF FinishTranscript, TrI
<1>7. FinishKey(i, m2) = KeyI(i, Ephemeral(r), ct)
  BY <1>5, <1>6 DEF FinishKey, KeyI
<1> QED
  BY <1>3, <1>4, <1>5, <1>6, <1>7 DEF m1, m2

(* The helper returns the known answer, or nothing.                        *)
LEMMA HelperAgrees ==
  ASSUME cast \in Casts, calls \in 0 .. MaxResponds, NEW i \in Initiators, NEW r \in Responders
  PROVE  AuthenticatedPqAgree(i, r) =
           IF Paired(i, r) /\ InfoOf(i) = InfoOf(r) THEN KatKey(i, r) ELSE None
<1> DEFINE ct == CtAt(KemKey(i), r, calls)
           m1 == Start(i)
           m2 == Flight2(r, m1)
           tI == TrI(i, Ephemeral(r), ct)
           tR == TrR(r, Ephemeral(i), KemKey(i), calls)
           kI == KeyI(i, Ephemeral(r), ct)
           kR == KeyR(r, Ephemeral(i), KemKey(i), calls)
           sig == Signature(IdOf(i), "initiator", FinishTranscript(i, m2))
           runs == /\ FinishAccepts(i, m2)
                   /\ Verifies(sig, PeerOf(r), "initiator", RespondTranscript(r, m1))
                   /\ FinishKey(i, m2) = RespondKey(r, m1)
<1>0. i \in Sessions /\ r \in Sessions /\ r \in AllSessions
  BY CastParts
<1>1. /\ RespondTranscript(r, m1) = tR /\ RespondKey(r, m1) = kR
      /\ m2.dhR = Ephemeral(r) /\ m2.ct = ct
      /\ m2.sig = Signature(IdOf(r), "responder", tR)
      /\ FinishTranscript(i, m2) = tI /\ FinishKey(i, m2) = kI
  BY GenuineFlights
<1>2. AuthenticatedPqAgree(i, r) = IF runs THEN kI ELSE None
  BY <1>1 DEF AuthenticatedPqAgree
<1>3. ct # Malformed /\ ValidPeer(Ephemeral(r))
  <2>1. ct = Encapsulate(KemKey(i), r)
    BY DEF CtAt, Encapsulate
  <2> QED
    BY <1>0, <2>1, NamesApart, EncapsulationParts DEF ValidPeer
<1>4. Paired(i, r) => tI = tR
  BY DEF Paired, TrI, TrR
<1>5. kI.info = InfoOf(i) /\ kR.info = InfoOf(r)
  BY DEF KeyI, KeyR, Combine
<1>6. Paired(i, r) => kI = KatKey(i, r)
  <2> SUFFICES ASSUME Paired(i, r) PROVE kI = KatKey(i, r)
    OBVIOUS
  <2>1. PeerOf(i) = IdOf(r)
    BY DEF Paired
  <2>2. Encapsulate(KemKey(i), r) = ct /\ Decapsulate(i, ct) = Encapsulated(ct)
    BY DEF Encapsulate, CtAt, Decapsulate, Encapsulated
  <2> HIDE DEF ct
  <2> QED
    BY <2>1, <2>2 DEF KeyI, KatKey, TrI
<1> HIDE DEF ct, m1, m2, tI, tR, kI, kR
<1>7. ASSUME runs PROVE Paired(i, r) /\ InfoOf(i) = InfoOf(r)
  <2>1. m2.sig = Signature(PeerOf(i), "responder", tI)
    BY <1>1, <1>7 DEF FinishAccepts, Verifies
  <2>2. tI = tR
    BY <1>1, <2>1, SignatureParts
  <2>3. Paired(i, r)
    BY <2>2, TranscriptsMeet DEF tI, tR, ct
  <2> QED
    BY <1>1, <1>5, <1>7, <2>3
<1>8. ASSUME Paired(i, r), InfoOf(i) = InfoOf(r) PROVE runs
  <2>1. tI = tR
    BY <1>4, <1>8
  <2>2. kI = kR
    BY <1>8, <2>1, KeysMeet DEF kI, kR, tI, tR, ct
  <2>3. IdOf(r) = PeerOf(i) /\ IdOf(i) = PeerOf(r)
    BY <1>8 DEF Paired
  <2>4. FinishAccepts(i, m2)
    BY <1>1, <1>3, <2>1, <2>3 DEF FinishAccepts, Verifies
  <2>5. Verifies(sig, PeerOf(r), "initiator", RespondTranscript(r, m1))
    BY <1>1, <2>1, <2>3 DEF Verifies
  <2> QED
    BY <1>1, <2>2, <2>4, <2>5
<1> HIDE DEF runs
<1> QED
  BY <1>2, <1>6, <1>7, <1>8

(* Another post-quantum secret is another key.                             *)
LEMMA PqMatters ==
  ASSUME cast \in Casts, calls \in 0 .. MaxResponds, NEW i \in Initiators, NEW r \in Responders
  PROVE  KeyNeedsPq(i, r)
<1> DEFINE k == KatKey(i, r)
           ct == Encapsulate(KemKey(i), r)
           st == Encapsulate(KemKey(i), Stray)
<1>0. i \in Sessions /\ r \in Sessions /\ r \in AllSessions
  BY CastParts
<1>1. k.pq = Encapsulated(ct) /\ "pq" \in DOMAIN k
  BY DEF KatKey, Combine
<1>2. /\ Encapsulated(ct) # None /\ Encapsulated(ct)[2] = ct /\ ct # Malformed
      /\ Encapsulated(st)[2] = st /\ ct.by = r /\ st.by = Stray
  BY <1>0, NamesApart, EncapsulationParts
<1>3. r # Stray
  BY <1>0, NamesApart
<1>4. Encapsulated(Malformed)[2] = Malformed
  BY DEF Encapsulated
<1> HIDE DEF k, ct, st
<1>5. \A pq : [k EXCEPT !.pq = pq].pq = pq
  BY <1>1
<1>6. Encapsulated(ct) \notin {None, Encapsulated(st), Encapsulated(Malformed)}
  BY <1>2, <1>3, <1>4
<1>7. \A pq \in {None, Encapsulated(st), Encapsulated(Malformed)} : [k EXCEPT !.pq = pq] # k
  BY <1>1, <1>5, <1>6
<1> QED
  BY <1>7 DEF KeyNeedsPq, k, st

(* Not even the signer of flight 2 computes the initiator's key.           *)
LEMMA LockedOut ==
  ASSUME cast \in Casts, calls \in 0 .. MaxResponds, NEW i \in Initiators
  PROVE  ImpostorRejected(i) /\ SignerLockedOut(i)
<1>1. ImpostorRejected(i)
  BY ForgedAccepted DEF ImpostorRejected
<1> DEFINE m    == ForgeResponderMsg(i, PeerOf(i))
           ct   == Encapsulate(KemKey(i), Stray)
           mine == Combine(RawShared(Stray, Ephemeral(i)), None, {None},
                           RawShared(Stray, Static(IdOf(i))), FinishTranscript(i, m), InfoOf(i))
<1>2. m.ct = ct
  BY DEF ForgeResponderMsg
<1>3. Decapsulate(i, ct) = Encapsulated(ct)
  BY DEF Decapsulate, Encapsulate, Encapsulated
<1>4. Encapsulated(ct) # None
  BY NamesApart, EncapsulationParts DEF Initiators
<1>5. mine.pq = None
  BY DEF Combine
<1> HIDE DEF ct, m
<1>6. FinishKey(i, m).pq = Encapsulated(ct)
  BY <1>2, <1>3 DEF FinishKey, Combine
<1>7. FinishAccepts(i, m)
  BY ForgedAccepted DEF m
<1> HIDE DEF mine
<1>8. mine # FinishKey(i, m)
  BY <1>4, <1>5, <1>6
<1> QED
  BY <1>1, <1>7, <1>8 DEF SignerLockedOut, m, mine

(* Of two flights that finish() takes, one is not the other with one field *)
(* altered.                                                                *)
LEMMA TamperSeen ==
  ASSUME TypeOK, NEW i \in Initiators
  PROVE  TamperCaught(i)
<1> SUFFICES ASSUME NEW m \in msg2s, FinishAccepts(i, m), NEW n \in Msg2Arrivals,
                    Cardinality({f \in DOMAIN m : n[f] # m[f]}) = 1, FinishAccepts(i, n)
             PROVE  FALSE
  BY DEF TamperCaught
<1> DEFINE D == {f \in DOMAIN m : n[f] # m[f]}
<1>1. DOMAIN m = {"dhR", "ct", "sig"}
  BY DEF TypeOK
<1>2. IsFiniteSet({"dhR", "ct", "sig"})
  <2>1. {"dhR", "ct", "sig"} = (({} \cup {"dhR"}) \cup {"ct"}) \cup {"sig"}
    OBVIOUS
  <2>2. IsFiniteSet({} \cup {"dhR"})
    BY FS_EmptySet, FS_AddElement
  <2>3. IsFiniteSet(({} \cup {"dhR"}) \cup {"ct"})
    BY <2>2, FS_AddElement
  <2> QED
    BY <2>1, <2>3, FS_AddElement
<1>3. IsFiniteSet(D) /\ Cardinality(D) = 1
  <2>1. D \in SUBSET {"dhR", "ct", "sig"}
    BY <1>1
  <2> QED
    BY <1>2, <2>1, FS_Subset
<1>4. PICK f : D = {f}
  <2> HIDE DEF D
  <2> QED
    BY <1>3, FS_Singleton
<1>5. /\ m.sig = Signature(PeerOf(i), "responder", FinishTranscript(i, m))
      /\ n.sig = Signature(PeerOf(i), "responder", FinishTranscript(i, n))
  BY DEF FinishAccepts, Verifies
<1>6. CASE n.sig = m.sig
  <2>1. FinishTranscript(i, n) = FinishTranscript(i, m)
    BY <1>5, <1>6, SignatureParts
  <2>2. n.dhR = m.dhR /\ n.ct = m.ct
    BY <2>1, TranscriptParts DEF FinishTranscript
  <2>3. D = {}
    BY <1>1, <1>6, <2>2
  <2> QED
    BY <1>4, <2>3
<1>7. CASE n.sig # m.sig
  <2>1. "sig" \in D
    BY <1>1, <1>7
  <2>2. "dhR" \notin D /\ "ct" \notin D
    BY <1>4, <2>1
  <2>3. n.dhR = m.dhR /\ n.ct = m.ct
    BY <1>1, <2>2
  <2> QED
    BY <1>5, <1>7, <2>3 DEF FinishTranscript
<1> QED
  BY <1>6, <1>7

(* The types of the state are all the scripts need.                        *)
LEMMA ScriptsHold ==
  ASSUME cast \in Casts, TypeOK
  PROVE  ScriptsPass
<1>1. calls \in 0 .. MaxResponds
  BY DEF TypeOK
<1>2. ASSUME NEW i \in Initiators, NEW r \in Responders
      PROVE  /\ AuthenticatedPqAgree(i, r) =
                  IF Paired(i, r) /\ InfoOf(i) = InfoOf(r) THEN KatKey(i, r) ELSE None
             /\ KeyNeedsPq(i, r)
  BY <1>1, HelperAgrees, PqMatters
<1>3. ASSUME NEW i \in Initiators
      PROVE  ImpostorRejected(i) /\ SignerLockedOut(i) /\ TamperCaught(i)
  BY <1>1, LockedOut, TamperSeen
<1> QED
  BY <1>2, <1>3 DEF ScriptsPass

-----------------------------------------------------------------------------
(***************************************************************************)
(* Every key was computed from Diffie-Hellman values in range, whatever    *)
(* values arrived (_validate_peer), and what a session holds or returned   *)
(* it derived itself.                                                      *)
(***************************************************************************)
THEOREM TypeCorrect == Spec => []TypeOK
<1>1. Init => FullInv
  BY InitHolds
<1>2. FullInv /\ [Next]_vars => FullInv'
  BY NextHolds
<1>3. FullInv => TypeOK
  BY DEF FullInv, IInv
<1> QED
  BY <1>1, <1>2, <1>3, PTL DEF Spec

(***************************************************************************)
(* finish() and confirm() authenticate: a key one side returned was derived *)
(* over the same transcript by a session of the expected identity that      *)
(* expects this one, and is the same key where both were given one info.    *)
(***************************************************************************)
THEOREM BothAuthenticated == Spec => []MutualAgreement
<1>1. Init => FullInv
  BY InitHolds
<1>2. FullInv /\ [Next]_vars => FullInv'
  BY NextHolds
<1>3. FullInv => MutualAgreement
  BY DEF FullInv
<1> QED
  BY <1>1, <1>2, <1>3, PTL DEF Spec

(***************************************************************************)
(* An impersonator ends up with a key that a session accepted exactly when *)
(* she has both long-term keys of the identity that session expects,       *)
(* whatever else was broken for her: for every cast and every state, in    *)
(* either role (auth_pq_attack.py:213-214).                                *)
(***************************************************************************)
THEOREM Impersonation == Spec => []BothLegsNeeded
<1>1. IInv => cast \in Casts /\ calls \in 0 .. MaxResponds
  BY DEF IInv, TypeOK
<1>2. FullInv => BothLegsNeeded
  BY <1>1, BothLegs DEF FullInv
<1>3. Init => FullInv
  BY InitHolds
<1>4. FullInv /\ [Next]_vars => FullInv'
  BY NextHolds
<1> QED
  BY <1>2, <1>3, <1>4, PTL DEF Spec

(***************************************************************************)
(* The helper that runs the three flights agrees exactly for sessions      *)
(* built for each other with one info, and on the key of the known answer; *)
(* the attack script reports what it asserts, at every stage of any other  *)
(* handshakes.                                                             *)
(***************************************************************************)
THEOREM ScriptsCorrect == Spec => []ScriptsPass
<1>1. FullInv => ScriptsPass
  BY ScriptsHold DEF FullInv, IInv
<1>2. Init => FullInv
  BY InitHolds
<1>3. FullInv /\ [Next]_vars => FullInv'
  BY NextHolds
<1> QED
  BY <1>1, <1>2, <1>3, PTL DEF Spec
=============================================================================
