------------------------ MODULE RatchetSessionProofs ------------------------
(***************************************************************************)
(* Proofs about RatchetSession, for every set of payloads and contexts,    *)
(* every index width, with and without wrap-around.                        *)
(***************************************************************************)
EXTENDS RatchetSession, SequenceTheorems, TLAPS

-----------------------------------------------------------------------------
(* What one call of _step does to a session. *)

LEMMA StepFacts ==
  ASSUME NEW s \in Sessions, CanStep(s)
  PROVE  /\ Step(s) \in Sessions
         /\ Step(s).aad = s.aad
         /\ Step(s).chain.context = s.chain.context
         /\ Step(s).chain.links = Append(s.chain.links, s.index)
         /\ Len(Step(s).chain.links) = Len(s.chain.links) + 1
         /\ Step(s).index = Increment(s)
         /\ Step(s).wraps = s.wraps
         /\ s.index \in Indices
         /\ StepKey(s) \in Keys
<1>1. s.index \in Indices
  BY SessionAssumption DEF CanStep, Sessions, Indices
<1>11. s.chain \in Chains
  BY DEF Sessions
<1>2. s.chain.links \in Seq(Indices) /\ s.chain.context \in Contexts
  BY <1>11 DEF Chains
<1>3. Append(s.chain.links, s.index) \in Seq(Indices)
  BY <1>1, <1>2
<1>4. NextChain(s.chain, s.index) =
        [context |-> s.chain.context, links |-> Append(s.chain.links, s.index)]
  <2>1. \A c \in Chains, i \in Indices :
          NextChain(c, i) = [context |-> c.context, links |-> Append(c.links, i)]
    BY DEF NextChain, Chains
  <2> QED
    BY ONLY <2>1, <1>1, <1>11
<1>5. Increment(s) \in Nat
  BY <1>1, SessionAssumption DEF Increment, Indices
<1>6. Step(s) = [chain |-> NextChain(s.chain, s.index), aad |-> s.aad,
                 index |-> Increment(s), wraps |-> s.wraps]
  BY DEF Step
<1>10. s.aad \in Aads /\ s.wraps \in BOOLEAN
  BY DEF Sessions
<1>7. Step(s) \in Sessions
  BY <1>2, <1>3, <1>4, <1>5, <1>6, <1>10 DEF Sessions, Chains
<1>8. StepKey(s) \in Keys
  BY <1>1 DEF StepKey, MsgKey, Keys, Sessions
<1>9. Len(Append(s.chain.links, s.index)) = Len(s.chain.links) + 1
  BY <1>1, <1>2
<1> QED
  BY <1>1, <1>4, <1>6, <1>7, <1>8, <1>9

LEMMA ArrivalType ==
  ASSUME TypeOK, NEW w \in Arrivals
  PROVE  w \in [index : Indices, blob : Blobs \cup {Broken}]
BY DEF Arrivals, TypeOK, Wires

LEMMA SealedWireType ==
  ASSUME TypeOK, CanStep(tx), NEW pt \in Payloads
  PROVE  [index |-> tx.index,
          blob  |-> Blob(StepKey(tx), BindAad(tx.aad, tx.index), pt)] \in Wires
<1>1. tx \in Sessions /\ StepKey(tx) \in Keys /\ tx.index \in Indices
  BY StepFacts DEF TypeOK
<1>2. tx.aad \in Aads
  BY <1>1 DEF Sessions
<1> QED
  BY <1>1, <1>2 DEF Wires, Blobs, Blob, BindAad

-----------------------------------------------------------------------------
(* The type invariant. *)

LEMMA InitTypeOK == Init => TypeOK
<1> SUFFICES ASSUME Init PROVE TypeOK
  OBVIOUS
<1>1. \A c \in Contexts, a \in Aads, u \in Wraps : NewSession(c, a, u) \in Sessions
  BY SessionAssumption DEF NewSession, InitChain, Sessions, Chains
<1> QED
  BY <1>1 DEF Init, TypeOK

LEMMA NextTypeOK == TypeOK /\ [Next]_vars => TypeOK'
<1> SUFFICES ASSUME TypeOK, [Next]_vars PROVE TypeOK'
  OBVIOUS
<1>1. ASSUME NEW pt \in Payloads, Seal(pt) PROVE TypeOK'
  <2>1. tx' \in Sessions
    BY <1>1, StepFacts DEF Seal, TypeOK
  <2>2. wires' \in SUBSET Wires
    BY <1>1, SealedWireType DEF Seal, TypeOK
  <2> QED
    BY <1>1, <2>1, <2>2 DEF Seal, TypeOK
<1>2. CASE SealRaises
  BY <1>2, StepFacts DEF SealRaises, TypeOK
<1>3. ASSUME NEW w \in Arrivals, OpenPast(w) PROVE TypeOK'
  BY <1>3 DEF OpenPast, TypeOK, vars
<1>4. ASSUME NEW w \in Arrivals, OpenBegin(w) PROVE TypeOK'
  BY <1>4, ArrivalType DEF OpenBegin, TypeOK
<1>5. CASE FastForward
  BY <1>5, StepFacts DEF FastForward, TypeOK
<1>6. CASE OpenFinish
  <2>1. rx' \in Sessions
    BY <1>6, StepFacts DEF OpenFinish, TypeOK
  <2>2. delivered' \in Seq([pos : Nat, pt : Payloads])
    <3>1. CASE Opens(rx, job)
      <4>1. job.blob.pt \in Payloads
        BY <1>6, <3>1 DEF OpenFinish, Opens, TypeOK, Blobs
      <4>2. Len(rx.chain.links) \in Nat
        BY DEF TypeOK, Sessions, Chains
      <4>3. [pos |-> Len(rx.chain.links), pt |-> job.blob.pt]
              \in [pos : Nat, pt : Payloads]
        BY <4>1, <4>2
      <4>4. delivered' = Append(delivered,
              [pos |-> Len(rx.chain.links), pt |-> job.blob.pt])
        BY <1>6, <3>1 DEF OpenFinish
      <4> QED
        BY <4>3, <4>4 DEF TypeOK
    <3>2. CASE ~Opens(rx, job)
      BY <1>6, <3>2 DEF OpenFinish, TypeOK
    <3> QED
      BY <3>1, <3>2
  <2> QED
    BY <1>6, <2>1, <2>2 DEF OpenFinish, TypeOK
<1>7. CASE UNCHANGED vars
  BY <1>7 DEF vars, TypeOK
<1> QED
  BY <1>1, <1>2, <1>3, <1>4, <1>5, <1>6, <1>7 DEF Next

(***************************************************************************)
(* Sessions, wires and deliveries keep their shape; in particular every    *)
(* index put on a wire fits the 8 bytes it is given.                       *)
(***************************************************************************)
THEOREM TypeCorrect == Spec => []TypeOK
BY InitTypeOK, NextTypeOK, PTL DEF Spec

-----------------------------------------------------------------------------
(***************************************************************************)
(* The inductive invariant of the safety properties.  A wire's position is *)
(* the length of the chain its key was derived from: the sender's chain is *)
(* longer than that of every wire, and no two wires share a position.  The *)
(* receiver's chain is longer than every position delivered, and what it   *)
(* is working on came off the channel.                                     *)
(***************************************************************************)
WiresBehind ==
  /\ \A w \in wires : Position(w) < Len(tx.chain.links)
  /\ \A v, w \in wires : Position(v) = Position(w) => v = w

DeliveredBehind ==
  \A j \in DOMAIN delivered : delivered[j].pos < Len(rx.chain.links)

JobArrived == job # Idle => job \in Arrivals

SafetyInv == WiresBehind /\ DeliveredBehind /\ JobArrived /\ DeliveredInOrder

LEMMA InitSafetyInv == Init => SafetyInv
BY DEF Init, SafetyInv, WiresBehind, DeliveredBehind, JobArrived, DeliveredInOrder

LEMMA PositionType ==
  ASSUME TypeOK
  PROVE  /\ \A w \in wires : Position(w) \in Nat
         /\ Len(tx.chain.links) \in Nat
         /\ Len(rx.chain.links) \in Nat
BY DEF TypeOK, Wires, Blobs, Keys, Chains, Sessions, Position

LEMMA DeliveredType ==
  ASSUME TypeOK
  PROVE  \A j \in DOMAIN delivered : delivered[j].pos \in Nat
<1> DEFINE Message == [pos : Nat, pt : Payloads]
<1>1. delivered \in Seq(Message)
  BY DEF TypeOK
<1> HIDE DEF Message
<1>2. DOMAIN delivered = 1 .. Len(delivered)
  BY <1>1
<1>3. \A j \in 1 .. Len(delivered) : delivered[j] \in Message
  BY <1>1
<1> QED
  BY <1>2, <1>3 DEF Message

LEMMA SealSafe ==
  ASSUME TypeOK, SafetyInv, NEW pt \in Payloads, Seal(pt)
  PROVE  SafetyInv'
<1> DEFINE new == [index |-> tx.index,
                   blob  |-> Blob(StepKey(tx), BindAad(tx.aad, tx.index), pt)]
<1>1. /\ wires' = wires \cup {new}
      /\ Len(tx'.chain.links) = Len(tx.chain.links) + 1
      /\ Position(new) = Len(tx.chain.links)
  BY StepFacts DEF Seal, TypeOK, Position, Blob, StepKey, MsgKey
<1> HIDE DEF new
<1>2. WiresBehind'
  <2>1. \A w \in wires : /\ Position(w) \in Nat
                         /\ Position(w) < Len(tx.chain.links)
                         /\ Position(w) # Position(new)
    BY <1>1, PositionType DEF SafetyInv, WiresBehind
  <2>2. \A w \in wires' : Position(w) < Len(tx'.chain.links)
    BY <1>1, <2>1, PositionType
  <2>3. \A v, w \in wires' : Position(v) = Position(w) => v = w
    BY <1>1, <2>1 DEF SafetyInv, WiresBehind
  <2> QED
    BY <2>2, <2>3 DEF WiresBehind, Position
<1>3. DeliveredBehind'
  BY DEF Seal, SafetyInv, DeliveredBehind
<1>4. DeliveredInOrder'
  <2>1. UNCHANGED delivered
    BY DEF Seal
  <2>2. \A j \in DOMAIN delivered : \E w \in wires' :
          Position(w) = delivered[j].pos /\ w.blob.pt = delivered[j].pt
    BY <1>1 DEF SafetyInv, DeliveredInOrder
  <2> QED
    BY <2>1, <2>2 DEF SafetyInv, DeliveredInOrder, Position
<1>5. JobArrived'
  BY <1>1 DEF Seal, SafetyInv, JobArrived, Arrivals
<1> QED
  BY <1>2, <1>3, <1>4, <1>5 DEF SafetyInv

LEMMA OpenFinishSafe ==
  ASSUME TypeOK, SafetyInv, OpenFinish
  PROVE  SafetyInv'
<1>1. Len(rx'.chain.links) = Len(rx.chain.links) + 1
  BY StepFacts DEF OpenFinish, TypeOK
<1>2. WiresBehind'
  BY DEF OpenFinish, SafetyInv, WiresBehind, Position
<1>3. CASE ~Opens(rx, job)
  <2>1. UNCHANGED delivered
    BY <1>3 DEF OpenFinish
  <2>2. DeliveredBehind'
    BY <1>1, <2>1, PositionType, DeliveredType DEF SafetyInv, DeliveredBehind
  <2>3. DeliveredInOrder' /\ JobArrived'
    BY <2>1 DEF OpenFinish, SafetyInv, DeliveredInOrder, JobArrived, Position
  <2> QED
    BY <1>2, <2>2, <2>3 DEF SafetyInv
<1>4. CASE Opens(rx, job)
  <2> DEFINE new == [pos |-> Len(rx.chain.links), pt |-> job.blob.pt]
  <2>1. delivered' = Append(delivered, new) /\ UNCHANGED wires
    BY <1>4 DEF OpenFinish
  <2>2. delivered \in Seq([pos : Nat, pt : Payloads])
    BY DEF TypeOK
  <2>3. /\ DOMAIN delivered = 1 .. Len(delivered)
        /\ DOMAIN delivered' = 1 .. Len(delivered) + 1
        /\ \A j \in 1 .. Len(delivered) : delivered'[j] = delivered[j]
        /\ delivered'[Len(delivered) + 1] = new
    BY <2>1, <2>2
  <2>4. \E w \in wires : Position(w) = new.pos /\ w.blob.pt = new.pt
    <3>1. job.blob.key = StepKey(rx) /\ job.blob # Broken /\ job # Idle
      BY <1>4 DEF Opens, OpenFinish
    <3>2. PICK w \in wires : w.blob = job.blob
      BY <3>1 DEF SafetyInv, JobArrived, Arrivals
    <3>3. Position(w) = new.pos /\ w.blob.pt = new.pt
      BY <3>1, <3>2 DEF Position, StepKey, MsgKey
    <3> QED
      BY <3>3
  <2>5. /\ new.pos = Len(rx.chain.links)
        /\ \A j \in 1 .. Len(delivered) : /\ delivered[j].pos \in Nat
                                          /\ delivered[j].pos < new.pos
    BY <2>3, DeliveredType DEF SafetyInv, DeliveredBehind
  <2> HIDE DEF new
  <2>6. DeliveredBehind'
    <3>1. ASSUME NEW j \in 1 .. Len(delivered) + 1
          PROVE  delivered'[j].pos < Len(rx'.chain.links)
      <4>1. CASE j = Len(delivered) + 1
        BY <1>1, <2>3, <2>5, <4>1, PositionType
      <4>2. CASE j \in 1 .. Len(delivered)
        BY <1>1, <2>3, <2>5, <4>2, PositionType
      <4> QED
        BY <2>2, <4>1, <4>2
    <3> QED
      BY <2>3, <3>1 DEF DeliveredBehind
  <2>7. \A j \in DOMAIN delivered' : \E w \in wires :
          Position(w) = delivered'[j].pos /\ w.blob.pt = delivered'[j].pt
    BY <2>2, <2>3, <2>4 DEF SafetyInv, DeliveredInOrder
  <2>8. \A j, k \in DOMAIN delivered' :
          j < k => delivered'[j].pos < delivered'[k].pos
    BY <2>2, <2>3, <2>5 DEF SafetyInv, DeliveredInOrder
  <2>9. DeliveredInOrder'
    BY <2>1, <2>7, <2>8 DEF DeliveredInOrder, Position
  <2> QED
    BY <1>2, <2>6, <2>9 DEF SafetyInv, JobArrived, OpenFinish
<1> QED
  BY <1>3, <1>4

LEMMA NextSafetyInv == TypeOK /\ SafetyInv /\ [Next]_vars => SafetyInv'
<1> SUFFICES ASSUME TypeOK, SafetyInv, [Next]_vars PROVE SafetyInv'
  OBVIOUS
<1> USE DEF SafetyInv, WiresBehind, DeliveredBehind, JobArrived,
            DeliveredInOrder, Position, Arrivals
<1>1. CASE SealRaises
  <2>1. Len(tx'.chain.links) = Len(tx.chain.links) + 1
    BY <1>1, StepFacts DEF SealRaises, TypeOK
  <2>2. WiresBehind'
    BY <1>1, <2>1, PositionType DEF SealRaises
  <2> QED
    BY <1>1, <2>2 DEF SealRaises
<1>2. ASSUME NEW w \in Arrivals, OpenPast(w) PROVE SafetyInv'
  BY <1>2 DEF OpenPast, vars
<1>3. ASSUME NEW w \in Arrivals, OpenBegin(w) PROVE SafetyInv'
  BY <1>3 DEF OpenBegin
<1>4. CASE FastForward
  <2>1. Len(rx'.chain.links) = Len(rx.chain.links) + 1
    BY <1>4, StepFacts DEF FastForward, TypeOK
  <2>2. DeliveredBehind'
    BY <1>4, <2>1, PositionType, DeliveredType DEF FastForward
  <2> QED
    BY <1>4, <2>2 DEF FastForward
<1>5. CASE UNCHANGED vars
  BY <1>5 DEF vars
<1> QED
  BY <1>1, <1>2, <1>3, <1>4, <1>5, SealSafe, OpenFinishSafe DEF Next

LEMMA SafetyInvariant == Spec => []SafetyInv
BY TypeCorrect, InitSafetyInv, NextSafetyInv, PTL DEF Spec

(***************************************************************************)
(* The receiver returns sealed plaintexts only, in the order of sealing    *)
(* and none twice, on every transport and also past an index overflow.     *)
(***************************************************************************)
THEOREM Delivered == Spec => []DeliveredInOrder
<1>1. SafetyInv => DeliveredInOrder
  BY DEF SafetyInv
<1> QED
  BY <1>1, SafetyInvariant, PTL

(***************************************************************************)
(* No two wires were sealed under one key, pinned inner nonce or not.      *)
(***************************************************************************)
THEOREM FreshKeys == Spec => []KeysUnique
<1>1. SafetyInv => KeysUnique
  BY DEF SafetyInv, WiresBehind, KeysUnique, Position
<1> QED
  BY <1>1, SafetyInvariant, PTL

-----------------------------------------------------------------------------
(***************************************************************************)
(* Where a wire comes from: its key grew out of the sender's context, and  *)
(* its blob names the sender's session data and the wire's own index.      *)
(***************************************************************************)
WiresOfSender ==
  \A w \in wires :
    /\ w.blob.key.chain.context = tx.chain.context
    /\ w.blob.key.index = w.index
    /\ w.blob.aad = BindAad(tx.aad, w.index)

OriginInv == WiresOfSender /\ OnlySameSession

LEMMA NextOriginInv ==
  TypeOK /\ SafetyInv /\ OriginInv /\ [Next]_vars => OriginInv'
<1> SUFFICES ASSUME TypeOK, SafetyInv, OriginInv, [Next]_vars
             PROVE  OriginInv'
  OBVIOUS
<1> USE DEF OriginInv, WiresOfSender, OnlySameSession, SameSession
<1>1. ASSUME NEW pt \in Payloads, Seal(pt) PROVE OriginInv'
  <2>1. tx'.chain.context = tx.chain.context /\ tx'.aad = tx.aad
    BY <1>1, StepFacts DEF Seal, TypeOK
  <2> QED
    BY <1>1, <2>1 DEF Seal, Blob, StepKey, MsgKey
<1>2. CASE SealRaises
  <2>1. tx'.chain.context = tx.chain.context /\ tx'.aad = tx.aad
    BY <1>2, StepFacts DEF SealRaises, TypeOK
  <2> QED
    BY <1>2, <2>1 DEF SealRaises
<1>3. ASSUME NEW w \in Arrivals, OpenPast(w) \/ OpenBegin(w) PROVE OriginInv'
  BY <1>3 DEF OpenPast, OpenBegin, vars
<1>4. CASE FastForward
  <2>1. rx'.chain.context = rx.chain.context /\ rx'.aad = rx.aad
    BY <1>4, StepFacts DEF FastForward, TypeOK
  <2> QED
    BY <1>4, <2>1 DEF FastForward
<1>5. CASE OpenFinish
  <2>1. rx'.chain.context = rx.chain.context /\ rx'.aad = rx.aad
    BY <1>5, StepFacts DEF OpenFinish, TypeOK
  <2>2. CASE Opens(rx, job)
    <3>1. PICK w \in wires : w.blob = job.blob
      BY <1>5, <2>2 DEF Opens, OpenFinish, SafetyInv, JobArrived, Arrivals
    <3>2. SameSession
      BY <2>2, <3>1 DEF Opens, StepKey, MsgKey, BindAad
    <3> QED
      BY <1>5, <2>1, <3>2 DEF OpenFinish
  <2>3. CASE ~Opens(rx, job)
    BY <1>5, <2>1, <2>3 DEF OpenFinish
  <2> QED
    BY <2>2, <2>3
<1>6. CASE UNCHANGED vars
  BY <1>6 DEF vars
<1> QED
  BY <1>1, <1>2, <1>3, <1>4, <1>5, <1>6 DEF Next

LEMMA OriginInvariant == Spec => []OriginInv
<1>1. Init => OriginInv
  BY DEF Init, OriginInv, WiresOfSender, OnlySameSession
<1> QED
  BY <1>1, TypeCorrect, SafetyInvariant, NextOriginInv, PTL DEF Spec

(***************************************************************************)
(* A receiver built from another master key, nonce or session data opens   *)
(* nothing, ever.                                                          *)
(***************************************************************************)
THEOREM NothingAcrossSessions == Spec => []OnlySameSession
<1>1. OriginInv => OnlySameSession
  BY DEF OriginInv
<1> QED
  BY <1>1, OriginInvariant, PTL

(* Both together: what open() hands up is what its own sender sealed, each   *)
(* message once and in order.                                                *)
THEOREM OwnMessages == Spec => []DeliversOnlyItsOwn
<1>1. DeliveredInOrder /\ OnlySameSession => DeliversOnlyItsOwn
  BY DEF DeliversOnlyItsOwn
<1> QED
  BY <1>1, Delivered, NothingAcrossSessions, PTL

-----------------------------------------------------------------------------
(***************************************************************************)
(* Two sessions of Python, whose integers do not wrap: the index counts the*)
(* links, and the k-th link absorbed the index k - 1.  So two chains of    *)
(* one context and one length are equal, whichever session walked them.    *)
(***************************************************************************)
Counts(s) ==
  /\ s.index = Len(s.chain.links)
  /\ \A k \in 1 .. Len(s.chain.links) : s.chain.links[k] = k - 1

WiresCount ==
  \A w \in wires :
    /\ w.index = Position(w)
    /\ \A k \in 1 .. Position(w) : w.blob.key.chain.links[k] = k - 1

CountInv == NoWrap => Counts(tx) /\ Counts(rx) /\ WiresCount

LEMMA StepCounts ==
  ASSUME NEW s \in Sessions, CanStep(s), Counts(s), ~s.wraps
  PROVE  Counts(Step(s))
<1>1. /\ s.chain.links \in Seq(Indices)
      /\ Step(s).chain.links = Append(s.chain.links, s.index)
      /\ Len(Step(s).chain.links) = Len(s.chain.links) + 1
      /\ s.index \in Indices
  BY StepFacts DEF Sessions, Chains
<1>2. Step(s).index = s.index + 1
  BY StepFacts DEF Increment
<1>3. ASSUME NEW k \in 1 .. Len(s.chain.links) + 1
      PROVE  Append(s.chain.links, s.index)[k] = k - 1
  <2>1. CASE k = Len(s.chain.links) + 1
    BY <1>1, <2>1 DEF Counts
  <2>2. CASE k \in 1 .. Len(s.chain.links)
    BY <1>1, <2>2 DEF Counts
  <2> QED
    BY <1>1, <2>1, <2>2
<1> QED
  BY <1>1, <1>2, <1>3 DEF Counts

LEMMA NextCountInv == TypeOK /\ CountInv /\ [Next]_vars => CountInv'
<1> SUFFICES ASSUME TypeOK, CountInv, [Next]_vars, NoWrap'
             PROVE  (Counts(tx) /\ Counts(rx) /\ WiresCount)'
  BY DEF CountInv
<1> DEFINE Goal == (Counts(tx) /\ Counts(rx) /\ WiresCount)'
<1>0. tx \in Sessions /\ rx \in Sessions
  BY DEF TypeOK
<1>00. tx.wraps = tx'.wraps /\ rx.wraps = rx'.wraps
  BY <1>0, StepFacts
  DEF Next, Seal, SealRaises, OpenPast, OpenBegin, FastForward, OpenFinish, vars
<1>01. NoWrap /\ Counts(tx) /\ Counts(rx) /\ WiresCount
  BY <1>00 DEF NoWrap, CountInv
<1>1. ASSUME NEW pt \in Payloads, Seal(pt) PROVE Goal
  <2>1. Counts(tx') /\ UNCHANGED rx
    BY <1>0, <1>1, <1>01, StepCounts DEF Seal, NoWrap
  <2>2. WiresCount'
    BY <1>1, <1>01 DEF Seal, WiresCount, Counts, Position, Blob, StepKey, MsgKey
  <2> QED
    BY <1>01, <2>1, <2>2 DEF Counts
<1>2. CASE SealRaises
  <2>1. Counts(tx') /\ UNCHANGED <<rx, wires>>
    BY <1>0, <1>2, <1>01, StepCounts DEF SealRaises, NoWrap
  <2> QED
    BY <1>01, <2>1 DEF Counts, WiresCount, Position
<1>3. ASSUME NEW w \in Arrivals, OpenPast(w) \/ OpenBegin(w) PROVE Goal
  BY <1>3, <1>01 DEF OpenPast, OpenBegin, vars, Counts, WiresCount, Position
<1>4. CASE FastForward \/ OpenFinish
  <2>1. Counts(rx') /\ UNCHANGED <<tx, wires>>
    BY <1>0, <1>4, <1>01, StepCounts DEF FastForward, OpenFinish, NoWrap
  <2> QED
    BY <1>01, <2>1 DEF Counts, WiresCount, Position
<1>5. CASE UNCHANGED vars
  BY <1>5, <1>01 DEF vars, Counts, WiresCount, Position
<1> QED
  BY <1>1, <1>2, <1>3, <1>4, <1>5 DEF Next

LEMMA CountInvariant == Spec => []CountInv
<1>1. Init => CountInv
  BY DEF Init, NewSession, InitChain, CountInv, Counts, WiresCount
<1> QED
  BY <1>1, TypeCorrect, NextCountInv, PTL DEF Spec

(***************************************************************************)
(* Forward secrecy: on both sides, a message the index has passed is one   *)
(* whose key the live chain value no longer yields.                        *)
(***************************************************************************)
THEOREM ForwardSecrecy == Spec => []PastKeysBurned
<1>1. ASSUME TypeOK, SafetyInv, CountInv PROVE PastKeysBurned
  <2> SUFFICES ASSUME NEW w \in wires
               PROVE  /\ ~Derivable(tx.chain, w.blob.key)
                      /\ NoWrap /\ w.index < rx.index => ~Derivable(rx.chain, w.blob.key)
    BY DEF PastKeysBurned
  <2>1. Position(w) < Len(tx.chain.links) /\ Position(w) \in Nat
    BY <1>1, PositionType DEF SafetyInv, WiresBehind
  <2>2. NoWrap => w.index = Position(w) /\ rx.index = Len(rx.chain.links)
    BY <1>1 DEF CountInv, WiresCount, Counts
  <2>3. \A chain : Derivable(chain, w.blob.key) => Len(chain.links) <= Position(w)
    BY DEF Derivable, IsPrefix, Position
  <2>4. ~ (Len(tx.chain.links) <= Position(w))
    BY <1>1, <2>1, PositionType
  <2>5. NoWrap /\ w.index < rx.index => ~ (Len(rx.chain.links) <= Position(w))
    BY <1>1, <2>1, <2>2, PositionType
  <2> QED
    BY <2>3, <2>4, <2>5
<1> QED
  BY <1>1, TypeCorrect, SafetyInvariant, CountInvariant, PTL

(***************************************************************************)
(* Gap tolerance: an unaltered wire whose turn has come opens, whatever    *)
(* the receiver skipped, refused or burned before.                         *)
(***************************************************************************)
THEOREM GapTolerance == Spec => []GenuineOpens
<1>1. ASSUME TypeOK, OriginInv, CountInv PROVE GenuineOpens
  <2> SUFFICES ASSUME NoWrap, SameSession, job \in wires, rx.index = job.index
               PROVE  Opens(rx, job)
    BY DEF GenuineOpens
  <2> DEFINE mine == rx.chain.links
             theirs == job.blob.key.chain.links
  <2>1. job.blob \in Blobs /\ job.blob.key \in Keys /\ rx \in Sessions
    BY <1>1 DEF TypeOK, Wires, Blobs
  <2>2. mine \in Seq(Indices) /\ theirs \in Seq(Indices)
    BY <2>1 DEF Keys, Sessions, Chains
  <2>3. Len(mine) = Len(theirs)
    BY <1>1 DEF CountInv, Counts, WiresCount, Position
  <2>4. \A k \in 1 .. Len(mine) : mine[k] = theirs[k]
    BY <1>1, <2>3 DEF CountInv, Counts, WiresCount, Position
  <2>5. mine = theirs
    BY <2>2, <2>3, <2>4, SeqEqual
  <2>6. rx.chain = job.blob.key.chain
    BY <1>1, <2>1, <2>5 DEF OriginInv, WiresOfSender, SameSession, Keys, Sessions, Chains
  <2>7. job.blob.key = StepKey(rx)
    BY <1>1, <2>1, <2>6 DEF OriginInv, WiresOfSender, StepKey, MsgKey, Keys
  <2> QED
    BY <1>1, <2>1, <2>7, BrokenAssumption
    DEF Opens, OriginInv, WiresOfSender, SameSession
<1> QED
  BY <1>1, TypeCorrect, OriginInvariant, CountInvariant, PTL

-----------------------------------------------------------------------------
(* The steps of a session, seen as steps of InOrderDelivery. *)

LEMMA InitImplements == Init => Delivery!Init
BY DEF Init, NewSession, InitChain, Delivery!Init

LEMMA NextImplements ==
  TypeOK /\ SafetyInv /\ [Next]_vars => [Delivery!Next]_(Delivery!vars)
<1> SUFFICES ASSUME TypeOK, SafetyInv, [Next]_vars
             PROVE  [Delivery!Next]_(Delivery!vars)
  OBVIOUS
<1> DEFINE Filled(S) == {[pos |-> Position(w), pt |-> w.blob.pt] : w \in S}
<1>1. ASSUME NEW pt \in Payloads, Seal(pt) PROVE Delivery!Fill
  <2> DEFINE new == [index |-> tx.index,
                     blob  |-> Blob(StepKey(tx), BindAad(tx.aad, tx.index), pt)]
  <2>1. /\ wires' = wires \cup {new}
        /\ Len(tx'.chain.links) = Len(tx.chain.links) + 1
        /\ Position(new) = Len(tx.chain.links)
        /\ new.blob.pt = pt
    BY <1>1, StepFacts DEF Seal, TypeOK, Position, Blob, StepKey, MsgKey
  <2> HIDE DEF new
  <2>2. Filled(wires') = Filled(wires) \cup {[pos |-> Len(tx.chain.links), pt |-> pt]}
    BY <2>1
  <2> QED
    BY <1>1, <2>1, <2>2 DEF Delivery!Fill, Seal, Position
<1>2. CASE SealRaises
  <2>1. Len(tx'.chain.links) = Len(tx.chain.links) + 1
    BY <1>2, StepFacts DEF SealRaises, TypeOK
  <2> QED
    BY <1>2, <2>1 DEF SealRaises, Delivery!LeaveEmpty, Delivery!Next, Position
<1>3. ASSUME NEW w \in Arrivals, OpenPast(w) \/ OpenBegin(w)
      PROVE  UNCHANGED Delivery!vars
  BY <1>3 DEF OpenPast, OpenBegin, vars, Delivery!vars, Position
<1>4. CASE FastForward
  <2>1. Len(rx'.chain.links) = Len(rx.chain.links) + 1
    BY <1>4, StepFacts DEF FastForward, TypeOK
  <2> QED
    BY <1>4, <2>1, PositionType DEF FastForward, Delivery!GiveUp, Position, Delivery!Next
<1>5. CASE OpenFinish
  <2>1. Len(rx'.chain.links) = Len(rx.chain.links) + 1
    BY <1>5, StepFacts DEF OpenFinish, TypeOK
  <2>2. CASE ~Opens(rx, job)
    BY <1>5, <2>1, <2>2, PositionType
    DEF OpenFinish, Delivery!GiveUp, Position, Delivery!Next
  <2>3. CASE Opens(rx, job)
    <3> DEFINE new == [pos |-> Len(rx.chain.links), pt |-> job.blob.pt]
    <3>1. PICK w \in wires : w.blob = job.blob
      BY <1>5, <2>3 DEF Opens, OpenFinish, SafetyInv, JobArrived, Arrivals
    <3>2. new = [pos |-> Position(w), pt |-> w.blob.pt]
      BY <2>3, <3>1 DEF Opens, Position, StepKey, MsgKey
    <3>3. new \in Filled(wires)
      BY <3>2
    <3>4. delivered' = Append(delivered, new) /\ UNCHANGED <<tx, wires>>
      BY <1>5, <2>3 DEF OpenFinish
    <3>5. new.pos = Len(rx.chain.links)
      OBVIOUS
    <3> HIDE DEF new
    <3>6. Delivery!Deliver
      BY <2>1, <3>3, <3>4, <3>5, PositionType DEF Delivery!Deliver, Position
    <3> QED
      BY <3>6 DEF Delivery!Next
  <2> QED
    BY <2>2, <2>3
<1>6. CASE UNCHANGED vars
  BY <1>6 DEF vars, Delivery!vars, Position
<1> QED
  BY <1>1, <1>2, <1>3, <1>4, <1>5, <1>6 DEF Next, Delivery!Next

(***************************************************************************)
(* Every session, wrapped or not, delivers in order in the sense of        *)
(* InOrderDelivery: sealing fills a position, a raising seal leaves one    *)
(* empty, every burned link gives a position up.                           *)
(***************************************************************************)
THEOREM Implements == Spec => ImplementsDelivery
BY InitImplements, NextImplements, TypeCorrect, SafetyInvariant, PTL
DEF Spec, ImplementsDelivery, Delivery!Spec
=============================================================================
