--------------------------- MODULE RatchetSession ---------------------------
(***************************************************************************)
(* The forward-secret session AEAD: cipher/ratchet_aead.py and its port    *)
(* rust/src/ratchet_aead.rs.  One sender session and one receiver session  *)
(* share a master key and a session nonce; each walks the same one-way     *)
(* HMAC chain, one link per message, and overwrites the link it used.      *)
(*                                                                         *)
(* The channel is any transport: it may lose, repeat, reorder and alter.   *)
(* HMAC is a free constructor: a chain value is known by the context it    *)
(* grew from and the indices absorbed since, and a value lets one compute  *)
(* exactly the values that extend it.  The inner AEAD opens a blob iff key *)
(* and associated data are those it was sealed with.                       *)
(***************************************************************************)
EXTENDS Integers, SequencesExt

CONSTANTS
  Contexts,    (* pairs (master key, session nonce) a caller may pass       *)
  Aads,        (* session associated data a caller may pass                 *)
  Payloads,    (* plaintexts                                                *)
  Broken,      (* bytes in place of a blob that no seal() produced          *)
  Idle,        (* open() is not running                                     *)
  IndexLimit,  (* 2^64: the wire carries an index in 8 bytes                *)
  Wraps,       (* the ports in play: TRUE is the Rust release build, u64,   *)
               (* FALSE is Python with its unbounded integers               *)
  MaxLinks     (* bound of the model: links one session may consume         *)

ASSUME SessionAssumption ==
  /\ IndexLimit \in Nat \ {0}
  /\ Wraps \subseteq BOOLEAN
  /\ MaxLinks \in Nat

VARIABLES
  tx,          (* the SenderSession                                         *)
  rx,          (* the ReceiverSession                                       *)
  job,         (* the wire rx.open is working on, or Idle                   *)
  wires,       (* every wire seal() returned                                *)
  delivered    (* what open() returned so far: chain position and plaintext *)

vars == <<tx, rx, job, wires, delivered>>

Indices == 0 .. IndexLimit - 1

(***************************************************************************)
(* _init_chain and _derive: the chain, and the key of one message.         *)
(***************************************************************************)
InitChain(context) == [context |-> context, links |-> <<>>]

MsgKey(chain, i)    == [chain |-> chain, index |-> i]
NextChain(chain, i) == [chain EXCEPT !.links = Append(@, i)]

(* _bind_aad: the caller's data and the index, unambiguously joined. *)
BindAad(aad, i) == <<aad, i>>

(***************************************************************************)
(* _Session.  An index of 2^64 has no 8-byte form, so _derive raises there *)
(* before anything changed; in Rust the index returns to 0 instead.  The   *)
(* two ends may be of different ports.                                     *)
(***************************************************************************)
NewSession(context, aad, wraps) ==
  [chain |-> InitChain(context), aad |-> aad, index |-> 0, wraps |-> wraps]

Increment(s) == IF s.wraps /\ s.index + 1 = IndexLimit THEN 0 ELSE s.index + 1

CanStep_Fault_NoWidthCheck(s) == s.index <= IndexLimit

CanStep(s) == s.index < IndexLimit

WithinBound(s, steps) == Len(s.chain.links) + steps <= MaxLinks

Step_Fault_KeepsLink(s) ==
  [s EXCEPT !.index = Increment(s)]

Step(s) ==
  [chain |-> NextChain(s.chain, s.index),
   aad   |-> s.aad,
   index |-> Increment(s),
   wraps |-> s.wraps]

StepKey(s) == MsgKey(s.chain, s.index)

(***************************************************************************)
(* SenderSession.seal.  The link is consumed before the inner AEAD runs,   *)
(* so an inner nonce of the wrong length costs a position.                 *)
(***************************************************************************)
Blob(key, aad, pt) == [key |-> key, aad |-> aad, pt |-> pt]

Seal_Fault_NoStep(pt) ==
  /\ CanStep(tx)
  /\ wires' = wires \cup
       {[index |-> tx.index,
         blob  |-> Blob(StepKey(tx), BindAad(tx.aad, tx.index), pt)]}
  /\ UNCHANGED <<tx, rx, job, delivered>>

Seal(pt) ==
  /\ CanStep(tx) /\ WithinBound(tx, 1)
  /\ tx' = Step(tx)
  /\ wires' = wires \cup
       {[index |-> tx.index,
         blob  |-> Blob(StepKey(tx), BindAad(tx.aad, tx.index), pt)]}
  /\ UNCHANGED <<rx, job, delivered>>

SealRaises ==
  /\ CanStep(tx) /\ WithinBound(tx, 1)
  /\ tx' = Step(tx)
  /\ UNCHANGED <<rx, job, wires, delivered>>

(***************************************************************************)
(* What may arrive: any index in front of any blob ever sealed, or in      *)
(* front of bytes nobody sealed.                                           *)
(***************************************************************************)
Arrivals ==
  [index : Indices, blob : {w.blob : w \in wires} \cup {Broken}]

(***************************************************************************)
(* ReceiverSession.open: refuse the past, burn links up to the index the   *)
(* wire names, burn one more for its key, and only then authenticate.      *)
(***************************************************************************)
OpenPast(w) ==
  /\ job = Idle
  /\ w.index < rx.index
  /\ UNCHANGED vars

OpenBegin(w) ==
  /\ job = Idle
  /\ w.index >= rx.index
  /\ WithinBound(rx, w.index - rx.index + 1)
  /\ job' = w
  /\ UNCHANGED <<tx, rx, wires, delivered>>

FastForward_Fault_SkipsLinks ==
  /\ job # Idle
  /\ rx.index < job.index
  /\ rx' = [rx EXCEPT !.index = job.index]
  /\ UNCHANGED <<tx, job, wires, delivered>>

FastForward_Fault_NoStep ==
  /\ job # Idle
  /\ rx.index < job.index
  /\ UNCHANGED vars

FastForward ==
  /\ job # Idle
  /\ rx.index < job.index
  /\ CanStep(rx)
  /\ rx' = Step(rx)
  /\ UNCHANGED <<tx, job, wires, delivered>>

Opens(s, w) ==
  /\ w.blob # Broken
  /\ w.blob.key = StepKey(s)
  /\ w.blob.aad = BindAad(s.aad, w.index)

OpenFinish_Fault_NoStep ==
  /\ job # Idle
  /\ rx.index >= job.index
  /\ job' = Idle
  /\ Opens(rx, job)
  /\ delivered' = Append(delivered,
       [pos |-> Len(rx.chain.links), pt |-> job.blob.pt])
  /\ Len(delivered) < MaxLinks
  /\ UNCHANGED <<tx, rx, wires>>

OpenFinish ==
  /\ job # Idle
  /\ rx.index >= job.index
  /\ CanStep(rx)
  /\ rx' = Step(rx)
  /\ job' = Idle
  /\ \/ /\ Opens(rx, job)
        /\ delivered' = Append(delivered,
             [pos |-> Len(rx.chain.links), pt |-> job.blob.pt])
     \/ /\ ~Opens(rx, job)
        /\ UNCHANGED delivered
  /\ UNCHANGED <<tx, wires>>

Init ==
  /\ \E c \in Contexts, a \in Aads, u \in Wraps : tx = NewSession(c, a, u)
  /\ \E c \in Contexts, a \in Aads, u \in Wraps : rx = NewSession(c, a, u)
  /\ job = Idle
  /\ wires = {}
  /\ delivered = <<>>

Next ==
  \/ \E pt \in Payloads : Seal(pt)
  \/ SealRaises
  \/ \E w \in Arrivals : OpenPast(w) \/ OpenBegin(w)
  \/ FastForward
  \/ OpenFinish

Spec == Init /\ [][Next]_vars

(* open() is one call: once entered, its loop and its tail run. *)
FairSpec == Spec /\ WF_vars(FastForward) /\ WF_vars(OpenFinish)

-----------------------------------------------------------------------------
(* Vocabulary of the properties. *)

Chains    == [context : Contexts, links : Seq(Indices)]
Sessions  == [chain : Chains, aad : Aads, index : Nat, wraps : BOOLEAN]
Keys      == [chain : Chains, index : Indices]
Blobs     == [key : Keys, aad : Aads \X Indices, pt : Payloads]
Wires     == [index : Indices, blob : Blobs]
Position(w) == Len(w.blob.key.chain.links)

ASSUME BrokenAssumption == Broken \notin Blobs

(* One-wayness: a chain value yields a message key iff the key's chain     *)
(* value extends it.                                                       *)
Derivable(chain, key) ==
  /\ chain.context = key.chain.context
  /\ IsPrefix(chain.links, key.chain.links)

SameSession ==
  /\ tx.chain.context = rx.chain.context
  /\ tx.aad = rx.aad

(* An index names one chain position only where no counter wraps. *)
NoWrap == ~tx.wraps /\ ~rx.wraps

TypeOK ==
  /\ tx \in Sessions
  /\ rx \in Sessions
  /\ job = Idle \/ job \in [index : Indices, blob : Blobs \cup {Broken}]
  /\ wires \in SUBSET Wires
  /\ delivered \in Seq([pos : Nat, pt : Payloads])

(***************************************************************************)
(* Every message is sealed under a key of its own, also after a seal()     *)
(* that raised and after the index wrapped.  This is the reason the code   *)
(* gives for accepting a pinned inner nonce (ratchet_aead.py:104-105).     *)
(***************************************************************************)
KeysUnique ==
  \A v, w \in wires : v.blob.key = w.blob.key => v = w

(***************************************************************************)
(* Whatever the transport does, open() returns sealed plaintexts only,     *)
(* each at most once and in the order they were sealed.                    *)
(***************************************************************************)
DeliveredInOrder ==
  /\ \A j \in DOMAIN delivered :
       \E w \in wires : /\ Position(w) = delivered[j].pos
                        /\ w.blob.pt = delivered[j].pt
  /\ \A j, k \in DOMAIN delivered : j < k => delivered[j].pos < delivered[k].pos

(***************************************************************************)
(* Forward secrecy as the index check sees it: a message whose index the   *)
(* session has passed is one whose key its live state cannot recompute     *)
(* ("its key was already burned", ratchet_aead.py:116-117), on both sides; *)
(* on the receiver's, where the index is the chain position.               *)
(***************************************************************************)
PastKeysBurned ==
  \A w \in wires :
    /\ ~Derivable(tx.chain, w.blob.key)
    /\ NoWrap /\ w.index < rx.index => ~Derivable(rx.chain, w.blob.key)

(***************************************************************************)
(* Gap tolerance: whatever was skipped, refused or burned before it, an    *)
(* unaltered wire whose turn has come opens.                               *)
(***************************************************************************)
GenuineOpens ==
  NoWrap /\ SameSession /\ job \in wires /\ rx.index = job.index => Opens(rx, job)

(***************************************************************************)
(* Nothing opens across sessions that differ in master key, nonce or       *)
(* session data.                                                           *)
(***************************************************************************)
OnlySameSession == delivered # <<>> => SameSession

(* What open() hands up is this session's, each message once and in order. *)
DeliversOnlyItsOwn == DeliveredInOrder /\ OnlySameSession

(***************************************************************************)
(* open() returns, and when the wire was an unaltered one of this session  *)
(* it returns that wire's plaintext.                                       *)
(***************************************************************************)
OpenReturns == job # Idle ~> job = Idle

GenuineReturned ==
  \A i \in Indices :
    NoWrap /\ SameSession /\ job \in wires /\ job.index = i
      ~> /\ job = Idle
         /\ delivered # <<>>
         /\ Last(delivered).pos = i

(* Every open() ends, and the one of a genuine wire whose turn may come     *)
(* ends with its plaintext.                                                 *)
OpenEnds == OpenReturns /\ GenuineReturned

(***************************************************************************)
(* "Sender and receiver each hold one and advance it in lockstep"          *)
(* (ratchet_aead.py:71-72): a receiver never runs ahead of its sender.     *)
(***************************************************************************)
InLockstep == rx.index <= tx.index

(***************************************************************************)
(* The session implements in-order delivery: positions are chain lengths.  *)
(***************************************************************************)
Delivery == INSTANCE InOrderDelivery WITH
  next    <- Len(tx.chain.links),
  sealed  <- {[pos |-> Position(w), pt |-> w.blob.pt] : w \in wires},
  horizon <- Len(rx.chain.links)

ImplementsDelivery == Delivery!Spec
=============================================================================
