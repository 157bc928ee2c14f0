-------------------------- MODULE RatchetKeystream --------------------------
(***************************************************************************)
(* RatchetEngine of cipher/ratchet.py and rust/src/ratchet.rs: a keystream *)
(* that re-keys itself every epoch_bytes bytes along a one-way chain.      *)
(* Python holders can save a checkpoint and resume from one; the Rust      *)
(* holder counts epochs one ahead.  All holders start from one master key  *)
(* and nonce, run at their own pace and may stop and resume at any time.   *)
(*                                                                         *)
(* A key is named by its derivation: a chain key by the epoch indices it   *)
(* was stepped with, an epoch key by its chain key and index.  Within an   *)
(* epoch the keystream is the tape that module MultiMap describes, so a    *)
(* byte is named by epoch key, epoch nonce and place.                      *)
(*                                                                         *)
(* An operator X_Fault_Y is X with a plausible slip Y; no specification    *)
(* uses it.                                                                *)
(***************************************************************************)
EXTENDS Integers, Sequences, FiniteSets

CONSTANTS
  PyHolders,     (* Python engine objects                                   *)
  RsHolders,     (* Rust engine objects                                     *)
  EpochBytes,    (* the epoch_bytes all of them were given                  *)
  MaxEpoch,      (* bound of the model: the last epoch entered              *)
  Nobody         (* a holder that has no engine at present                  *)

Holders == PyHolders \cup RsHolders

ASSUME RatchetAssumption ==
  /\ PyHolders \cap RsHolders = {}
  /\ EpochBytes \in Nat \ {0}
  /\ MaxEpoch \in Nat

VARIABLES
  held,         (* per holder: its engine, or Nobody                        *)
  out,          (* per holder: bytes emitted since it was set up or resumed *)
  from,         (* per holder: the epoch its output starts in               *)
  checkpoints   (* checkpoints ever saved; they survive the engine          *)

ratchetVars == <<held, out, from, checkpoints>>

-----------------------------------------------------------------------------
(* Key schedule. *)

InitChain == <<>>

NextChain(chain, idx) == Append(chain, idx)

EpochKey(chain, idx) == [chain |-> chain, epoch |-> idx]

EpochByte(key, nonce, k) == [key |-> key, nonce |-> nonce, at |-> k]

(***************************************************************************)
(* Entering an epoch.  In Python epoch_index names the epoch that is being *)
(* emitted, and _advance increments it first; in Rust it names the next    *)
(* one, and advance increments it last.                                    *)
(***************************************************************************)
PyAdvance_Fault_BurnsFirst(e) ==
  LET idx   == e.epoch_index + 1
      chain == NextChain(e.chain, idx)
  IN  [chain |-> chain, epoch_index |-> idx,
       key |-> EpochKey(chain, idx), nonce |-> idx, used |-> 0,
       remaining |-> EpochBytes]

PyAdvance(e) ==
  LET idx == e.epoch_index + 1
  IN  [chain |-> NextChain(e.chain, idx), epoch_index |-> idx,
       key |-> EpochKey(e.chain, idx), nonce |-> idx, used |-> 0,
       remaining |-> EpochBytes]

RsAdvance_Fault_IndexFirst(e) ==
  LET idx == e.epoch_index + 1
  IN  [chain |-> NextChain(e.chain, idx), epoch_index |-> idx,
       key |-> EpochKey(e.chain, idx), nonce |-> idx, used |-> 0,
       remaining |-> EpochBytes]

RsAdvance(e) ==
  LET idx == e.epoch_index
  IN  [chain |-> NextChain(e.chain, idx), epoch_index |-> idx + 1,
       key |-> EpochKey(e.chain, idx), nonce |-> idx, used |-> 0,
       remaining |-> EpochBytes]

Unset(chain, idx) ==
  [chain |-> chain, epoch_index |-> idx, key |-> EpochKey(chain, idx),
   nonce |-> idx, used |-> 0, remaining |-> 0]

NewPy == PyAdvance(Unset(InitChain, -1))
NewRs == RsAdvance(Unset(InitChain, 0))

FromChainKey(cp) == PyAdvance(Unset(cp.chain, cp.next - 1))

Advance(h, e) == IF h \in PyHolders THEN PyAdvance(e) ELSE RsAdvance(e)

Emitting(h, e) == IF h \in PyHolders THEN e.epoch_index ELSE e.epoch_index - 1

-----------------------------------------------------------------------------
Fresh(h) == IF h \in PyHolders THEN NewPy ELSE NewRs

(* RatchetEngine(master_key, nonce).                                       *)
Construct(h) ==
  /\ held[h] = Nobody
  /\ held' = [held EXCEPT ![h] = Fresh(h)]
  /\ out' = [out EXCEPT ![h] = <<>>]
  /\ from' = [from EXCEPT ![h] = 0]
  /\ UNCHANGED checkpoints

(* generate_byte and next_byte: re-key at the boundary, then emit.         *)
RatchetGenerateByte(h) ==
  LET e == held[h]
      r == IF e.remaining = 0 THEN Advance(h, e) ELSE e
  IN  /\ e # Nobody
      /\ Emitting(h, r) <= MaxEpoch
      /\ held' = [held EXCEPT ![h] =
                   [r EXCEPT !.remaining = @ - 1, !.used = @ + 1]]
      /\ out' = [out EXCEPT ![h] = Append(@, EpochByte(r.key, r.nonce, r.used))]
      /\ UNCHANGED <<from, checkpoints>>

(* checkpoint().  The epoch it was taken in is kept for the properties.    *)
Checkpoint_Fault_CurrentIndex(h) ==
  /\ h \in PyHolders /\ held[h] # Nobody
  /\ checkpoints' = checkpoints \cup
       {[chain |-> held[h].chain, next |-> held[h].epoch_index,
         taken |-> held[h].epoch_index]}
  /\ UNCHANGED <<held, out, from>>

Checkpoint(h) ==
  /\ h \in PyHolders /\ held[h] # Nobody
  /\ checkpoints' = checkpoints \cup
       {[chain |-> held[h].chain, next |-> held[h].epoch_index + 1,
         taken |-> held[h].epoch_index]}
  /\ UNCHANGED <<held, out, from>>

(* The process ends, or drops the engine.                                  *)
Stop(h) ==
  /\ held[h] # Nobody
  /\ held' = [held EXCEPT ![h] = Nobody]
  /\ UNCHANGED <<out, from, checkpoints>>

(* from_chain_key(), given what checkpoint() returned.                     *)
Resume(h, cp) ==
  /\ h \in PyHolders /\ held[h] = Nobody
  /\ cp.next <= MaxEpoch
  /\ held' = [held EXCEPT ![h] = FromChainKey(cp)]
  /\ out' = [out EXCEPT ![h] = <<>>]
  /\ from' = [from EXCEPT ![h] = cp.taken + 1]
  /\ UNCHANGED checkpoints

-----------------------------------------------------------------------------
RatchetInit ==
  /\ held = [h \in Holders |-> Nobody]
  /\ out = [h \in Holders |-> <<>>]
  /\ from = [h \in Holders |-> 0]
  /\ checkpoints = {}

RatchetNext ==
  \E h \in Holders :
    \/ Construct(h) \/ RatchetGenerateByte(h) \/ Checkpoint(h) \/ Stop(h)
    \/ \E cp \in checkpoints : Resume(h, cp)

RatchetSpec == RatchetInit /\ [][RatchetNext]_ratchetVars
-----------------------------------------------------------------------------
(* The chain key K_i, and the whole tape, byte by byte.                    *)
ChainAt(i) == [j \in 1 .. i |-> j - 1]

TapeByte(n) ==
  LET i == n \div EpochBytes
  IN  EpochByte(EpochKey(ChainAt(i), i), i, n % EpochBytes)

RatchetTypeOK ==
  /\ \A h \in Holders :
       held[h] # Nobody =>
         /\ Emitting(h, held[h]) \in 0 .. MaxEpoch
         /\ held[h].remaining \in 0 .. EpochBytes
         /\ held[h].used + held[h].remaining = EpochBytes
         /\ Len(held[h].chain) = Emitting(h, held[h]) + 1
  /\ \A cp \in checkpoints : cp.next \in 1 .. MaxEpoch + 1

(***************************************************************************)
(* Every holder, of either port, constructed or resumed, reads one tape    *)
(* without a gap from the start of an epoch: the two ways of counting      *)
(* epochs derive the same keys, and a checkpoint rejoins at the boundary.  *)
(***************************************************************************)
OnOneTape ==
  \A h \in Holders : \A k \in 1 .. Len(out[h]) :
    out[h][k] = TapeByte(from[h] * EpochBytes + k - 1)

(***************************************************************************)
(* What a chain key can still derive: the keys of its own epoch and later. *)
(***************************************************************************)
IsPrefixOf(s, t) == Len(s) <= Len(t) /\ SubSeq(t, 1, Len(s)) = s

Derives(chain, key) == IsPrefixOf(chain, key.chain)

(***************************************************************************)
(* Forward secrecy (ratchet.py:7-14): whoever captures the live state, or  *)
(* a checkpoint, holds a chain key that derives no key of an epoch the     *)
(* holder has entered.  The current epoch is exposed by its engine only.   *)
(***************************************************************************)
PastEpochsBurned ==
  \A h \in Holders :
    held[h] # Nobody =>
      /\ ~Derives(held[h].chain, held[h].key)
      /\ \A k \in 1 .. Len(out[h]) : ~Derives(held[h].chain, out[h][k].key)

(***************************************************************************)
(* A checkpoint reproduces no epoch that had been entered when it was      *)
(* taken (ratchet.py:118-121): its chain key derives none of their keys.   *)
(* Epochs entered later it does reproduce: resuming twice reads them twice.*)
(***************************************************************************)
CheckpointOnlyForward ==
  \A cp \in checkpoints :
    \A i \in 0 .. cp.taken : ~Derives(cp.chain, EpochKey(ChainAt(i), i))

(* No key material a holder or a checkpoint carries leads backwards.         *)
ForwardOnly == PastEpochsBurned /\ CheckpointOnlyForward
=============================================================================
