---------------------------- MODULE KeySchedule ----------------------------
(***************************************************************************)
(* How a master key, a nonce, a map index and a block index become the     *)
(* seed of one engine: what is fed to SHA-512, cell by cell.  SHA-512 is a *)
(* free constructor, so two engines are the same iff their inputs are.     *)
(*                                                                         *)
(* Labels and indices have a fixed width; keys and nonces are byte strings *)
(* of any length, which only a "|" separates, and "|" is a byte like any   *)
(* other.                                                                  *)
(***************************************************************************)
EXTENDS Integers, Sequences

CONSTANTS
  IndexValues,   (* 2^16, the map indices that two bytes hold              *)
  Bytes,         (* the bytes keys and nonces are made of                  *)
  MaxKeyLen      (* bound of the model: the longest key considered         *)

ASSUME ScheduleAssumption ==
  /\ IndexValues \in Nat \ {0}
  /\ MaxKeyLen \in Nat

BAR       == <<"|">>
Index2(i) == <<"index2", i>>
Index8(b) == <<"index8", b>>

(* index.to_bytes(2) raises where `i as u16` keeps the low half.           *)
Fits(i)   == i < IndexValues
AsU16(i)  == i % IndexValues

(* _kdf_hash; `index` is empty or a map index and its separator.           *)
Keyed_Fault_NoSeparator(key, nonce) == key \o nonce
Keyed(key, nonce) == key \o <<BAR>> \o nonce

KdfInput(prefix, index, key, nonce) == <<prefix>> \o index \o Keyed(key, nonce)

FromMaster(key, nonce) == KdfInput(<<"seed|">>, <<>>, key, nonce)

DeriveEngine(key, nonce, i) ==
  KdfInput(<<"multimap|">>, <<Index2(i), BAR>>, key, nonce)

BlockEngine(key, nonce, block, i) ==
  KdfInput(<<"ctr|">>, <<Index8(block), BAR, Index2(i), BAR>>, key, nonce)

(***************************************************************************)
(* Everything that is derived from a master key: by the AEADs, the chunks  *)
(* of a stream and SIV, whose nonces have 16, 25 and 32 bytes (here 2, 3   *)
(* and 4), by the CTR and by the bare engine.                              *)
(***************************************************************************)
NonceLen == [aead |-> 2, chunk |-> 3, siv |-> 4]

Strings(lens) == UNION {[1 .. l -> Bytes] : l \in lens}

Uses ==
  (UNION {[use : {u}, key : Strings(1 .. MaxKeyLen), nonce : Strings({NonceLen[u]}),
           block : {0}, map : 0 .. IndexValues - 1] : u \in DOMAIN NonceLen})
    \cup [use : {"ctr"}, key : Strings(1 .. MaxKeyLen), nonce : Strings({2}),
          block : {0, 1}, map : 0 .. IndexValues - 1]
    \cup [use : {"bare"}, key : Strings(1 .. MaxKeyLen), nonce : Strings({2}),
          block : {0}, map : {0}]

SeedOf(u) ==
  CASE u.use = "ctr"  -> BlockEngine(u.key, u.nonce, u.block, u.map)
    [] u.use = "bare" -> FromMaster(u.key, u.nonce)
    [] OTHER          -> DeriveEngine(u.key, u.nonce, u.map)

(* The longer key is the shorter one, a "|" and more.                        *)
Continues(long, short) ==
  \E m \in 1 .. Len(long) : SubSeq(long, 1, m) = Append(short, BAR)

(***************************************************************************)
(* engine.py:86 - two engines have one seed only if they are the same map  *)
(* and block of one use of one key and nonce: lengths and labels keep the  *)
(* shells apart under one key.  The one exception the separator leaves:    *)
(* keys of different lengths, one of which continues the other with "|".   *)
(***************************************************************************)
SeedsApart ==
  \A u, v \in Uses :
    SeedOf(u) = SeedOf(v) => u = v \/ Continues(u.key, v.key) \/ Continues(v.key, u.key)
=============================================================================
