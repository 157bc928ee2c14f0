---------------------------- MODULE SeekableCtr ----------------------------
(***************************************************************************)
(* SeekableCTR.keystream of cipher/ctr.py and rust/src/ctr.rs: random      *)
(* access to a keystream cut into blocks of BLOCK_SIZE bytes, each block   *)
(* derived from its index.  One call at a time, iteration by iteration.    *)
(* Python raises for a negative argument and for a block index beyond 8    *)
(* bytes, even in the middle of a call; the Rust release build, whose      *)
(* positions are 64-bit words, wraps to position 0 instead.                *)
(*                                                                         *)
(* A keystream byte is named by block index and place; what the sub-maps   *)
(* contribute to it is the subject of MultiMap.                            *)
(*                                                                         *)
(* An operator X_Fault_Y is X with a plausible slip Y; no specification    *)
(* uses it.                                                                *)
(***************************************************************************)
EXTENDS Integers, Sequences

CONSTANTS
  BLOCK_SIZE,
  Blocks,       (* number of block indices: 2^64 in Python, 2^58 in Rust    *)
  Counts,       (* values of n                                              *)
  Offsets       (* values of offset                                         *)

(* Positions of the keystream; where a Rust position wraps.                *)
Span == Blocks * BLOCK_SIZE

ASSUME CtrAssumption ==
  /\ BLOCK_SIZE \in Nat \ {0}
  /\ Blocks \in Nat \ {0}
  /\ Counts \subseteq Int /\ Offsets \subseteq Int

VARIABLES
  wraps,     (* the call runs in the Rust release build: positions wrap,    *)
             (* nothing raises                                              *)
  pc,        (* "idle", "loop", "returned" or "raised"                      *)
  n,         (* the arguments of the call                                   *)
  offset,
  pos,       (* the next position to produce                                *)
  out,       (* bytes collected; on return, the result                      *)
  derived    (* block indices derived by the call                           *)

vars == <<wraps, pc, n, offset, pos, out, derived>>

-----------------------------------------------------------------------------
ByteAt(q) == <<q \div BLOCK_SIZE, q % BLOCK_SIZE>>

(* _block_keystream: the bytes of one block.                               *)
BlockKeystream(i) == [j \in 1 .. BLOCK_SIZE |-> <<i, j - 1>>]

(* block[within:].                                                         *)
Chunk_Fault_OffByOne(block, within) == SubSeq(block, within + 2, BLOCK_SIZE)

Chunk(block, within) == SubSeq(block, within + 1, BLOCK_SIZE)

Advanced(q, len) == IF wraps THEN (q + len) % Span ELSE q + len

(***************************************************************************)
(* keystream(n, offset).  The arguments of the port are unsigned.          *)
(***************************************************************************)
Call_Fault_ChecksCountOnly(port, k, o) ==
  /\ port => k >= 0 /\ o \in 0 .. Span - 1
  /\ wraps' = port
  /\ pc \in {"idle", "returned", "raised"}
  /\ n' = k /\ offset' = o /\ pos' = o
  /\ out' = <<>> /\ derived' = {}
  /\ pc' = IF k < 0 THEN "raised" ELSE "loop"

Call(port, k, o) ==
  /\ port => k >= 0 /\ o \in 0 .. Span - 1
  /\ wraps' = port
  /\ pc \in {"idle", "returned", "raised"}
  /\ n' = k /\ offset' = o /\ pos' = o
  /\ out' = <<>> /\ derived' = {}
  /\ pc' = IF k < 0 \/ o < 0 THEN "raised" ELSE "loop"

Iterate ==
  LET block_index == pos \div BLOCK_SIZE
      chunk == Chunk(BlockKeystream(block_index), pos % BLOCK_SIZE)
  IN  /\ pc = "loop" /\ Len(out) < n
      /\ wraps \/ block_index < Blocks
      /\ out' = out \o chunk
      /\ pos' = Advanced(pos, Len(chunk))
      /\ derived' = derived \cup {block_index}
      /\ UNCHANGED <<wraps, pc, n, offset>>

(* block_index.to_bytes(8) overflows; what was collected is lost.          *)
IterateRaises ==
  /\ pc = "loop" /\ Len(out) < n
  /\ ~wraps /\ pos \div BLOCK_SIZE >= Blocks
  /\ pc' = "raised"
  /\ UNCHANGED <<wraps, n, offset, pos, out, derived>>

Return_Fault_Untruncated ==
  /\ pc = "loop" /\ Len(out) >= n
  /\ pc' = "returned"
  /\ UNCHANGED <<wraps, n, offset, pos, out, derived>>

Return ==
  /\ pc = "loop" /\ Len(out) >= n
  /\ out' = SubSeq(out, 1, n)
  /\ pc' = "returned"
  /\ UNCHANGED <<wraps, n, offset, pos, derived>>

-----------------------------------------------------------------------------
Init ==
  /\ wraps = FALSE
  /\ pc = "idle"
  /\ n = 0 /\ offset = 0 /\ pos = 0
  /\ out = <<>> /\ derived = {}

Next ==
  \/ \E port \in BOOLEAN, k \in Counts, o \in Offsets : Call(port, k, o)
  \/ Iterate \/ IterateRaises \/ Return

Spec == Init /\ [][Next]_vars

(* keystream() runs to its end: nothing in the loop waits.                 *)
FairSpec == Spec /\ WF_vars(Iterate \/ IterateRaises \/ Return)
-----------------------------------------------------------------------------
TypeOK ==
  /\ wraps \in BOOLEAN
  /\ pc \in {"idle", "loop", "returned", "raised"}
  /\ n \in Int /\ offset \in Int /\ pos \in Int
  /\ out \in Seq(Int \X (0 .. BLOCK_SIZE - 1))
  /\ derived \subseteq 0 .. Blocks - 1
  /\ pc \in {"loop", "returned"} => n >= 0 /\ offset >= 0

(***************************************************************************)
(* keystream(n, offset) returns the global bytes offset .. offset+n-1,     *)
(* however the keystream is sliced (ctr.py:52-53); a Rust read past the    *)
(* last position goes on at the first.                                     *)
(***************************************************************************)
Position(k) == IF wraps THEN (offset + k) % Span ELSE offset + k

ReturnsSlice ==
  pc = "returned" =>
    /\ Len(out) = n
    /\ \A k \in 1 .. n : out[k] = ByteAt(Position(k - 1))

(***************************************************************************)
(* The blocks covering the slice are derived and no other (ctr.py:96-97);  *)
(* an empty slice derives none.                                            *)
(***************************************************************************)
Covering ==
  IF n = 0 THEN {}
  ELSE {IF wraps THEN i % Blocks ELSE i :
          i \in offset \div BLOCK_SIZE .. (offset + n - 1) \div BLOCK_SIZE}

DerivesCoveringBlocks == pc = "returned" => derived = Covering

(***************************************************************************)
(* A call raises only for a negative argument or for a slice that passes   *)
(* the last block index.                                                   *)
(***************************************************************************)
RaisesOnlyOutOfRange ==
  pc = "raised" => n < 0 \/ offset < 0 \/ offset + n > Span

(* What a call comes to: the slice, at the least cost, or a refusal.        *)
CallContract == ReturnsSlice /\ DerivesCoveringBlocks /\ RaisesOnlyOutOfRange

(* Every call ends, also at a block boundary, where a chunk is longest.    *)
CallEnds == pc = "loop" ~> pc \in {"returned", "raised"}
=============================================================================
