------------------------------ MODULE MultiMap ------------------------------
(***************************************************************************)
(* MultiMapEngine: independent engines whose bytes are XORed.  In Python   *)
(* (cipher/multimap.py over cipher/engine.py) every engine buffers its own *)
(* block; in Rust (rust/src/multimap.rs) the blocks are XORed first and    *)
(* the result is buffered.  Both are here, set up alike.                   *)
(*                                                                         *)
(* A byte of one engine is named by its seed, the step and the place in    *)
(* the word; XOR of such bytes is the set of those that occur an odd       *)
(* number of times, and {} is the zero byte.                               *)
(*                                                                         *)
(* An operator X_Fault_Y is X with a plausible slip Y; no specification    *)
(* uses it.                                                                *)
(***************************************************************************)
EXTENDS KeySchedule, FiniteSets

CONSTANTS
  MapCounts,              (* the n_maps callers pass                        *)
  MasterKey, Nonce,       (* what both ports are set up with                *)
  WARMUP,                 (* steps discarded at key setup                   *)
  WORD_BYTES,             (* bytes of a finalized word                      *)
  OUTPUT_BYTES_PER_STEP,  (* bytes of it that are emitted                   *)
  MaxBytes                (* bound of the model: bytes drawn per port       *)

ASSUME MultiMapAssumption ==
  /\ MapCounts \subseteq Nat
  /\ MasterKey \in Seq(Bytes) /\ Nonce \in Seq(Bytes)
  /\ WARMUP \in Nat
  /\ WORD_BYTES \in Nat /\ OUTPUT_BYTES_PER_STEP \in 1 .. WORD_BYTES
  /\ MaxBytes \in Nat

VARIABLES
  n_maps,   (* how many maps both were asked for                            *)
  eng,      (* Python, per map: steps taken, _buf and _buf_i                *)
  comb,     (* Rust: steps taken per map, the combined buf and buf_i        *)
  pyOut,    (* bytes generate_byte returned                                 *)
  rsOut     (* bytes next_byte returned                                     *)

vars == <<n_maps, eng, comb, pyOut, rsOut>>

Maps == 0 .. n_maps - 1

(* The constructor refuses no maps; in Python it also fails at a map index   *)
(* that two bytes do not hold.                                               *)
PyConstructs == n_maps >= 1 /\ \A m \in Maps : Fits(m)
RsConstructs == n_maps >= 1

PySeed(m) == DeriveEngine(MasterKey, Nonce, m)
RsSeed(m) == DeriveEngine(MasterKey, Nonce, AsU16(m))

(* finalize(x).to_bytes(8): the word an engine shows after that step.      *)
Finalized(seed, step) == [j \in 1 .. WORD_BYTES |-> {<<seed, step, j>>}]

Block_Fault_WholeWord(seed, step) == Finalized(seed, step)

Block(seed, step) == SubSeq(Finalized(seed, step), 1, OUTPUT_BYTES_PER_STEP)

(* The XOR of one byte of each map.                                        *)
XorOver(byte) ==
  {a \in UNION {byte[m] : m \in Maps} : Cardinality({m \in Maps : a \in byte[m]}) % 2 = 1}

-----------------------------------------------------------------------------
(***************************************************************************)
(* Python: generate_byte of one engine, then of the combination.  _buf_i   *)
(* counts the bytes taken.                                                 *)
(***************************************************************************)
NewEngine == [steps |-> WARMUP, buf |-> <<>>, i |-> 0]

Refilled(m, e) ==
  IF e.i >= Len(e.buf)
  THEN [steps |-> e.steps + 1, buf |-> Block(PySeed(m), e.steps + 1), i |-> 0]
  ELSE e

GenerateByte ==
  LET ready == [m \in Maps |-> Refilled(m, eng[m])]
  IN  /\ PyConstructs
      /\ Len(pyOut) < MaxBytes
      /\ eng' = [m \in Maps |-> [ready[m] EXCEPT !.i = @ + 1]]
      /\ pyOut' = Append(pyOut, XorOver([m \in Maps |-> ready[m].buf[ready[m].i + 1]]))
      /\ UNCHANGED <<n_maps, comb, rsOut>>

(***************************************************************************)
(* Rust: refill steps every map once and combines; the buffer starts       *)
(* spent.                                                                  *)
(***************************************************************************)
NewCombined_Fault_StartsFull ==
  [steps |-> [m \in Maps |-> WARMUP],
   buf |-> [j \in 1 .. OUTPUT_BYTES_PER_STEP |-> {}], i |-> 0]

NewCombined ==
  [steps |-> [m \in Maps |-> WARMUP],
   buf |-> [j \in 1 .. OUTPUT_BYTES_PER_STEP |-> {}], i |-> OUTPUT_BYTES_PER_STEP]

RefilledCombined_Fault_OneMap(c) ==
  IF c.i >= OUTPUT_BYTES_PER_STEP
  THEN [steps |-> [c.steps EXCEPT ![0] = @ + 1],
        buf |-> [j \in 1 .. OUTPUT_BYTES_PER_STEP |->
                  XorOver([m \in Maps |->
                    Block(RsSeed(m), c.steps[m] + (IF m = 0 THEN 1 ELSE 0))[j]])],
        i |-> 0]
  ELSE c

RefilledCombined(c) ==
  IF c.i >= OUTPUT_BYTES_PER_STEP
  THEN [steps |-> [m \in Maps |-> c.steps[m] + 1],
        buf |-> [j \in 1 .. OUTPUT_BYTES_PER_STEP |->
                  XorOver([m \in Maps |-> Block(RsSeed(m), c.steps[m] + 1)[j]])],
        i |-> 0]
  ELSE c

NextByte ==
  LET ready == RefilledCombined(comb)
  IN  /\ RsConstructs
      /\ Len(rsOut) < MaxBytes
      /\ comb' = [ready EXCEPT !.i = @ + 1]
      /\ rsOut' = Append(rsOut, ready.buf[ready.i + 1])
      /\ UNCHANGED <<n_maps, eng, pyOut>>

-----------------------------------------------------------------------------
Init ==
  /\ n_maps \in MapCounts
  /\ eng = [m \in Maps |-> NewEngine]
  /\ comb = NewCombined
  /\ pyOut = <<>>
  /\ rsOut = <<>>

Next == GenerateByte \/ NextByte

Spec == Init /\ [][Next]_vars
-----------------------------------------------------------------------------
TypeOK ==
  /\ n_maps \in MapCounts
  /\ \A m \in Maps :
       /\ eng[m].steps >= WARMUP
       /\ eng[m].i \in 0 .. Len(eng[m].buf)
       /\ Len(eng[m].buf) \in {0, OUTPUT_BYTES_PER_STEP}
  /\ comb.i \in 0 .. OUTPUT_BYTES_PER_STEP
  /\ Len(pyOut) <= MaxBytes /\ Len(rsOut) <= MaxBytes

(***************************************************************************)
(* The tape: byte k is the XOR over all maps of the byte k % 4 of the word *)
(* after warm-up step 1 + k \div 4; nothing of the warm-up and nothing of  *)
(* the hidden half of a word is emitted, and no step is used twice.  Maps  *)
(* beyond the last index repeat the first ones and cancel them.            *)
(***************************************************************************)
Tape ==
  [k \in 0 .. MaxBytes - 1 |->
    {<<RsSeed(m), WARMUP + 1 + (k \div OUTPUT_BYTES_PER_STEP), 1 + (k % OUTPUT_BYTES_PER_STEP)>> :
       m \in {m \in Maps : Cardinality({o \in Maps : AsU16(o) = AsU16(m)}) % 2 = 1}}]

(***************************************************************************)
(* Two maps of one engine are the same only where the two-byte index makes *)
(* them so, and no other use of this or another key derives one of them,   *)
(* as far as the separator keeps keys apart.                               *)
(***************************************************************************)
EnginesApart ==
  /\ SeedsApart
  /\ \A m, o \in Maps : RsSeed(m) = RsSeed(o) <=> AsU16(m) = AsU16(o)

(***************************************************************************)
(* After as many bytes, both ports have stepped every map equally often,   *)
(* so either could go on where the other stopped.                          *)
(***************************************************************************)
SameSteps ==
  Len(pyOut) = Len(rsOut) => \A m \in Maps : eng[m].steps = comb.steps[m]

(***************************************************************************)
(* Both ports read that tape, byte after byte, however their calls are     *)
(* sliced: the buffers of the maps stay aligned with each other and with   *)
(* the combined one.  With more maps than indices only Rust reads it.      *)
(***************************************************************************)
Keystream == INSTANCE KeystreamTape
  WITH Readers <- {"python", "rust"}, tape <- Tape,
       out <- [r \in {"python", "rust"} |-> IF r = "python" THEN pyOut ELSE rsOut]

ReadsTheTape == Keystream!Spec /\ []SameSteps
=============================================================================
