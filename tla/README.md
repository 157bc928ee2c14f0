# A TLA+ verification of the three-body-problem cipher

This directory holds TLA+ specifications of the cipher in `cipher/` (the Python
reference) and `rust/src/` (its port), the TLC models that check them, and
TLAPS proofs about them. It says nothing about how hard the chaotic keystream
is to predict: that is what `attacks/` measures. It is about the *shell* and
the *machinery*: which state each object keeps, in which order its methods may
be called, what a transport may do between two of them, where integers end, and
what must hold all the same.

- [The system](#the-system)
- [Modules](#modules)
- [How the models abstract](#how-the-models-abstract)
- [Runs](#runs)
- [Findings](#findings)
- [Proofs](#proofs)
- [What is not modelled](#what-is-not-modelled)
- [Plan](#plan)

## The system

| Part | Code | State | Operations |
|---|---|---|---|
| PWLCM engine | `cipher/engine.py`, `rust/src/engine.rs` | one 127-bit map state, break-point, (Rust) two reciprocals, a 4-byte output buffer | one map step, buffer refill, next byte |
| Multi-map engine | `cipher/multimap.py`, `rust/src/multimap.rs` | N engines; in Rust also a combined buffer | next byte (XOR of all), keystream, encrypt |
| Auto-rekey ratchet | `cipher/ratchet.py`, `rust/src/ratchet.rs` | chain key, epoch engine, epoch index, bytes left | next byte with epoch turnover, checkpoint, resume |
| Key schedule | `_kdf_hash` in `cipher/engine.py`, `kdf_hash` in `rust/src/utils.rs`, `_derive_engine` in `cipher/multimap.py`, `ctr.py` | none | seed of an engine from key, nonce, indices |
| Seekable CTR | `cipher/ctr.py`, `rust/src/ctr.rs` | none between calls; position and bytes collected within one | keystream(n, offset), encrypt at an offset |
| Committing AEAD | `cipher/aead.py`, `cipher/commit.py`, `rust/src/aead.rs` | none | seal, open |
| SIV AEAD | `cipher/siv.py`, `rust/src/siv.rs` | none | seal_siv, open_siv |
| Two locks | `cipher/twolock.py`, `rust/src/twolock.rs` | none | seal_twolock, open_twolock |
| Streaming AEAD | `cipher/streaming.py`, `rust/src/streaming.rs` | sealer: index, closed; opener: index, done | seal_chunk, open_chunk, finish, one-shot forms |
| Ratchet session AEAD | `cipher/ratchet_aead.py`, `rust/src/ratchet_aead.rs` | chain, index, on each side | seal, open |
| Diffie-Hellman, authenticated DH | `cipher/keyexchange.py`, `cipher/auth_keyexchange.py` | a private exponent, two for the handshake | shared key, session key |
| Hybrid post-quantum exchange | `cipher/pq_keyexchange.py`, `rust/src/keyexchange.rs` | DH and ML-KEM keys | respond, initiator key |
| Authenticated PQ handshake | `cipher/auth_pq_keyexchange.py`, `rust/src/auth_pq.rs` | per side: keys, transcript, session key | start, respond, finish, confirm, key |
| Command line | `rust/src/main.rs` | none | dispatch |
| Measurements, vectors, tests | `attacks/`, `bench/`, `kat/`, `tests/` | none | scripts |

**How the parts interact.** Everything is calls; there are no threads, files or
sockets in the library. An engine is owned by a multi-map engine, which is
owned by one AEAD call, by one chunk of a stream, by one epoch of the ratchet
or by one block of the CTR. A handshake yields a master key, and the AEADs, the
stream and the session take one. The concurrency is *between* objects: two
sessions, a sealer and an opener, an initiator and a responder meet over a
transport of the caller's choosing, each may be called at any time, and a
process may stop and resume from a checkpoint. The second source of
interleaving is that there are two implementations of each part which must stay
byte-compatible without ever talking to each other.

**What is hard, part by part, and what makes the part correct.**

| Part | Hard behaviour | Correct when |
|---|---|---|
| Engine | divisions replaced by a truncated reciprocal, wrapping words, region ends, a state that may exceed the modulus | both ports compute one orbit, the four regions partition, only known states die |
| Multi-map | two buffering schemes | both read one tape, no hidden half of a word leaves |
| Ratchet | two ways of counting epochs, resume from a checkpoint, order of deriving and burning | one tape for all holders, no captured state yields a past epoch |
| Key schedule | labels, separators, two-byte map indices, shells that share a master key | two uses of a key never run one engine |
| CTR | block boundaries, the last block index, wrap-around | every slicing gives the same bytes; raises only past the end; ends |
| Session AEAD | lost, repeated, reordered, altered wires; an index used before it is authenticated; index overflow | keys fresh, delivery in order, passed keys gone, genuine wires open |
| Streaming AEAD | the same transport, several streams, an authenticated end | a prefix of one stream, clean end means whole, no keystream twice |
| PQ handshake | flights redirected and recombined, a responder that answers again, own identity in both roles | a finished side agrees with a peer of the expected identity |
| One-shot AEADs and stream blobs | checks before and after decryption, nonces of another length, length fields read from the blob, frames cut and re-framed | whatever opens was sealed in that format under that key and data; both ports make the same of every blob |
| Exchanges | range ends, symmetric terms, one leg broken | both sides derive one key exactly when the code promises it, and refuse degenerate values |
| Period census | in-place search with a moving tortoise, colouring of a functional graph | cycles, basins and tails reported are those of the engine |

`PROJECT.json` lists each of these hazards at the line where it bites, with the
properties that cover it.

## Modules

| Module | Models | Kind |
|---|---|---|
| `PwlcmEngine` | the map step of both ports side by side, and the census map | state machine |
| `PeriodCensus` | `attacks/period_census.py`: Brent's search, the full census, the cycle hunt, on the engine's orbits | algorithms |
| `PwlcmProofs` | theorems about the engine | proofs |
| `KeySchedule` | what is hashed into the seed of one engine, for every shell | operators |
| `MultiMap` | the output buffers of both ports and the derivation of their maps | state machine |
| `KeystreamTape` | what a keystream promises its readers | abstract specification |
| `RatchetKeystream` | the auto-rekey ratchet; within an epoch its bytes are those of `MultiMap` | state machine |
| `KeystreamProofs` | theorems about the last four: key schedule, multi-map, tape and ratchet | proofs |
| `SeekableCtr` | `keystream(n, offset)` of both ports, iteration by iteration | state machine |
| `SeekableCtrProofs` | theorems about it | proofs |
| `RatchetSession` | the two ends of a ratchet session AEAD and the transport between them | state machine |
| `InOrderDelivery` | what a session promises, without keys or wires | abstract specification |
| `RatchetSessionProofs` | theorems about both | proofs |
| `StreamAead` | several sealers, one opener and the transport between them | state machine |
| `StreamTransfer` | what a stream promises, without keys or frames | abstract specification |
| `StreamAeadProofs` | theorems about both | proofs |
| `SealedBlobs` | committing AEAD, SIV, two locks and one-shot streams of both ports, the assembly of the vectors, and what happens to a blob on the way | state machine |
| `SealedBlobsProofs` | theorems about them and about the scripts of `BlobScripts` | proofs |
| `BlobScripts` | the demos and attack scripts about those blobs, as verdicts | operators |
| `KeyAgreement` | the plain, authenticated and hybrid exchanges over a small group, both ports | state machine |
| `KeyAgreementProofs` | theorems about them, for a group of any size | proofs |
| `HandshakeScripts` | the helpers, attack scripts and vectors built on them | operators |
| `AuthPqHandshake` | initiators, responders and the transport between them | state machine |
| `AuthPqScripts` | the helper, the impersonator, the attack script and the vector of that handshake | operators |
| `AuthPqProofs` | theorems about the handshake, the impersonator and the scripts | proofs |
| `MC*` | TLC instances: model values and small sets for the constants | model checking |

How the state and actions of a module correspond to the code:

- **PwlcmEngine.** `x`, `p` are the attributes of `DiscreteChaoticEngine`, `rs`
  those of `ChaosEngine`. `Step` is one `_next_state` and one `next_state`.
  `NextState` is the masked sum, `NextStateRs` the reciprocal form with its
  u128 and U256 words (`Word`, `Wide`), `CensusStep` the `if/elif` chain.
  `PeriodCensus` runs `brent_lambda`, `full_census` and the hunt of `run_hunt` as functions
  from every state and parameter the engine reaches.
- **KeySchedule.** `FromMaster`, `DeriveEngine`, `BlockEngine` are the three places
  that hash a seed. Keys and nonces are sequences of bytes and `"|"` is one of them.
- **MultiMap.** `n_maps` is the constructor's argument; `eng[m]` an engine with
  `_buf` and `_buf_i`, `comb` the Rust `MultiMapEngine` with `buf` and `buf_i`.
  `GenerateByte` and `NextByte` are the methods of those names, refill included.
  `Fits` is `index.to_bytes(2)`, which raises, and `AsU16` is `i as u16`, which
  does not.
- **RatchetKeystream.** `held[h]` is a `RatchetEngine` object: chain, epoch
  index, epoch engine (its key, nonce and bytes used) and bytes remaining.
  `Construct`, `RatchetGenerateByte`, `Checkpoint`, `Resume` are the methods, `Stop`
  the end of the process. `out`, `from` and a checkpoint's `taken` are history. Names
  that `MultiMap` also has begin with `Ratchet`, because `KeystreamProofs` extends both.
- **SeekableCtr.** The locals of `keystream` (`pos`, `out`) and its arguments.
  `Call` is the entry with its check, `Iterate` one turn of the loop,
  `IterateRaises` the overflow of `block_index.to_bytes(8)`, `Return` the
  truncation. `wraps` tells which port the call runs in.
- **RatchetSession.** `tx` and `rx` are the session objects, `job` the wire that
  a running `open()` holds, `wires` everything sealed, `delivered` everything
  opened. `Seal` and `SealRaises` are the two outcomes of `seal()`; `OpenPast`,
  `OpenBegin`, `FastForward`, `OpenFinish` are `open()`, its loop turn by turn.
  The field `wraps` of a session tells its port: a Python index that no longer
  fits 8 bytes raises, a Rust one returns to 0; the two ends may differ.
- **StreamAead.** `sealer[s]` and `opener` are the objects, `log` what was sealed,
  `opened` what was returned. `SealChunk`, `OpenHeader`, `OpenChunk`,
  `RefuseChunk`, `Finish` are the methods and their refusals.
- **SealedBlobs.** `Seal` runs one of the sealers of one port, or the vector
  generator's assembly, on a request and keeps the blob in `sealed`. `Send` puts
  one under way in `wire`; `Edit`, `Splice`, `Reframe`, `Rewrap` are what happens to
  it there (cells removed, added, altered; halves of two blobs joined; frames of a
  stream reordered, dropped or taken from another; the outer wall of the two locks
  redone by someone who broke it). `Deliver` runs the openers of both ports, under
  any format, key, data and map count, and keeps both results in `got`.
  `garble` is the number that four bytes give when they are no length field.
  `FrameEnd`, `FrameFlags`, `FrameText`, `ChunkVerifies` and `ChunkPlain` are the
  body of the loop in `open_stream`; each port has its own loop around them, as a
  recursive function of position and index, because the ports leave it differently.
- **KeyAgreement.** `dh[p]` is a party's exponent, drawn (`Create`) or supplied
  (`CreateSupplied`), `peer[p]` the identity it has verified, `heard[p]` what its
  last call was given, `out[p]` what that came to. `CallShared`, `CallSession`,
  `CallRespond`, `CallInitiator` are `shared_key`, `session_key`, `respond` and
  `shared_key` of the hybrid initiator. An object may be called again, after an
  exception or a key; only `respond()`, which encapsulates afresh each time, is not
  repeated once it has returned a key (`AuthPqHandshake` has repeated answers).
- **AuthPqHandshake.** `cast` says which session objects were built with which
  identity, peer and info; `ini` and `rsp` are their attributes; `msg2s` and
  `sigs` what was sent. `Respond`, `Finish`, `FinishRaises`, `Confirm` are the
  methods; a `respond()` that raises between its two assignments is a disjunct of
  `Respond`. `AuthPqScripts` adds an impersonator who is given any subset of the
  long-term keys concerned (`Grants`) and acts at every reachable stage.

A definition named `X_Fault_Y` is `X` with one plausible slip `Y`. No
specification uses it; it stands before `X` so that a reader, or a script that
puts it in the place of `X`, can see a property fail.

## How the models abstract

- **Hashes, MACs, key derivations** are free constructors: two results are equal
  iff they were computed the same way from the same inputs, and nothing can be
  computed backwards. Where the injectivity of the *input* is at stake the input
  is spelled out cell by cell (`SealedBlobs`, `KeySchedule`), so that a missing
  length prefix or separator lets a boundary slide. HMAC pads keys with zero
  bytes; master keys are taken to differ beyond that.
- **Encryption** is a keystream name and a plaintext (`StreamAead`), a sealed
  record (`RatchetSession`), or, in `SealedBlobs` and `MultiMap`, real XOR: a cell
  is a set of atoms and XOR the symmetric difference, so a wrong keystream leaves
  its atoms behind and equal keystreams cancel.
- **The group** of `KeyAgreement` is a real one, modulo the safe prime 2039 = 2 * 1019 + 1, so
  that subgroups, range ends and the negation of a value are computed, not
  postulated. In `AuthPqHandshake` an element is named by its two exponents; the
  range check is the one fact of the group that handshake uses. ML-KEM with its
  implicit rejection and ML-DSA are external and symbolic.
- **The transport** may lose, repeat, reorder and recombine: actions that receive
  choose from everything sent, in any combination of its parts, and from bytes
  nobody sent (`Broken`, `Stray`, `Malformed`). Losing is not choosing.
- **Widths** are constants. The 2^127-1 grid is any odd grid `M = 2*HALF + 1`,
  for which `M + 1` plays the part of 2^127; the 64-bit index is `IndexLimit`,
  the block index range `Blocks`, the 16-bit map index `IndexValues`, the 32-bit
  frame length `LenLimit`. TLC gets small ones, the proofs hold for all.
- **Scripts** have their messages and keys built in. They are modelled as verdicts
  over *any* state of the model that fits the script, which is more than they run.
- **Left out:** argument types, timing, zeroizing of buffers, random number
  quality (fresh salts, nonces and ephemeral exponents are distinct), and the text
  of errors.

## Runs

Each run lists its properties in its `.cfg`. Deadlock is checked where a
component can always be called again; it is off in `MultiMap.cfg`, where the
bound on bytes ends the behaviour, and in `KeyAgreement.cfg` and
`SealedBlobs.cfg`, where a behaviour is one exchange or one delivery.

| Run | Question | Bounds and why they suffice |
|---|---|---|
| `engine_grid` | Do the ports compute one orbit, is the masked sum the branching map, where does an orbit die, are the census figures those of the engine? | the grid 2^6-1 with every control parameter of two rounds of the reduction and every state, so every region end and every break-point of that grid; search budgets that end the search early, in the middle and never |
| `multimap_tape` | Do both buffering schemes read one tape? Can two uses of a key run one engine? | three map indices and 0, 1, 3, 4 and 6 maps: none, one, all, one repeated and every one repeated; three bytes of a five-byte word per step, 13 bytes: four refills and a partial one in each port, in every interleaving. Keys up to three bytes, one of the two bytes being the separator |
| `ratchet_keystream` | Do all holders read one tape over turnovers, checkpoints and restarts? Do captured states reach back? | two Python holders and a Rust one, two bytes per epoch, three epochs: every position of a checkpoint within an epoch and two turnovers behind it |
| `ctr_slices` | Is every slice the right one, in both ports? | blocks of three bytes, four block indices, every offset from -1 to past the end, every length to three blocks and one byte |
| `session` | Keys fresh, delivery in order, passed keys gone, genuine wires returned, nothing across sessions, and the refinement of `InOrderDelivery` | three indices and four links, so that Python reaches the index that raises and Rust goes round once and on; each end of either port, two contexts, data and payloads |
| `session_lockstep` | *(violation)* see Findings | |
| `stream_transport` | Beginning of one stream, clean end is whole, no keystream twice, refused frames do no harm, refinement of `StreamTransfer` | two sealers with distinct salts and any keys, two chunks each: reordering, truncation, splicing and continuation after the end need no more |
| `stream_salt_reuse` | *(violation)* see Findings | |
| `sealed_blobs` | Does anything open but what was sealed, does that open, and do the ports and vectors agree? | 15 requests over the four formats: empty, one- and two-cell messages, nonces of the right length, too short and too long, streams of no, one, two and three chunks and one chunk past the frame length; two keys, two data, one and two maps; two seals so that blobs can be spliced, one edit. `LenLimit` = 6 lets a frame length overflow, `Misreads` = 5 makes misread lengths run past the end |
| `key_agreement` | Do both ends agree exactly when the code promises it, are degenerate values refused, is a key ever known to the network? | the group modulo 2039, in which range ends, both small subgroups and the sign of a value occur; drawn exponents 2, 3, 5 (even and odd), supplied ones at the ends and at the subgroup order (a supplied exponent may make the shared element degenerate, as in the code, and both ports agree on it); any public value, its negation or a range end may arrive |
| `auth_pq` | Agreement of a finished side with a peer of the expected identity; who can impersonate whom | three casts (an unexpected initiator; two devices of one identity with different info; one identity in both roles), two `respond()` calls in all, so that a second answer, completed or broken off, overtakes the first; every subset of the long-term keys for the impersonator |
| `auth_pq_failure` | *(violation)* see Findings | |

**What the properties say beyond their comments.**

- `ForwardOnly` (ratchet) and `PastKeysBurned` (session) state forward secrecy on
  what is held in memory: from the chain value an object or a checkpoint holds, no
  key of a passed epoch or index can be derived. They are ordering properties
  (derive, then overwrite) that a round-trip test cannot see, because both sides
  would be wrong alike. Resuming twice from one checkpoint does repeat the later
  epochs; nothing in the code promises otherwise. A checkpoint taken right after
  construction names epoch 1 next: epoch 0 is not resumed from its beginning.
- `DeliversOnlyItsOwn` and `GenuineOpens` (session) are the two sides of the
  promise; between them stand unauthenticated wires, which can burn links and so
  cost later messages, but never alter, repeat or reorder what is delivered.
- `MutualAgreement` promises the same *transcript* always and the same *key* exactly
  when both sides were given the same `info`: `info` enters the key and not the
  transcript, so sides with different `info` complete the handshake and differ
  silently. The case it is really about is a responder whose second `respond()`
  broke off: the transcript is new and the key old.
- `BothLegsNeeded` is an equivalence: whoever holds *both* the static exponent and
  the signing key of the identity a session expects gets a key, and nobody else
  does, whatever other keys were given away, those of the session itself included.
  Part 3b of `attacks/auth_pq_attack.py` claims the first leg but guesses the
  ML-KEM secret along with the static term; this property isolates the leg.
- `NothingElseOpens` allows one thing: `n_maps` is not authenticated by the
  committing AEAD and the stream, so opening with another map count returns
  something else instead of refusing. SIV and the two locks refuse.
- `BlobsDetermined`: both ports and the vector generator make one blob of one
  request, and SIV blobs share a synthetic IV only for equal message and data.
- `KeyMeansAgreement` (`Agreement`, `HybridMeansUnchanged`) and the first part of
  `OnlyTheirs` (`AuthMeansPeer`): two sides that heard each other
  have one key, and equal keys mean what each exchange promises: nothing about
  the peer for the plain one; a verified peer for the triple exchange, whose
  ephemeral values are bound up to their sign only (an even exponent does not see
  a negated value, and no transcript is hashed); unchanged messages for the hybrid.
- `EnginesApart`: engines of different uses, keys, nonces, blocks or maps have
  different seeds, with two exceptions that the property names: keys of different
  lengths of which one continues the other with `"|"`, and in Rust map indices
  that agree modulo 2^16. With twice as many maps as indices the Rust keystream
  is zero throughout; Python raises instead.
- `PeriodsExact` says when the figures of the census are right. Two readings of
  it are not: `brent_lambda` returning `None` does not mean that the period is
  beyond the budget (`period_census.py:231-233` says so), since the search may
  need several times the period; and the census counts the step out of the grid
  and the restart as one, so it omits off-grid states from the tails it reports.
- `CallContract`, `KeystreamOnce`, `ReceivedIsSent`, `DueChunkOpens` are what
  callers of the CTR and the stream rely on; `OpenEnds` and `CallEnds` say that a
  call that has begun ends.

**Fairness.** The library has no scheduler. The only fairness assumed is that a
call which has begun runs on: `FastForward` and `OpenFinish` in `RatchetSession`,
`Iterate`, `IterateRaises` and `Return` in `SeekableCtr` are statements of one
method whose loop waits for nothing. Nothing is assumed about callers or the
transport: neither a wire nor a call ever has to come.

## Findings

Three runs end in a counterexample to something the repository says.

1. `session_lockstep`: "Sender and receiver each hold one and advance it in
   lockstep" (`cipher/ratchet_aead.py:71-72`). `open()` burns links up to the
   index on the wire before it authenticates that wire, so the receiver can run
   ahead of its sender and then refuses what the sender says next.
2. `stream_salt_reuse`: "Reusing a salt across streams is safe here because each
   chunk's nonce also includes its index + flags" (`cipher/streaming.py:102-103`).
   Chunks of equal index and flags in two such streams share their keystream.
3. `auth_pq_failure`: "Any failure → the handshake raises ...; the key is never
   returned" (`cipher/auth_pq_keyexchange.py:43-44`). `Responder.key` returns the
   key after `confirm()` has raised, and before it is called.

Smaller observations, not findings:

- The second check of `DHParty._validate_peer` (`keyexchange.py:89`) can never fire
  behind the first.
- A break-point `p = M - DEAD_STATE_FIX`, were it in the band, would make the
  restart state a corner of the map.
- `_kdf_hash` (`engine.py:79-80`) is said to be shared with the CTR's block engine,
  which builds the same kind of hash on its own (`ctr.py`).
- Sealers of the Rust port accept nonces and chunks that Python refuses: of a
  longer nonce the whole is used and 16 bytes are emitted, of a chunk of 4 GiB and
  more the length field keeps 32 bits. Both ports refuse to open the result.

## Proofs

All theorems hold for every value of the constants that meets the named
assumptions of the module. In each proof module (in each half of
`KeystreamProofs`) the theorems come last, after the invariant and one lemma per action.

**Engine (`PwlcmProofs`).** The core is `DivStepExact`: for a divisor `d` below
`HALF` and a numerator up to `d`, `floor(num * floor(M(M+1)/d) / (M+1))` is the
quotient `floor(M * num / d)` or one less, the remainder decides which, and no
product leaves its 256-bit word. `BreakPointInBand` shows that the fold keeps the
break-point in its band, so both divisors are below `HALF` and positive.
`MaskedIsBranching` and `RustIsBranching` reduce both step functions to the
branching map, region by region, for every state up to `M + M \div (HALF - p)`,
and `StepRange` shows that states stay there. That range is the reason an
inductive invariant is needed at all: the third branch leaves `0 .. M` at its
left end, so agreement for live states only would not be inductive. Then
`TypeCorrect`, `SameOrbit`, `SameMap` (no run states the latter on its own);
`DeathOnlyAtCorners` is an action property from the same invariant.

**Key schedule and multi-map (first half of `KeystreamProofs`).** `SeparateSeeds` compares the
inputs of the hash use by use: labels differ in their first cell, indices have a
fixed width, and of two keyed suffixes of equal nonce length the keys are equal or
one continues the other with the separator. `SeparateEngines` adds the maps of one
engine. For `OneTape` the invariant says of every map that
`(steps - WARMUP) * bytes per step = bytes returned + bytes left in the buffer`, and
that the buffer is the word of the last step; the same of the combined buffer. Then
both ports return byte `k` of the tape, and step alike. The refinement of
`KeystreamTape` follows.

**Ratchet (second half of `KeystreamProofs`).** An engine is determined by the epoch it
emits and the bytes used of it (the chain by its length, key and nonce by the
epoch), and `from * EpochBytes + Len(out) = epoch * EpochBytes + used`. This
absorbs the two ways of counting epochs; `RatchetTypeCorrect`, `OneRatchetTape` and `ForwardSecrecy` follow.

**CTR (`SeekableCtrProofs`).** The invariant `IInv` says of a running loop
(`Collected`) that byte `k` of `out` is the byte at position `k`, that `pos` is
the position after them, and that the blocks derived are those of the positions
up to `min(Len(out), n)`; the `min` is needed because the last chunk overshoots.
`PositionAdvances` and `PositionWithinBlock` carry it through wrap-around: a
chunk never straddles the wrap because the span is a whole number of blocks.
`BlocksOfRun` and `WrappedBlock` turn the set of blocks met into the interval of
blocks wanted. Results: `SliceOfKeystream`, `CoveringBlocksOnly`,
`RaisesOutOfRange`, together `ContractKept`; `TypeCorrect`.

**Session (`RatchetSessionProofs`).** `TypeCorrect` first. `SafetyInv` adds that
wires lie behind the sender's chain position at distinct places (`WiresBehind`),
deliveries behind the receiver's (`DeliveredBehind`), and that the wire in work
came from the transport (`JobArrived`); positions are chain *lengths*, which
never repeat, also when indices wrap. From it: `Delivered`, `FreshKeys`. `OriginInv`
says that wires carry the sender's context and data, which gives
`NothingAcrossSessions`; the two together are `OwnMessages`. `CountInv` holds without
wrap-around: the links of a chain are `0, 1, 2, ...`, so two chains of one context are
prefixes of each other, which gives `ForwardSecrecy` and `GapTolerance`. What they
say of the receiver is conditioned on `NoWrap`: in Python that is every session, in
Rust the first 2^64 messages. `Implements`
maps the session to `InOrderDelivery` step by step, wrapped or not.

**Stream (`StreamAeadProofs`).** A frame in a log is determined by the stream's
key, salt and data and by its place; an opener stands at a place of the one stream
whose salt it carries, and what it returned is what lies before it. A frame it
accepts has the tag of that place, hence is the frame of that place. `ForeignBytes`
is the assumption that bytes nobody sealed are no tag and no header. `SentIsReceived`,
`DueOpens`, `KeystreamsApart` and `Implements` assume `FreshSalts`, without which
the second finding is their counterexample; `TypeCorrect` does not.

**Authenticated handshake (`AuthPqProofs`).** Four parts beside the type
invariant. `Signed`: whoever's signature is out has derived a key from the
transcript it signs. `Held`: what a Responder holds is transcript and key of one
`respond()` call, or the transcript names a Diffie-Hellman value out of range.
The agreements themselves, which need the history of derived keys to grow only.
A signature that verifies leads to a session of the expected identity
(`FinishMeets`, `ConfirmMeets`); equal transcripts of the two roles name each
other's ephemerals and the ciphertext (`TranscriptsMeet`); and then the keys are
equal because the two static terms enter as a set and the ciphertext was made for
this initiator (`KeysMeet`). `ForeignValues` says that what does not decode is no
signature or ciphertext and that a value out of range is no party's. Results:
`TypeCorrect`, `BothAuthenticated`, for any casts and any number of flights.
`Impersonation` is `BothLegsNeeded` for every cast, every state and every subset
of the long-term keys: the impersonator's key is the session's exactly when the
static term is hers and her signature verifies, and each of the two needs the one
leg. `ImpersonatorAssumption` says that her own ephemeral and encapsulation are
nobody else's. `ScriptsCorrect` is the helper, the attack script and the vector.

**The older exchanges (`KeyAgreementProofs`).** `KeyAgreement` is
checked in one small group and proved for every modulus. `Pow` is
square-and-multiply as a recursive function; its defining equation (`PowerStep`)
and induction on the exponent give the laws of powers (`PowerSuccessor`,
`PowerSum`, `PowerProduct`), hence `PowersCommute`: either party's power of the
other's public value is the same element. `ExchangeInv` says what the objects hold:
exponents in range, drawn ones below the group order, and as result of the last
call exactly what that call computes from the exponent, the verified identity and
what was heard, whatever arrived. From it:

- `OneKey`, first part (`AgreementState`): in all three exchanges, with the sorted
  cross terms in either order; different `info` makes the keys differ.
- `OneKey`, second part (`HybridState`) needs no arithmetic: equal keys are equal
  transcripts, and a transcript holds each value in the place of its role.
- `SamePorts`: Python checks its own exponent once, Rust at each call.
- `TypeCorrect` with `NeverDegenerate`: `SafePrime` says that `P` and
  `Q = (P - 1) / 2` are prime and that a power of `P - 1` is 1 (Fermat). `Bezout` makes
  an exponent below `Q` invertible modulo `Q`, so a shared element 1 or `P - 1` would
  make the square of the peer value 1 (`NoSmallOrder`), which only 1 and `P - 1`
  have (`RootsOfOne`), and these are refused.

`KeyAssumption` and `SafePrime` are named assumptions of `KeyAgreement`, which TLC
evaluates for its group.

**Sealed blobs (`SealedBlobsProofs`).** The five properties of `SealedBlobs`, for any
keys, messages, data, nonces, numbers of seals and edits, and the verdicts of the
scripts of `BlobScripts`.

- *Why an invariant is needed.* That a blob which opens was sealed is lost with
  the first edit. What survives every edit is where the cells come from, and that
  is `Inv`: the blobs in `sealed` are what their requests make (`SealedInv`); in the
  blob under way every atom that only a key holder can write, a cell of an HMAC or
  the tag of a vault, was written by one of these seals or, once the wall was
  redone, under an outer key, and until then every cell is one of a sealed blob or
  a length field, flipped or not (`WireInv`); a delivery is judged on the blob it
  was given (`GotInv`). There is one lemma for each way of editing: what is made of
  good cells is made of good cells.
- *What opens was sealed* (`NothingElse`). An opener that accepts has found its own
  HMAC in the blob. By `Inv` a seal wrote it, `PrfInjective` gives key and input of
  that seal, and the lemmas on labelled inputs (`CommitSame`, `MacInputSame`,
  `ChunkInputSame`) give the fields: length prefixes and fields of fixed width keep
  every boundary in its place. A stream is pinned frame by frame from the end to
  the beginning (`StreamPinned`). SIV authenticates what it has decrypted, so there
  the keystream must be pinned too: with another number of maps, or with cells of
  another blob, atoms of a keystream would be left over in a result that is no
  caller's (`SivPlain`, `KsDiffer`). Behind a redone wall `VaultPinned` uses the tag
  of the inner cipher alone.
- *What was sealed opens* (`WholeBlobsOpen`), with the two refusals of what only
  Rust seals: `StreamRefused` shows that a wrapped frame length makes the frame
  fail, not another one open.
- *The ports* (`PortsAlwaysAgree`). `LoopsAgree` compares the two stream loops from
  every position of every blob: Rust collects first and judges what is left.
- *The sealers* (`SealersAgreeEverywhere`): the blob is a function of the request,
  and a synthetic IV of message and data is one to one.
- *The scripts* (`ScriptsHold`). A script runs on one message of its own; the theorem
  gives its verdict on every well-formed blob that was sealed, for every other key
  and all data. Of `Inv` it needs that each blob is what its request makes. One
  flipped cell of an AEAD blob is refused wherever it is (`AeadAltered`), of the
  other formats where the scripts flip it (`SivAltered`, `FirstChunkAltered`,
  `InnerLockPasses`). For `streaming_attack.py`, `SplitFrames` shows that its
  `_split` returns the very frames that were sealed, and `OnlyInOrder` that of those
  frames, laid in whatever order and number, only all of them in their order
  open: the counter in the tag fixes the order and the last flag the number. The
  four re-framings of the script are instances of it.

The assumptions are those of `SealedBlobs`. `CellsAssumption`: the bytes of callers
are not the output of an HMAC or a cipher they do not know. `KeysAssumption`: no
master key is the outer key derived from another one. `FreshSalts`: two streams
under one key have different salts, which `streaming.py` draws at random; without
it the second finding is the counterexample. `RequestsAssumption`: vectors pin
nonces of the right length, and bytes that are no length field are not taken for
the very length of a sealed frame, since then they would be its bytes. The scripts
add `DrawnAgain` of `BlobScripts`: the nonce a script draws is not the one the blob
was sealed with, both being 16 random bytes. Part 1 of `twolock_attack.py` looks for
its message in the opened wall, where the header of the vault stands in clear; its
verdict is stated for messages that are not themselves taken from that header.

The parsing loops are recursive *functions*, whose defining equation can be had
from well-founded recursion on the bytes left (`PyLoopExists`, `RsLoopExists`,
`SplitLoopExists`), and induction over blobs and frames is done with sets of
numbers (`SetInduction`, `DownInduction`). Only RECURSIVE operators and induction
theorems that take an operator are out of reach.

**Only model-checked.**

- The liveness properties `OpenEnds` and `CallEnds` (out of the prover's reach).
- `PeriodsExact`: that the two searches and the colouring of `period_census.py`
  find the cycles of an arbitrary grid needs the theory of functional graphs.
- `OnlyTheirs` (`AuthMeansPeer`, `KeySecret`) and `ScriptsPass` of `HandshakeScripts`: that elements
  coincide only where the code makes them, and that nobody computes a secret from
  what was sent, is a matter of the exponents in play, and fails for some exponents of
  any group. They hold of the exponents for which they are computed.

## What is not modelled

- Key and nonce mixing, `finalize`, the hash functions: bit-level arithmetic whose
  effect on the models is only the range of the first state and a name for the
  output.
- The vetted inner ciphers of the two locks, ML-KEM and ML-DSA: libraries, modelled
  from how they are used.
- The statistical scripts (`core_cryptanalysis`, `differential_attack`,
  `known_plaintext`, `output_filter_attack`, `map_count_attack`, `two_time_pad`) and
  `bench/`: experiments on keystream bits and speed, which the models name and do
  not compute. `ratchet_attack` and `ratchet_aead_attack` repeat on one example
  what `ForwardOnly`, `PastKeysBurned` and `GenuineOpens` say of every state.
- The command line: one library call per command, no state.
- A frame length cut in half (`streaming.py:206`, `streaming.rs:100`): a length is one
  cell in `SealedBlobs`, whole or absent; the check that follows, of the frame's body
  against the rest of the blob, is modelled in both ports.
- The cast `i as u16` of `ctr.rs:62`: what it does to map indices is checked where
  `multimap.rs` has it; `SeekableCtr` takes a block's keystream as given.
- Both ports of SIV, of the committing AEAD and, but for the map count, of the two
  locks open by the same steps and share one operator, `OpenBy`; only for streams,
  whose loops differ, does `PortsAgree` of `SealedBlobs` compare two definitions.
- Those vectors and tests that exercise one input each.
- Timing: `CONSTANT_TIME.md` is about the machine code, which TLA+ does not see.

## Plan

Done: every stateful part of the library in both ports, its abstract
specifications, and the proofs listed above. What would add most from here:

1. A composition in which a completed handshake feeds a session and a stream, so
   that `MutualAgreement` discharges the "one master key" that `RatchetSession` and
   `StreamAead` start from, and sides with different `info` meet in their first
   message.
2. What is left of `KeyAgreement` (`OnlyTheirs`) over symbolic group
   elements, as `AuthPqHandshake` has them.
