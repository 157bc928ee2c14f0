----------------------------- MODULE SealedBlobs -----------------------------
(***************************************************************************)
(* The one-shot shells: the committing AEAD (aead.py, commit.py), SIV      *)
(* (siv.py), the two locks (twolock.py) and the one-shot form of the       *)
(* stream (streaming.py), with their Rust ports and the assembly of the    *)
(* known-answer vectors.  A blob is a sequence of cells; between a sealer  *)
(* and an opener it may be cut, extended, altered, spliced and re-framed.  *)
(*                                                                         *)
(* A cell is a set of atoms, so that XOR is the symmetric difference and   *)
(* a wrong keystream leaves its atoms behind.  HMAC, HKDF and the vetted   *)
(* inner ciphers are free constructors over the sequence of cells they are *)
(* fed, so a boundary that is not length-prefixed can slide.               *)
(***************************************************************************)
EXTENDS Integers, FiniteSets, SequencesExt

CONSTANTS
  Keys,       (* master keys                                               *)
  Cells,      (* what callers' data and nonces are made of                 *)
  Aads,       (* associated data: sequences of cells                       *)
  MapCounts,  (* the n_maps callers pass                                   *)
  Requests,   (* what callers ask a sealer for                             *)
  LenLimit,   (* 2^32, the first number a frame length cannot hold         *)
  Misreads,   (* numbers that four bytes which are no length may give      *)
  None,       (* nothing delivered yet                                     *)
  MaxSeals,   (* bound of the model: blobs sealed                          *)
  MaxEdits    (* bound of the model: edits of a blob under way             *)

ASSUME BlobsAssumption ==
  /\ MaxSeals \in Nat /\ MaxEdits \in Nat
  /\ LenLimit \in Nat \ {0}
  /\ Misreads \subseteq 0..LenLimit - 1
  /\ \A n \in MapCounts : n \in Nat \ {0}

VARIABLES
  sealed,     (* history: request, maps and blob of every seal             *)
  wire,       (* the blob under way                                        *)
  edits,      (* how often it was edited                                   *)
  peeled,     (* the outer wall of the two locks was redone on the way     *)
  garble,     (* the number that four bytes read in the wrong place give   *)
  got         (* the last delivery, and what both ports made of it         *)

vars == <<sealed, wire, edits, peeled, garble, got>>

-----------------------------------------------------------------------------
(* Cells, and the widths of the fields in cells. *)

Xor(a, b)    == (a \ b) \cup (b \ a)
Flip(c)      == Xor(c, {<<"flipped bit">>})
NonceLen     == 1        \* NONCE_LEN = SALT_LEN = 16 bytes
TagLen       == 2        \* TAG_LEN = COMMIT_LEN = SIV_LEN = 32 bytes
HeaderLen    == NonceLen + TagLen
LenBytes     == 1
InnerLen     == 1        \* INNER_NONCE_LEN; the alg byte is one cell as well
DefaultMaps  == 2
FINAL        == {<<"flags", 1>>}
MORE         == {<<"flags", 0>>}
Algs         == {{<<"alg", 1>>}, {<<"alg", 2>>}}

Ok(out)      == [ok |-> TRUE,  out |-> out]
Refused      == [ok |-> FALSE, out |-> <<>>]

Prf(key, input)  == [i \in 1..TagLen |-> {<<"hmac", key, input, i>>}]
SubKey(key, use) == <<"subkey", key, use>>
Len8(s)          == <<{<<"len8", Len(s)>>}>>

(***************************************************************************)
(* MultiMapEngine(key, nonce, n).encrypt(data): one block of each of the   *)
(* maps, combined.  decrypt is the same call.                              *)
(***************************************************************************)
Encrypt(key, nonce, n, data) ==
  [j \in 1..Len(data) |-> Xor(data[j], {<<"ks", key, nonce, i, j>> : i \in 1..n})]

(***************************************************************************)
(* aead.py, commit.py                                                      *)
(***************************************************************************)
KeyCommitment(key, salt, aad) ==
  Prf(SubKey(key, "commit"), salt \o Len8(aad) \o aad)

AeadTag(key, nonce, commit, aad, ct) ==
  Prf(SubKey(key, "mac"), nonce \o commit \o Len8(aad) \o aad \o ct)

SealAead(key, pt, aad, n, nonce) ==
  LET ct     == Encrypt(key, nonce, n, pt)
      commit == KeyCommitment(key, nonce, aad)
  IN  IF Len(nonce) # NonceLen
      THEN Refused
      ELSE Ok(nonce \o commit \o ct \o AeadTag(key, nonce, commit, aad, ct))

(* aead.rs: a short nonce panics; of a long one all is used, a part emitted. *)
SealAeadRs(key, pt, aad, n, nonce) ==
  LET ct     == Encrypt(key, nonce, n, pt)
      commit == KeyCommitment(key, nonce, aad)
  IN  IF Len(nonce) < NonceLen
      THEN Refused
      ELSE Ok(SubSeq(nonce, 1, NonceLen) \o commit \o ct
                \o AeadTag(key, nonce, commit, aad, ct))

OpenAead_Fault_NoTag(key, blob, aad, n) ==
  LET nonce  == SubSeq(blob, 1, NonceLen)
      commit == SubSeq(blob, NonceLen + 1, HeaderLen)
      ct     == SubSeq(blob, HeaderLen + 1, Len(blob) - TagLen)
  IN  IF \/ Len(blob) < HeaderLen + TagLen
         \/ KeyCommitment(key, nonce, aad) # commit
      THEN Refused
      ELSE Ok(Encrypt(key, nonce, n, ct))

OpenAead(key, blob, aad, n) ==
  LET nonce  == SubSeq(blob, 1, NonceLen)
      commit == SubSeq(blob, NonceLen + 1, HeaderLen)
      ct     == SubSeq(blob, HeaderLen + 1, Len(blob) - TagLen)
      tag    == SubSeq(blob, Len(blob) - TagLen + 1, Len(blob))
  IN  IF \/ Len(blob) < HeaderLen + TagLen
         \/ AeadTag(key, nonce, commit, aad, ct) # tag
         \/ KeyCommitment(key, nonce, aad) # commit
      THEN Refused
      ELSE Ok(Encrypt(key, nonce, n, ct))

(***************************************************************************)
(* siv.py                                                                  *)
(***************************************************************************)
SynthesiseIv(key, aad, pt) ==
  Prf(SubKey(key, "siv"), Len8(aad) \o aad \o pt)

SealSiv(key, pt, aad, n) ==
  LET siv == SynthesiseIv(key, aad, pt)
  IN  Ok(KeyCommitment(key, siv, aad) \o siv \o Encrypt(key, siv, n, pt))

OpenSiv(key, blob, aad, n) ==
  LET commit == SubSeq(blob, 1, TagLen)
      siv    == SubSeq(blob, TagLen + 1, 2 * TagLen)
      pt     == Encrypt(key, siv, n, SubSeq(blob, 2 * TagLen + 1, Len(blob)))
  IN  IF \/ Len(blob) < 2 * TagLen
         \/ KeyCommitment(key, siv, aad) # commit
         \/ SynthesiseIv(key, aad, pt) # siv
      THEN Refused
      ELSE Ok(pt)

(***************************************************************************)
(* twolock.py.  The vetted inner ciphers are external.                     *)
(***************************************************************************)
DeriveKeys(key) == [outer |-> <<"hkdf", key, "outer-wall">>,
                    inner |-> <<"hkdf", key, "inner-vault">>]

VaultXor(alg, key, nonce, data) ==
  [j \in 1..Len(data) |-> Xor(data[j], {<<"vault", alg, key, nonce, j>>})]

VaultTag(alg, key, nonce, ct, aad) == {<<"vault tag", alg, key, nonce, ct, aad>>}

VaultSeal(alg, key, nonce, pt, aad) ==
  LET ct == VaultXor(alg, key, nonce, pt)
  IN  Append(ct, VaultTag(alg, key, nonce, ct, aad))

VaultOpen(alg, key, nonce, data, aad) ==
  IF data # <<>> /\ Last(data) = VaultTag(alg, key, nonce, Front(data), aad)
  THEN Ok(VaultXor(alg, key, nonce, Front(data)))
  ELSE Refused

InnerBlob_Fault_NoAad(keys, r, inonce) ==
  <<r.alg>> \o inonce \o VaultSeal(r.alg, keys.inner, inonce, r.chunks[1], <<>>)

InnerBlob(keys, r, inonce) ==
  <<r.alg>> \o inonce \o VaultSeal(r.alg, keys.inner, inonce, r.chunks[1], r.aad)

SealTwolock(r) ==
  LET keys == DeriveKeys(r.key)
  IN  IF r.alg \notin Algs \/ Len(r.inonce) # InnerLen
      THEN Refused
      ELSE SealAead(keys.outer, InnerBlob(keys, r, r.inonce), r.aad, DefaultMaps, r.nonce)

(* twolock.rs: the inner nonce is cut to size before it is used.            *)
SealTwolockRs(r) ==
  LET keys == DeriveKeys(r.key)
  IN  IF r.alg \notin Algs \/ Len(r.inonce) < InnerLen
      THEN Refused
      ELSE SealAeadRs(keys.outer, InnerBlob(keys, r, SubSeq(r.inonce, 1, InnerLen)),
                      r.aad, r.n, r.nonce)

OpenTwolock(key, blob, aad, n) ==
  LET keys  == DeriveKeys(key)
      outer == OpenAead(keys.outer, blob, aad, n)
      inner == outer.out
  IN  IF ~outer.ok \/ Len(inner) < 1 + InnerLen \/ inner[1] \notin Algs
      THEN Refused
      ELSE VaultOpen(inner[1], keys.inner, SubSeq(inner, 2, 1 + InnerLen),
                     SubSeq(inner, 2 + InnerLen, Len(inner)), aad)

(***************************************************************************)
(* streaming.py, the one-shot form: header, then length-prefixed frames.   *)
(***************************************************************************)
Len4(v) == {<<"len4", v>>}

(***************************************************************************)
(* int.from_bytes(..., "big").  Four bytes that are no length read as      *)
(* `garble`, which is the length of no frame: if they read as the right    *)
(* length, they would be its bytes.                                        *)
(***************************************************************************)
NumberAt(cell) ==
  IF \E v \in 0..LenLimit - 1 : cell = Len4(v)
  THEN CHOOSE v \in 0..LenLimit - 1 : cell = Len4(v)
  ELSE garble

ChunkNonce(salt, i, flags) == salt \o <<{<<"index", i>>}, flags>>

ChunkTag_Fault_NoIndex(key, salt, i, flags, aad, ct) ==
  Prf(SubKey(key, "stream"), salt \o <<flags>> \o Len8(aad) \o aad \o ct)

ChunkTag(key, salt, i, flags, aad, ct) ==
  Prf(SubKey(key, "stream"),
      salt \o <<{<<"index", i>>}, flags>> \o Len8(aad) \o aad \o ct)

SealChunk(r, i, flags, data) ==
  LET ct == Encrypt(r.key, ChunkNonce(r.nonce, i, flags), r.n, data)
  IN  <<flags>> \o ct \o ChunkTag(r.key, r.nonce, i, flags, r.aad, ct)

Frames_Fault_NoEmpty(r) ==
  [i \in 1..Len(r.chunks) |->
     SealChunk(r, i - 1, IF i = Len(r.chunks) THEN FINAL ELSE MORE, r.chunks[i])]

Frames(r) ==
  LET chunks == IF r.chunks = <<>> THEN << <<>> >> ELSE r.chunks
  IN  [i \in 1..Len(chunks) |->
         SealChunk(r, i - 1, IF i = Len(chunks) THEN FINAL ELSE MORE, chunks[i])]

Prefixed(frame) == <<Len4(Len(frame) % LenLimit)>> \o frame

SealStream(r) ==
  LET frames == Frames(r)
  IN  IF \/ Len(r.nonce) # NonceLen
         \/ \E i \in DOMAIN frames : Len(frames[i]) >= LenLimit  \* OverflowError
      THEN Refused
      ELSE Ok(r.nonce \o KeyCommitment(r.key, r.nonce, r.aad)
                \o FlattenSeq([i \in DOMAIN frames |-> Prefixed(frames[i])]))

(* streaming.rs: frame_len as u32 wraps, and a long salt is used whole.     *)
SealStreamRs(r) ==
  LET frames == Frames(r)
  IN  IF Len(r.nonce) < NonceLen
      THEN Refused
      ELSE Ok(SubSeq(r.nonce, 1, NonceLen) \o KeyCommitment(r.key, r.nonce, r.aad)
                \o FlattenSeq([i \in DOMAIN frames |-> Prefixed(frames[i])]))

(* The frame that begins at cell pos: length, flags, ciphertext and tag.    *)
FrameEnd(blob, pos)   == pos + LenBytes + NumberAt(blob[pos + 1])
FrameFlags(blob, pos) == blob[pos + LenBytes + 1]
FrameText(blob, pos)  == SubSeq(blob, pos + LenBytes + 2, FrameEnd(blob, pos) - TagLen)

ChunkVerifies(key, blob, aad, pos, i) ==
  LET salt == SubSeq(blob, 1, NonceLen)
      end  == FrameEnd(blob, pos)
  IN  /\ end <= Len(blob) /\ NumberAt(blob[pos + 1]) >= 1 + TagLen
      /\ ChunkTag(key, salt, i, FrameFlags(blob, pos), aad, FrameText(blob, pos))
           = SubSeq(blob, end - TagLen + 1, end)

ChunkPlain(key, blob, n, pos, i) ==
  LET salt == SubSeq(blob, 1, NonceLen)
  IN  Encrypt(key, ChunkNonce(salt, i, FrameFlags(blob, pos)), n, FrameText(blob, pos))

HeaderVerifies(key, blob, aad) ==
  /\ Len(blob) >= HeaderLen
  /\ KeyCommitment(key, SubSeq(blob, 1, NonceLen), aad) = SubSeq(blob, NonceLen + 1, HeaderLen)

(* Loop[<<pos, i>>]: what the loop returns from cell pos and chunk i on.    *)
OpenStream(key, blob, aad, n) ==
  LET Loop[at \in (0..Len(blob)) \X Nat] ==
        LET pos  == at[1]
            i    == at[2]
            end  == FrameEnd(blob, pos)
            pt   == ChunkPlain(key, blob, n, pos, i)
            rest == Loop[<<end, i + 1>>]
        IN  IF pos = Len(blob) \/ ~ChunkVerifies(key, blob, aad, pos, i) THEN Refused
            ELSE IF FrameFlags(blob, pos) = FINAL
                 THEN IF end # Len(blob) THEN Refused ELSE Ok(pt)
                 ELSE IF rest.ok THEN Ok(pt \o rest.out) ELSE Refused
  IN  IF ~HeaderVerifies(key, blob, aad) THEN Refused ELSE Loop[<<HeaderLen, 0>>]

(* streaming.rs leaves the loop first and looks at what is left after it.   *)
OpenStreamRs_Fault_Trailing(key, blob, aad, n) ==
  LET Loop[at \in (0..Len(blob)) \X Nat] ==
        LET pos  == at[1]
            i    == at[2]
            pt   == ChunkPlain(key, blob, n, pos, i)
            rest == Loop[<<FrameEnd(blob, pos), i + 1>>]
        IN  IF pos = Len(blob) \/ ~ChunkVerifies(key, blob, aad, pos, i) THEN Refused
            ELSE IF FrameFlags(blob, pos) = FINAL THEN Ok(pt)
            ELSE IF rest.ok THEN Ok(pt \o rest.out) ELSE Refused
  IN  IF ~HeaderVerifies(key, blob, aad) THEN Refused ELSE Loop[<<HeaderLen, 0>>]

Left(pos, final, out) == [pos |-> pos, final |-> final, out |-> out]

OpenStreamRs(key, blob, aad, n) ==
  LET Loop[at \in (0..Len(blob)) \X Nat] ==
        LET pos  == at[1]
            i    == at[2]
            end  == FrameEnd(blob, pos)
            pt   == ChunkPlain(key, blob, n, pos, i)
            rest == Loop[<<end, i + 1>>]
        IN  IF pos >= Len(blob) THEN Left(pos, FALSE, <<>>)
            ELSE IF ~ChunkVerifies(key, blob, aad, pos, i) THEN Left(0, FALSE, <<>>)
            ELSE IF FrameFlags(blob, pos) = FINAL THEN Left(end, TRUE, pt)
            ELSE Left(rest.pos, rest.final, pt \o rest.out)
      left == Loop[<<HeaderLen, 0>>]
  IN  IF ~HeaderVerifies(key, blob, aad) \/ left.pos # Len(blob) \/ ~left.final
      THEN Refused
      ELSE Ok(left.out)

(***************************************************************************)
(* generate_kat.py.  Its AEAD vector is put together from the parts.       *)
(***************************************************************************)
KatAead_Fault_Order(r) ==
  LET ct     == Encrypt(r.key, r.nonce, r.n, r.chunks[1])
      commit == KeyCommitment(r.key, r.nonce, r.aad)
  IN  Ok(commit \o r.nonce \o ct \o AeadTag(r.key, r.nonce, commit, r.aad, ct))

KatAead(r) ==
  LET ct     == Encrypt(r.key, r.nonce, r.n, r.chunks[1])
      commit == KeyCommitment(r.key, r.nonce, r.aad)
  IN  Ok(r.nonce \o commit \o ct \o AeadTag(r.key, r.nonce, commit, r.aad, ct))

KatSiv(r)     == SealSiv(r.key, r.chunks[1], r.aad, DefaultMaps)
KatStream(r)  == SealStream(r)
KatTwolock(r) == SealTwolock(r)

-----------------------------------------------------------------------------
Formats == {"aead", "siv", "twolock", "stream"}
Ports   == {"py", "rs"}

Request ==
  [fmt : Formats, key : Keys, aad : Seq(Cells), n : MapCounts, nonce : Seq(Cells),
   chunks : Seq(Seq(Cells)), alg : Cells, inonce : Seq(Cells), kat : BOOLEAN]

(***************************************************************************)
(* The outputs of the PRFs and ciphers, and the fields the shells write,   *)
(* are not among the callers' cells: nobody guesses a tag or a keystream.  *)
(***************************************************************************)
Reserved == {"hmac", "ks", "vault", "vault tag", "len8", "len4", "index", "flags",
             "flipped bit"}

ASSUME CellsAssumption ==
  \A c \in Cells : IsFiniteSet(c) /\ \A a \in c : a[1] \notin Reserved

ASSUME KeysAssumption == \A k, j \in Keys : k # DeriveKeys(j).outer

ASSUME RequestsAssumption ==
  /\ Requests \subseteq Request /\ Aads \subseteq Seq(Cells)
  /\ DefaultMaps \in MapCounts
  /\ \A r \in Requests :
       /\ r.fmt # "stream" => r.chunks # <<>>
       /\ r.kat => Len(r.nonce) = NonceLen
       /\ r.fmt = "stream" =>
            \A i \in DOMAIN Frames(r) : Len(Frames(r)[i]) \notin Misreads

(* Every stream draws its salt from the system's randomness: no two under   *)
(* one key have the same.                                                   *)
ASSUME FreshSalts ==
  \A r, q \in {t \in Requests : t.fmt = "stream"} :
    r.key = q.key /\ r.nonce = q.nonce => r = q

SealBy(port, r) ==
  CASE r.fmt = "aead" /\ port = "py"  -> SealAead(r.key, r.chunks[1], r.aad, r.n, r.nonce)
    [] r.fmt = "aead" /\ port = "rs"  -> SealAeadRs(r.key, r.chunks[1], r.aad, r.n, r.nonce)
    [] r.fmt = "aead" /\ port = "kat" -> KatAead(r)
    [] r.fmt = "siv" /\ port = "kat"  -> KatSiv(r)
    [] r.fmt = "siv" /\ port # "kat" -> SealSiv(r.key, r.chunks[1], r.aad, r.n)
    [] r.fmt = "twolock" /\ port = "rs"  -> SealTwolockRs(r)
    [] r.fmt = "twolock" /\ port = "py"  -> SealTwolock(r)
    [] r.fmt = "twolock" /\ port = "kat" -> KatTwolock(r)
    [] r.fmt = "stream" /\ port = "py"   -> SealStream(r)
    [] r.fmt = "stream" /\ port = "rs"   -> SealStreamRs(r)
    [] r.fmt = "stream" /\ port = "kat"  -> KatStream(r)

(* open_twolock of Python has no n_maps parameter. *)
OpenBy(port, fmt, key, blob, aad, n) ==
  CASE fmt = "aead"                     -> OpenAead(key, blob, aad, n)
    [] fmt = "siv"                      -> OpenSiv(key, blob, aad, n)
    [] fmt = "twolock" /\ port = "py"   -> OpenTwolock(key, blob, aad, DefaultMaps)
    [] fmt = "twolock" /\ port = "rs"   -> OpenTwolock(key, blob, aad, n)
    [] fmt = "stream" /\ port = "py"    -> OpenStream(key, blob, aad, n)
    [] fmt = "stream" /\ port = "rs"    -> OpenStreamRs(key, blob, aad, n)

Init ==
  /\ sealed = {}
  /\ wire = <<>>
  /\ edits = 0
  /\ peeled = FALSE
  /\ garble \in Misreads
  /\ got = None

(***************************************************************************)
(* Python's two locks take the default number of maps, and so do the       *)
(* vectors of the two locks and of SIV.                                    *)
(***************************************************************************)
MapsUsed(port, r) ==
  IF \/ r.fmt = "twolock" /\ port # "rs"
     \/ r.fmt = "siv" /\ port = "kat"
  THEN DefaultMaps
  ELSE r.n

(* The known answers are made with pinned nonces of the right length. *)
Seal(port, r) ==
  /\ Cardinality(sealed) < MaxSeals
  /\ wire = <<>>
  /\ port = "kat" => r.kat
  /\ SealBy(port, r).ok
  /\ sealed' = sealed \cup {[r |-> r, n |-> MapsUsed(port, r), blob |-> SealBy(port, r).out]}
  /\ UNCHANGED <<wire, edits, peeled, garble, got>>

Send(s) ==
  /\ wire = <<>>
  /\ wire' = s.blob
  /\ UNCHANGED <<sealed, edits, peeled, garble, got>>

(***************************************************************************)
(* What may happen to a blob on the way.                                   *)
(***************************************************************************)
Edit(blob) ==
  /\ wire # <<>> /\ got = None
  /\ edits < MaxEdits
  /\ wire' = blob
  /\ edits' = edits + 1
  /\ UNCHANGED <<sealed, garble, got>>

Truncate(i)  == Edit(SubSeq(wire, 1, i)) /\ UNCHANGED peeled
Tamper(i)    == Edit([wire EXCEPT ![i] = Flip(@)]) /\ UNCHANGED peeled
Lose(i)      == Edit(RemoveAt(wire, i)) /\ UNCHANGED peeled
Repeat(i)    == Edit(InsertAt(wire, i, wire[i])) /\ UNCHANGED peeled
Splice(s, i, j) ==
  Edit(SubSeq(wire, 1, i) \o SubSeq(s.blob, j, Len(s.blob))) /\ UNCHANGED peeled

(* _split and _join of streaming_attack.py, on a blob that is still whole. *)
Split(blob) ==
  LET Loop[pos \in 0..Len(blob)] ==
        LET end == pos + LenBytes + NumberAt(blob[pos + 1])
        IN  IF pos = Len(blob) THEN <<>>
            ELSE IF end >= Len(blob) THEN << SubSeq(blob, pos + LenBytes + 1, Len(blob)) >>
            ELSE << SubSeq(blob, pos + LenBytes + 1, end) >> \o Loop[end]
  IN  Loop[HeaderLen]

Join(header, frames) ==
  header \o FlattenSeq([i \in DOMAIN frames |-> Prefixed(frames[i])])

Reframe(s) ==
  /\ s.r.fmt = "stream" /\ wire = s.blob
  /\ LET frames == Split(wire)
         header == SubSeq(wire, 1, HeaderLen)
     IN  \E i, j \in DOMAIN frames :
           \E fs \in {SubSeq(frames, 1, i - 1) \o SubSeq(frames, j, Len(frames)),
                      [frames EXCEPT ![i] = frames[j], ![j] = frames[i]]} :
             Edit(Join(header, fs))
  /\ UNCHANGED peeled

(* Someone who has the outer key only redoes the wall of the two locks.    *)
Rewrap(s, aad) ==
  LET keys  == DeriveKeys(s.r.key)
      inner == OpenAead(keys.outer, wire, s.r.aad, DefaultMaps)
  IN  /\ s.r.fmt = "twolock" /\ inner.ok
      /\ \E new \in {inner.out, Front(inner.out)}
               \cup {[inner.out EXCEPT ![i] = Flip(@)] : i \in DOMAIN inner.out} :
           Edit(SealAead(keys.outer, new, aad, DefaultMaps, SubSeq(wire, 1, NonceLen)).out)
      /\ peeled' = TRUE

Deliver(fmt, key, aad, n) ==
  /\ wire # <<>> /\ got = None
  /\ got' = [fmt |-> fmt, key |-> key, aad |-> aad, n |-> n, blob |-> wire,
             py |-> OpenBy("py", fmt, key, wire, aad, n),
             rs |-> OpenBy("rs", fmt, key, wire, aad, n)]
  /\ UNCHANGED <<sealed, wire, edits, peeled, garble>>

Next ==
  \/ \E port \in Ports \cup {"kat"}, r \in Requests : Seal(port, r)
  \/ \E s \in sealed : Send(s)
  \/ \E i \in DOMAIN wire : Truncate(i) \/ Tamper(i) \/ Lose(i) \/ Repeat(i)
  \/ \E s \in sealed, i \in DOMAIN wire : Splice(s, i, 1) \/ Splice(s, i, i + 1)
  \/ \E s \in sealed : Reframe(s)
  \/ \E s \in sealed, aad \in Aads : Rewrap(s, aad)
  \/ \E fmt \in Formats, key \in Keys, aad \in Aads, n \in MapCounts :
       Deliver(fmt, key, aad, n)

Spec == Init /\ [][Next]_vars

-----------------------------------------------------------------------------
(***************************************************************************)
(* The shapes of the states.  Whatever an emitter produces is long enough  *)
(* for its opener: even an empty stream has a chunk.                       *)
(***************************************************************************)
TypeOK ==
  /\ \A s \in sealed : s.r \in Requests /\ s.n \in MapCounts /\ Len(s.blob) > HeaderLen
  /\ Cardinality(sealed) <= MaxSeals
  /\ IsFiniteSet(UNION Range(wire))
  /\ edits \in 0..MaxEdits
  /\ peeled \in BOOLEAN
  /\ garble \in Misreads
  /\ got # None => got.blob = wire /\ got.py.ok \in BOOLEAN /\ got.rs.ok \in BOOLEAN

Plaintext(r) == IF r.fmt = "stream" THEN FlattenSeq(r.chunks) ELSE r.chunks[1]
SameContext(s, g) == s.r.fmt = g.fmt /\ s.r.key = g.key /\ s.r.aad = g.aad

(***************************************************************************)
(* What open_, open_siv, open_twolock and open_stream return was sealed,   *)
(* whole and unaltered, in that format under that key and data.  n_maps is *)
(* not authenticated by the AEAD and the stream, so with another n_maps    *)
(* they return something else; SIV and the two locks refuse.               *)
(***************************************************************************)
OpensOnlySealed ==
  got # None /\ ~peeled =>
    \A port \in Ports :
      got[port].ok =>
        \E s \in sealed :
          /\ SameContext(s, got) /\ s.blob = got.blob
          /\ s.n = got.n \/ got.fmt \in {"siv", "twolock"} =>
               got[port].out = Plaintext(s.r)

(***************************************************************************)
(* twolock.py:14-38: with the outer wall gone the inner vault alone still  *)
(* returns nothing but what was sealed under the caller's key and data.    *)
(***************************************************************************)
VaultHolds ==
  got # None /\ peeled =>
    \A port \in Ports :
      got[port].ok =>
        \E s \in sealed :
          /\ SameContext(s, got)
          /\ s.n = got.n \/ got.fmt \in {"siv", "twolock"} =>
               got[port].out = Plaintext(s.r)

(* Nothing opens but what was sealed, behind the outer wall or without it.  *)
NothingElseOpens == OpensOnlySealed /\ VaultHolds

(***************************************************************************)
(* A blob that arrives as it was sealed opens in both ports, unless Rust   *)
(* sealed it with a nonce too long or a chunk past the frame length, which *)
(* Python refuses to seal: then both refuse to open it.                    *)
(***************************************************************************)
WellFormed(r) ==
  /\ r.fmt # "siv" => Len(r.nonce) = NonceLen
  /\ r.fmt = "stream" => \A i \in DOMAIN Frames(r) : Len(Frames(r)[i]) < LenLimit

GenuineOpens ==
  got # None =>
    \A s \in sealed :
      s.blob = got.blob /\ SameContext(s, got) /\ s.n = got.n =>
        \A port \in Ports :
          (port = "rs" \/ s.r.fmt # "twolock" \/ got.n = DefaultMaps) =>
            got[port] = IF WellFormed(s.r) THEN Ok(Plaintext(s.r)) ELSE Refused

(* Python and Rust make the same of every blob, altered or not. *)
PortsAgree ==
  got # None /\ (got.fmt = "twolock" => got.n = DefaultMaps) => got.py = got.rs

(* One request has one blob, whichever port or the vectors made it.        *)
SealersAgree ==
  \A s, t \in sealed : s.r = t.r /\ s.n = t.n => s.blob = t.blob

(***************************************************************************)
(* siv.py:17-22: under one key, different messages or data never share a   *)
(* synthetic IV, hence never a keystream; equal ones give equal blobs.     *)
(***************************************************************************)
SivSeparates ==
  \A s, t \in {u \in sealed : u.r.fmt = "siv"} :
    s.r.key = t.r.key =>
      (   SubSeq(s.blob, TagLen + 1, 2 * TagLen) = SubSeq(t.blob, TagLen + 1, 2 * TagLen)
       <=> s.r.aad = t.r.aad /\ s.r.chunks[1] = t.r.chunks[1])

(* The blob is a function of the request, and for SIV a faithful one.        *)
BlobsDetermined == SealersAgree /\ SivSeparates
=============================================================================
