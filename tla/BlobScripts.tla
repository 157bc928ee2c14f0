----------------------------- MODULE BlobScripts -----------------------------
(***************************************************************************)
(* The scripts that exercise the one-shot shells, each as the verdict it   *)
(* comes to.  A script has its messages and keys built in; here it is run  *)
(* on any sealed blob s of its format and any key that is not the blob's.  *)
(***************************************************************************)
EXTENDS SealedBlobs

Rejected(result) == ~result.ok
FlipAt(blob, i)  == [blob EXCEPT ![i] = Flip(@)]
FreshNonce       == <<{<<"nonce", 0>>}>>

(* A nonce that is drawn again is another one.                             *)
ASSUME DrawnAgain == \A r \in Requests : r.nonce # FreshNonce

(* The demonstration at the end of aead.py. *)
AeadDemo(s, wrong) ==
  LET r == s.r
  IN  /\ OpenAead(r.key, s.blob, r.aad, s.n) = Ok(r.chunks[1])
      /\ SealAead(r.key, r.chunks[1], r.aad, s.n, FreshNonce).out # s.blob
      /\ Rejected(OpenAead(r.key, FlipAt(s.blob, HeaderLen + 1), r.aad, s.n))
      /\ Rejected(OpenAead(wrong, s.blob, r.aad, s.n))

(* The demonstration at the end of siv.py, with its two messages one bit   *)
(* apart.                                                                  *)
SivDemo(s, wrong) ==
  LET r == s.r
      Keystream(m) == LET blob == SealSiv(r.key, m, r.aad, s.n).out
                          ct   == SubSeq(blob, 2 * TagLen + 1, Len(blob))
                      IN  [j \in DOMAIN ct |-> Xor(ct[j], m[j])]
  IN  /\ OpenSiv(r.key, s.blob, r.aad, s.n) = Ok(r.chunks[1])
      /\ SealSiv(r.key, r.chunks[1], r.aad, s.n).out = s.blob
      /\ Keystream(<<{}>>) # Keystream(<<Flip({})>>)
      /\ r.chunks[1] # <<>> =>
           Rejected(OpenSiv(r.key, FlipAt(s.blob, 2 * TagLen + 1), r.aad, s.n))
      /\ Rejected(OpenSiv(wrong, s.blob, r.aad, s.n))

(* The demonstration at the end of twolock.py. *)
TwolockDemo(s, wrong) ==
  LET r == s.r
  IN  \A alg \in Algs :
        LET mine == [r EXCEPT !.alg = alg, !.inonce = FreshNonce]
            blob == SealTwolock(mine).out
        IN  /\ OpenTwolock(r.key, blob, r.aad, DefaultMaps) = Ok(r.chunks[1])
            /\ blob # SealTwolock([mine EXCEPT !.nonce = FreshNonce]).out
            /\ Rejected(OpenTwolock(r.key, FlipAt(blob, Len(blob)), r.aad, DefaultMaps))
            /\ Rejected(OpenTwolock(wrong, blob, r.aad, DefaultMaps))

(* streaming_attack.py: a stream of three chunks or more, re-framed. *)
StreamManipulations(s) ==
  LET r      == s.r
      header == SubSeq(s.blob, 1, HeaderLen)
      f      == Split(s.blob)
      Open(blob) == OpenStream(r.key, blob, r.aad, s.n)
  IN  Len(f) >= 3 =>
        /\ Open(s.blob) = Ok(FlattenSeq(r.chunks))
        /\ Rejected(Open(Join(header, <<f[2], f[1]>> \o SubSeq(f, 3, Len(f)))))
        /\ Rejected(Open(Join(header, RemoveAt(f, 2))))
        /\ Rejected(Open(Join(header, InsertAt(f, 3, f[2]))))
        /\ Rejected(Open(Join(header, Front(f))))
        /\ Rejected(Open(FlipAt(s.blob, HeaderLen + LenBytes + 2)))

(* commitment_attack.py, part 1. *)
CommitmentFunctional(r, n) ==
  LET aead == SealAead(r.key, r.chunks[1], r.aad, n, FreshNonce).out
      siv  == SealSiv(r.key, r.chunks[1], r.aad, n).out
  IN  /\ \A other \in Keys \ {r.key} :
           /\ Rejected(OpenAead(other, aead, r.aad, n))
           /\ Rejected(OpenSiv(other, siv, r.aad, n))
      /\ OpenAead(r.key, aead, r.aad, n) = Ok(r.chunks[1])
      /\ OpenSiv(r.key, siv, r.aad, n) = Ok(r.chunks[1])

(* twolock_attack.py, part 1: the outer key is granted.  Its message is not  *)
(* made of the header of the vault, which is not enciphered.                 *)
ChaosFullyBroken(s) ==
  LET r     == s.r
      keys  == DeriveKeys(r.key)
      inner == OpenAead(keys.outer, s.blob, r.aad, s.n).out
      nonce == SubSeq(inner, 2, 1 + InnerLen)
      ct    == SubSeq(inner, 2 + InnerLen, Len(inner))
      guesses == {keys.outer} \cup {DeriveKeys(k).inner : k \in Keys \ {r.key}}
  IN  /\ r.chunks[1] # <<>> /\ r.chunks[1][1] \notin {r.alg} \cup Range(r.inonce) =>
           ~ \E i \in 0..Len(inner) - Len(r.chunks[1]) :
               SubSeq(inner, i + 1, i + Len(r.chunks[1])) = r.chunks[1]
      /\ \A g \in guesses : Rejected(VaultOpen(r.alg, g, nonce, ct, r.aad))
      /\ VaultOpen(r.alg, keys.inner, nonce, ct, r.aad) = Ok(r.chunks[1])

(* twolock_attack.py, part 2: the wall is redone over an altered vault. *)
InnerLockIsReal(s) ==
  LET r      == s.r
      keys   == DeriveKeys(r.key)
      inner  == OpenAead(keys.outer, s.blob, r.aad, DefaultMaps).out
      bad    == FlipAt(inner, Len(inner))
      forged == SealAead(keys.outer, bad, r.aad, DefaultMaps, FreshNonce).out
  IN  /\ OpenAead(keys.outer, forged, r.aad, DefaultMaps) = Ok(bad)
      /\ Rejected(OpenTwolock(r.key, forged, r.aad, DefaultMaps))

(* twolock_attack.py, part 4: no key is known. *)
OrdinaryAttacker(s, wrong) ==
  \A alg \in Algs :
    LET r    == s.r
        blob == SealTwolock([r EXCEPT !.alg = alg, !.inonce = FreshNonce]).out
    IN  /\ OpenTwolock(r.key, blob, r.aad, DefaultMaps) = Ok(r.chunks[1])
        /\ \A pos \in {1, (Len(blob) \div 2) + 1, Len(blob)} :
             Rejected(OpenTwolock(r.key, FlipAt(blob, pos), r.aad, DefaultMaps))
        /\ Rejected(OpenTwolock(wrong, blob, r.aad, DefaultMaps))
        /\ \A aad \in Aads \ {r.aad} :
             Rejected(OpenTwolock(r.key, blob, aad, DefaultMaps))

-----------------------------------------------------------------------------
(***************************************************************************)
(* Every script comes to the verdict PASS on every well-formed blob, not   *)
(* only on the message it has built in.                                    *)
(***************************************************************************)
ScriptsPass ==
  wire = <<>> =>
    \A s \in {t \in sealed : WellFormed(t.r)}, wrong \in Keys :
      wrong # s.r.key =>
        /\ s.r.fmt = "aead" => AeadDemo(s, wrong) /\ CommitmentFunctional(s.r, s.n)
        /\ s.r.fmt = "siv"  => SivDemo(s, wrong)
        /\ s.r.fmt = "stream" => StreamManipulations(s)
        /\ s.r.fmt = "twolock" /\ s.n = DefaultMaps =>
             /\ TwolockDemo(s, wrong) /\ ChaosFullyBroken(s)
             /\ InnerLockIsReal(s) /\ OrdinaryAttacker(s, wrong)
=============================================================================
