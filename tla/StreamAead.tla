----------------------------- MODULE StreamAead -----------------------------
(***************************************************************************)
(* The streaming AEAD of cipher/streaming.py: StreamSealer encrypts chunk  *)
(* by chunk, StreamOpener verifies and decrypts chunk by chunk, and any    *)
(* transport lies between them.  Several sealers may share a master key.   *)
(*                                                                         *)
(* HMAC tags and key commitments are free constructors.  A ciphertext is   *)
(* known by the keystream it was XORed with, which (key, nonce) names, and *)
(* by its plaintext.                                                       *)
(*                                                                         *)
(* An operator X_Fault_Y is X with a plausible slip Y; no specification    *)
(* uses it, it shows that the properties would notice the slip.            *)
(***************************************************************************)
EXTENDS Integers, SequencesExt

CONSTANTS
  Streams,     (* the StreamSealer instances                                *)
  Keys,        (* master keys                                               *)
  Aads,        (* stream associated data                                    *)
  Salts,       (* 16-byte salts                                             *)
  Data,        (* chunk plaintexts                                          *)
  FreshSalts,  (* TRUE: salt=None, os.urandom; FALSE: callers pass salt=    *)
  Broken,      (* bytes that no sealer produced                             *)
  None,        (* no StreamOpener yet                                       *)
  MaxChunks    (* bound of the model: chunks per stream                     *)

ASSUME StreamAssumption ==
  /\ FreshSalts \in BOOLEAN
  /\ MaxChunks \in Nat
  /\ None \notin Streams

VARIABLES
  sealer,      (* per stream: key, aad, salt, _index, _closed               *)
  log,         (* per stream: each chunk's plaintext and frame, in order    *)
  opener,      (* the StreamOpener: key, aad, salt, _index, _done           *)
  opened,      (* the plaintexts open_chunk returned                        *)
  verdict      (* what finish() said last                                   *)

vars == <<sealer, log, opener, opened, verdict>>

-----------------------------------------------------------------------------
(* Formats and primitives. *)

FINAL == 1
Flags == {0, FINAL}

Commit(key, salt, aad)   == [key |-> key, salt |-> salt, aad |-> aad]
Header(s)                == [salt |-> s.salt, commit |-> Commit(s.key, s.salt, s.aad)]
ChunkNonce_Fault_NoIndex(salt, i, flags) == <<salt, 0, flags>>
ChunkNonce(salt, i, flags) == <<salt, i, flags>>

Encrypt(key, nonce, pt)  == [key |-> key, nonce |-> nonce, pt |-> pt]
Decrypt(key, nonce, ct)  ==
  IF ct.key = key /\ ct.nonce = nonce THEN ct.pt ELSE Broken

ChunkTag_Fault_NoIndex(key, salt, i, flags, aad, ct) ==
  [key |-> key, salt |-> salt, index |-> 0, flags |-> flags, aad |-> aad, ct |-> ct]

ChunkTag(key, salt, i, flags, aad, ct) ==
  [key |-> key, salt |-> salt, index |-> i, flags |-> flags, aad |-> aad, ct |-> ct]

Ciphertexts == [key : Keys, nonce : Salts \X Nat \X Flags, pt : Data]
Tags(cts) == [key : Keys, salt : Salts, index : Nat, flags : Flags, aad : Aads,
              ct : cts]
Frames  == [flags : Flags, ct : Ciphertexts, tag : Tags(Ciphertexts)]
Openers == [key : Keys, aad : Aads, salt : Salts, index : Nat, done : BOOLEAN]

ASSUME ForeignBytes ==
  /\ Broken \notin [key : Keys, salt : Salts, aad : Aads]
  /\ Broken \notin Tags(Ciphertexts \cup {Broken})
  /\ None \notin Openers

(***************************************************************************)
(* StreamSealer.                                                           *)
(***************************************************************************)
NewSealer(key, aad, salt) ==
  [key |-> key, aad |-> aad, salt |-> salt, index |-> 0, closed |-> FALSE]

SealedFrame(s, pt, flags) ==
  LET ct == Encrypt(s.key, ChunkNonce(s.salt, s.index, flags), pt)
  IN  [flags |-> flags,
       ct    |-> ct,
       tag   |-> ChunkTag(s.key, s.salt, s.index, flags, s.aad, ct)]

SealChunk_Fault_AfterFinal(s, pt, flags) ==
  /\ sealer[s].index < MaxChunks
  /\ log' = [log EXCEPT ![s] =
       Append(@, [pt |-> pt, frame |-> SealedFrame(sealer[s], pt, flags)])]
  /\ sealer' = [sealer EXCEPT ![s].index  = @ + 1,
                              ![s].closed = (flags = FINAL)]
  /\ UNCHANGED <<opener, opened, verdict>>

SealChunk(s, pt, flags) ==
  /\ ~sealer[s].closed
  /\ sealer[s].index < MaxChunks
  /\ log' = [log EXCEPT ![s] =
       Append(@, [pt |-> pt, frame |-> SealedFrame(sealer[s], pt, flags)])]
  /\ sealer' = [sealer EXCEPT ![s].index  = @ + 1,
                              ![s].closed = (flags = FINAL)]
  /\ UNCHANGED <<opener, opened, verdict>>

(***************************************************************************)
(* The transport.  It may hand over any header and any frame put together  *)
(* from the pieces of those sent, or from bytes nobody sent.               *)
(***************************************************************************)
SentFrames == UNION {{log[s][i].frame : i \in DOMAIN log[s]} : s \in Streams}

HeaderArrivals ==
  [salt   : Salts,
   commit : {Header(sealer[s]).commit : s \in Streams} \cup {Broken}]

FrameArrivals ==
  [flags : Flags,
   ct    : {f.ct : f \in SentFrames} \cup {Broken},
   tag   : {f.tag : f \in SentFrames} \cup {Broken}]

(***************************************************************************)
(* StreamOpener.  Every refusal leaves the opener as it was.               *)
(***************************************************************************)
NewOpener(key, aad, header) ==
  [key |-> key, aad |-> aad, salt |-> header.salt, index |-> 0, done |-> FALSE]

OpenHeader(key, aad, header) ==
  /\ opener = None
  /\ header.commit = Commit(key, header.salt, aad)
  /\ opener' = NewOpener(key, aad, header)
  /\ UNCHANGED <<sealer, log, opened, verdict>>

Accepts(o, f) ==
  /\ ~o.done
  /\ f.tag = ChunkTag(o.key, o.salt, o.index, f.flags, o.aad, f.ct)

OpenChunk(f) ==
  /\ opener # None
  /\ Accepts(opener, f)
  /\ opened' = Append(opened,
       Decrypt(opener.key, ChunkNonce(opener.salt, opener.index, f.flags), f.ct))
  /\ opener' = [opener EXCEPT !.index = @ + 1,
                              !.done  = (f.flags = FINAL)]
  /\ UNCHANGED <<sealer, log, verdict>>

RefuseChunk_Fault_Counts(f) ==
  /\ opener # None
  /\ ~Accepts(opener, f)
  /\ opener.index < MaxChunks
  /\ opener' = [opener EXCEPT !.index = @ + 1]
  /\ UNCHANGED <<sealer, log, opened, verdict>>

RefuseChunk(f) ==
  /\ opener # None
  /\ ~Accepts(opener, f)
  /\ UNCHANGED vars

Finish ==
  /\ opener # None
  /\ verdict' = IF opener.done THEN "clean" ELSE "truncated"
  /\ UNCHANGED <<sealer, log, opener, opened>>

-----------------------------------------------------------------------------
Init ==
  /\ \E key \in [Streams -> Keys], aad \in [Streams -> Aads],
        salt \in [Streams -> Salts] :
       /\ FreshSalts => \A s, t \in Streams : salt[s] = salt[t] => s = t
       /\ sealer = [s \in Streams |-> NewSealer(key[s], aad[s], salt[s])]
  /\ log = [s \in Streams |-> <<>>]
  /\ opener = None
  /\ opened = <<>>
  /\ verdict = "none"

Next ==
  \/ \E s \in Streams, pt \in Data, flags \in Flags : SealChunk(s, pt, flags)
  \/ \E key \in Keys, aad \in Aads, header \in HeaderArrivals :
       OpenHeader(key, aad, header)
  \/ \E f \in FrameArrivals : OpenChunk(f) \/ RefuseChunk(f)
  \/ Finish

Spec == Init /\ [][Next]_vars
-----------------------------------------------------------------------------
Plaintexts(s) == [i \in DOMAIN log[s] |-> log[s][i].pt]

TypeOK ==
  /\ sealer \in [Streams -> [key : Keys, aad : Aads, salt : Salts,
                             index : Nat, closed : BOOLEAN]]
  /\ log \in [Streams -> Seq([pt : Data, frame : Frames])]
  /\ opener = None \/ opener \in Openers
  /\ opened \in Seq(Data)
  /\ verdict \in {"none", "clean", "truncated"}

(***************************************************************************)
(* What open_chunk returned so far is the beginning of ONE stream, the one *)
(* the header was made for: no reordered, dropped, repeated or altered     *)
(* chunk, and none of another stream (streaming.py:16-23).                 *)
(***************************************************************************)
OpenedIsPrefix ==
  opener # None =>
    \E s \in Streams :
      /\ sealer[s].salt = opener.salt
      /\ sealer[s].key = opener.key
      /\ sealer[s].aad = opener.aad
      /\ IsPrefix(opened, Plaintexts(s))

(***************************************************************************)
(* A finish() that did not raise means the whole stream arrived, and that  *)
(* the sealer has closed it for good (streaming.py:19-20, 169-173).        *)
(***************************************************************************)
CleanIsWhole ==
  verdict = "clean" =>
    \E s \in Streams :
      /\ sealer[s].salt = opener.salt
      /\ sealer[s].closed
      /\ opened = Plaintexts(s)

(* What was opened is what was sealed, and whole when the stream ended.     *)
ReceivedIsSent == OpenedIsPrefix /\ CleanIsWhole

(***************************************************************************)
(* No two chunks are XORed with the same keystream.                        *)
(***************************************************************************)
Places == {p \in Streams \X (1 .. MaxChunks) : p[2] \in DOMAIN log[p[1]]}
CtAt(p) == log[p[1]][p[2]].frame.ct

KeystreamOnce ==
  \A p, q \in Places :
    CtAt(p).key = CtAt(q).key /\ CtAt(p).nonce = CtAt(q).nonce => p = q

(***************************************************************************)
(* A refused frame poisons nothing: the chunk that is due still opens,     *)
(* whatever arrived in its place before.                                   *)
(***************************************************************************)
DueChunkOpens ==
  opener # None =>
    \A s \in Streams :
      /\ sealer[s].salt = opener.salt
      /\ Len(opened) < Len(log[s])
      => Accepts(opener, log[s][Len(opened) + 1].frame)

(* The stream implements the abstract transfer. *)
Transfer == INSTANCE StreamTransfer WITH
  Undecided <- None,
  written   <- [s \in Streams |-> Plaintexts(s)],
  ended     <- [s \in Streams |-> sealer[s].closed],
  reading   <- IF opener = None THEN None
               ELSE CHOOSE s \in Streams : sealer[s].salt = opener.salt,
  obtained  <- opened,
  complete  <- opener # None /\ opener.done

ImplementsTransfer == Transfer!Spec
=============================================================================
