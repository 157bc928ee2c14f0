-------------------------- MODULE StreamAeadProofs --------------------------
(***************************************************************************)
(* Proofs about StreamAead, for any number of streams, chunks, keys and    *)
(* data.                                                                   *)
(*                                                                         *)
(* The inductive invariant has two parts.  What a sealer has sent is       *)
(* determined by its key, salt and associated data and by the place of     *)
(* each chunk, so an accepted frame tells whose it is.  And, if no salt is *)
(* used twice, the opener stands at a place of the one stream whose salt   *)
(* it holds.                                                               *)
(***************************************************************************)
EXTENDS StreamAead, SequenceTheorems, TLAPS

Sealers == [key : Keys, aad : Aads, salt : Salts, index : Nat, closed : BOOLEAN]
Entries == [pt : Data, frame : Frames]

CtOf(s, i, pt, flags) ==
  Encrypt(sealer[s].key, ChunkNonce(sealer[s].salt, i - 1, flags), pt)

FrameAt(s, i, pt, flags) ==
  [flags |-> flags,
   ct    |-> CtOf(s, i, pt, flags),
   tag   |-> ChunkTag(sealer[s].key, sealer[s].salt, i - 1, flags, sealer[s].aad,
                      CtOf(s, i, pt, flags))]

Sent(s) ==
  /\ sealer[s].index = Len(log[s])
  /\ \A i \in 1 .. Len(log[s]) : \E flags \in Flags :
       /\ log[s][i].frame = FrameAt(s, i, log[s][i].pt, flags)
       /\ flags = FINAL <=> (i = Len(log[s]) /\ sealer[s].closed)

Inv ==
  /\ TypeOK
  /\ \A s \in Streams : Sent(s)

SaltsApart == \A s, t \in Streams : sealer[s].salt = sealer[t].salt => s = t

Reads(s) ==
  /\ sealer[s].key = opener.key
  /\ sealer[s].salt = opener.salt
  /\ sealer[s].aad = opener.aad
  /\ opener.index = Len(opened)
  /\ Len(opened) <= Len(log[s])
  /\ \A i \in 1 .. Len(opened) : opened[i] = log[s][i].pt
  /\ opener.done => Len(opened) = Len(log[s]) /\ sealer[s].closed

Place ==
  /\ SaltsApart
  /\ opener = None => opened = <<>>
  /\ opener # None => \E s \in Streams : Reads(s)
  /\ verdict = "clean" => opener # None /\ opener.done

-----------------------------------------------------------------------------
LEMMA FlagsNat == Flags = {0, 1} /\ FINAL \in Flags /\ FINAL = 1
  BY DEF Flags, FINAL

LEMMA FrameFields ==
  ASSUME NEW s \in Streams, NEW i, NEW pt, NEW flags
  PROVE  LET f == FrameAt(s, i, pt, flags)
         IN  /\ f.flags = flags /\ f.ct = CtOf(s, i, pt, flags)
             /\ f.tag = ChunkTag(sealer[s].key, sealer[s].salt, i - 1, flags, sealer[s].aad, f.ct)
             /\ f.ct.key = sealer[s].key /\ f.ct.nonce = <<sealer[s].salt, i - 1, flags>>
             /\ f.ct.pt = pt
  BY DEF FrameAt, CtOf, Encrypt, ChunkNonce

LEMMA FrameType ==
  ASSUME NEW s \in Streams, sealer[s] \in Sealers, NEW i \in Nat \ {0}, NEW pt \in Data,
         NEW flags \in Flags
  PROVE  FrameAt(s, i, pt, flags) \in Frames
<1>1. sealer[s].key \in Keys /\ sealer[s].salt \in Salts /\ sealer[s].aad \in Aads /\ i - 1 \in Nat
  BY DEF Sealers
<1>2. CtOf(s, i, pt, flags) \in Ciphertexts
  BY <1>1 DEF CtOf, Encrypt, ChunkNonce, Ciphertexts
<1> QED
  BY <1>1, <1>2 DEF FrameAt, ChunkTag, Frames, Tags

LEMMA LogTypes ==
  ASSUME TypeOK, NEW s \in Streams
  PROVE  /\ sealer[s] \in Sealers
         /\ log[s] \in Seq(Entries) /\ Len(log[s]) \in Nat /\ DOMAIN log[s] = 1 .. Len(log[s])
         /\ \A i \in 1 .. Len(log[s]) : log[s][i] \in Entries /\ log[s][i].pt \in Data
<1>1. sealer[s] \in Sealers
  BY DEF TypeOK, Sealers
<1>2. log[s] \in Seq(Entries)
  BY DEF TypeOK, Entries
<1>3. Len(log[s]) \in Nat /\ DOMAIN log[s] = 1 .. Len(log[s])
  BY <1>2
<1>4. \A i \in 1 .. Len(log[s]) : log[s][i] \in Entries
  BY <1>2
<1>5. \A e \in Entries : e.pt \in Data
  BY DEF Entries
<1> QED
  BY <1>1, <1>2, <1>3, <1>4, <1>5

(* An accepted frame is one that was sent, at the place of the opener, by a *)
(* sealer with the key, salt and associated data of the opener.             *)
LEMMA AcceptedWasSent ==
  ASSUME Inv, opener # None, NEW f \in FrameArrivals, Accepts(opener, f)
  PROVE  \E s \in Streams : \E i \in 1 .. Len(log[s]) :
           /\ sealer[s].key = opener.key /\ sealer[s].salt = opener.salt
           /\ sealer[s].aad = opener.aad /\ i = opener.index + 1
           /\ Decrypt(opener.key, ChunkNonce(opener.salt, opener.index, f.flags), f.ct)
                = log[s][i].pt
           /\ f.flags = FINAL <=> (i = Len(log[s]) /\ sealer[s].closed)
<1>1. /\ opener \in Openers /\ opener.index \in Nat
      /\ f.tag = ChunkTag(opener.key, opener.salt, opener.index, f.flags, opener.aad, f.ct)
      /\ f.flags \in Flags
  BY DEF Inv, TypeOK, Openers, Accepts, FrameArrivals
<1>2. \A g \in SentFrames : g.ct \in Ciphertexts
  <2> SUFFICES ASSUME NEW s \in Streams, NEW i \in DOMAIN log[s]
               PROVE  log[s][i].frame.ct \in Ciphertexts
    BY DEF SentFrames
  <2>1. log[s][i] \in Entries
    BY LogTypes DEF Inv
  <2> QED
    BY <2>1 DEF Entries, Frames
<1>3. f.ct \in Ciphertexts \cup {Broken}
  BY <1>2 DEF FrameArrivals
<1>4. f.tag \in Tags(Ciphertexts \cup {Broken})
  BY <1>1, <1>3 DEF Openers, ChunkTag, Tags
<1>5. f.tag \in {g.tag : g \in SentFrames}
  BY <1>4, ForeignBytes DEF FrameArrivals
<1>6a. PICK s \in Streams : \E i \in DOMAIN log[s] : f.tag = log[s][i].frame.tag
  BY <1>5 DEF SentFrames
<1>6. PICK i \in 1 .. Len(log[s]) : f.tag = log[s][i].frame.tag
  <2>1. DOMAIN log[s] = 1 .. Len(log[s])
    BY LogTypes DEF Inv
  <2> QED
    BY <1>6a, <2>1
<1>7. PICK flags \in Flags :
        /\ log[s][i].frame = FrameAt(s, i, log[s][i].pt, flags)
        /\ flags = FINAL <=> (i = Len(log[s]) /\ sealer[s].closed)
  BY DEF Inv, Sent
<1> DEFINE ct == CtOf(s, i, log[s][i].pt, flags)
<1>8. f.tag = ChunkTag(sealer[s].key, sealer[s].salt, i - 1, flags, sealer[s].aad, ct)
  BY <1>6, <1>7, FrameFields
<1>9. /\ sealer[s].key = opener.key /\ sealer[s].salt = opener.salt
      /\ sealer[s].aad = opener.aad /\ i - 1 = opener.index /\ flags = f.flags /\ ct = f.ct
  <2> DEFINE g == f.tag
  <2>1. /\ g.key = opener.key /\ g.salt = opener.salt /\ g.index = opener.index
        /\ g.flags = f.flags /\ g.aad = opener.aad /\ g.ct = f.ct
    BY <1>1 DEF ChunkTag
  <2> HIDE DEF ct
  <2>2. /\ g.key = sealer[s].key /\ g.salt = sealer[s].salt /\ g.index = i - 1
        /\ g.flags = flags /\ g.aad = sealer[s].aad /\ g.ct = ct
    BY <1>8 DEF ChunkTag
  <2> QED
    BY <2>1, <2>2
<1>10. i = opener.index + 1
  BY <1>1, <1>9
<1>11. f.ct.key = opener.key /\ f.ct.nonce = ChunkNonce(opener.salt, opener.index, f.flags)
       /\ f.ct.pt = log[s][i].pt
  BY <1>7, <1>9, FrameFields DEF ChunkNonce
<1> QED
  BY <1>7, <1>9, <1>10, <1>11 DEF Decrypt

-----------------------------------------------------------------------------
LEMMA OpenerMoves ==
  ASSUME NEW o \in Openers, NEW n, NEW last \in BOOLEAN,
         n = [o EXCEPT !.index = @ + 1, !.done = last]
  PROVE  /\ n \in Openers /\ n.index = o.index + 1 /\ n.done = last
         /\ n.key = o.key /\ n.salt = o.salt /\ n.aad = o.aad
<1> DEFINE i == o.index + 1
<1>1. i \in Nat /\ n = [o EXCEPT !.index = i, !.done = last]
  BY DEF Openers
<1> HIDE DEF i
<1>2. n \in Openers
  BY <1>1 DEF Openers
<1>3. /\ n.index = i /\ n.done = last
      /\ n.key = o.key /\ n.salt = o.salt /\ n.aad = o.aad
  BY <1>1 DEF Openers
<1> QED
  BY <1>2, <1>3 DEF i

LEMMA InitInv == Init => Inv
<1> SUFFICES ASSUME Init PROVE Inv
  OBVIOUS
<1>1. PICK key \in [Streams -> Keys], aad \in [Streams -> Aads], salt \in [Streams -> Salts] :
        sealer = [s \in Streams |-> NewSealer(key[s], aad[s], salt[s])]
  BY DEF Init
<1>2. \A s \in Streams : sealer[s] \in Sealers /\ sealer[s].index = 0
  BY <1>1 DEF NewSealer, Sealers
<1>3. sealer \in [Streams -> Sealers]
  BY <1>1, <1>2
<1>4. log \in [Streams -> Seq(Entries)] /\ \A s \in Streams : Len(log[s]) = 0
  BY DEF Init
<1>5. TypeOK
  BY <1>3, <1>4 DEF Init, TypeOK, Sealers, Entries
<1> QED
  BY <1>2, <1>4, <1>5 DEF Inv, Sent

(* One more chunk, as the sealer makes it.                                  *)
LEMMA SealFacts ==
  ASSUME Inv, NEW s \in Streams, NEW pt \in Data, NEW flags \in Flags, SealChunk(s, pt, flags)
  PROVE  /\ log' = [log EXCEPT ![s] =
                     Append(@, [pt |-> pt, frame |-> FrameAt(s, Len(log[s]) + 1, pt, flags)])]
         /\ ~sealer[s].closed
         /\ log'[s] \in Seq(Entries) /\ Len(log'[s]) = Len(log[s]) + 1
         /\ log'[s][Len(log[s]) + 1] = [pt |-> pt, frame |-> FrameAt(s, Len(log[s]) + 1, pt, flags)]
         /\ \A i \in 1 .. Len(log[s]) : log'[s][i] = log[s][i]
         /\ \A t \in Streams \ {s} : log'[t] = log[t] /\ sealer'[t] = sealer[t]
         /\ \A t \in Streams : /\ sealer'[t].key = sealer[t].key
                               /\ sealer'[t].salt = sealer[t].salt
                               /\ sealer'[t].aad = sealer[t].aad
         /\ sealer'[s].index = sealer[s].index + 1
         /\ sealer'[s].closed = (flags = FINAL)
         /\ sealer' \in [Streams -> Sealers] /\ log' \in [Streams -> Seq(Entries)]
         /\ opener' = opener /\ opened' = opened /\ verdict' = verdict
<1> DEFINE n == Len(log[s])
           new == [pt |-> pt, frame |-> FrameAt(s, n + 1, pt, flags)]
<1>1. /\ sealer[s] \in Sealers /\ log[s] \in Seq(Entries) /\ n \in Nat
      /\ sealer[s].index = n /\ sealer \in [Streams -> Sealers] /\ log \in [Streams -> Seq(Entries)]
  BY LogTypes DEF Inv, Sent, TypeOK, Sealers, Entries
<1>2. SealedFrame(sealer[s], pt, flags) = FrameAt(s, n + 1, pt, flags)
  <2>1. (n + 1) - 1 = sealer[s].index
    BY <1>1
  <2> HIDE DEF n
  <2> QED
    BY <2>1 DEF SealedFrame, FrameAt, CtOf
<1>3. /\ log' = [log EXCEPT ![s] = Append(@, new)]
      /\ sealer' = [sealer EXCEPT ![s].index = @ + 1, ![s].closed = (flags = FINAL)]
      /\ ~sealer[s].closed
      /\ opener' = opener /\ opened' = opened /\ verdict' = verdict
  BY <1>2 DEF SealChunk
<1>4. new \in Entries
  <2>1. FrameAt(s, n + 1, pt, flags) \in Frames
    BY <1>1, FrameType
  <2> QED
    BY <2>1 DEF Entries
<1> HIDE DEF new, n
<1>5. /\ Append(log[s], new) \in Seq(Entries) /\ Len(Append(log[s], new)) = n + 1
      /\ Append(log[s], new)[n + 1] = new
      /\ \A i \in 1 .. n : Append(log[s], new)[i] = log[s][i]
  BY <1>1, <1>4, AppendProperties DEF n
<1>6. log'[s] = Append(log[s], new) /\ \A t \in Streams \ {s} : log'[t] = log[t]
  BY <1>1, <1>3
<1>7. \A t \in Streams \ {s} : sealer'[t] = sealer[t]
  BY <1>1, <1>3
<1>8. /\ sealer'[s].key = sealer[s].key /\ sealer'[s].salt = sealer[s].salt
      /\ sealer'[s].aad = sealer[s].aad /\ sealer'[s].index = sealer[s].index + 1
      /\ sealer'[s].closed <=> flags = FINAL
      /\ sealer'[s] \in Sealers
  <2> DEFINE a == sealer[s].index + 1
             c == flags = FINAL
  <2>1. sealer'[s] = [sealer[s] EXCEPT !.index = a, !.closed = c]
    BY <1>1, <1>3
  <2>2. a \in Nat /\ c \in BOOLEAN
    BY <1>1 DEF Sealers
  <2> HIDE DEF a, c
  <2>3. /\ sealer'[s].key = sealer[s].key /\ sealer'[s].salt = sealer[s].salt
        /\ sealer'[s].aad = sealer[s].aad /\ sealer'[s].index = a /\ sealer'[s].closed = c
    BY <1>1, <2>1 DEF Sealers
  <2>4. sealer'[s] \in Sealers
    BY <1>1, <2>1, <2>2 DEF Sealers
  <2> QED
    BY <2>3, <2>4 DEF a, c
<1>9. sealer' \in [Streams -> Sealers]
  BY <1>1, <1>3, <1>7, <1>8
<1>10. log' \in [Streams -> Seq(Entries)]
  BY <1>1, <1>3, <1>5
<1> QED
  BY <1>3, <1>5, <1>6, <1>7, <1>8, <1>9, <1>10 DEF n, new

LEMMA SealKeeps ==
  ASSUME Inv, NEW s \in Streams, NEW pt \in Data, NEW flags \in Flags, SealChunk(s, pt, flags)
  PROVE  Inv'
<1>1. TypeOK'
  BY SealFacts DEF Inv, TypeOK, Sealers, Entries
<1>2. ASSUME NEW t \in Streams, t # s PROVE Sent(t)'
  <2>1. Sent(t) /\ log'[t] = log[t] /\ sealer'[t] = sealer[t]
    BY <1>2, SealFacts DEF Inv
  <2> QED
    BY <2>1 DEF Sent, FrameAt, CtOf
<1>3. Sent(s)'
  <2>1. Len(log[s]) \in Nat /\ sealer[s].index = Len(log[s])
    BY LogTypes DEF Inv, Sent
  <2>0. /\ Len(log'[s]) = Len(log[s]) + 1 /\ ~sealer[s].closed
        /\ log'[s][Len(log[s]) + 1] = [pt |-> pt, frame |-> FrameAt(s, Len(log[s]) + 1, pt, flags)]
        /\ \A i \in 1 .. Len(log[s]) : log'[s][i] = log[s][i]
        /\ sealer'[s].index = sealer[s].index + 1
        /\ sealer'[s].closed = (flags = FINAL)
    BY SealFacts
  <2>2. \A i, q, fl : FrameAt(s, i, q, fl)' = FrameAt(s, i, q, fl)
    BY SealFacts DEF FrameAt, CtOf
  <2>3. ASSUME NEW i \in 1 .. Len(log'[s])
        PROVE  \E fl \in Flags :
                 /\ log'[s][i].frame = FrameAt(s, i, log'[s][i].pt, fl)
                 /\ fl = FINAL <=> (i = Len(log'[s]) /\ sealer'[s].closed)
    <3>1. CASE i = Len(log[s]) + 1
      <4>1. log'[s][i].frame = FrameAt(s, i, pt, flags) /\ log'[s][i].pt = pt
        BY <3>1, <2>0
      <4>2. i = Len(log'[s]) /\ (sealer'[s].closed <=> flags = FINAL)
        BY <3>1, <2>0
      <4> QED
        BY <4>1, <4>2
    <3>2. CASE i \in 1 .. Len(log[s])
      <4>1. log'[s][i] = log[s][i] /\ ~sealer[s].closed /\ i # Len(log'[s])
        BY <2>0, <2>1, <3>2
      <4>2. PICK fl \in Flags : /\ log[s][i].frame = FrameAt(s, i, log[s][i].pt, fl)
                                /\ fl = FINAL <=> (i = Len(log[s]) /\ sealer[s].closed)
        BY <3>2 DEF Inv, Sent
      <4> QED
        BY <4>1, <4>2
    <3>3. Len(log'[s]) = Len(log[s]) + 1
      BY SealFacts
    <3> QED
      BY <2>1, <3>1, <3>2, <3>3
  <2>4. sealer'[s].index = Len(log'[s])
    BY <2>0, <2>1
  <2> QED
    BY <2>2, <2>3, <2>4 DEF Sent
<1> QED
  BY <1>1, <1>2, <1>3 DEF Inv

LEMMA StepInv == Inv /\ [Next]_vars => Inv'
<1> SUFFICES ASSUME Inv, [Next]_vars PROVE Inv'
  OBVIOUS
<1>0. ASSUME sealer' = sealer, log' = log PROVE \A s \in Streams : Sent(s)'
  BY <1>0 DEF Inv, Sent, FrameAt, CtOf
<1>1. ASSUME NEW s \in Streams, NEW pt \in Data, NEW flags \in Flags, SealChunk(s, pt, flags)
      PROVE  Inv'
  BY <1>1, SealKeeps
<1>2. ASSUME NEW key \in Keys, NEW aad \in Aads, NEW header \in HeaderArrivals,
             OpenHeader(key, aad, header)
      PROVE  Inv'
  <2>1. sealer' = sealer /\ log' = log /\ opened' = opened /\ verdict' = verdict
    BY <1>2 DEF OpenHeader
  <2>2. opener' \in Openers
    BY <1>2 DEF OpenHeader, NewOpener, HeaderArrivals, Openers
  <2> QED
    BY <1>0, <2>1, <2>2 DEF Inv, TypeOK
<1>3. ASSUME NEW f \in FrameArrivals, OpenChunk(f) PROVE Inv'
  <2>1. sealer' = sealer /\ log' = log /\ verdict' = verdict
    BY <1>3 DEF OpenChunk
  <2>2. \E pt \in Data :
          Decrypt(opener.key, ChunkNonce(opener.salt, opener.index, f.flags), f.ct) = pt
    <3>1. PICK s \in Streams : \E i \in 1 .. Len(log[s]) :
            Decrypt(opener.key, ChunkNonce(opener.salt, opener.index, f.flags), f.ct) = log[s][i].pt
      BY <1>3, AcceptedWasSent DEF OpenChunk
    <3> QED
      BY <3>1, LogTypes DEF Inv
  <2>3. opened' \in Seq(Data)
    <3>1. opened \in Seq(Data)
      BY DEF Inv, TypeOK
    <3> QED
      BY <1>3, <2>2, <3>1, AppendProperties DEF OpenChunk
  <2>4. opener' \in Openers
    <3>1. opener \in Openers
      BY <1>3 DEF Inv, TypeOK, OpenChunk
    <3> QED
      BY <1>3, <3>1, OpenerMoves DEF OpenChunk
  <2> QED
    BY <1>0, <2>1, <2>3, <2>4 DEF Inv, TypeOK
<1>4. CASE Finish
  BY <1>0, <1>4 DEF Finish, Inv, TypeOK
<1>5. CASE UNCHANGED vars
  BY <1>0, <1>5 DEF vars, Inv, TypeOK
<1>6. ASSUME NEW f \in FrameArrivals, RefuseChunk(f) PROVE Inv'
  BY <1>5, <1>6 DEF RefuseChunk
<1> QED
  BY <1>1, <1>2, <1>3, <1>4, <1>5, <1>6 DEF Next

LEMMA Invariance == Spec => []Inv
<1> QED
  BY InitInv, StepInv, PTL DEF Spec

(***************************************************************************)
(* Types: among them that open_chunk returns data, never foreign bytes.    *)
(***************************************************************************)
THEOREM TypeCorrect == Spec => []TypeOK
<1>1. Inv => TypeOK
  BY DEF Inv
<1> QED
  BY <1>1, Invariance, PTL

-----------------------------------------------------------------------------
(***************************************************************************)
(* The opener and its one stream, when no salt is used twice.              *)
(***************************************************************************)
LEMMA PlaceInit == FreshSalts /\ Init => Place
<1> SUFFICES ASSUME FreshSalts, Init PROVE Place
  OBVIOUS
<1>1. PICK key \in [Streams -> Keys], aad \in [Streams -> Aads], salt \in [Streams -> Salts] :
        /\ FreshSalts => \A s, t \in Streams : salt[s] = salt[t] => s = t
        /\ sealer = [s \in Streams |-> NewSealer(key[s], aad[s], salt[s])]
  BY DEF Init
<1>2. \A s \in Streams : sealer[s].salt = salt[s]
  BY <1>1 DEF NewSealer
<1> QED
  BY <1>1, <1>2 DEF Init, Place, SaltsApart

LEMMA PlaceSeal ==
  ASSUME Inv, Place, NEW s \in Streams, NEW pt \in Data, NEW flags \in Flags,
         SealChunk(s, pt, flags)
  PROVE  Place'
<1>1. SaltsApart'
  <2>1. \A t \in Streams : sealer'[t].salt = sealer[t].salt
    BY SealFacts
  <2> QED
    BY <2>1 DEF Place, SaltsApart
<1>2. ASSUME NEW t \in Streams, Reads(t) PROVE Reads(t)'
  <2>1. /\ sealer'[t].key = sealer[t].key /\ sealer'[t].salt = sealer[t].salt
        /\ sealer'[t].aad = sealer[t].aad /\ opener' = opener /\ opened' = opened
    BY SealFacts
  <2>2. CASE t # s
    <3>1. log'[t] = log[t] /\ sealer'[t] = sealer[t]
      BY <2>2, SealFacts
    <3> QED
      BY <1>2, <2>1, <3>1 DEF Reads
  <2>3. CASE t = s
    <3>1. /\ Len(log'[s]) = Len(log[s]) + 1 /\ ~sealer[s].closed
          /\ \A i \in 1 .. Len(log[s]) : log'[s][i] = log[s][i]
      BY SealFacts
    <3>2. Len(log[s]) \in Nat /\ Len(opened) \in Nat
      BY LogTypes DEF Inv, TypeOK
    <3>3. ~opener.done /\ Len(opened) <= Len(log'[s])
      BY <1>2, <2>3, <3>1, <3>2 DEF Reads
    <3>4. \A i \in 1 .. Len(opened) : opened[i] = log'[s][i].pt
      BY <1>2, <2>3, <3>1, <3>2 DEF Reads
    <3> QED
      BY <1>2, <2>1, <2>3, <3>3, <3>4 DEF Reads
  <2> QED
    BY <2>2, <2>3
<1> QED
  BY <1>1, <1>2, SealFacts DEF Place

LEMMA PlaceOpen ==
  ASSUME Inv, Place, NEW key \in Keys, NEW aad \in Aads, NEW header \in HeaderArrivals,
         OpenHeader(key, aad, header)
  PROVE  /\ Place'
         /\ opener = None /\ opener' # None /\ ~opener'.done /\ opened' = <<>>
<1>1. /\ opener = None /\ opened = <<>> /\ verdict # "clean"
      /\ sealer' = sealer /\ log' = log /\ opened' = opened /\ verdict' = verdict
      /\ opener' = NewOpener(key, aad, header)
      /\ header.commit = Commit(key, header.salt, aad)
  BY DEF OpenHeader, Place
<1>2. opener' \in Openers /\ opener' # None
  <2>1. opener' \in Openers
    BY <1>1 DEF NewOpener, HeaderArrivals, Openers
  <2> QED
    BY <2>1, ForeignBytes
<1>3. header.salt \in Salts /\ header.commit # Broken
  <2>1. header.salt \in Salts
    BY DEF HeaderArrivals
  <2>2. Commit(key, header.salt, aad) \in [key : Keys, salt : Salts, aad : Aads]
    BY <2>1 DEF Commit
  <2> QED
    BY <1>1, <2>1, <2>2, ForeignBytes
<1>4. PICK s \in Streams : header.commit = Commit(sealer[s].key, sealer[s].salt, sealer[s].aad)
  BY <1>3 DEF HeaderArrivals, Header
<1>5. sealer[s].key = key /\ sealer[s].salt = header.salt /\ sealer[s].aad = aad
  BY <1>1, <1>4 DEF Commit
<1>6. /\ opener'.key = key /\ opener'.aad = aad /\ opener'.salt = header.salt
      /\ opener'.index = 0 /\ ~opener'.done
  BY <1>1 DEF NewOpener
<1>7. Reads(s)'
  <2>1. Len(log[s]) \in Nat
    BY LogTypes DEF Inv
  <2> QED
    BY <1>1, <1>5, <1>6, <2>1 DEF Reads
<1> QED
  BY <1>1, <1>2, <1>6, <1>7 DEF Place, SaltsApart

(* The chunk that opens is the next one of the stream being read.           *)
LEMMA ChunkFacts ==
  ASSUME Inv, Place, NEW s \in Streams, Reads(s), NEW f \in FrameArrivals, OpenChunk(f)
  PROVE  /\ Len(opened) \in Nat /\ Len(opened) + 1 \in 1 .. Len(log[s])
         /\ opened' = Append(opened, log[s][Len(opened) + 1].pt)
         /\ ~opener.done
         /\ opener'.done <=> (Len(opened) + 1 = Len(log[s]) /\ sealer[s].closed)
         /\ opener' \in Openers /\ opener'.index = opener.index + 1
         /\ opener'.key = opener.key /\ opener'.salt = opener.salt /\ opener'.aad = opener.aad
         /\ sealer' = sealer /\ log' = log /\ verdict' = verdict
<1>1. PICK t \in Streams : \E i \in 1 .. Len(log[t]) :
        /\ sealer[t].salt = opener.salt /\ i = opener.index + 1
        /\ Decrypt(opener.key, ChunkNonce(opener.salt, opener.index, f.flags), f.ct)
             = log[t][i].pt
        /\ f.flags = FINAL <=> (i = Len(log[t]) /\ sealer[t].closed)
  BY AcceptedWasSent DEF OpenChunk
<1>2. t = s /\ opener.index = Len(opened)
  BY <1>1 DEF Place, SaltsApart, Reads
<1>3. Len(opened) \in Nat /\ opener \in Openers
  BY DEF OpenChunk, Inv, TypeOK
<1>4. /\ opened' = Append(opened,
           Decrypt(opener.key, ChunkNonce(opener.salt, opener.index, f.flags), f.ct))
      /\ opener' = [opener EXCEPT !.index = @ + 1, !.done = (f.flags = FINAL)]
      /\ ~opener.done /\ sealer' = sealer /\ log' = log /\ verdict' = verdict
  BY DEF OpenChunk, Accepts
<1>5. /\ opener' \in Openers /\ opener'.index = opener.index + 1
      /\ opener'.key = opener.key /\ opener'.salt = opener.salt /\ opener'.aad = opener.aad
      /\ opener'.done = (f.flags = FINAL)
  <2> DEFINE last == (f.flags = FINAL)
  <2>1. last \in BOOLEAN /\ opener' = [opener EXCEPT !.index = @ + 1, !.done = last]
    BY <1>4
  <2> HIDE DEF last
  <2>2. /\ opener' \in Openers /\ opener'.index = opener.index + 1 /\ opener'.done = last
        /\ opener'.key = opener.key /\ opener'.salt = opener.salt /\ opener'.aad = opener.aad
    BY <1>3, <2>1, OpenerMoves
  <2> QED
    BY <2>2 DEF last
<1> QED
  BY <1>1, <1>2, <1>3, <1>4, <1>5

LEMMA PlaceChunk ==
  ASSUME Inv, Place, NEW f \in FrameArrivals, OpenChunk(f)
  PROVE  Place'
<1>1. PICK s \in Streams : Reads(s)
  BY DEF OpenChunk, Place
<1> DEFINE n == Len(opened)
           d == log[s][n + 1].pt
<1>2. /\ n \in Nat /\ n + 1 \in 1 .. Len(log[s]) /\ opened' = Append(opened, d)
      /\ opener'.done <=> (n + 1 = Len(log[s]) /\ sealer[s].closed)
      /\ opener'.index = opener.index + 1
      /\ opener'.key = opener.key /\ opener'.salt = opener.salt /\ opener'.aad = opener.aad
      /\ sealer' = sealer /\ log' = log /\ verdict' = verdict /\ ~opener.done
      /\ opener' \in Openers
  BY <1>1, ChunkFacts
<1>3. d \in Data /\ opened \in Seq(Data)
  BY <1>2, LogTypes DEF Inv, TypeOK
<1> HIDE DEF d, n
<1>4. /\ Len(opened') = n + 1 /\ opened'[n + 1] = d
      /\ \A i \in 1 .. n : opened'[i] = opened[i]
  BY <1>2, <1>3, AppendProperties DEF n
<1>5. \A i \in 1 .. Len(opened') : opened'[i] = log[s][i].pt
  <2> TAKE i \in 1 .. Len(opened')
  <2>1. CASE i = n + 1
    BY <1>4, <2>1 DEF d
  <2>2. CASE i \in 1 .. n
    BY <1>1, <1>4, <2>2 DEF Reads, n
  <2>3. i = n + 1 \/ i \in 1 .. n
    BY <1>2, <1>4
  <2> QED
    BY <2>1, <2>2, <2>3
<1>6. Reads(s)'
  <2>1. opener'.index = Len(opened') /\ Len(opened') <= Len(log'[s])
    BY <1>1, <1>2, <1>4 DEF Reads, n
  <2> QED
    BY <1>1, <1>2, <1>4, <1>5, <2>1 DEF Reads
<1>7. opener' # None /\ verdict' # "clean"
  <2>1. opener' # None
    BY <1>2, ForeignBytes
  <2> QED
    BY <1>2, <2>1 DEF Place
<1> QED
  BY <1>2, <1>6, <1>7 DEF Place, SaltsApart

LEMMA PlaceStep == Inv /\ Place /\ [Next]_vars => Place'
<1> SUFFICES ASSUME Inv, Place, [Next]_vars PROVE Place'
  OBVIOUS
<1>1. ASSUME NEW s \in Streams, NEW pt \in Data, NEW flags \in Flags, SealChunk(s, pt, flags)
      PROVE  Place'
  BY <1>1, PlaceSeal
<1>2. ASSUME NEW key \in Keys, NEW aad \in Aads, NEW header \in HeaderArrivals,
             OpenHeader(key, aad, header)
      PROVE  Place'
  BY <1>2, PlaceOpen
<1>3. ASSUME NEW f \in FrameArrivals, OpenChunk(f) PROVE Place'
  BY <1>3, PlaceChunk
<1>4. CASE Finish
  BY <1>4 DEF Finish, Place, SaltsApart, Reads
<1>5. CASE UNCHANGED vars
  BY <1>5 DEF vars, Place, SaltsApart, Reads
<1>6. ASSUME NEW f \in FrameArrivals, RefuseChunk(f) PROVE Place'
  BY <1>5, <1>6 DEF RefuseChunk
<1> QED
  BY <1>1, <1>2, <1>3, <1>4, <1>5, <1>6 DEF Next

LEMMA PlaceInvariance ==
  ASSUME FreshSalts
  PROVE  Spec => [](Inv /\ Place)
<1>1. Init => Inv /\ Place
  BY InitInv, PlaceInit
<1>2. Inv /\ Place /\ [Next]_vars => (Inv /\ Place)'
  BY StepInv, PlaceStep
<1> QED
  BY <1>1, <1>2, PTL DEF Spec

(***************************************************************************)
(* Nothing but the beginning of one stream is obtained, and a clean finish *)
(* means all of it.                                                        *)
(***************************************************************************)
THEOREM SentIsReceived ==
  ASSUME FreshSalts
  PROVE  Spec => []ReceivedIsSent
<1>1. ASSUME Inv, Place, NEW s \in Streams, Reads(s)
      PROVE  /\ opened \in Seq(Data) /\ Plaintexts(s) \in Seq(Data)
             /\ Len(Plaintexts(s)) = Len(log[s])
             /\ Len(opened) <= Len(Plaintexts(s))
             /\ \A i \in 1 .. Len(opened) : opened[i] = Plaintexts(s)[i]
  <2>1. /\ Len(log[s]) \in Nat /\ DOMAIN log[s] = 1 .. Len(log[s])
        /\ \A i \in 1 .. Len(log[s]) : log[s][i].pt \in Data
    BY <1>1, LogTypes DEF Inv
  <2>2. Plaintexts(s) = [i \in 1 .. Len(log[s]) |-> log[s][i].pt]
    BY <2>1 DEF Plaintexts
  <2>3. Plaintexts(s) \in Seq(Data) /\ Len(Plaintexts(s)) = Len(log[s])
    BY <2>1, <2>2
  <2>4. opened \in Seq(Data) /\ Len(opened) \in Nat
    BY <1>1 DEF Inv, TypeOK
  <2> QED
    BY <1>1, <2>1, <2>2, <2>3, <2>4 DEF Reads
<1>2. Inv /\ Place => OpenedIsPrefix
  <2> SUFFICES ASSUME Inv, Place, opener # None
               PROVE  \E s \in Streams :
                        /\ sealer[s].salt = opener.salt
                        /\ sealer[s].key = opener.key
                        /\ sealer[s].aad = opener.aad
                        /\ IsPrefix(opened, Plaintexts(s))
    BY DEF OpenedIsPrefix
  <2>1. PICK s \in Streams : Reads(s)
    BY DEF Place
  <2>2. IsPrefix(opened, Plaintexts(s))
    <3> DEFINE n == Len(opened)
               p == Plaintexts(s)
    <3>1. /\ opened \in Seq(Data) /\ p \in Seq(Data) /\ n \in Nat /\ Len(p) \in Nat /\ n <= Len(p)
          /\ \A i \in 1 .. n : opened[i] = p[i]
      BY <1>1, <2>1
    <3> HIDE DEF p
    <3>2. SubSeq(opened, 1, n) = [i \in 1 .. n |-> opened[i]]
      BY <3>1
    <3>3. SubSeq(p, 1, n) = [i \in 1 .. n |-> p[i]]
      BY <3>1
    <3>4. [i \in 1 .. n |-> opened[i]] = [i \in 1 .. n |-> p[i]]
      BY <3>1
    <3>5. SubSeq(opened, 1, n) = SubSeq(p, 1, n)
      BY <3>2, <3>3, <3>4
    <3> QED
      BY <3>1, <3>5 DEF IsPrefix, p
  <2> QED
    BY <2>1, <2>2 DEF Reads
<1>3. Inv /\ Place => CleanIsWhole
  <2> SUFFICES ASSUME Inv, Place, verdict = "clean"
               PROVE  \E s \in Streams :
                        /\ sealer[s].salt = opener.salt
                        /\ sealer[s].closed
                        /\ opened = Plaintexts(s)
    BY DEF CleanIsWhole
  <2>1. opener # None /\ opener.done
    BY DEF Place
  <2>2. PICK s \in Streams : Reads(s)
    BY <2>1 DEF Place
  <2>3. Len(opened) = Len(log[s]) /\ sealer[s].closed /\ sealer[s].salt = opener.salt
    BY <2>1, <2>2 DEF Reads
  <2>4. opened = Plaintexts(s)
    BY <1>1, <2>2, <2>3, SeqEqual
  <2> QED
    BY <2>3, <2>4
<1> QED
  BY <1>2, <1>3, PlaceInvariance, PTL DEF ReceivedIsSent

(***************************************************************************)
(* The chunk that is due opens, whatever came in its place.                *)
(***************************************************************************)
THEOREM DueOpens ==
  ASSUME FreshSalts
  PROVE  Spec => []DueChunkOpens
<1>1. Inv /\ Place => DueChunkOpens
  <2> SUFFICES ASSUME Inv, Place, opener # None, NEW s \in Streams,
                      sealer[s].salt = opener.salt, Len(opened) < Len(log[s])
               PROVE  Accepts(opener, log[s][Len(opened) + 1].frame)
    BY DEF DueChunkOpens
  <2> DEFINE n == Len(opened)
  <2>1. Reads(s)
    BY DEF Place, SaltsApart, Reads
  <2>2. n \in Nat /\ Len(log[s]) \in Nat /\ n + 1 \in 1 .. Len(log[s])
    BY LogTypes DEF Inv, TypeOK
  <2>3. PICK flags \in Flags : log[s][n + 1].frame = FrameAt(s, n + 1, log[s][n + 1].pt, flags)
    BY <2>2 DEF Inv, Sent
  <2>4. ~opener.done /\ opener.index = n
    BY <2>1, <2>2 DEF Reads
  <2>5. (n + 1) - 1 = n
    BY <2>2
  <2> DEFINE f == log[s][n + 1].frame
  <2>6. /\ f.flags = flags
        /\ f.tag = ChunkTag(sealer[s].key, sealer[s].salt, (n + 1) - 1, flags, sealer[s].aad, f.ct)
    BY <2>3, FrameFields
  <2> HIDE DEF f, n
  <2>7. Accepts(opener, f)
    BY <2>1, <2>4, <2>5, <2>6 DEF Accepts, Reads
  <2> QED
    BY <2>7 DEF f, n
<1> QED
  BY <1>1, PlaceInvariance, PTL

(***************************************************************************)
(* No keystream is used for two chunks, of one stream or of two.           *)
(***************************************************************************)
THEOREM KeystreamsApart ==
  ASSUME FreshSalts
  PROVE  Spec => []KeystreamOnce
<1>1. Inv /\ Place => KeystreamOnce
  <2> SUFFICES ASSUME Inv, Place, NEW p \in Places, NEW q \in Places,
                      CtAt(p).nonce = CtAt(q).nonce
               PROVE  p = q
    BY DEF KeystreamOnce
  <2>1. ASSUME NEW r \in Places
        PROVE  /\ r = <<r[1], r[2]>> /\ r[1] \in Streams /\ r[2] \in Nat
               /\ \E flags \in Flags : CtAt(r).nonce = <<sealer[r[1]].salt, r[2] - 1, flags>>
    <3>1. r = <<r[1], r[2]>> /\ r[1] \in Streams /\ r[2] \in 1 .. MaxChunks
          /\ r[2] \in DOMAIN log[r[1]]
      BY DEF Places
    <3>2. r[2] \in 1 .. Len(log[r[1]])
      BY <3>1, LogTypes DEF Inv
    <3>3. PICK flags \in Flags :
            log[r[1]][r[2]].frame = FrameAt(r[1], r[2], log[r[1]][r[2]].pt, flags)
      BY <3>1, <3>2 DEF Inv, Sent
    <3>4. CtAt(r).nonce = <<sealer[r[1]].salt, r[2] - 1, flags>>
      <4> DEFINE t == r[1]
                 i == r[2]
      <4>1. CtAt(r) = FrameAt(t, i, log[t][i].pt, flags).ct
        BY <3>3 DEF CtAt
      <4>2. t \in Streams
        BY <3>1
      <4> HIDE DEF t, i
      <4>3. FrameAt(t, i, log[t][i].pt, flags).ct.nonce = <<sealer[t].salt, i - 1, flags>>
        BY <4>2, FrameFields
      <4> QED
        BY <4>1, <4>3 DEF t, i
    <3> QED
      BY <3>1, <3>4
  <2>2. PICK f1 \in Flags : CtAt(p).nonce = <<sealer[p[1]].salt, p[2] - 1, f1>>
    BY <2>1
  <2>3. PICK f2 \in Flags : CtAt(q).nonce = <<sealer[q[1]].salt, q[2] - 1, f2>>
    BY <2>1
  <2>4. sealer[p[1]].salt = sealer[q[1]].salt /\ p[2] - 1 = q[2] - 1
    <3> DEFINE x == sealer[p[1]].salt
               y == sealer[q[1]].salt
               i == p[2] - 1
               j == q[2] - 1
    <3>1. <<x, i, f1>> = <<y, j, f2>>
      BY <2>2, <2>3
    <3> HIDE DEF x, y, i, j
    <3>2. x = y /\ i = j
      BY <3>1
    <3> QED
      BY <3>2 DEF x, y, i, j
  <2>5. p[1] = q[1] /\ p[2] = q[2]
    BY <2>1, <2>4 DEF Place, SaltsApart
  <2> QED
    BY <2>1, <2>5
<1> QED
  BY <1>1, PlaceInvariance, PTL

-----------------------------------------------------------------------------
(* The stream the abstract receiver has settled on.                         *)
Reading == IF opener = None THEN None
           ELSE CHOOSE s \in Streams : sealer[s].salt = opener.salt

LEMMA ReadingIs ==
  ASSUME SaltsApart, opener # None, NEW s \in Streams, sealer[s].salt = opener.salt
  PROVE  Reading = s
<1> DEFINE r == CHOOSE t \in Streams : sealer[t].salt = opener.salt
<1>1. r \in Streams /\ sealer[r].salt = opener.salt
  OBVIOUS
<1> HIDE DEF r
<1>2. r = s
  BY <1>1 DEF SaltsApart
<1> QED
  BY <1>2 DEF Reading, r

LEMMA ReadingIsNext ==
  ASSUME SaltsApart', opener' # None, NEW s \in Streams, sealer'[s].salt = opener'.salt
  PROVE  Reading' = s
<1> DEFINE r == CHOOSE t \in Streams : sealer'[t].salt = opener'.salt
<1>1. r \in Streams /\ sealer'[r].salt = opener'.salt
  OBVIOUS
<1> HIDE DEF r
<1>2. r = s
  BY <1>1 DEF SaltsApart
<1> QED
  BY <1>2 DEF Reading, r

LEMMA PlaintextsAre ==
  ASSUME NEW l \in Seq(Entries)
  PROVE  LET p == [i \in DOMAIN l |-> l[i].pt]
         IN  /\ p \in Seq(Data) /\ Len(p) = Len(l)
             /\ \A i \in 1 .. Len(l) : p[i] = l[i].pt
<1>1. Len(l) \in Nat /\ DOMAIN l = 1 .. Len(l) /\ \A i \in 1 .. Len(l) : l[i] \in Entries
  OBVIOUS
<1>2. \A e \in Entries : e.pt \in Data
  BY DEF Entries
<1> QED
  BY <1>1, <1>2

LEMMA NextImplements ==
  ASSUME Inv, Place, Inv', Place', [Next]_vars
  PROVE  [Transfer!Next]_(Transfer!vars)
<1> DEFINE W == [s \in Streams |-> Plaintexts(s)]
           E == [s \in Streams |-> sealer[s].closed]
           C == opener # None /\ opener.done
           Stay == /\ W' = W /\ E' = E /\ Reading' = Reading /\ opened' = opened
                   /\ C' = C
           Sim == \/ \E s \in Streams : \/ Transfer!Write(s)
                                        \/ Transfer!Settle(s)
                  \/ Transfer!Obtain
                  \/ Stay
<1>0. ASSUME sealer' = sealer, log' = log, opener' = opener
      PROVE  W' = W /\ E' = E /\ Reading' = Reading /\ C' = C
  BY <1>0 DEF Plaintexts, Reading
<1>1. ASSUME NEW s \in Streams, NEW pt \in Data, NEW flags \in Flags, SealChunk(s, pt, flags)
      PROVE  Transfer!Write(s)
  <2>0. log'[s][Len(log[s]) + 1] = [pt |-> pt, frame |-> FrameAt(s, Len(log[s]) + 1, pt, flags)]
    BY <1>1, SealFacts
  <2>1. /\ log'[s] \in Seq(Entries) /\ Len(log'[s]) = Len(log[s]) + 1
        /\ \A i \in 1 .. Len(log[s]) : log'[s][i] = log[s][i]
        /\ \A t \in Streams \ {s} : log'[t] = log[t] /\ sealer'[t] = sealer[t]
        /\ \A t \in Streams : sealer'[t].salt = sealer[t].salt
        /\ ~sealer[s].closed
        /\ sealer'[s].closed = (flags = FINAL)
        /\ opener' = opener /\ opened' = opened
    BY <1>1, SealFacts
  <2>2. /\ Plaintexts(s) \in Seq(Data) /\ Len(Plaintexts(s)) = Len(log[s])
        /\ \A i \in 1 .. Len(log[s]) : Plaintexts(s)[i] = log[s][i].pt
        /\ Plaintexts(s)' \in Seq(Data) /\ Len(Plaintexts(s)') = Len(log'[s])
        /\ \A i \in 1 .. Len(log'[s]) : Plaintexts(s)'[i] = log'[s][i].pt
        /\ Len(log[s]) \in Nat
    <3>1. log[s] \in Seq(Entries) /\ Len(log[s]) \in Nat
      BY LogTypes DEF Inv
    <3> QED
      BY <2>1, <3>1, PlaintextsAre DEF Plaintexts
  <2>3. Plaintexts(s)' = Append(Plaintexts(s), pt)
    <3> DEFINE p == Plaintexts(s)
               q == Plaintexts(s)'
               n == Len(log[s])
    <3>1. n \in Nat /\ Len(p) = n /\ Len(q) = n + 1 /\ p \in Seq(Data) /\ q \in Seq(Data)
      BY <2>1, <2>2
    <3>2. q[n + 1] = pt /\ \A i \in 1 .. n : q[i] = p[i]
      <4>1. log'[s][n + 1].pt = pt
        BY <2>0
      <4>2. q[n + 1] = pt
        <5>1. n + 1 \in 1 .. Len(log'[s])
          BY <2>1, <2>2
        <5> QED
          BY <2>2, <4>1, <5>1
      <4>3. ASSUME NEW i \in 1 .. n PROVE q[i] = p[i]
        <5>1. i \in 1 .. Len(log'[s]) /\ log'[s][i] = log[s][i]
          BY <2>1, <2>2
        <5> QED
          BY <2>2, <5>1
      <4> QED
        BY <4>2, <4>3
    <3> HIDE DEF p, q, n
    <3>3. /\ Append(p, pt) \in Seq(Data) /\ Len(Append(p, pt)) = n + 1
          /\ Append(p, pt)[n + 1] = pt /\ \A i \in 1 .. n : Append(p, pt)[i] = p[i]
      BY <3>1, AppendProperties
    <3>4. \A i \in 1 .. n + 1 : q[i] = Append(p, pt)[i]
      <4> TAKE i \in 1 .. n + 1
      <4>1. i = n + 1 \/ i \in 1 .. n
        BY <3>1
      <4> QED
        BY <3>2, <3>3, <4>1
    <3>5. q = Append(p, pt)
      BY <3>1, <3>3, <3>4, SeqEqual
    <3> QED
      BY <3>5 DEF p, q
  <2>4. \A t \in Streams \ {s} : Plaintexts(t)' = Plaintexts(t)
    BY <2>1 DEF Plaintexts
  <2>5. W' = [W EXCEPT ![s] = Append(@, pt)]
    BY <2>3, <2>4
  <2>6. E' = [E EXCEPT ![s] = (flags = FINAL)]
    BY <2>1
  <2>7. Reading' = Reading
    <3>1. CASE opener = None
      BY <2>1, <3>1 DEF Reading
    <3>2. CASE opener # None
      <4>1. PICK t \in Streams : sealer[t].salt = opener.salt
        BY <3>2 DEF Place, Reads
      <4> QED
        BY <2>1, <3>2, <4>1, ReadingIs, ReadingIsNext DEF Place
    <3> QED
      BY <3>1, <3>2
  <2> QED
    BY <2>1, <2>5, <2>6, <2>7 DEF Transfer!Write, Reading
<1>2. ASSUME NEW key \in Keys, NEW aad \in Aads, NEW header \in HeaderArrivals,
             OpenHeader(key, aad, header)
      PROVE  \E s \in Streams : Transfer!Settle(s)
  <2>1. opener = None /\ opener' # None /\ ~opener'.done /\ opened' = <<>> /\ opened = <<>>
    BY <1>2, PlaceOpen DEF Place
  <2>2. sealer' = sealer /\ log' = log
    BY <1>2 DEF OpenHeader
  <2>3. PICK s \in Streams : sealer'[s].salt = opener'.salt
    BY <2>1 DEF Place, Reads
  <2>4. Reading' = s
    BY <2>1, <2>3, ReadingIsNext DEF Place
  <2>5. Reading = None
    BY <2>1 DEF Reading
  <2>6. W' = W /\ E' = E /\ C' = C
    BY <2>1, <2>2 DEF Plaintexts
  <2> QED
    BY <2>1, <2>4, <2>5, <2>6 DEF Transfer!Settle, Reading
<1>3. ASSUME NEW f \in FrameArrivals, OpenChunk(f)
      PROVE  Transfer!Obtain
  <2>1. opener # None
    BY <1>3 DEF OpenChunk
  <2>2. PICK s \in Streams : Reads(s)
    BY <2>1 DEF Place
  <2> DEFINE n == Len(opened)
  <2>3. /\ n \in Nat /\ n + 1 \in 1 .. Len(log[s])
        /\ opened' = Append(opened, log[s][n + 1].pt)
        /\ ~opener.done
        /\ opener'.done <=> (n + 1 = Len(log[s]) /\ sealer[s].closed)
        /\ opener' \in Openers /\ opener'.done \in BOOLEAN /\ opener'.salt = opener.salt
        /\ sealer' = sealer /\ log' = log
    BY <1>3, <2>2, ChunkFacts DEF Openers
  <2>4. opener' # None
    BY <2>3, ForeignBytes
  <2>5. Reading = s /\ Reading' = s /\ s # None
    <3>1. sealer[s].salt = opener.salt /\ SaltsApart /\ SaltsApart'
      BY <2>2 DEF Reads, Place
    <3>2. Reading = s
      BY <2>1, <3>1, ReadingIs
    <3>3. Reading' = Reading
      BY <2>1, <2>3, <2>4 DEF Reading
    <3> QED
      BY <3>2, <3>3, StreamAssumption
  <2>6. /\ Len(Plaintexts(s)) = Len(log[s])
        /\ \A i \in 1 .. Len(log[s]) : Plaintexts(s)[i] = log[s][i].pt
    <3>1. log[s] \in Seq(Entries)
      BY LogTypes DEF Inv
    <3> QED
      BY <3>1, PlaintextsAre DEF Plaintexts
  <2>7. Len(opened') = n + 1
    <3>1. log[s][n + 1].pt \in Data /\ opened \in Seq(Data)
      BY <2>3, LogTypes DEF Inv, TypeOK
    <3> QED
      BY <2>3, <3>1, AppendProperties
  <2>8. W' = W /\ E' = E
    BY <2>3 DEF Plaintexts
  <2>9. W[s] = Plaintexts(s) /\ E[s] = sealer[s].closed
    OBVIOUS
  <2> HIDE DEF W, E
  <2>10. /\ ~C /\ C' = (E[s] /\ Len(opened') = Len(W[s]))
    BY <2>1, <2>3, <2>4, <2>6, <2>7, <2>9
  <2>11. n < Len(W[s]) /\ opened' = Append(opened, W[s][n + 1])
    <3>1. n < Len(log[s])
      BY <2>3
    <3> QED
      BY <2>3, <2>6, <2>9, <3>1
  <2> HIDE DEF C
  <2>12. /\ Reading # None /\ ~C /\ n < Len(W[Reading])
         /\ opened' = Append(opened, W[Reading][n + 1])
         /\ C' = (E[Reading] /\ Len(opened') = Len(W[Reading]))
         /\ W' = W /\ E' = E /\ Reading' = Reading
    BY <2>5, <2>8, <2>10, <2>11
  <2> QED
    BY <2>12 DEF Transfer!Obtain, Reading, W, E, C, n
<1>4. ASSUME Finish PROVE Stay
  BY <1>0, <1>4 DEF Finish
<1>5. ASSUME UNCHANGED vars PROVE Stay
  BY <1>0, <1>5 DEF vars
<1>6. Sim
  <2>1. ASSUME NEW f \in FrameArrivals, RefuseChunk(f) PROVE UNCHANGED vars
    BY <2>1 DEF RefuseChunk
  <2> QED
    BY <1>1, <1>2, <1>3, <1>4, <1>5, <2>1 DEF Next
<1> QED
  BY <1>6 DEF Transfer!Next, Transfer!vars, Reading

(***************************************************************************)
(* The detailed stream implements the abstract transfer.                   *)
(***************************************************************************)
THEOREM Implements ==
  ASSUME FreshSalts
  PROVE  Spec => ImplementsTransfer
<1>1. Init => Transfer!Init
  <2> SUFFICES ASSUME Init PROVE Transfer!Init
    OBVIOUS
  <2>1. \A s \in Streams : Plaintexts(s) = <<>>
    BY DEF Init, Plaintexts
  <2>2. \A s \in Streams : sealer[s].closed = FALSE
    BY DEF Init, NewSealer
  <2>3. [s \in Streams |-> Plaintexts(s)] = [s \in Streams |-> <<>>]
    BY <2>1
  <2>4. [s \in Streams |-> sealer[s].closed] = [s \in Streams |-> FALSE]
    BY <2>2
  <2>5. opener = None /\ opened = <<>>
    BY DEF Init
  <2> QED
    BY <2>3, <2>4, <2>5 DEF Transfer!Init
<1>2. Inv /\ Place /\ Inv' /\ Place' /\ [Next]_vars => [Transfer!Next]_(Transfer!vars)
  BY NextImplements
<1> QED
  BY <1>1, <1>2, PlaceInvariance, PTL DEF Spec, ImplementsTransfer, Transfer!Spec
=============================================================================
