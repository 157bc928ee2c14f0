-------------------------- MODULE SealedBlobsProofs --------------------------
(***************************************************************************)
(* Proofs about SealedBlobs, for any keys, messages, data, nonces, map     *)
(* counts and number of seals and edits.                                   *)
(*                                                                         *)
(* The parts, in order: sequences; the two loops of the stream openers,    *)
(* which are one; HMAC and keystream; the blobs each sealer makes, field by*)
(* field and cell by cell; which atoms only a key holder can write; the    *)
(* inductive invariant `Inv` and its preservation by every action; the     *)
(* five properties of SealedBlobs, each of which needs of a behaviour only *)
(* `Inv` and that nothing but a delivery changes `got`; and the verdicts   *)
(* of the scripts, which need only that every blob is `Genuine`.           *)
(*                                                                         *)
(* The assumptions are those of SealedBlobs.  FreshSalts: two streams under*)
(* one key have different salts.  CellsAssumption: the bytes of callers are*)
(* no tag, keystream or field.  KeysAssumption: no master key is a key     *)
(* derived from another.  RequestsAssumption: what a caller may ask for,   *)
(* and that four bytes which are no length field do not happen to give the *)
(* length of a sealed frame.  The scripts add DrawnAgain of BlobScripts:   *)
(* the nonce a script draws is not the one the blob was sealed with.       *)
(***************************************************************************)
EXTENDS BlobScripts, SequenceTheorems, FiniteSetTheorems, WellFoundedInduction, TLAPS

-----------------------------------------------------------------------------
(* Sequences.  The lemmas speak of finite sequences whatever their         *)
(* elements are, and say of a joined, cut or flattened one which cell      *)
(* stands where.                                                           *)
IsSequence(x) == x \in Seq(Range(x))

LEMMA InSeq ==
  ASSUME NEW S, NEW x \in Seq(S)
  PROVE  IsSequence(x)
<1>1. x \in [1..Len(x) -> S] /\ Len(x) \in Nat /\ DOMAIN x = 1..Len(x)
  BY LenProperties
<1>2. \A i \in DOMAIN x : x[i] \in Range(x)
  BY DEF Range
<1>3. x \in [1..Len(x) -> Range(x)]
  BY <1>1, <1>2
<1> QED
  BY <1>1, <1>3 DEF IsSequence

LEMMA SequenceFacts ==
  ASSUME NEW x, IsSequence(x)
  PROVE  /\ Len(x) \in Nat
         /\ DOMAIN x = 1..Len(x)
         /\ x = [i \in 1..Len(x) |-> x[i]]
         /\ \A i \in 1..Len(x) : x[i] \in Range(x)
         /\ Range(x) = {x[i] : i \in 1..Len(x)}
<1>1. x \in Seq(Range(x))
  BY DEF IsSequence
<1>2. Len(x) \in Nat /\ x \in [1..Len(x) -> Range(x)] /\ DOMAIN x = 1..Len(x)
  BY <1>1, LenProperties
<1> QED
  BY <1>2 DEF Range

LEMMA FunctionIsSequence ==
  ASSUME NEW n \in Nat, NEW f, f = [i \in 1..n |-> f[i]]
  PROVE  IsSequence(f) /\ Len(f) = n /\ DOMAIN f = 1..n
<1>1. DOMAIN f = 1..n
  OBVIOUS
<1>2. \A i \in 1..n : f[i] \in Range(f)
  BY <1>1 DEF Range
<1>3. f \in [1..n -> Range(f)]
  BY <1>1, <1>2
<1>4. f \in Seq(Range(f))
  BY <1>3
<1>5. Len(f) = n
  BY <1>1, <1>4, LenProperties
<1> QED
  BY <1>1, <1>4, <1>5 DEF IsSequence

LEMMA SameSequence ==
  ASSUME NEW x, NEW y, IsSequence(x), IsSequence(y), Len(x) = Len(y),
         \A i \in 1..Len(x) : x[i] = y[i]
  PROVE  x = y
<1>1. x = [i \in 1..Len(x) |-> x[i]] /\ y = [i \in 1..Len(y) |-> y[i]]
  BY SequenceFacts
<1> QED
  BY <1>1

(* Every cell of x \o y by its place.                                      *)
LEMMA Joined ==
  ASSUME NEW x, NEW y, IsSequence(x), IsSequence(y)
  PROVE  /\ IsSequence(x \o y)
         /\ Len(x \o y) = Len(x) + Len(y)
         /\ \A i \in 1..Len(x) : (x \o y)[i] = x[i]
         /\ \A i \in 1..Len(y) : (x \o y)[Len(x) + i] = y[i]
         /\ Range(x \o y) = Range(x) \cup Range(y)
<1> DEFINE S == Range(x) \cup Range(y)
           z == x \o y
<1>1. x \in Seq(S) /\ y \in Seq(S)
  <2>1. x \in Seq(Range(x)) /\ y \in Seq(Range(y))
    BY DEF IsSequence
  <2>2. Range(x) \subseteq S /\ Range(y) \subseteq S
    OBVIOUS
  <2> QED BY <2>1, <2>2, SeqMonotonic
<1>2. /\ z \in Seq(S) /\ Len(z) = Len(x) + Len(y)
      /\ \A i \in 1..Len(x) + Len(y) : z[i] = IF i <= Len(x) THEN x[i] ELSE y[i - Len(x)]
  <2> HIDE DEF S
  <2> QED BY <1>1, ConcatProperties
<1>3. IsSequence(z)
  BY <1>2, InSeq
<1>4. Len(x) \in Nat /\ Len(y) \in Nat
  BY SequenceFacts
<1> HIDE DEF z
<1>5. /\ \A i \in 1..Len(x) : z[i] = x[i]
      /\ \A i \in 1..Len(y) : z[Len(x) + i] = y[i]
  BY <1>2, <1>4
<1>6. Range(z) = {z[i] : i \in 1..Len(z)} /\ Range(x) = {x[i] : i \in 1..Len(x)}
      /\ Range(y) = {y[i] : i \in 1..Len(y)}
  BY <1>3, SequenceFacts
<1>7. Range(z) = Range(x) \cup Range(y)
  <2>1. ASSUME NEW c \in Range(z) PROVE c \in Range(x) \cup Range(y)
    <3>1. PICK i \in 1..Len(x) + Len(y) : c = z[i]
      BY <1>2, <1>6
    <3>2. i \in 1..Len(x) \/ i - Len(x) \in 1..Len(y)
      BY <1>4
    <3> QED BY <1>2, <1>6, <1>4, <3>1, <3>2
  <2>2. ASSUME NEW c \in Range(x) PROVE c \in Range(z)
    <3>1. PICK i \in 1..Len(x) : c = x[i]
      BY <1>6
    <3>2. i \in 1..Len(z)
      BY <1>2, <1>4
    <3> QED BY <1>5, <1>6, <3>1, <3>2
  <2>3. ASSUME NEW c \in Range(y) PROVE c \in Range(z)
    <3>1. PICK i \in 1..Len(y) : c = y[i]
      BY <1>6
    <3>2. Len(x) + i \in 1..Len(z)
      BY <1>2, <1>4
    <3> QED BY <1>5, <1>6, <3>1, <3>2
  <2> QED BY <2>1, <2>2, <2>3
<1> QED
  BY <1>2, <1>3, <1>5, <1>7 DEF z

(* Every cell of SubSeq(x, m, n) by its place.                             *)
LEMMA Part ==
  ASSUME NEW x, IsSequence(x), NEW m \in Nat \ {0}, NEW n \in Int, n <= Len(x)
  PROVE  /\ IsSequence(SubSeq(x, m, n))
         /\ Len(SubSeq(x, m, n)) = IF m <= n THEN n - m + 1 ELSE 0
         /\ \A i \in 1..n - m + 1 : SubSeq(x, m, n)[i] = x[m + i - 1]
         /\ Range(SubSeq(x, m, n)) \subseteq Range(x)
<1>1. Len(x) \in Nat /\ \A i \in 1..Len(x) : x[i] \in Range(x)
  BY SequenceFacts
<1>2. \A i \in m..n : x[i] \in Range(x)
  BY <1>1
<1>3. /\ SubSeq(x, m, n) \in Seq(Range(x))
      /\ Len(SubSeq(x, m, n)) = IF m <= n THEN n - m + 1 ELSE 0
      /\ \A i \in 1..n - m + 1 : SubSeq(x, m, n)[i] = x[m + i - 1]
  BY <1>2, SubSeqProperties
<1>4. IsSequence(SubSeq(x, m, n))
  BY <1>3, InSeq
<1>5. Range(SubSeq(x, m, n)) \subseteq Range(x)
  <2>1. SubSeq(x, m, n) \in [1..Len(SubSeq(x, m, n)) -> Range(x)]
    BY <1>3, LenProperties
  <2> QED BY <2>1 DEF Range
<1> QED
  BY <1>3, <1>4, <1>5

(* Two joined sequences whose first parts are of one length agree part by  *)
(* part: why a length prefix or a field of fixed width keeps a boundary in *)
(* place.                                                                  *)
LEMMA SplitEqual ==
  ASSUME NEW a, NEW b, NEW c, NEW d,
         IsSequence(a), IsSequence(b), IsSequence(c), IsSequence(d),
         a \o b = c \o d, Len(a) = Len(c)
  PROVE  a = c /\ b = d
<1> DEFINE z == a \o b
           w == c \o d
<1>1. /\ Len(z) = Len(a) + Len(b)
      /\ \A i \in 1..Len(a) : z[i] = a[i]
      /\ \A i \in 1..Len(b) : z[Len(a) + i] = b[i]
  BY ONLY IsSequence(a), IsSequence(b), Joined
<1>2. /\ Len(w) = Len(c) + Len(d)
      /\ \A i \in 1..Len(c) : w[i] = c[i]
      /\ \A i \in 1..Len(d) : w[Len(c) + i] = d[i]
  BY Joined
<1>3. Len(a) \in Nat /\ Len(b) \in Nat /\ Len(c) \in Nat /\ Len(d) \in Nat
  BY SequenceFacts
<1>4. z = w
  OBVIOUS
<1> HIDE DEF z, w
<1>5. Len(b) = Len(d)
  BY <1>1, <1>2, <1>3, <1>4
<1>6. a = c
  BY <1>1, <1>2, <1>4, SameSequence
<1>7. b = d
  BY <1>1, <1>2, <1>4, <1>5, SameSequence
<1> QED
  BY <1>6, <1>7

(* A cut at the seam gives the two parts back.                             *)
LEMMA CutJoined ==
  ASSUME NEW a, NEW b, IsSequence(a), IsSequence(b)
  PROVE  /\ SubSeq(a \o b, 1, Len(a)) = a
         /\ SubSeq(a \o b, Len(a) + 1, Len(a \o b)) = b
<1> DEFINE z == a \o b
<1>1. /\ IsSequence(z) /\ Len(z) = Len(a) + Len(b)
      /\ \A i \in 1..Len(a) : z[i] = a[i]
      /\ \A i \in 1..Len(b) : z[Len(a) + i] = b[i]
  BY Joined
<1>2. Len(a) \in Nat /\ Len(b) \in Nat
  BY SequenceFacts
<1> HIDE DEF z
<1>3. SubSeq(z, 1, Len(a)) = a
  <2>1. /\ IsSequence(SubSeq(z, 1, Len(a)))
        /\ Len(SubSeq(z, 1, Len(a))) = Len(a)
        /\ \A i \in 1..Len(a) : SubSeq(z, 1, Len(a))[i] = z[i]
    BY <1>1, <1>2, Part
  <2> QED BY <1>1, <2>1, SameSequence
<1>4. SubSeq(z, Len(a) + 1, Len(z)) = b
  <2> DEFINE p == SubSeq(z, Len(a) + 1, Len(z))
  <2>1. /\ IsSequence(p)
        /\ Len(p) = Len(b)
        /\ \A i \in 1..Len(b) : p[i] = z[Len(a) + 1 + i - 1]
    BY <1>1, <1>2, Part
  <2>2. \A i \in 1..Len(b) : p[i] = b[i]
    <3> HIDE DEF p
    <3> QED BY <1>1, <1>2, <2>1
  <2> HIDE DEF p
  <2>3. p = b
    BY <2>1, <2>2, SameSequence
  <2> QED BY <2>3 DEF p
<1> QED
  BY <1>3, <1>4 DEF z

LEMMA Rejoined ==
  ASSUME NEW x, IsSequence(x), NEW k \in 0..Len(x)
  PROVE  x = SubSeq(x, 1, k) \o SubSeq(x, k + 1, Len(x))
<1>1. x \in Seq(Range(x)) /\ Len(x) \in Nat
  BY SequenceFacts DEF IsSequence
<1>2. 1 \in 1..Len(x) + 1 /\ k \in 1 - 1..Len(x) /\ Len(x) \in k..Len(x)
  BY <1>1
<1>3. SubSeq(x, 1, k) \o SubSeq(x, k + 1, Len(x)) = SubSeq(x, 1, Len(x))
  BY <1>1, <1>2, ConcatAdjacentSubSeq
<1> QED
  BY <1>1, <1>3, SubSeqFull

LEMMA JoinAssoc ==
  ASSUME NEW x, NEW y, NEW z, IsSequence(x), IsSequence(y), IsSequence(z)
  PROVE  (x \o y) \o z = x \o (y \o z)
<1> DEFINE S == Range(x) \cup Range(y) \cup Range(z)
<1>1. x \in Seq(S) /\ y \in Seq(S) /\ z \in Seq(S)
  <2>1. x \in Seq(Range(x)) /\ y \in Seq(Range(y)) /\ z \in Seq(Range(z))
    BY DEF IsSequence
  <2>2. Range(x) \subseteq S /\ Range(y) \subseteq S /\ Range(z) \subseteq S
    OBVIOUS
  <2> QED BY <2>1, <2>2, SeqMonotonic
<1> HIDE DEF S
<1> QED
  BY <1>1, ConcatAssociative
(* Induction over the numbers and over prefixes, in the form of sets: a    *)
(* set of numbers that is not empty has a least element.                   *)
LEMMA LeastNumber ==
  ASSUME NEW T, T \subseteq Nat, T # {}
  PROVE  \E n \in T : \A m \in T : n <= m
<1> DEFINE R == {p \in Nat \X Nat : p[1] < p[2]}
<1>1. IsWellFoundedOn(R, Nat)
  <2>1. R = OpToRel(<, Nat)
    BY DEF OpToRel
  <2> QED
    BY <2>1, NatLessThanWellFounded
<1>2. \E x \in T : \A y \in T : ~ (<<y, x>> \in R)
  <2> HIDE DEF R
  <2> QED BY <1>1, WFMin
<1>3. PICK n \in T : \A y \in T : ~ (<<y, n>> \in R)
  BY <1>2
<1>4. \A y \in T : ~ (y < n)
  BY <1>3
<1> QED
  BY <1>4

LEMMA SetInduction ==
  ASSUME NEW S, 0 \in S, \A n \in Nat : n \in S => n + 1 \in S
  PROVE  \A n \in Nat : n \in S
<1> SUFFICES ASSUME NEW k \in Nat, k \notin S PROVE FALSE
  OBVIOUS
<1> DEFINE T == {n \in Nat : n \notin S}
<1>1. PICK n \in T : \A m \in T : n <= m
  <2>1. T \subseteq Nat /\ T # {}
    OBVIOUS
  <2> HIDE DEF T
  <2> QED
    BY <2>1, LeastNumber
<1>2. n # 0 /\ n \in Nat
  OBVIOUS
<1>3. n - 1 \in Nat /\ n - 1 \notin T
  BY <1>1, <1>2
<1> QED
  BY <1>2, <1>3

-----------------------------------------------------------------------------
(* The two loops of the stream openers.  Each is a recursive function of   *)
(* the position in the blob and the index of the chunk; the lemmas give    *)
(* the one equation each satisfies, and from them that the loops agree.    *)
PyStep(key, blob, aad, n, g, pos, i) ==
  LET end  == FrameEnd(blob, pos)
      pt   == ChunkPlain(key, blob, n, pos, i)
      rest == g[<<end, i + 1>>]
  IN  IF pos = Len(blob) \/ ~ChunkVerifies(key, blob, aad, pos, i) THEN Refused
      ELSE IF FrameFlags(blob, pos) = FINAL
           THEN IF end # Len(blob) THEN Refused ELSE Ok(pt)
           ELSE IF rest.ok THEN Ok(pt \o rest.out) ELSE Refused

PyLoop(key, blob, aad, n, g) ==
  g = [at \in (0..Len(blob)) \X Nat |-> PyStep(key, blob, aad, n, g, at[1], at[2])]

RsStep(key, blob, aad, n, g, pos, i) ==
  LET end  == FrameEnd(blob, pos)
      pt   == ChunkPlain(key, blob, n, pos, i)
      rest == g[<<end, i + 1>>]
  IN  IF pos >= Len(blob) THEN Left(pos, FALSE, <<>>)
      ELSE IF ~ChunkVerifies(key, blob, aad, pos, i) THEN Left(0, FALSE, <<>>)
      ELSE IF FrameFlags(blob, pos) = FINAL THEN Left(end, TRUE, pt)
      ELSE Left(rest.pos, rest.final, pt \o rest.out)

RsLoop(key, blob, aad, n, g) ==
  g = [at \in (0..Len(blob)) \X Nat |-> RsStep(key, blob, aad, n, g, at[1], at[2])]

LEMMA NumberRange ==
  ASSUME NEW cell, garble \in Misreads
  PROVE  NumberAt(cell) \in 0..LenLimit - 1
<1>1. garble \in 0..LenLimit - 1
  BY BlobsAssumption
<1> QED
  BY <1>1 DEF NumberAt

(* A frame ends after it began. *)
LEMMA FrameAdvances ==
  ASSUME NEW key, NEW blob, NEW aad, NEW pos \in 0..Len(blob), NEW i \in Nat,
         Len(blob) \in Nat, garble \in Misreads,
         ChunkVerifies(key, blob, aad, pos, i)
  PROVE  FrameEnd(blob, pos) \in pos + 4..Len(blob)
<1>1. /\ FrameEnd(blob, pos) <= Len(blob)
      /\ NumberAt(blob[pos + 1]) >= 1 + TagLen
  BY DEF ChunkVerifies
<1>2. NumberAt(blob[pos + 1]) \in 0..LenLimit - 1 /\ LenLimit \in Nat
  BY NumberRange, BlobsAssumption
<1> QED
  BY <1>1, <1>2 DEF FrameEnd, TagLen, LenBytes

LEMMA PyLocal ==
  ASSUME NEW key, NEW blob, NEW aad, NEW n, NEW g, NEW h,
         NEW pos \in 0..Len(blob), NEW i \in Nat,
         Len(blob) \in Nat, garble \in Misreads,
         \A p \in pos + 1..Len(blob), j \in Nat : g[<<p, j>>] = h[<<p, j>>]
  PROVE  PyStep(key, blob, aad, n, g, pos, i) = PyStep(key, blob, aad, n, h, pos, i)
<1>1. CASE pos = Len(blob) \/ ~ChunkVerifies(key, blob, aad, pos, i)
  BY <1>1 DEF PyStep
<1>2. CASE ~(pos = Len(blob) \/ ~ChunkVerifies(key, blob, aad, pos, i))
  <2>1. FrameEnd(blob, pos) \in pos + 1..Len(blob) /\ i + 1 \in Nat
    BY <1>2, FrameAdvances
  <2>2. g[<<FrameEnd(blob, pos), i + 1>>] = h[<<FrameEnd(blob, pos), i + 1>>]
    BY <2>1
  <2> QED
    BY <2>2, Zenon DEF PyStep
<1> QED
  BY <1>1, <1>2

LEMMA RsLocal ==
  ASSUME NEW key, NEW blob, NEW aad, NEW n, NEW g, NEW h,
         NEW pos \in 0..Len(blob), NEW i \in Nat,
         Len(blob) \in Nat, garble \in Misreads,
         \A p \in pos + 1..Len(blob), j \in Nat : g[<<p, j>>] = h[<<p, j>>]
  PROVE  RsStep(key, blob, aad, n, g, pos, i) = RsStep(key, blob, aad, n, h, pos, i)
<1>1. CASE pos >= Len(blob)
  BY <1>1, Zenon DEF RsStep
<1>3. CASE ~ChunkVerifies(key, blob, aad, pos, i)
  BY <1>3, Zenon DEF RsStep
<1>2. CASE ~ pos >= Len(blob) /\ ChunkVerifies(key, blob, aad, pos, i)
  <2>1. FrameEnd(blob, pos) \in pos + 1..Len(blob) /\ i + 1 \in Nat
    BY <1>2, FrameAdvances
  <2>2. g[<<FrameEnd(blob, pos), i + 1>>] = h[<<FrameEnd(blob, pos), i + 1>>]
    BY <2>1
  <2> QED
    BY <2>2, Zenon DEF RsStep
<1> QED
  BY <1>1, <1>2, <1>3

(* The loop of Python, from the cells its header leaves, is one function. *)
LEMMA PyLoopExists ==
  ASSUME NEW key, NEW blob, NEW aad, NEW n, Len(blob) \in Nat, garble \in Misreads
  PROVE  \E g : PyLoop(key, blob, aad, n, g)
<1> DEFINE L == Len(blob)
           Dom(k) == (L - k..L) \X Nat
           Step(g, at) == PyStep(key, blob, aad, n, g, at[1], at[2])
           P(k, g) == g = [at \in Dom(k) |-> Step(g, at)]
           S == {k \in Nat : k <= L + 1 => \E g : P(k - 1, g)}
<1> HIDE DEF Step, Dom
<1>d. \A k \in Int : \A at : at \in Dom(k) <=> at \in (L - k..L) \X Nat
  BY DEF Dom
<1>1. 0 \in S
  <2> DEFINE e == [at \in Dom(0 - 1) |-> 0]
             f == [at \in Dom(0 - 1) |-> Step(e, at)]
  <2>1. e = f
    <3>1. Dom(0 - 1) = {}
      BY <1>d
    <3> QED BY <3>1
  <2> HIDE DEF e
  <2>2. P(0 - 1, e)
    <3>1. P(0 - 1, e) <=> e = f
      BY Zenon
    <3> QED BY <2>1, <3>1
  <2> HIDE DEF P
  <2> QED BY <2>2
<1>2. ASSUME NEW k \in Nat, k \in S PROVE k + 1 \in S
  <2> SUFFICES ASSUME k + 1 <= L + 1 PROVE \E g : P(k, g)
    <3> HIDE DEF P
    <3> QED OBVIOUS
  <2>1. PICK g : P(k - 1, g)
    <3> HIDE DEF P
    <3> QED BY <1>2
  <2> DEFINE h == [at \in Dom(k) |-> IF at[1] = L - k THEN Step(g, at) ELSE g[at]]
             f == [at \in Dom(k) |-> Step(h, at)]
  <2>2. \A at \in Dom(k - 1) : g[at] = Step(g, at)
    BY <2>1
  <2>3. \A at \in Dom(k) : h[at] = IF at[1] = L - k THEN Step(g, at) ELSE g[at]
    OBVIOUS
  <2>4. \A at \in Dom(k) : f[at] = Step(h, at)
    OBVIOUS
  <2> HIDE DEF P
  <2>5. ASSUME NEW at \in Dom(k) PROVE h[at] = f[at]
    <3> HIDE DEF h, f
    <3>1. at[1] \in L - k..L /\ at[2] \in Nat /\ at[1] \in 0..Len(blob) /\ at = <<at[1], at[2]>>
      BY <1>d
    <3>2. \A p \in at[1] + 1..Len(blob), j \in Nat : g[<<p, j>>] = h[<<p, j>>]
      <4> TAKE p \in at[1] + 1..Len(blob), j \in Nat
      <4>1. <<p, j>> \in Dom(k) /\ <<p, j>>[1] # L - k
        BY <1>d, <3>1
      <4> QED BY <2>3, <4>1
    <3>3. Step(g, at) = Step(h, at)
      <4> USE DEF Step
      <4> QED BY <3>1, <3>2, PyLocal
    <3>4. h[at] = Step(g, at)
      <4>1. CASE at[1] = L - k
        BY <2>3, <4>1
      <4>2. CASE at[1] # L - k
        <5>1. at \in Dom(k - 1)
          BY <1>d, <3>1, <4>2
        <5> QED BY <2>2, <2>3, <4>2, <5>1
      <4> QED BY <4>1, <4>2
    <3> QED BY <2>4, <3>3, <3>4
  <2>6. h = f
    BY <2>5
  <2> HIDE DEF h
  <2>7. P(k, h)
    BY <2>6 DEF P
  <2> QED BY <2>7
<1> HIDE DEF S
<1>3. L + 1 \in S
  BY <1>1, <1>2, SetInduction
<1>4. PICK g : P(L + 1 - 1, g)
  <2> HIDE DEF P
  <2> QED BY <1>3 DEF S
<1>5. L - (L + 1 - 1) = 0
  OBVIOUS
<1>6. PyLoop(key, blob, aad, n, g)
  BY <1>4, <1>5 DEF PyLoop, Step, Dom
<1> QED
  BY <1>6
(* So is the loop of Rust. *)
LEMMA RsLoopExists ==
  ASSUME NEW key, NEW blob, NEW aad, NEW n, Len(blob) \in Nat, garble \in Misreads
  PROVE  \E g : RsLoop(key, blob, aad, n, g)
<1> DEFINE L == Len(blob)
           Dom(k) == (L - k..L) \X Nat
           Step(g, at) == RsStep(key, blob, aad, n, g, at[1], at[2])
           P(k, g) == g = [at \in Dom(k) |-> Step(g, at)]
           S == {k \in Nat : k <= L + 1 => \E g : P(k - 1, g)}
<1> HIDE DEF Step, Dom
<1>d. \A k \in Int : \A at : at \in Dom(k) <=> at \in (L - k..L) \X Nat
  BY DEF Dom
<1>1. 0 \in S
  <2> DEFINE e == [at \in Dom(0 - 1) |-> 0]
             f == [at \in Dom(0 - 1) |-> Step(e, at)]
  <2>1. e = f
    <3>1. Dom(0 - 1) = {}
      BY <1>d
    <3> QED BY <3>1
  <2> HIDE DEF e
  <2>2. P(0 - 1, e)
    <3>1. P(0 - 1, e) <=> e = f
      BY Zenon
    <3> QED BY <2>1, <3>1
  <2> HIDE DEF P
  <2> QED BY <2>2
<1>2. ASSUME NEW k \in Nat, k \in S PROVE k + 1 \in S
  <2> SUFFICES ASSUME k + 1 <= L + 1 PROVE \E g : P(k, g)
    <3> HIDE DEF P
    <3> QED OBVIOUS
  <2>1. PICK g : P(k - 1, g)
    <3> HIDE DEF P
    <3> QED BY <1>2
  <2> DEFINE h == [at \in Dom(k) |-> IF at[1] = L - k THEN Step(g, at) ELSE g[at]]
             f == [at \in Dom(k) |-> Step(h, at)]
  <2>2. \A at \in Dom(k - 1) : g[at] = Step(g, at)
    BY <2>1
  <2>3. \A at \in Dom(k) : h[at] = IF at[1] = L - k THEN Step(g, at) ELSE g[at]
    OBVIOUS
  <2>4. \A at \in Dom(k) : f[at] = Step(h, at)
    OBVIOUS
  <2> HIDE DEF P
  <2>5. ASSUME NEW at \in Dom(k) PROVE h[at] = f[at]
    <3> HIDE DEF h, f
    <3>1. at[1] \in L - k..L /\ at[2] \in Nat /\ at[1] \in 0..Len(blob) /\ at = <<at[1], at[2]>>
      BY <1>d
    <3>2. \A p \in at[1] + 1..Len(blob), j \in Nat : g[<<p, j>>] = h[<<p, j>>]
      <4> TAKE p \in at[1] + 1..Len(blob), j \in Nat
      <4>1. <<p, j>> \in Dom(k) /\ <<p, j>>[1] # L - k
        BY <1>d, <3>1
      <4> QED BY <2>3, <4>1
    <3>3. Step(g, at) = Step(h, at)
      <4> USE DEF Step
      <4> QED BY <3>1, <3>2, RsLocal
    <3>4. h[at] = Step(g, at)
      <4>1. CASE at[1] = L - k
        BY <2>3, <4>1
      <4>2. CASE at[1] # L - k
        <5>1. at \in Dom(k - 1)
          BY <1>d, <3>1, <4>2
        <5> QED BY <2>2, <2>3, <4>2, <5>1
      <4> QED BY <4>1, <4>2
    <3> QED BY <2>4, <3>3, <3>4
  <2>6. h = f
    BY <2>5
  <2> HIDE DEF h
  <2>7. P(k, h)
    BY <2>6 DEF P
  <2> QED BY <2>7
<1> HIDE DEF S
<1>3. L + 1 \in S
  BY <1>1, <1>2, SetInduction
<1>4. PICK g : P(L + 1 - 1, g)
  <2> HIDE DEF P
  <2> QED BY <1>3 DEF S
<1>5. L - (L + 1 - 1) = 0
  OBVIOUS
<1>6. RsLoop(key, blob, aad, n, g)
  BY <1>4, <1>5 DEF RsLoop, Step, Dom
<1> QED
  BY <1>6

(* open_stream of Python, with its loop named.                             *)
LEMMA PyOpens ==
  ASSUME NEW key, NEW blob, NEW aad, NEW n, Len(blob) \in Nat, garble \in Misreads
  PROVE  \E f : /\ PyLoop(key, blob, aad, n, f)
                /\ OpenStream(key, blob, aad, n) =
                     IF ~HeaderVerifies(key, blob, aad) THEN Refused ELSE f[<<HeaderLen, 0>>]
<1> DEFINE f == CHOOSE g : PyLoop(key, blob, aad, n, g)
<1>1. PyLoop(key, blob, aad, n, f)
  BY PyLoopExists
<1>2. OpenStream(key, blob, aad, n) =
         IF ~HeaderVerifies(key, blob, aad) THEN Refused ELSE f[<<HeaderLen, 0>>]
  BY Zenon DEF OpenStream, PyLoop, PyStep
<1> HIDE DEF f
<1> QED
  BY <1>1, <1>2

RsAccepts(L, left) == IF left.pos # L \/ ~left.final THEN Refused ELSE Ok(left.out)

(* open_stream of Rust: what is left after its loop decides.               *)
LEMMA RsOpens ==
  ASSUME NEW key, NEW blob, NEW aad, NEW n, Len(blob) \in Nat, garble \in Misreads
  PROVE  \E f : /\ RsLoop(key, blob, aad, n, f)
                /\ OpenStreamRs(key, blob, aad, n) =
                     IF ~HeaderVerifies(key, blob, aad) THEN Refused
                     ELSE RsAccepts(Len(blob), f[<<HeaderLen, 0>>])
<1> DEFINE f == CHOOSE g : RsLoop(key, blob, aad, n, g)
<1>1. RsLoop(key, blob, aad, n, f)
  BY RsLoopExists
<1>2. OpenStreamRs(key, blob, aad, n) =
         IF ~HeaderVerifies(key, blob, aad) \/ f[<<HeaderLen, 0>>].pos # Len(blob)
              \/ ~f[<<HeaderLen, 0>>].final
         THEN Refused ELSE Ok(f[<<HeaderLen, 0>>].out)
  BY Zenon DEF OpenStreamRs, RsLoop, RsStep
<1> HIDE DEF f
<1> QED
  BY <1>1, <1>2 DEF RsAccepts

(* From any place, what Rust collects and then accepts is what Python      *)
(* returns.                                                                *)
LEMMA LoopsAgree ==
  ASSUME NEW key, NEW blob, NEW aad, NEW n, Len(blob) \in Nat, garble \in Misreads,
         NEW f, PyLoop(key, blob, aad, n, f), NEW g, RsLoop(key, blob, aad, n, g)
  PROVE  \A at \in (0..Len(blob)) \X Nat : f[at] = RsAccepts(Len(blob), g[at])
<1> DEFINE L == Len(blob)
           Same(at) == f[at] = RsAccepts(L, g[at])
           S == {k \in Nat : \A at \in (0..L) \X Nat : L - at[1] < k => Same(at)}
<1>f. \A at \in (0..L) \X Nat : f[at] = PyStep(key, blob, aad, n, f, at[1], at[2])
  BY DEF PyLoop
<1>g. \A at \in (0..L) \X Nat : g[at] = RsStep(key, blob, aad, n, g, at[1], at[2])
  BY DEF RsLoop
<1>1. 0 \in S
  OBVIOUS
<1>2. ASSUME NEW k \in Nat, k \in S PROVE k + 1 \in S
  <2> SUFFICES ASSUME NEW at \in (0..L) \X Nat, L - at[1] < k + 1 PROVE Same(at)
    <3> HIDE DEF Same
    <3> QED OBVIOUS
  <2>0. PICK pos \in 0..L, i \in Nat : at = <<pos, i>>
    OBVIOUS
  <2> DEFINE end == FrameEnd(blob, pos)
  <2>1. /\ f[at] = PyStep(key, blob, aad, n, f, pos, i)
        /\ g[at] = RsStep(key, blob, aad, n, g, pos, i)
    BY <1>f, <1>g, <2>0
  <2>2. CASE pos = L
    <3>1. f[at] = Refused
      BY <2>1, <2>2, Zenon DEF PyStep
    <3>2. pos >= Len(blob)
      BY <2>2
    <3>3. g[at] = Left(pos, FALSE, <<>>)
      BY <2>1, <3>2, Zenon DEF RsStep
    <3> QED BY <3>1, <3>3 DEF RsAccepts, Left
  <2>3. CASE pos # L /\ ~ChunkVerifies(key, blob, aad, pos, i)
    <3>1. f[at] = Refused
      BY <2>1, <2>3, Zenon DEF PyStep
    <3>2. ~ pos >= Len(blob)
      BY <2>3
    <3>3. g[at] = Left(0, FALSE, <<>>)
      BY <2>1, <2>3, <3>2, Zenon DEF RsStep
    <3> QED BY <3>1, <3>3 DEF RsAccepts, Left
  <2>4. CASE pos # L /\ ChunkVerifies(key, blob, aad, pos, i)
    <3>1. ~ pos >= Len(blob)
      BY <2>4
    <3>2. end \in pos + 4..L
      BY <2>4, FrameAdvances
    <3>3. CASE FrameFlags(blob, pos) = FINAL
      <4> DEFINE pt == ChunkPlain(key, blob, n, pos, i)
      <4>1. f[at] = IF end # L THEN Refused ELSE Ok(pt)
        BY <2>1, <2>4, <3>3, Zenon DEF PyStep
      <4>2. g[at] = Left(end, TRUE, pt)
        BY <2>1, <2>4, <3>1, <3>3, Zenon DEF RsStep
      <4> HIDE DEF end, pt
      <4> QED BY <4>1, <4>2 DEF RsAccepts, Left
    <3>4. CASE FrameFlags(blob, pos) # FINAL
      <4> DEFINE pt == ChunkPlain(key, blob, n, pos, i)
                 fr == f[<<end, i + 1>>]
                 gr == g[<<end, i + 1>>]
      <4>1. f[at] = IF fr.ok THEN Ok(pt \o fr.out) ELSE Refused
        BY <2>1, <2>4, <3>4, Zenon DEF PyStep
      <4>2. g[at] = Left(gr.pos, gr.final, pt \o gr.out)
        BY <2>1, <2>4, <3>1, <3>4, Zenon DEF RsStep
      <4>3. fr = RsAccepts(L, gr)
        <5>1. <<end, i + 1>> \in (0..L) \X Nat /\ L - <<end, i + 1>>[1] < k
          BY <2>0, <3>2
        <5>2. \A d \in (0..L) \X Nat : L - d[1] < k => Same(d)
          <6> HIDE DEF Same
          <6> QED BY <1>2
        <5>3. Same(<<end, i + 1>>)
          <6> HIDE DEF Same
          <6> QED BY <5>1, <5>2
        <5> QED BY <5>3
      <4> HIDE DEF end, pt, fr, gr
      <4>4. CASE gr.pos # L \/ ~gr.final
        <5>1. fr = Refused
          BY <4>3, <4>4 DEF RsAccepts
        <5>2. f[at] = Refused
          BY <4>1, <5>1 DEF Refused
        <5>3. /\ g[at].pos = gr.pos
              /\ g[at].final = gr.final
          BY <4>2 DEF Left
        <5> QED BY <4>4, <5>2, <5>3, Zenon DEF RsAccepts
      <4>5. CASE ~(gr.pos # L \/ ~gr.final)
        <5>1. fr = Ok(gr.out)
          BY <4>3, <4>5 DEF RsAccepts
        <5>2. fr.ok /\ fr.out = gr.out
          BY <5>1 DEF Ok
        <5>3. f[at] = Ok(pt \o gr.out)
          BY <4>1, <5>2, Zenon
        <5> DEFINE out == pt \o gr.out
        <5>0. g[at] = Left(gr.pos, gr.final, out)
          BY <4>2
        <5> HIDE DEF out
        <5>4. /\ g[at].pos = gr.pos
              /\ g[at].final = gr.final
              /\ g[at].out = out
          BY <5>0 DEF Left
        <5> USE DEF out
        <5> QED BY <4>5, <5>3, <5>4, Zenon DEF RsAccepts
      <4> QED BY <4>4, <4>5
    <3> QED BY <3>3, <3>4
  <2> QED BY <2>2, <2>3, <2>4
<1> HIDE DEF S
<1>3. L + 1 \in S
  BY <1>1, <1>2, SetInduction
<1>4. \A at \in (0..L) \X Nat : L - at[1] < L + 1
  OBVIOUS
<1>5. \A at \in (0..L) \X Nat : Same(at)
  <2> HIDE DEF Same
  <2> QED BY <1>3, <1>4 DEF S
<1> QED
  BY <1>5

(* Both ports make the same of every blob under the stream format.         *)
LEMMA StreamOpenersAgree ==
  ASSUME NEW key, NEW blob, NEW aad, NEW n, Len(blob) \in Nat, garble \in Misreads
  PROVE  OpenStream(key, blob, aad, n) = OpenStreamRs(key, blob, aad, n)
<1>1. PICK f : /\ PyLoop(key, blob, aad, n, f)
               /\ OpenStream(key, blob, aad, n) =
                    IF ~HeaderVerifies(key, blob, aad) THEN Refused ELSE f[<<HeaderLen, 0>>]
  BY PyOpens
<1>2. PICK g : /\ RsLoop(key, blob, aad, n, g)
               /\ OpenStreamRs(key, blob, aad, n) =
                    IF ~HeaderVerifies(key, blob, aad) THEN Refused
                    ELSE RsAccepts(Len(blob), g[<<HeaderLen, 0>>])
  BY RsOpens
<1>3. CASE HeaderVerifies(key, blob, aad)
  <2>1. HeaderLen \in 0..Len(blob)
    BY <1>3 DEF HeaderVerifies, HeaderLen, NonceLen, TagLen
  <2>2. f[<<HeaderLen, 0>>] = RsAccepts(Len(blob), g[<<HeaderLen, 0>>])
    BY <1>1, <1>2, <2>1, LoopsAgree
  <2> QED BY <1>1, <1>2, <1>3, <2>2
<1>4. CASE ~HeaderVerifies(key, blob, aad)
  BY <1>1, <1>2, <1>4
<1> QED
  BY <1>3, <1>4

-----------------------------------------------------------------------------
(* HMAC and keystream: a result has two cells and tells its key and its    *)
(* input; a cell of a keystream tells key, nonce, number of maps and       *)
(* place.                                                                  *)
LEMMA One ==
  ASSUME NEW c
  PROVE  IsSequence(<<c>>) /\ Len(<<c>>) = 1 /\ <<c>>[1] = c /\ Range(<<c>>) = {c}
<1>1. <<c>> \in Seq({c})
  OBVIOUS
<1>2. IsSequence(<<c>>)
  BY <1>1, InSeq
<1>3. Len(<<c>>) = 1 /\ <<c>>[1] = c
  OBVIOUS
<1>4. Range(<<c>>) = {<<c>>[i] : i \in 1..1}
  BY <1>2, <1>3, SequenceFacts
<1> QED
  BY <1>2, <1>3, <1>4

LEMMA PrfFacts ==
  ASSUME NEW key, NEW input
  PROVE  /\ IsSequence(Prf(key, input)) /\ Len(Prf(key, input)) = 2
         /\ \A i \in 1..2 : Prf(key, input)[i] = {<<"hmac", key, input, i>>}
         /\ Range(Prf(key, input)) = {{<<"hmac", key, input, i>>} : i \in 1..2}
<1> DEFINE p == Prf(key, input)
<1>1. /\ p = [i \in 1..2 |-> p[i]]
      /\ \A i \in 1..2 : p[i] = {<<"hmac", key, input, i>>}
  BY DEF Prf, TagLen
<1>2. IsSequence(p) /\ Len(p) = 2
  <2> HIDE DEF p
  <2> QED BY <1>1, FunctionIsSequence
<1>3. Range(p) = {p[i] : i \in 1..2}
  <2> HIDE DEF p
  <2> QED BY <1>2, SequenceFacts
<1> QED
  BY <1>1, <1>2, <1>3

(* No two inputs and no two keys share an HMAC.                            *)
LEMMA PrfInjective ==
  ASSUME NEW key, NEW input, NEW other, NEW text,
         Prf(key, input) = Prf(other, text)
  PROVE  key = other /\ input = text
<1>1. {<<"hmac", key, input, 1>>} = {<<"hmac", other, text, 1>>}
  BY PrfFacts
<1>2. <<"hmac", key, input, 1>> = <<"hmac", other, text, 1>>
  BY <1>1, Zenon
<1> QED
  BY <1>2

KsCell(key, nonce, n, j) == {<<"ks", key, nonce, i, j>> : i \in 1..n}

LEMMA EncryptFacts ==
  ASSUME NEW key, NEW nonce, NEW n, NEW data, IsSequence(data)
  PROVE  /\ IsSequence(Encrypt(key, nonce, n, data))
         /\ Len(Encrypt(key, nonce, n, data)) = Len(data)
         /\ \A j \in 1..Len(data) :
              Encrypt(key, nonce, n, data)[j] = Xor(data[j], KsCell(key, nonce, n, j))
<1> DEFINE p == Encrypt(key, nonce, n, data)
<1>0. Len(data) \in Nat
  BY SequenceFacts
<1>1. /\ p = [i \in 1..Len(data) |-> p[i]]
      /\ \A j \in 1..Len(data) : p[j] = Xor(data[j], KsCell(key, nonce, n, j))
  BY DEF Encrypt, KsCell
<1>2. IsSequence(p) /\ Len(p) = Len(data)
  <2> HIDE DEF p
  <2> QED BY <1>0, <1>1, FunctionIsSequence
<1> QED
  BY <1>1, <1>2

(* XOR undoes itself.                                                      *)
LEMMA XorTwice ==
  ASSUME NEW a, NEW b
  PROVE  Xor(Xor(a, b), b) = a
BY DEF Xor

(* decrypt is encrypt. *)
LEMMA EncryptTwice ==
  ASSUME NEW key, NEW nonce, NEW n, NEW data, IsSequence(data)
  PROVE  Encrypt(key, nonce, n, Encrypt(key, nonce, n, data)) = data
<1> DEFINE c == Encrypt(key, nonce, n, data)
           p == Encrypt(key, nonce, n, c)
<1>1. /\ IsSequence(c) /\ Len(c) = Len(data)
      /\ \A j \in 1..Len(data) : c[j] = Xor(data[j], KsCell(key, nonce, n, j))
  BY EncryptFacts
<1> HIDE DEF c
<1>2. /\ IsSequence(p) /\ Len(p) = Len(c)
      /\ \A j \in 1..Len(c) : p[j] = Xor(c[j], KsCell(key, nonce, n, j))
  BY <1>1, EncryptFacts
<1> HIDE DEF p
<1>3. \A j \in 1..Len(p) : p[j] = data[j]
  BY <1>1, <1>2, XorTwice
<1>4. p = data
  BY <1>1, <1>2, <1>3, SameSequence
<1> QED
  BY <1>4 DEF p, c

-----------------------------------------------------------------------------
(* Blobs of four fields.                                                   *)
LEMMA Glue4 ==
  ASSUME NEW a, NEW b, NEW c, NEW d,
         IsSequence(a), IsSequence(b), IsSequence(c), IsSequence(d),
         Len(a) = 1, Len(b) = 2, Len(d) = 2
  PROVE  /\ IsSequence(a \o b \o c \o d)
         /\ Len(a \o b \o c \o d) = 5 + Len(c)
         /\ Range(a \o b \o c \o d) = Range(a) \cup Range(b) \cup Range(c) \cup Range(d)
         /\ SubSeq(a \o b \o c \o d, 1, 1) = a
         /\ SubSeq(a \o b \o c \o d, 2, 3) = b
         /\ SubSeq(a \o b \o c \o d, 4, Len(a \o b \o c \o d) - 2) = c
         /\ SubSeq(a \o b \o c \o d, Len(a \o b \o c \o d) - 1, Len(a \o b \o c \o d)) = d
<1> DEFINE x == a \o b
           y == x \o c
           z == y \o d
<1>0. Len(c) \in Nat
  BY SequenceFacts
<1>1. /\ IsSequence(x) /\ Len(x) = 3 /\ Range(x) = Range(a) \cup Range(b)
      /\ \A i \in 1..1 : x[i] = a[i]
      /\ \A i \in 1..2 : x[1 + i] = b[i]
  <2>1. /\ IsSequence(x) /\ Len(x) = Len(a) + Len(b) /\ Range(x) = Range(a) \cup Range(b)
        /\ \A i \in 1..Len(a) : x[i] = a[i]
        /\ \A i \in 1..Len(b) : x[Len(a) + i] = b[i]
    BY ONLY IsSequence(a), IsSequence(b), Joined
  <2> HIDE DEF x
  <2> QED BY <2>1
<1> HIDE DEF x
<1>2. /\ IsSequence(y) /\ Len(y) = 3 + Len(c) /\ Range(y) = Range(x) \cup Range(c)
      /\ \A i \in 1..3 : y[i] = x[i]
      /\ \A i \in 1..Len(c) : y[3 + i] = c[i]
  <2>0. IsSequence(x)
    BY <1>1
  <2>1. /\ IsSequence(y) /\ Len(y) = Len(x) + Len(c) /\ Range(y) = Range(x) \cup Range(c)
        /\ \A i \in 1..Len(x) : y[i] = x[i]
        /\ \A i \in 1..Len(c) : y[Len(x) + i] = c[i]
    BY ONLY <2>0, IsSequence(c), Joined
  <2> HIDE DEF y
  <2> QED BY <1>1, <2>1
<1> HIDE DEF y
<1>3. /\ IsSequence(z) /\ Len(z) = 3 + Len(c) + 2 /\ Range(z) = Range(y) \cup Range(d)
      /\ \A i \in 1..3 + Len(c) : z[i] = y[i]
      /\ \A i \in 1..2 : z[3 + Len(c) + i] = d[i]
  <2>1. /\ IsSequence(z) /\ Len(z) = Len(y) + Len(d) /\ Range(z) = Range(y) \cup Range(d)
        /\ \A i \in 1..Len(y) : z[i] = y[i]
        /\ \A i \in 1..Len(d) : z[Len(y) + i] = d[i]
    <3>1. IsSequence(y)
      BY <1>2
    <3> QED BY ONLY <3>1, IsSequence(d), Joined
  <2> HIDE DEF z
  <2> QED BY <1>2, <2>1
<1> HIDE DEF z
<1>4. z[1] = a[1] /\ z[2] = b[1] /\ z[3] = b[2] /\ (\A i \in 1..Len(c) : z[3 + i] = c[i])
      /\ z[4 + Len(c)] = d[1] /\ z[5 + Len(c)] = d[2]
  BY <1>0, <1>1, <1>2, <1>3
<1>5. SubSeq(z, 1, 1) = a
  <2>0. 1 <= Len(z)
    BY <1>0, <1>3
  <2>1. /\ IsSequence(SubSeq(z, 1, 1)) /\ Len(SubSeq(z, 1, 1)) = 1
        /\ \A i \in 1..1 : SubSeq(z, 1, 1)[i] = z[1 + i - 1]
    <3>1. IsSequence(z) /\ 1 \in Nat \ {0} /\ 1 \in Int
      BY <1>3
    <3> QED BY ONLY <2>0, <3>1, Part
  <2>2. \A i \in 1..1 : SubSeq(z, 1, 1)[i] = a[i]
    BY <1>4, <2>1
  <2> QED BY <2>1, <2>2, SameSequence
<1>6. SubSeq(z, 2, 3) = b
  <2>0. 3 <= Len(z)
    BY <1>0, <1>3
  <2>1. /\ IsSequence(SubSeq(z, 2, 3)) /\ Len(SubSeq(z, 2, 3)) = 2
        /\ \A i \in 1..2 : SubSeq(z, 2, 3)[i] = z[2 + i - 1]
    BY <1>3, <2>0, Part
  <2>2. \A i \in 1..2 : SubSeq(z, 2, 3)[i] = b[i]
    BY <1>4, <2>1
  <2> QED BY <2>1, <2>2, SameSequence
<1>7. SubSeq(z, 4, Len(z) - 2) = c
  <2> DEFINE p == SubSeq(z, 4, Len(z) - 2)
  <2>0. Len(z) - 2 \in Int /\ Len(z) - 2 <= Len(z) /\ Len(z) - 2 = 3 + Len(c)
    BY <1>0, <1>3
  <2>1. /\ IsSequence(p) /\ Len(p) = Len(c)
        /\ \A i \in 1..Len(c) : p[i] = z[4 + i - 1]
    <3>1. /\ IsSequence(p) /\ Len(p) = IF 4 <= Len(z) - 2 THEN Len(z) - 2 - 4 + 1 ELSE 0
          /\ \A i \in 1..Len(z) - 2 - 4 + 1 : p[i] = z[4 + i - 1]
      BY <1>3, <2>0, Part
    <3> HIDE DEF p
    <3> QED BY <1>0, <2>0, <3>1
  <2> HIDE DEF p
  <2>2. \A i \in 1..Len(c) : p[i] = c[i]
    BY <1>4, <2>1, <1>0
  <2>3. p = c
    BY <2>1, <2>2, SameSequence
  <2> QED BY <2>3 DEF p
<1>8. SubSeq(z, Len(z) - 1, Len(z)) = d
  <2> DEFINE p == SubSeq(z, Len(z) - 1, Len(z))
  <2>1. /\ IsSequence(p) /\ Len(p) = 2
        /\ \A i \in 1..2 : p[i] = z[Len(z) - 1 + i - 1]
    BY <1>0, <1>3, Part
  <2> HIDE DEF p
  <2>2. \A i \in 1..2 : p[i] = d[i]
    BY <1>4, <2>1, <1>0, <1>3
  <2>3. p = d
    BY <2>1, <2>2, SameSequence
  <2> QED BY <2>3 DEF p
<1> QED
  BY <1>0, <1>1, <1>2, <1>3, <1>5, <1>6, <1>7, <1>8 DEF x, y, z

LEMMA Cut4 ==
  ASSUME NEW z, IsSequence(z), Len(z) >= 5
  PROVE  z = SubSeq(z, 1, 1) \o SubSeq(z, 2, 3) \o SubSeq(z, 4, Len(z) - 2)
               \o SubSeq(z, Len(z) - 1, Len(z))
<1>1. z \in Seq(Range(z)) /\ Len(z) \in Nat
  BY SequenceFacts DEF IsSequence
<1>2. SubSeq(z, 1, 1) \o SubSeq(z, 1 + 1, 3) = SubSeq(z, 1, 3)
  <2>1. 1 \in 1..Len(z) + 1 /\ 1 \in 1 - 1..Len(z) /\ 3 \in 1..Len(z)
    BY <1>1
  <2> QED BY <1>1, <2>1, ConcatAdjacentSubSeq
<1>3. SubSeq(z, 1, 3) \o SubSeq(z, 3 + 1, Len(z) - 2) = SubSeq(z, 1, Len(z) - 2)
  <2>1. 1 \in 1..Len(z) + 1 /\ 3 \in 1 - 1..Len(z) /\ Len(z) - 2 \in 3..Len(z)
    BY <1>1
  <2> QED BY <1>1, <2>1, ConcatAdjacentSubSeq
<1>4. SubSeq(z, 1, Len(z) - 2) \o SubSeq(z, (Len(z) - 2) + 1, Len(z)) = SubSeq(z, 1, Len(z))
  <2>1. 1 \in 1..Len(z) + 1 /\ Len(z) - 2 \in 1 - 1..Len(z) /\ Len(z) \in Len(z) - 2..Len(z)
    BY <1>1
  <2> QED BY <1>1, <2>1, ConcatAdjacentSubSeq
<1>5. SubSeq(z, 1, Len(z)) = z
  BY <1>1, SubSeqFull
<1>6. (Len(z) - 2) + 1 = Len(z) - 1 /\ 1 + 1 = 2 /\ 3 + 1 = 4
  BY <1>1
<1> QED
  BY <1>2, <1>3, <1>4, <1>5, <1>6, Zenon

(* What a caller may ask to be sealed.                                     *)
LEMMA RequestFacts ==
  ASSUME NEW r \in Requests
  PROVE  /\ r.fmt \in Formats /\ r.key \in Keys /\ r.n \in MapCounts
         /\ r.aad \in Seq(Cells) /\ r.nonce \in Seq(Cells) /\ r.inonce \in Seq(Cells)
         /\ r.chunks \in Seq(Seq(Cells)) /\ r.alg \in Cells
         /\ IsSequence(r.aad) /\ IsSequence(r.nonce) /\ IsSequence(r.inonce)
         /\ IsSequence(r.chunks)
         /\ r.fmt # "stream" => r.chunks[1] \in Seq(Cells) /\ IsSequence(r.chunks[1])
         /\ r.kat => Len(r.nonce) = NonceLen
<1>1. r \in Request
  BY RequestsAssumption
<1>2. /\ r.fmt \in Formats /\ r.key \in Keys /\ r.n \in MapCounts
      /\ r.aad \in Seq(Cells) /\ r.nonce \in Seq(Cells) /\ r.inonce \in Seq(Cells)
      /\ r.chunks \in Seq(Seq(Cells)) /\ r.alg \in Cells
  BY <1>1 DEF Request
<1>3. IsSequence(r.aad) /\ IsSequence(r.nonce) /\ IsSequence(r.inonce) /\ IsSequence(r.chunks)
  BY <1>2, InSeq
<1>4. r.fmt # "stream" => r.chunks[1] \in Seq(Cells)
  <2>1. r.fmt # "stream" => r.chunks # <<>>
    BY RequestsAssumption
  <2>2. r.chunks # <<>> => 1 \in 1..Len(r.chunks)
    <3> DEFINE c == r.chunks
    <3>1. c \in Seq(Seq(Cells))
      BY <1>2
    <3> HIDE DEF c
    <3>2. c # <<>> => Len(c) \in Nat \ {0}
      BY <3>1, EmptySeq
    <3>3. c # <<>> => 1 \in 1..Len(c)
      BY <3>2
    <3> QED BY <3>3 DEF c
  <2> QED BY <1>2, <2>1, <2>2, ElementOfSeq
<1>5. r.fmt # "stream" => IsSequence(r.chunks[1])
  BY <1>4, InSeq
<1> QED
  BY <1>2, <1>3, <1>4, <1>5, RequestsAssumption

-----------------------------------------------------------------------------
(* What each sealer puts on the wire, whichever port it is. *)

AeadBlob(key, pt, aad, n, nonce) ==
  LET ct     == Encrypt(key, nonce, n, pt)
      commit == KeyCommitment(key, nonce, aad)
  IN  SubSeq(nonce, 1, NonceLen) \o commit \o ct \o AeadTag(key, nonce, commit, aad, ct)

Vault(r) == InnerBlob(DeriveKeys(r.key), r, SubSeq(r.inonce, 1, InnerLen))

StreamBlob(r) ==
  SubSeq(r.nonce, 1, NonceLen) \o KeyCommitment(r.key, r.nonce, r.aad)
    \o FlattenSeq([i \in DOMAIN Frames(r) |-> Prefixed(Frames(r)[i])])

Genuine(s) ==
  /\ s.r \in Requests /\ s.n \in MapCounts
  /\ s.r.fmt # "siv" => Len(s.r.nonce) >= NonceLen
  /\ s.r.fmt \in {"aead", "stream"} => s.n = s.r.n
  /\ s.r.fmt = "aead" =>
       s.blob = AeadBlob(s.r.key, s.r.chunks[1], s.r.aad, s.n, s.r.nonce)
  /\ s.r.fmt = "siv" => s.blob = SealSiv(s.r.key, s.r.chunks[1], s.r.aad, s.n).out
  /\ s.r.fmt = "twolock" =>
       /\ s.r.alg \in Algs /\ Len(s.r.inonce) >= InnerLen
       /\ s.blob = AeadBlob(DeriveKeys(s.r.key).outer, Vault(s.r), s.r.aad, s.n, s.r.nonce)
  /\ s.r.fmt = "stream" => s.blob = StreamBlob(s.r)

LEMMA Whole ==
  ASSUME NEW x, IsSequence(x), NEW k, Len(x) = k
  PROVE  SubSeq(x, 1, k) = x
<1>1. x \in Seq(Range(x))
  BY DEF IsSequence
<1> QED
  BY <1>1, SubSeqFull

LEMMA AeadSealed ==
  ASSUME NEW key, NEW pt, NEW aad, NEW n, NEW nonce, IsSequence(nonce)
  PROVE  /\ SealAead(key, pt, aad, n, nonce).ok =>
              /\ Len(nonce) >= NonceLen
              /\ SealAead(key, pt, aad, n, nonce).out = AeadBlob(key, pt, aad, n, nonce)
         /\ SealAeadRs(key, pt, aad, n, nonce).ok =>
              /\ Len(nonce) >= NonceLen
              /\ SealAeadRs(key, pt, aad, n, nonce).out = AeadBlob(key, pt, aad, n, nonce)
<1>0. Len(nonce) \in Nat /\ NonceLen \in Nat
  BY SequenceFacts DEF NonceLen
<1> DEFINE B == AeadBlob(key, pt, aad, n, nonce)
<1>1. Len(nonce) = NonceLen => SealAead(key, pt, aad, n, nonce) = Ok(B)
  <2> SUFFICES ASSUME Len(nonce) = NonceLen PROVE SealAead(key, pt, aad, n, nonce) = Ok(B)
    OBVIOUS
  <2>1. SubSeq(nonce, 1, NonceLen) = nonce
    BY Whole
  <2> QED BY <2>1, Zenon DEF SealAead, AeadBlob
<1>2. Len(nonce) # NonceLen => SealAead(key, pt, aad, n, nonce) = Refused
  BY Zenon DEF SealAead
<1>3. ~ Len(nonce) < NonceLen => SealAeadRs(key, pt, aad, n, nonce) = Ok(B)
  BY Zenon DEF SealAeadRs, AeadBlob
<1>4. Len(nonce) < NonceLen => SealAeadRs(key, pt, aad, n, nonce) = Refused
  BY Zenon DEF SealAeadRs
<1> HIDE DEF B
<1>5. Ok(B).out = B /\ ~Refused.ok
  BY DEF Ok, Refused
<1>6. SealAead(key, pt, aad, n, nonce).ok =>
              /\ Len(nonce) >= NonceLen
              /\ SealAead(key, pt, aad, n, nonce).out = B
  BY <1>0, <1>1, <1>2, <1>5
<1>7. SealAeadRs(key, pt, aad, n, nonce).ok =>
              /\ Len(nonce) >= NonceLen
              /\ SealAeadRs(key, pt, aad, n, nonce).out = B
  BY <1>0, <1>3, <1>4, <1>5
<1> QED BY <1>6, <1>7 DEF B

LEMMA StreamSealed ==
  ASSUME NEW r, IsSequence(r.nonce)
  PROVE  /\ SealStream(r).ok =>
              Len(r.nonce) >= NonceLen /\ SealStream(r).out = StreamBlob(r)
         /\ SealStreamRs(r).ok =>
              Len(r.nonce) >= NonceLen /\ SealStreamRs(r).out = StreamBlob(r)
<1>0. Len(r.nonce) \in Nat /\ NonceLen \in Nat
  BY SequenceFacts DEF NonceLen
<1> DEFINE B == StreamBlob(r)
           over == \E i \in DOMAIN Frames(r) : Len(Frames(r)[i]) >= LenLimit
<1>1. Len(r.nonce) = NonceLen /\ ~over => SealStream(r) = Ok(B)
  <2> SUFFICES ASSUME Len(r.nonce) = NonceLen, ~over PROVE SealStream(r) = Ok(B)
    BY Zenon
  <2>1. SubSeq(r.nonce, 1, NonceLen) = r.nonce
    BY Whole
  <2> QED BY <2>1, Zenon DEF SealStream, StreamBlob
<1>2. ~(Len(r.nonce) = NonceLen /\ ~over) => SealStream(r) = Refused
  BY Zenon DEF SealStream
<1>3. ~ Len(r.nonce) < NonceLen => SealStreamRs(r) = Ok(B)
  BY Zenon DEF SealStreamRs, StreamBlob
<1>4. Len(r.nonce) < NonceLen => SealStreamRs(r) = Refused
  BY Zenon DEF SealStreamRs
<1> HIDE DEF B, over
<1>5. Ok(B).out = B /\ ~Refused.ok
  BY DEF Ok, Refused
<1>6. SealStream(r).ok => Len(r.nonce) >= NonceLen /\ SealStream(r).out = B
  BY <1>0, <1>1, <1>2, <1>5
<1>7. SealStreamRs(r).ok => Len(r.nonce) >= NonceLen /\ SealStreamRs(r).out = B
  BY <1>0, <1>3, <1>4, <1>5
<1> QED BY <1>6, <1>7 DEF B

LEMMA TwolockSealed ==
  ASSUME NEW r, IsSequence(r.nonce), IsSequence(r.inonce)
  PROVE  /\ SealTwolock(r).ok =>
              /\ r.alg \in Algs /\ Len(r.inonce) >= InnerLen /\ Len(r.nonce) >= NonceLen
              /\ SealTwolock(r).out =
                   AeadBlob(DeriveKeys(r.key).outer, Vault(r), r.aad, DefaultMaps, r.nonce)
         /\ SealTwolockRs(r).ok =>
              /\ r.alg \in Algs /\ Len(r.inonce) >= InnerLen /\ Len(r.nonce) >= NonceLen
              /\ SealTwolockRs(r).out =
                   AeadBlob(DeriveKeys(r.key).outer, Vault(r), r.aad, r.n, r.nonce)
<1>0. Len(r.inonce) \in Nat /\ InnerLen \in Nat
  BY SequenceFacts DEF InnerLen
<1> DEFINE K == DeriveKeys(r.key).outer
           py == SealAead(K, Vault(r), r.aad, DefaultMaps, r.nonce)
           rs == SealAeadRs(K, Vault(r), r.aad, r.n, r.nonce)
<1>1. r.alg \in Algs /\ Len(r.inonce) = InnerLen => SealTwolock(r) = py
  <2> SUFFICES ASSUME r.alg \in Algs, Len(r.inonce) = InnerLen PROVE SealTwolock(r) = py
    BY Zenon
  <2>1. SubSeq(r.inonce, 1, InnerLen) = r.inonce
    BY Whole
  <2> QED BY <2>1, Zenon DEF SealTwolock, Vault
<1>2. ~(r.alg \in Algs /\ Len(r.inonce) = InnerLen) => SealTwolock(r) = Refused
  BY Zenon DEF SealTwolock
<1>3. r.alg \in Algs /\ ~ Len(r.inonce) < InnerLen => SealTwolockRs(r) = rs
  BY Zenon DEF SealTwolockRs, Vault
<1>4. ~(r.alg \in Algs /\ ~ Len(r.inonce) < InnerLen) => SealTwolockRs(r) = Refused
  BY Zenon DEF SealTwolockRs
<1>5. ~Refused.ok
  BY DEF Refused
<1>6. /\ py.ok => Len(r.nonce) >= NonceLen /\ py.out = AeadBlob(K, Vault(r), r.aad, DefaultMaps, r.nonce)
      /\ rs.ok => Len(r.nonce) >= NonceLen /\ rs.out = AeadBlob(K, Vault(r), r.aad, r.n, r.nonce)
  BY AeadSealed
<1> HIDE DEF py, rs
<1> QED BY <1>0, <1>1, <1>2, <1>3, <1>4, <1>5, <1>6

(* Whatever Seal adds, by either port or by the assembly of the vectors,   *)
(* is the blob that Genuine describes.                                     *)
LEMMA SealIsGenuine ==
  ASSUME NEW port \in Ports \cup {"kat"}, NEW r \in Requests,
         port = "kat" => r.kat, SealBy(port, r).ok
  PROVE  Genuine([r |-> r, n |-> MapsUsed(port, r), blob |-> SealBy(port, r).out])
<1> DEFINE n == MapsUsed(port, r)
           b == SealBy(port, r).out
           s == [r |-> r, n |-> n, blob |-> b]
<1>0. s.r = r /\ s.n = n /\ s.blob = b
  OBVIOUS
<1>1. port \in {"py", "rs", "kat"} /\ r.fmt \in {"aead", "siv", "twolock", "stream"}
  BY RequestFacts DEF Ports, Formats
<1>2. n \in MapCounts
  BY RequestFacts, RequestsAssumption DEF MapsUsed
<1>3. /\ r.fmt \in {"aead", "stream"} => n = r.n
      /\ r.fmt = "siv" => n = IF port = "kat" THEN DefaultMaps ELSE r.n
      /\ r.fmt = "twolock" => n = IF port # "rs" THEN DefaultMaps ELSE r.n
  BY <1>1 DEF MapsUsed
<1>4. IsSequence(r.nonce) /\ IsSequence(r.inonce) /\ (r.kat => Len(r.nonce) = NonceLen)
  BY RequestFacts
<1> HIDE DEF s, n
<1>5. CASE r.fmt = "aead"
  <2>1. /\ port = "py" => SealBy(port, r) = SealAead(r.key, r.chunks[1], r.aad, r.n, r.nonce)
        /\ port = "rs" => SealBy(port, r) = SealAeadRs(r.key, r.chunks[1], r.aad, r.n, r.nonce)
        /\ port = "kat" => SealBy(port, r) = KatAead(r)
    BY <1>5 DEF SealBy
  <2>2. port = "kat" => KatAead(r) = Ok(AeadBlob(r.key, r.chunks[1], r.aad, r.n, r.nonce))
    <3> SUFFICES ASSUME Len(r.nonce) = NonceLen
                 PROVE  KatAead(r) = Ok(AeadBlob(r.key, r.chunks[1], r.aad, r.n, r.nonce))
      BY <1>4, Zenon
    <3>1. SubSeq(r.nonce, 1, NonceLen) = r.nonce
      BY <1>4, Whole
    <3> QED BY <3>1, Zenon DEF KatAead, AeadBlob
  <2>3. \A x : Ok(x).out = x
    BY DEF Ok
  <2>4. Len(r.nonce) >= NonceLen /\ b = AeadBlob(r.key, r.chunks[1], r.aad, r.n, r.nonce)
    <3>1. CASE port = "kat"
      <4>1. Len(r.nonce) >= NonceLen
        BY <1>4, <3>1 DEF NonceLen
      <4> QED BY <2>1, <2>2, <2>3, <3>1, <4>1, Zenon
    <3>2. CASE port = "py"
      <4>1. SealBy(port, r) = SealAead(r.key, r.chunks[1], r.aad, r.n, r.nonce)
        BY <2>1, <3>2
      <4>2. SealAead(r.key, r.chunks[1], r.aad, r.n, r.nonce).ok
        BY <4>1, Zenon
      <4>3. /\ Len(r.nonce) >= NonceLen
            /\ SealAead(r.key, r.chunks[1], r.aad, r.n, r.nonce).out
                 = AeadBlob(r.key, r.chunks[1], r.aad, r.n, r.nonce)
        BY <4>2, <1>4, AeadSealed
      <4> QED BY <4>1, <4>3, Zenon
    <3>3. CASE port = "rs"
      <4>1. SealBy(port, r) = SealAeadRs(r.key, r.chunks[1], r.aad, r.n, r.nonce)
        BY <2>1, <3>3
      <4>2. SealAeadRs(r.key, r.chunks[1], r.aad, r.n, r.nonce).ok
        BY <4>1, Zenon
      <4>3. /\ Len(r.nonce) >= NonceLen
            /\ SealAeadRs(r.key, r.chunks[1], r.aad, r.n, r.nonce).out
                 = AeadBlob(r.key, r.chunks[1], r.aad, r.n, r.nonce)
        BY <4>2, <1>4, AeadSealed
      <4> QED BY <4>1, <4>3, Zenon
    <3> QED BY <1>1, <3>1, <3>2, <3>3
  <2> HIDE DEF b
  <2>5. Genuine(s)
    BY <1>0, <1>2, <1>3, <1>5, <2>4 DEF Genuine
  <2> QED BY <2>5 DEF s, b, n
<1>6. CASE r.fmt = "siv"
  <2>1. SealBy(port, r) = SealSiv(r.key, r.chunks[1], r.aad, n)
    <3>1. port = "kat" => SealBy(port, r) = KatSiv(r)
      BY <1>6 DEF SealBy
    <3>2. port # "kat" => SealBy(port, r) = SealSiv(r.key, r.chunks[1], r.aad, r.n)
      BY <1>6 DEF SealBy
    <3>3. n = IF port = "kat" THEN DefaultMaps ELSE r.n
      BY <1>3, <1>6
    <3> QED BY <3>1, <3>2, <3>3, Zenon DEF KatSiv
  <2>2. b = SealSiv(r.key, r.chunks[1], r.aad, n).out
    BY <2>1, Zenon
  <2> HIDE DEF b
  <2>5. Genuine(s)
    BY <1>0, <1>2, <1>3, <1>6, <2>2 DEF Genuine
  <2> QED BY <2>5 DEF s, b, n
<1>7. CASE r.fmt = "twolock"
  <2>1. /\ port = "rs" => SealBy(port, r) = SealTwolockRs(r)
        /\ port # "rs" => SealBy(port, r) = SealTwolock(r)
    <3>1. /\ port = "py" => SealBy(port, r) = SealTwolock(r)
          /\ port = "rs" => SealBy(port, r) = SealTwolockRs(r)
          /\ port = "kat" => SealBy(port, r) = KatTwolock(r)
      BY <1>7 DEF SealBy
    <3> QED BY <1>1, <3>1, Zenon DEF KatTwolock
  <2>2. /\ r.alg \in Algs /\ Len(r.inonce) >= InnerLen /\ Len(r.nonce) >= NonceLen
        /\ b = AeadBlob(DeriveKeys(r.key).outer, Vault(r), r.aad, n, r.nonce)
    <3>1. CASE port = "rs"
      <4>1. n = r.n
        BY <1>3, <1>7, <3>1
      <4> QED BY <2>1, <3>1, <4>1, <1>4, TwolockSealed, Zenon
    <3>2. CASE port # "rs"
      <4>1. n = DefaultMaps
        BY <1>3, <1>7, <3>2
      <4> QED BY <2>1, <3>2, <4>1, <1>4, TwolockSealed, Zenon
    <3> QED BY <3>1, <3>2
  <2> HIDE DEF b
  <2>5. Genuine(s)
    BY <1>0, <1>2, <1>3, <1>7, <2>2 DEF Genuine
  <2> QED BY <2>5 DEF s, b, n
<1>8. CASE r.fmt = "stream"
  <2>1. /\ port = "rs" => SealBy(port, r) = SealStreamRs(r)
        /\ port # "rs" => SealBy(port, r) = SealStream(r)
    <3>1. /\ port = "py" => SealBy(port, r) = SealStream(r)
          /\ port = "rs" => SealBy(port, r) = SealStreamRs(r)
          /\ port = "kat" => SealBy(port, r) = KatStream(r)
      BY <1>8 DEF SealBy
    <3> QED BY <1>1, <3>1, Zenon DEF KatStream
  <2>2. Len(r.nonce) >= NonceLen /\ b = StreamBlob(r)
    BY <2>1, <1>4, StreamSealed, Zenon
  <2> HIDE DEF b
  <2>5. Genuine(s)
    BY <1>0, <1>2, <1>3, <1>8, <2>2 DEF Genuine
  <2> QED BY <2>5 DEF s, b, n
<1> QED
  BY <1>1, <1>5, <1>6, <1>7, <1>8

LEMMA ConstantsKnown ==
  NonceLen = 1 /\ TagLen = 2 /\ HeaderLen = 3 /\ LenBytes = 1 /\ InnerLen = 1
BY DEF NonceLen, TagLen, HeaderLen, LenBytes, InnerLen

LEMMA NonceCell ==
  ASSUME NEW nonce, IsSequence(nonce), Len(nonce) >= NonceLen
  PROVE  /\ IsSequence(SubSeq(nonce, 1, NonceLen)) /\ Len(SubSeq(nonce, 1, NonceLen)) = 1
         /\ SubSeq(nonce, 1, NonceLen)[1] = nonce[1]
         /\ Range(SubSeq(nonce, 1, NonceLen)) \subseteq Range(nonce)
<1>1. Len(nonce) \in Nat /\ 1 <= Len(nonce) /\ NonceLen = 1
  BY SequenceFacts DEF NonceLen
<1>2. /\ IsSequence(SubSeq(nonce, 1, 1))
      /\ Len(SubSeq(nonce, 1, 1)) = IF 1 <= 1 THEN 1 - 1 + 1 ELSE 0
      /\ \A i \in 1..1 - 1 + 1 : SubSeq(nonce, 1, 1)[i] = nonce[1 + i - 1]
      /\ Range(SubSeq(nonce, 1, 1)) \subseteq Range(nonce)
  BY <1>1, Part
<1> QED
  BY <1>1, <1>2

LEMMA AeadBlobFacts ==
  ASSUME NEW key, NEW pt, NEW aad, NEW n, NEW nonce,
         IsSequence(pt), IsSequence(nonce), Len(nonce) >= NonceLen,
         NEW b, b = AeadBlob(key, pt, aad, n, nonce)
  PROVE  LET ct     == Encrypt(key, nonce, n, pt)
             commit == KeyCommitment(key, nonce, aad)
             tag    == AeadTag(key, nonce, commit, aad, ct)
         IN  /\ IsSequence(b) /\ Len(b) = 5 + Len(pt)
             /\ SubSeq(b, 1, 1) = SubSeq(nonce, 1, 1)
             /\ SubSeq(b, 2, 3) = commit
             /\ SubSeq(b, 4, Len(b) - 2) = ct
             /\ SubSeq(b, Len(b) - 1, Len(b)) = tag
             /\ Range(b) = Range(SubSeq(nonce, 1, 1)) \cup Range(commit) \cup Range(ct) \cup Range(tag)
<1> DEFINE ct     == Encrypt(key, nonce, n, pt)
           commit == KeyCommitment(key, nonce, aad)
           tag    == AeadTag(key, nonce, commit, aad, ct)
           first  == SubSeq(nonce, 1, 1)
<1>1. IsSequence(first) /\ Len(first) = 1
  BY NonceCell, ConstantsKnown
<1>2. IsSequence(commit) /\ Len(commit) = 2
  BY PrfFacts DEF KeyCommitment
<1>3. IsSequence(tag) /\ Len(tag) = 2
  BY PrfFacts DEF AeadTag
<1>4. IsSequence(ct) /\ Len(ct) = Len(pt)
  BY EncryptFacts
<1>5. b = first \o commit \o ct \o tag
  BY ConstantsKnown, Zenon DEF AeadBlob
<1> HIDE DEF ct, commit, tag, first
<1>6. /\ IsSequence(b) /\ Len(b) = 5 + Len(ct)
      /\ Range(b) = Range(first) \cup Range(commit) \cup Range(ct) \cup Range(tag)
      /\ SubSeq(b, 1, 1) = first
      /\ SubSeq(b, 2, 3) = commit
      /\ SubSeq(b, 4, Len(b) - 2) = ct
      /\ SubSeq(b, Len(b) - 1, Len(b)) = tag
  <2> DEFINE e == first \o commit \o ct \o tag
  <2>1. /\ IsSequence(e) /\ Len(e) = 5 + Len(ct)
        /\ Range(e) = Range(first) \cup Range(commit) \cup Range(ct) \cup Range(tag)
        /\ SubSeq(e, 1, 1) = first
        /\ SubSeq(e, 2, 3) = commit
        /\ SubSeq(e, 4, Len(e) - 2) = ct
        /\ SubSeq(e, Len(e) - 1, Len(e)) = tag
    BY ONLY <1>1, <1>2, <1>3, <1>4, Glue4
  <2>2. b = e
    BY <1>5
  <2> HIDE DEF e
  <2> QED BY <2>1, <2>2
<1> QED
  BY <1>4, <1>6 DEF ct, commit, tag, first

LEMMA Glue3 ==
  ASSUME NEW a, NEW b, NEW c, IsSequence(a), IsSequence(b), IsSequence(c),
         Len(a) = 2, Len(b) = 2
  PROVE  /\ IsSequence(a \o b \o c)
         /\ Len(a \o b \o c) = 4 + Len(c)
         /\ Range(a \o b \o c) = Range(a) \cup Range(b) \cup Range(c)
         /\ SubSeq(a \o b \o c, 1, 2) = a
         /\ SubSeq(a \o b \o c, 3, 4) = b
         /\ SubSeq(a \o b \o c, 5, Len(a \o b \o c)) = c
<1> DEFINE x == a \o b
           z == x \o c
<1>0. Len(c) \in Nat
  BY SequenceFacts
<1>1. /\ IsSequence(x) /\ Len(x) = 4 /\ Range(x) = Range(a) \cup Range(b)
      /\ \A i \in 1..2 : x[i] = a[i]
      /\ \A i \in 1..2 : x[2 + i] = b[i]
  <2>1. /\ IsSequence(x) /\ Len(x) = Len(a) + Len(b) /\ Range(x) = Range(a) \cup Range(b)
        /\ \A i \in 1..Len(a) : x[i] = a[i]
        /\ \A i \in 1..Len(b) : x[Len(a) + i] = b[i]
    BY ONLY IsSequence(a), IsSequence(b), Joined
  <2> HIDE DEF x
  <2> QED BY <2>1
<1> HIDE DEF x
<1>2. /\ SubSeq(z, 1, Len(x)) = x /\ SubSeq(z, Len(x) + 1, Len(z)) = c
      /\ IsSequence(z) /\ Len(z) = Len(x) + Len(c) /\ Range(z) = Range(x) \cup Range(c)
      /\ \A i \in 1..Len(x) : z[i] = x[i]
  <2>1. IsSequence(x)
    BY <1>1
  <2> QED BY ONLY <2>1, IsSequence(c), CutJoined, Joined
<1> HIDE DEF z
<1>3. SubSeq(z, 1, 2) = a
  <2>0. 2 <= Len(z)
    BY <1>0, <1>1, <1>2
  <2>1. /\ IsSequence(SubSeq(z, 1, 2)) /\ Len(SubSeq(z, 1, 2)) = 2
        /\ \A i \in 1..2 : SubSeq(z, 1, 2)[i] = z[1 + i - 1]
    BY <1>2, <2>0, Part
  <2>2. \A i \in 1..2 : SubSeq(z, 1, 2)[i] = a[i]
    BY <1>1, <1>2, <2>1
  <2> QED BY <2>1, <2>2, SameSequence
<1>4. SubSeq(z, 3, 4) = b
  <2>0. 4 <= Len(z)
    BY <1>0, <1>1, <1>2
  <2>1. /\ IsSequence(SubSeq(z, 3, 4)) /\ Len(SubSeq(z, 3, 4)) = 2
        /\ \A i \in 1..2 : SubSeq(z, 3, 4)[i] = z[3 + i - 1]
    BY <1>2, <2>0, Part
  <2>2. \A i \in 1..2 : SubSeq(z, 3, 4)[i] = b[i]
    <3>1. \A i \in 1..2 : 3 + i - 1 = 2 + i /\ 2 + i \in 1..4
      OBVIOUS
    <3> QED BY <1>1, <1>2, <2>1, <3>1
  <2> QED BY <2>1, <2>2, SameSequence
<1>5. SubSeq(z, 5, Len(z)) = c /\ Len(z) = 4 + Len(c)
  BY <1>1, <1>2
<1>6. Range(z) = Range(a) \cup Range(b) \cup Range(c)
  BY <1>1, <1>2
<1> QED
  BY <1>2, <1>3, <1>4, <1>5, <1>6 DEF x, z

LEMMA SivBlobFacts ==
  ASSUME NEW key, NEW pt, NEW aad, NEW n, IsSequence(pt),
         NEW b, b = SealSiv(key, pt, aad, n).out
  PROVE  LET siv    == SynthesiseIv(key, aad, pt)
             commit == KeyCommitment(key, siv, aad)
             ct     == Encrypt(key, siv, n, pt)
         IN  /\ IsSequence(b) /\ Len(b) = 4 + Len(pt)
             /\ SubSeq(b, 1, 2) = commit
             /\ SubSeq(b, 3, 4) = siv
             /\ SubSeq(b, 5, Len(b)) = ct
             /\ Range(b) = Range(commit) \cup Range(siv) \cup Range(ct)
<1> DEFINE siv    == SynthesiseIv(key, aad, pt)
           commit == KeyCommitment(key, siv, aad)
           ct     == Encrypt(key, siv, n, pt)
<1>1. IsSequence(siv) /\ Len(siv) = 2
  BY PrfFacts DEF SynthesiseIv
<1>2. IsSequence(commit) /\ Len(commit) = 2
  BY PrfFacts DEF KeyCommitment
<1>3. IsSequence(ct) /\ Len(ct) = Len(pt)
  BY EncryptFacts
<1>4. b = commit \o siv \o ct
  <2>1. SealSiv(key, pt, aad, n) = Ok(commit \o siv \o ct)
    BY Zenon DEF SealSiv
  <2>2. \A x : Ok(x).out = x
    BY DEF Ok
  <2> QED BY <2>1, <2>2, Zenon
<1> HIDE DEF ct, commit, siv
<1>5. /\ IsSequence(b) /\ Len(b) = 4 + Len(ct)
      /\ SubSeq(b, 1, 2) = commit
      /\ SubSeq(b, 3, 4) = siv
      /\ SubSeq(b, 5, Len(b)) = ct
      /\ Range(b) = Range(commit) \cup Range(siv) \cup Range(ct)
  <2> DEFINE e == commit \o siv \o ct
  <2>1. /\ IsSequence(e) /\ Len(e) = 4 + Len(ct)
        /\ SubSeq(e, 1, 2) = commit
        /\ SubSeq(e, 3, 4) = siv
        /\ SubSeq(e, 5, Len(e)) = ct
        /\ Range(e) = Range(commit) \cup Range(siv) \cup Range(ct)
    BY ONLY <1>1, <1>2, <1>3, Glue3
  <2>2. b = e
    BY <1>4
  <2> HIDE DEF e
  <2> QED BY <2>1, <2>2
<1> QED
  BY <1>3, <1>5 DEF ct, commit, siv

VaultCell(alg, key, nonce, j) == {<<"vault", alg, key, nonce, j>>}

LEMMA VaultXorFacts ==
  ASSUME NEW alg, NEW key, NEW nonce, NEW data, IsSequence(data)
  PROVE  /\ IsSequence(VaultXor(alg, key, nonce, data))
         /\ Len(VaultXor(alg, key, nonce, data)) = Len(data)
         /\ \A j \in 1..Len(data) :
              VaultXor(alg, key, nonce, data)[j] = Xor(data[j], VaultCell(alg, key, nonce, j))
<1> DEFINE p == VaultXor(alg, key, nonce, data)
<1>0. Len(data) \in Nat
  BY SequenceFacts
<1>1. /\ p = [i \in 1..Len(data) |-> p[i]]
      /\ \A j \in 1..Len(data) : p[j] = Xor(data[j], VaultCell(alg, key, nonce, j))
  BY DEF VaultXor, VaultCell
<1>2. IsSequence(p) /\ Len(p) = Len(data)
  <2> HIDE DEF p
  <2> QED BY <1>0, <1>1, FunctionIsSequence
<1> QED
  BY <1>1, <1>2

LEMMA VaultXorTwice ==
  ASSUME NEW alg, NEW key, NEW nonce, NEW data, IsSequence(data)
  PROVE  VaultXor(alg, key, nonce, VaultXor(alg, key, nonce, data)) = data
<1> DEFINE c == VaultXor(alg, key, nonce, data)
           p == VaultXor(alg, key, nonce, c)
<1>1. /\ IsSequence(c) /\ Len(c) = Len(data)
      /\ \A j \in 1..Len(data) : c[j] = Xor(data[j], VaultCell(alg, key, nonce, j))
  BY VaultXorFacts
<1> HIDE DEF c
<1>2. /\ IsSequence(p) /\ Len(p) = Len(c)
      /\ \A j \in 1..Len(c) : p[j] = Xor(c[j], VaultCell(alg, key, nonce, j))
  BY <1>1, VaultXorFacts
<1> HIDE DEF p
<1>3. \A j \in 1..Len(p) : p[j] = data[j]
  BY <1>1, <1>2, XorTwice
<1>4. p = data
  BY <1>1, <1>2, <1>3, SameSequence
<1> QED
  BY <1>4 DEF p, c

LEMMA Appended ==
  ASSUME NEW x, IsSequence(x), NEW e
  PROVE  /\ Append(x, e) = x \o <<e>>
         /\ IsSequence(Append(x, e)) /\ Len(Append(x, e)) = Len(x) + 1
         /\ Append(x, e) # <<>>
         /\ Last(Append(x, e)) = e
         /\ Front(Append(x, e)) = x
         /\ Range(Append(x, e)) = Range(x) \cup {e}
<1> DEFINE y == Append(x, e)
           S == Range(x) \cup {e}
<1>0. Len(x) \in Nat /\ Range(x) = {x[i] : i \in 1..Len(x)}
  BY SequenceFacts
<1>1. x \in Seq(S) /\ e \in S
  <2>1. x \in Seq(Range(x)) /\ Range(x) \subseteq S
    BY DEF IsSequence
  <2> QED BY <2>1, SeqMonotonic
<1>2. /\ y \in Seq(S) /\ Len(y) = Len(x) + 1
      /\ \A i \in 1..Len(x) : y[i] = x[i]
      /\ y[Len(x) + 1] = e
  <2> HIDE DEF S
  <2> QED BY <1>1
<1>3. IsSequence(y)
  BY <1>2, InSeq
<1> HIDE DEF y
<1>4. y = x \o <<e>>
  <2> DEFINE o == <<e>>
             z == x \o o
  <2>1. IsSequence(o) /\ Len(o) = 1 /\ o[1] = e
    BY One
  <2> HIDE DEF o
  <2>2. /\ IsSequence(z) /\ Len(z) = Len(x) + Len(o)
        /\ \A i \in 1..Len(x) : z[i] = x[i]
        /\ \A i \in 1..Len(o) : z[Len(x) + i] = o[i]
    <3>1. IsSequence(o)
      BY <2>1
    <3> QED BY ONLY <3>1, IsSequence(x), Joined
  <2> HIDE DEF z
  <2>3. z[Len(x) + 1] = e
    BY <2>1, <2>2
  <2>4. \A i \in 1..Len(y) : y[i] = z[i]
    BY <1>0, <1>2, <2>2, <2>3
  <2>5. y = z
    BY <1>2, <1>3, <2>1, <2>2, <2>4, SameSequence
  <2> QED BY <2>5 DEF o, z
<1>5. y # <<>>
  BY <1>0, <1>2
<1>6. Last(y) = e
  BY <1>2 DEF Last
<1>7. Front(y) = x
  <2>0. Len(y) - 1 = Len(x) /\ Len(x) <= Len(y) /\ Len(x) \in Int
    BY <1>0, <1>2
  <2>1. /\ IsSequence(SubSeq(y, 1, Len(x)))
        /\ Len(SubSeq(y, 1, Len(x))) = IF 1 <= Len(x) THEN Len(x) - 1 + 1 ELSE 0
        /\ \A i \in 1..Len(x) - 1 + 1 : SubSeq(y, 1, Len(x))[i] = y[1 + i - 1]
    BY <1>3, <2>0, Part
  <2> DEFINE p == SubSeq(y, 1, Len(x))
  <2>2. IsSequence(p) /\ Len(p) = Len(x) /\ \A i \in 1..Len(p) : p[i] = x[i]
    <3> HIDE DEF p
    <3> QED BY <1>0, <1>2, <2>1 DEF p
  <2> HIDE DEF p
  <2>3. p = x
    BY <2>2, SameSequence
  <2> QED BY <2>0, <2>3 DEF Front, p
<1>8. Range(y) = Range(x) \cup {e}
  BY <1>4, One, Joined
<1> QED
  BY <1>2, <1>3, <1>4, <1>5, <1>6, <1>7, <1>8 DEF y

Flattening(ss, F) == F = [i \in 1..Len(ss) |-> IF i = 1 THEN ss[i] ELSE F[i-1] \o ss[i]]

(* The bytes of a list of frames, one after the other.                     *)
LEMMA FlattenDef ==
  ASSUME NEW ss, NEW n \in Nat \ {0}, Len(ss) = n
  PROVE  \E F : Flattening(ss, F) /\ FlattenSeq(ss) = F[n]
<1> DEFINE P(k, g) == g = [i \in 1..k |-> IF i = 1 THEN ss[i] ELSE g[i-1] \o ss[i]]
           S == {k \in Nat : \E g : P(k, g)}
<1>1. 0 \in S
  <2> DEFINE e == [i \in 1..0 |-> 0]
             e2 == [i \in 1..0 |-> IF i = 1 THEN ss[i] ELSE e[i-1] \o ss[i]]
  <2>1. e = e2
    <3>1. \A i \in 1..0 : e[i] = e2[i]
      OBVIOUS
    <3> QED BY <3>1
  <2> HIDE DEF e
  <2>2. P(0, e)
    <3>1. P(0, e) <=> e = e2
      BY Zenon
    <3> QED BY <2>1, <3>1
  <2> HIDE DEF P
  <2> QED BY <2>2
<1>2. ASSUME NEW k \in Nat, k \in S PROVE k + 1 \in S
  <2>1. PICK g : P(k, g)
    BY <1>2
  <2> DEFINE h == [i \in 1..k+1 |-> IF i <= k THEN g[i] ELSE IF i = 1 THEN ss[i] ELSE g[i-1] \o ss[i]]
             h2 == [i \in 1..k+1 |-> IF i = 1 THEN ss[i] ELSE h[i-1] \o ss[i]]
  <2>2. \A i \in 1..k+1 : h[i] = h2[i]
    <3>1. \A i \in 1..k : g[i] = IF i = 1 THEN ss[i] ELSE g[i-1] \o ss[i]
      BY <2>1
    <3>2. \A i \in 1..k : h[i] = g[i]
      OBVIOUS
    <3>3. h[k+1] = IF k + 1 = 1 THEN ss[k+1] ELSE g[k] \o ss[k+1]
      OBVIOUS
    <3>4. \A i \in 1..k+1 : h2[i] = IF i = 1 THEN ss[i] ELSE h[i-1] \o ss[i]
      OBVIOUS
    <3> HIDE DEF h, h2, P
    <3>5. ASSUME NEW i \in 1..k PROVE h[i] = h2[i]
      <4>1. i - 1 \in 1..k \/ i = 1
        OBVIOUS
      <4> QED BY <3>1, <3>2, <3>4, <4>1
    <3>6. h[k+1] = h2[k+1]
      <4>1. k \in 1..k \/ k = 0
        OBVIOUS
      <4> QED BY <3>2, <3>3, <3>4, <4>1
    <3>7. \A i \in 1..k+1 : i \in 1..k \/ i = k + 1
      OBVIOUS
    <3> QED BY <3>5, <3>6, <3>7
  <2>3. h = h2
    BY <2>2
  <2> HIDE DEF h
  <2>4. P(k+1, h)
    BY <2>3
  <2> HIDE DEF P
  <2> QED BY <2>4
<1> HIDE DEF S
<1>3. n \in S
  BY <1>1, <1>2, SetInduction
<1>4. \E g : P(n, g)
  BY <1>3 DEF S
<1>5. FlattenSeq(ss) = (CHOOSE g : P(n, g))[n]
  BY DEF FlattenSeq
<1>6. P(n, CHOOSE g : P(n, g))
  <2> HIDE DEF P
  <2> QED BY <1>4
<1> QED
  BY <1>5, <1>6 DEF Flattening

Flattened(ss, e, w) ==
  /\ e[0] = 0
  /\ \A i \in 1..Len(ss) : e[i - 1] \in Nat /\ e[i] = e[i - 1] + Len(ss[i])
  /\ Len(w) = e[Len(ss)]
  /\ \A i \in 1..Len(ss) : e[i] <= Len(w)
  /\ \A i \in 1..Len(ss) : \A k \in 1..Len(ss[i]) : w[e[i - 1] + k] = ss[i][k]

(* Every frame stands after those before it.                               *)
LEMMA FlattenFacts ==
  ASSUME NEW ss, IsSequence(ss), \A i \in 1..Len(ss) : IsSequence(ss[i])
  PROVE  /\ IsSequence(FlattenSeq(ss))
         /\ \A c \in Range(FlattenSeq(ss)) : \E i \in 1..Len(ss) : c \in Range(ss[i])
         /\ \E e : Flattened(ss, e, FlattenSeq(ss))
<1> DEFINE n == Len(ss)
<1>0. n \in Nat /\ \A i \in 1..n : Len(ss[i]) \in Nat
  BY SequenceFacts
<1>1. CASE n = 0
  <2>1. FlattenSeq(ss) = ss
    BY <1>1 DEF FlattenSeq
  <2>2. Range(ss) = {}
    <3>1. Range(ss) = {ss[i] : i \in 1..Len(ss)}
      BY SequenceFacts
    <3> QED BY <1>1, <3>1
  <2> DEFINE e == [i \in 0..0 |-> 0]
  <2>3. e[0] = 0
    OBVIOUS
  <2> HIDE DEF e
  <2>4. Flattened(ss, e, ss)
    BY <1>1, <2>3 DEF Flattened
  <2> QED BY <2>1, <2>2, <2>4
<1>2. CASE n # 0
  <2>1. PICK F : Flattening(ss, F) /\ FlattenSeq(ss) = F[n]
    BY <1>0, <1>2, FlattenDef
  <2>2. F[1] = ss[1] /\ \A i \in 1..n : i # 1 => F[i] = F[i - 1] \o ss[i]
    <3>1. \A i \in 1..n : F[i] = IF i = 1 THEN ss[i] ELSE F[i - 1] \o ss[i]
      BY <2>1, Zenon DEF Flattening
    <3>2. 1 \in 1..n
      BY <1>0, <1>2
    <3> QED BY <3>1, <3>2, Zenon
  <2> DEFINE e == [i \in 0..n |-> IF i = 0 THEN 0 ELSE Len(F[i])]
             Good(j) == /\ IsSequence(F[j])
                        /\ \A c \in Range(F[j]) : \E i \in 1..Len(ss) : c \in Range(ss[i])
                        /\ \A i \in 1..j : /\ e[i - 1] \in Nat /\ e[i] = e[i - 1] + Len(ss[i])
                                           /\ e[i] <= e[j]
                                           /\ \A k \in 1..Len(ss[i]) : F[j][e[i - 1] + k] = ss[i][k]
             S == {j \in Nat : j + 1 \in 1..n => Good(j + 1)}
  <2>3. e[0] = 0 /\ \A i \in 1..n : e[i] = Len(F[i])
    BY <1>0
  <2> HIDE DEF e
  <2>4. 0 \in S
    <3>1. e[1] = Len(ss[1]) /\ e[0] = 0 /\ IsSequence(ss[1]) /\ Len(ss[1]) \in Nat
      BY <1>0, <1>2, <2>2, <2>3
    <3>2. Good(1)
      BY <1>0, <1>2, <2>2, <3>1
    <3> HIDE DEF Good
    <3> QED BY <3>2
  <2>5. ASSUME NEW j \in Nat, j \in S PROVE j + 1 \in S
    <3> SUFFICES ASSUME j + 1 + 1 \in 1..n PROVE Good(j + 1 + 1)
      OBVIOUS
    <3> DEFINE a == F[j + 1]
               b == ss[j + 2]
               z == F[j + 2]
    <3>1. Good(j + 1)
      BY <2>5, <1>0
    <3>2. j + 1 + 1 = j + 2 /\ j + 2 \in 1..n /\ j + 1 \in 1..n
      BY <1>0
    <3>3. z = a \o b
      <4> DEFINE m == j + 2
      <4>1. m \in 1..n /\ m # 1 /\ m - 1 = j + 1
        BY <3>2
      <4> HIDE DEF m
      <4>2. F[m] = F[m - 1] \o ss[m]
        BY <2>2, <4>1, Zenon
      <4>3. F[m] = F[j + 1] \o ss[m]
        BY <4>1, <4>2, Zenon
      <4> QED BY <4>3, Zenon DEF m
    <3>4. IsSequence(a) /\ IsSequence(b) /\ Len(a) \in Nat /\ Len(b) \in Nat
      BY <3>1, <3>2, SequenceFacts
    <3>5. /\ IsSequence(z) /\ Len(z) = Len(a) + Len(b)
          /\ \A i \in 1..Len(a) : z[i] = a[i]
          /\ \A i \in 1..Len(b) : z[Len(a) + i] = b[i]
          /\ Range(z) = Range(a) \cup Range(b)
      <4> HIDE DEF a, b, z
      <4> QED BY <3>3, <3>4, Joined
    <3>6. e[j + 1] = Len(a) /\ e[j + 2] = Len(z)
      BY <2>3, <3>2
    <3>7. \A c \in Range(z) : \E i \in 1..Len(ss) : c \in Range(ss[i])
      BY <3>1, <3>2, <3>5
    <3>8. ASSUME NEW i \in 1..j + 2
          PROVE  /\ e[i - 1] \in Nat /\ e[i] = e[i - 1] + Len(ss[i])
                 /\ e[i] <= e[j + 2]
                 /\ \A k \in 1..Len(ss[i]) : z[e[i - 1] + k] = ss[i][k]
      <4>1. CASE i = j + 2
        <5>1. i - 1 = j + 1
          BY <4>1
        <5>2. e[i - 1] = Len(a) /\ e[i] = Len(z) /\ ss[i] = b
          BY <4>1, <5>1, <3>6
        <5> HIDE DEF a, b, z
        <5> QED BY <3>4, <3>5, <3>6, <5>2, <4>1
      <4>2. CASE i # j + 2
        <5>1. i \in 1..j + 1
          BY <4>2
        <5>2. /\ e[i - 1] \in Nat /\ e[i] = e[i - 1] + Len(ss[i])
              /\ e[i] <= e[j + 1]
              /\ \A k \in 1..Len(ss[i]) : a[e[i - 1] + k] = ss[i][k]
          BY <3>1, <5>1
        <5>3. Len(ss[i]) \in Nat
          BY <1>0, <3>2, <5>1
        <5> HIDE DEF a, b, z
        <5>4. \A k \in 1..Len(ss[i]) : e[i - 1] + k \in 1..Len(a)
          BY <5>2, <5>3, <3>6, <3>4
        <5>5. e[i] <= e[j + 2]
          BY <3>4, <3>5, <3>6, <5>2, <5>3
        <5>6. \A k \in 1..Len(ss[i]) : z[e[i - 1] + k] = ss[i][k]
          BY <3>5, <5>2, <5>4
        <5> QED BY <5>2, <5>5, <5>6
      <4> QED BY <4>1, <4>2
    <3>9. \A i \in 1..j + 2 : /\ e[i - 1] \in Nat /\ e[i] = e[i - 1] + Len(ss[i])
                             /\ e[i] <= e[j + 2]
                             /\ \A k \in 1..Len(ss[i]) : z[e[i - 1] + k] = ss[i][k]
      BY <3>8, Zenon
    <3>10. Good(j + 2)
      BY ONLY <3>5, <3>7, <3>9, Zenon
    <3> HIDE DEF Good
    <3> QED BY <3>2, <3>10
  <2> HIDE DEF S
  <2>6. n - 1 \in S
    <3>1. n - 1 \in Nat
      BY <1>0, <1>2
    <3> QED BY <2>4, <2>5, <3>1, SetInduction
  <2>7. Good(n)
    <3> HIDE DEF Good
    <3>1. n - 1 + 1 = n /\ n \in 1..n
      BY <1>0, <1>2
    <3> QED BY <2>6, <3>1 DEF S
  <2>8. Flattened(ss, e, FlattenSeq(ss))
    <3>1. n \in 1..n
      BY <1>0, <1>2
    <3> QED BY <2>1, <2>3, <2>7, <3>1 DEF Flattened
  <2> QED BY <2>1, <2>7, <2>8
<1> QED
  BY <1>1, <1>2

Chunks(r) == IF r.chunks = <<>> THEN << <<>> >> ELSE r.chunks
FlagsOf(r, i) == IF i = Len(Chunks(r)) THEN FINAL ELSE MORE
ChunkCt(r, i) == Encrypt(r.key, ChunkNonce(r.nonce, i - 1, FlagsOf(r, i)), r.n, Chunks(r)[i])
TagOf(r, i) == ChunkTag(r.key, r.nonce, i - 1, FlagsOf(r, i), r.aad, ChunkCt(r, i))

LEMMA ChunksFacts ==
  ASSUME NEW r \in Requests
  PROVE  /\ IsSequence(Chunks(r)) /\ Len(Chunks(r)) \in Nat \ {0}
         /\ \A i \in 1..Len(Chunks(r)) : Chunks(r)[i] \in Seq(Cells) /\ IsSequence(Chunks(r)[i])
<1> DEFINE c == r.chunks
           d == Chunks(r)
<1>1. c \in Seq(Seq(Cells)) /\ IsSequence(c)
  BY RequestFacts
<1>2. d = IF c = <<>> THEN << <<>> >> ELSE c
  BY DEF Chunks
<1> HIDE DEF c, d
<1>3. d \in Seq(Seq(Cells)) /\ Len(d) \in Nat \ {0}
  <2>1. CASE c = <<>>
    <3>1. d = << <<>> >>
      BY <1>2, <2>1
    <3>2. <<>> \in Seq(Cells)
      BY EmptySeq
    <3>3. Len(d) = 1 /\ d[1] = <<>> /\ IsSequence(d)
      BY <3>1, One
    <3>4. d \in Seq(Seq(Cells))
      BY <3>1, <3>2
    <3> QED BY <3>3, <3>4
  <2>2. CASE c # <<>>
    <3>1. d = c
      BY <1>2, <2>2
    <3> QED BY <1>1, <2>2, <3>1, EmptySeq
  <2> QED BY <2>1, <2>2
<1>4. \A i \in 1..Len(d) : d[i] \in Seq(Cells)
  BY <1>3, ElementOfSeq
<1>5. IsSequence(d) /\ \A i \in 1..Len(d) : IsSequence(d[i])
  BY <1>3, <1>4, InSeq
<1> QED
  BY <1>3, <1>4, <1>5 DEF d

FrameCells(o, ct, tag, f) ==
  /\ IsSequence(f) /\ Len(f) = 3 + Len(ct)
  /\ f[1] = o[1]
  /\ \A k \in 1..Len(ct) : f[1 + k] = ct[k]
  /\ \A k \in 1..2 : f[1 + Len(ct) + k] = tag[k]
  /\ Range(f) = Range(o) \cup Range(ct) \cup Range(tag)

LEMMA SealChunkFacts ==
  ASSUME NEW o, NEW ct, NEW tag, IsSequence(o), IsSequence(ct), IsSequence(tag),
         Len(o) = 1, Len(tag) = 2,
         NEW f, f = o \o ct \o tag
  PROVE  FrameCells(o, ct, tag, f)
<1> DEFINE x == o \o ct
<1>0. Len(ct) \in Nat
  BY SequenceFacts
<1>1. IsSequence(o) /\ Len(o) = 1
  OBVIOUS
<1>2. f = x \o tag
  OBVIOUS
<1>3. /\ IsSequence(x) /\ Len(x) = Len(o) + Len(ct) /\ Range(x) = Range(o) \cup Range(ct)
      /\ \A i \in 1..Len(o) : x[i] = o[i]
      /\ \A i \in 1..Len(ct) : x[Len(o) + i] = ct[i]
  <2>1. IsSequence(o)
    BY <1>1
  <2> QED BY ONLY <2>1, IsSequence(ct), Joined
<1> HIDE DEF x
<1>4. /\ IsSequence(f) /\ Len(f) = Len(x) + Len(tag) /\ Range(f) = Range(x) \cup Range(tag)
      /\ \A i \in 1..Len(x) : f[i] = x[i]
      /\ \A i \in 1..Len(tag) : f[Len(x) + i] = tag[i]
  <2> DEFINE z == x \o tag
  <2>1. /\ IsSequence(z) /\ Len(z) = Len(x) + Len(tag) /\ Range(z) = Range(x) \cup Range(tag)
        /\ \A i \in 1..Len(x) : z[i] = x[i]
        /\ \A i \in 1..Len(tag) : z[Len(x) + i] = tag[i]
    <3>1. IsSequence(x)
      BY <1>3
    <3> QED BY ONLY <3>1, IsSequence(tag), Joined
  <2>2. f = z
    BY <1>2
  <2> HIDE DEF z
  <2> QED BY <2>1, <2>2
<1>5. Len(x) = 1 + Len(ct)
  BY <1>1, <1>3
<1>6. f[1] = o[1]
  <2>1. 1 \in 1..Len(x) /\ 1 \in 1..Len(o)
    BY <1>0, <1>1, <1>5
  <2> QED BY <1>1, <1>3, <1>4, <2>1
<1>7. \A k \in 1..Len(ct) : f[1 + k] = ct[k]
  <2>1. \A k \in 1..Len(ct) : 1 + k \in 1..Len(x)
    BY <1>0, <1>5
  <2> QED BY <1>1, <1>3, <1>4, <2>1
<1>8. \A k \in 1..2 : f[1 + Len(ct) + k] = tag[k]
  BY <1>4, <1>5
<1> QED
  BY <1>0, <1>1, <1>3, <1>4, <1>5, <1>6, <1>7, <1>8 DEF FrameCells

(* One frame of a stream by its cells: flags, ciphertext and tag.          *)
LEMMA FrameFacts ==
  ASSUME NEW r \in Requests, NEW i \in 1..Len(Chunks(r))
  PROVE  LET f == Frames(r)[i]
             ct == ChunkCt(r, i)
         IN  /\ IsSequence(f) /\ Len(f) = 3 + Len(Chunks(r)[i])
             /\ IsSequence(ct) /\ Len(ct) = Len(Chunks(r)[i])
             /\ f[1] = FlagsOf(r, i)
             /\ \A k \in 1..Len(ct) : f[1 + k] = ct[k]
             /\ \A k \in 1..2 : f[1 + Len(ct) + k] = TagOf(r, i)[k]
             /\ Range(f) = {FlagsOf(r, i)} \cup Range(ct) \cup Range(TagOf(r, i))
<1> DEFINE f == Frames(r)[i]
           ct == ChunkCt(r, i)
           flags == FlagsOf(r, i)
           tag == TagOf(r, i)
<1>1. IsSequence(Chunks(r)[i])
  BY ChunksFacts
<1>2. IsSequence(ct) /\ Len(ct) = Len(Chunks(r)[i])
  BY <1>1, EncryptFacts DEF ChunkCt
<1>3. IsSequence(tag) /\ Len(tag) = 2
  BY PrfFacts DEF TagOf, ChunkTag
<1>4. f = <<flags>> \o ct \o tag
  <2>1. Frames(r) = [j \in 1..Len(Chunks(r)) |->
           SealChunk(r, j - 1, IF j = Len(Chunks(r)) THEN FINAL ELSE MORE, Chunks(r)[j])]
    BY Zenon DEF Frames, Chunks
  <2>2. f = SealChunk(r, i - 1, flags, Chunks(r)[i])
    BY <2>1, Zenon DEF FlagsOf
  <2> QED BY <2>2, Zenon DEF SealChunk, ChunkCt, TagOf
<1> HIDE DEF f, ct, flags, tag
<1>5. /\ IsSequence(f) /\ Len(f) = 3 + Len(ct)
      /\ f[1] = flags
      /\ \A k \in 1..Len(ct) : f[1 + k] = ct[k]
      /\ \A k \in 1..2 : f[1 + Len(ct) + k] = tag[k]
      /\ Range(f) = {flags} \cup Range(ct) \cup Range(tag)
  <2>1. IsSequence(ct) /\ IsSequence(tag) /\ Len(tag) = 2
    BY <1>2, <1>3
  <2> DEFINE o == <<flags>>
  <2>2. IsSequence(o) /\ Len(o) = 1 /\ o[1] = flags /\ Range(o) = {flags}
    BY One
  <2>3. f = o \o ct \o tag
    BY <1>4
  <2> HIDE DEF o
  <2>4. FrameCells(o, ct, tag, f)
    BY <2>1, <2>2, <2>3, SealChunkFacts, Zenon
  <2> QED BY <2>2, <2>4 DEF FrameCells
<1> QED
  BY <1>2, <1>5 DEF f, ct, flags, tag

LEMMA FramesDomain ==
  ASSUME NEW r \in Requests
  PROVE  DOMAIN Frames(r) = 1..Len(Chunks(r))
<1>1. Frames(r) = [j \in 1..Len(Chunks(r)) |->
         SealChunk(r, j - 1, IF j = Len(Chunks(r)) THEN FINAL ELSE MORE, Chunks(r)[j])]
  BY Zenon DEF Frames, Chunks
<1> QED
  BY <1>1, Zenon

LEMMA PrefixedFacts ==
  ASSUME NEW f, IsSequence(f)
  PROVE  /\ IsSequence(Prefixed(f)) /\ Len(Prefixed(f)) = 1 + Len(f)
         /\ Prefixed(f)[1] = Len4(Len(f) % LenLimit)
         /\ \A k \in 1..Len(f) : Prefixed(f)[1 + k] = f[k]
         /\ Range(Prefixed(f)) = {Len4(Len(f) % LenLimit)} \cup Range(f)
<1> DEFINE c == Len4(Len(f) % LenLimit)
           o == <<c>>
           z == o \o f
<1>1. IsSequence(o) /\ Len(o) = 1 /\ o[1] = c /\ Range(o) = {c}
  <2> HIDE DEF c
  <2> QED BY One
<1>2. Prefixed(f) = z
  BY DEF Prefixed
<1> HIDE DEF o
<1>3. /\ IsSequence(z) /\ Len(z) = Len(o) + Len(f) /\ Range(z) = Range(o) \cup Range(f)
      /\ \A i \in 1..Len(o) : z[i] = o[i]
      /\ \A i \in 1..Len(f) : z[Len(o) + i] = f[i]
  <2>1. IsSequence(o)
    BY <1>1
  <2> QED BY ONLY <2>1, IsSequence(f), Joined
<1> HIDE DEF z, c
<1>4. IsSequence(z) /\ Len(z) = 1 + Len(f) /\ z[1] = c /\ Range(z) = {c} \cup Range(f)
      /\ \A k \in 1..Len(f) : z[1 + k] = f[k]
  BY <1>1, <1>3
<1> QED
  BY <1>2, <1>4 DEF c

Framed(r, P, b) ==
  /\ P[0] = 3 /\ P[Len(Chunks(r))] = Len(b)
  /\ \A i \in 1..Len(Chunks(r)) :
       /\ P[i - 1] \in Nat \ {0, 1, 2} /\ P[i] = P[i - 1] + 1 + Len(Frames(r)[i])
       /\ P[i] <= Len(b)
       /\ b[P[i - 1] + 1] = Len4(Len(Frames(r)[i]) % LenLimit)
       /\ \A k \in 1..Len(Frames(r)[i]) : b[P[i - 1] + 1 + k] = Frames(r)[i][k]

(* A sealed stream by its cells: salt, suite, and its frames behind their  *)
(* lengths.                                                                *)
LEMMA StreamBlobFacts ==
  ASSUME NEW r \in Requests, Len(r.nonce) >= NonceLen, NEW b, b = StreamBlob(r)
  PROVE  /\ IsSequence(b) /\ Len(b) > 3
         /\ b[1] = r.nonce[1]
         /\ SubSeq(b, 1, 1) = SubSeq(r.nonce, 1, 1)
         /\ SubSeq(b, 2, 3) = KeyCommitment(r.key, r.nonce, r.aad)
         /\ \E P : Framed(r, P, b)
         /\ \A c \in Range(b) :
              \/ c \in Range(r.nonce)
              \/ c \in Range(KeyCommitment(r.key, r.nonce, r.aad))
              \/ \E i \in 1..Len(Chunks(r)) :
                   c \in Range(Frames(r)[i]) \/ c = Len4(Len(Frames(r)[i]) % LenLimit)
<1> DEFINE ss == [i \in DOMAIN Frames(r) |-> Prefixed(Frames(r)[i])]
           m == Len(Chunks(r))
           a == SubSeq(r.nonce, 1, 1)
           k == KeyCommitment(r.key, r.nonce, r.aad)
           w == FlattenSeq(ss)
           x == a \o k
           z == x \o w
<1>1. m \in Nat \ {0} /\ \A i \in 1..m : IsSequence(Frames(r)[i]) /\ Len(Frames(r)[i]) \in Nat
  BY ChunksFacts, FrameFacts, SequenceFacts
<1>2. IsSequence(ss) /\ Len(ss) = m /\ \A i \in 1..m : ss[i] = Prefixed(Frames(r)[i])
  <2>1. ss = [i \in 1..m |-> ss[i]] /\ \A i \in 1..m : ss[i] = Prefixed(Frames(r)[i])
    <3>1. DOMAIN Frames(r) = 1..m
      BY FramesDomain
    <3> HIDE DEF m
    <3> QED BY <3>1
  <2> HIDE DEF ss
  <2> QED BY <1>1, <2>1, FunctionIsSequence
<1>3. \A i \in 1..m : IsSequence(ss[i])
  BY <1>1, <1>2, PrefixedFacts
<1> HIDE DEF ss
<1>4. /\ IsSequence(w)
      /\ \A c \in Range(w) : \E i \in 1..m : c \in Range(ss[i])
      /\ \E e : Flattened(ss, e, w)
  BY <1>2, <1>3, FlattenFacts
<1>5. IsSequence(a) /\ Len(a) = 1 /\ a[1] = r.nonce[1] /\ Range(a) \subseteq Range(r.nonce)
  <2>1. IsSequence(r.nonce)
    BY RequestFacts
  <2> QED BY <2>1, NonceCell, ConstantsKnown
<1>6. IsSequence(k) /\ Len(k) = 2
  BY PrfFacts DEF KeyCommitment
<1>7. b = z
  BY ConstantsKnown, Zenon DEF StreamBlob, ss
<1> HIDE DEF a, k, w, m
<1>8. /\ IsSequence(x) /\ Len(x) = 3
      /\ \A i \in 1..1 : x[i] = a[i]
      /\ \A i \in 1..2 : x[1 + i] = k[i]
      /\ Range(x) = Range(a) \cup Range(k)
  <2>0. IsSequence(a) /\ IsSequence(k)
    BY <1>5, <1>6
  <2>1. /\ IsSequence(x) /\ Len(x) = Len(a) + Len(k) /\ Range(x) = Range(a) \cup Range(k)
        /\ \A i \in 1..Len(a) : x[i] = a[i]
        /\ \A i \in 1..Len(k) : x[Len(a) + i] = k[i]
    BY ONLY <2>0, Joined
  <2> HIDE DEF x
  <2> QED BY <1>5, <1>6, <2>1
<1> HIDE DEF x
<1>9. /\ IsSequence(z) /\ Len(z) = 3 + Len(w)
      /\ \A i \in 1..3 : z[i] = x[i]
      /\ \A i \in 1..Len(w) : z[3 + i] = w[i]
      /\ Range(z) = Range(x) \cup Range(w)
  <2>0. IsSequence(x) /\ IsSequence(w)
    BY <1>4, <1>8
  <2>1. /\ IsSequence(z) /\ Len(z) = Len(x) + Len(w) /\ Range(z) = Range(x) \cup Range(w)
        /\ \A i \in 1..Len(x) : z[i] = x[i]
        /\ \A i \in 1..Len(w) : z[Len(x) + i] = w[i]
    BY ONLY <2>0, Joined
  <2> HIDE DEF z
  <2> QED BY <1>8, <2>1
<1> HIDE DEF z
<1>10. Len(w) \in Nat
  BY <1>4, SequenceFacts
<1>11. SubSeq(z, 1, 1) = a /\ z[1] = a[1]
  <2>0. 1 <= Len(z)
    BY <1>9, <1>10
  <2>1. /\ IsSequence(SubSeq(z, 1, 1)) /\ Len(SubSeq(z, 1, 1)) = 1
        /\ \A i \in 1..1 : SubSeq(z, 1, 1)[i] = z[1 + i - 1]
    BY <1>9, <2>0, Part
  <2>2. \A i \in 1..1 : SubSeq(z, 1, 1)[i] = a[i]
    BY <1>8, <1>9, <2>1
  <2>3. z[1] = a[1]
    BY <1>8, <1>9
  <2> QED BY <1>5, <2>1, <2>2, <2>3, SameSequence
<1>12. SubSeq(z, 2, 3) = k
  <2>0. 3 <= Len(z)
    BY <1>9, <1>10
  <2>1. /\ IsSequence(SubSeq(z, 2, 3)) /\ Len(SubSeq(z, 2, 3)) = 2
        /\ \A i \in 1..2 : SubSeq(z, 2, 3)[i] = z[2 + i - 1]
    BY <1>9, <2>0, Part
  <2>2. \A i \in 1..2 : SubSeq(z, 2, 3)[i] = k[i]
    <3>1. \A i \in 1..2 : 2 + i - 1 = 1 + i /\ 1 + i \in 1..3
      OBVIOUS
    <3> QED BY <1>8, <1>9, <2>1, <3>1
  <2> QED BY <1>6, <2>1, <2>2, SameSequence
<1>13. PICK e : Flattened(ss, e, w)
  BY <1>4
<1> DEFINE P == [i \in 0..m |-> 3 + e[i]]
<1>14. e[0] = 0 /\ Len(w) = e[m]
       /\ \A i \in 1..m : /\ e[i - 1] \in Nat /\ e[i] = e[i - 1] + Len(ss[i]) /\ e[i] <= Len(w)
                          /\ \A j \in 1..Len(ss[i]) : w[e[i - 1] + j] = ss[i][j]
  BY <1>13, <1>2 DEF Flattened
<1>15. \A i \in 0..m : P[i] = 3 + e[i]
  OBVIOUS
<1>16. \A i \in 1..m : /\ Len(ss[i]) = 1 + Len(Frames(r)[i])
                       /\ ss[i][1] = Len4(Len(Frames(r)[i]) % LenLimit)
                       /\ \A j \in 1..Len(Frames(r)[i]) : ss[i][1 + j] = Frames(r)[i][j]
                       /\ Range(ss[i]) = {Len4(Len(Frames(r)[i]) % LenLimit)} \cup Range(Frames(r)[i])
  BY <1>1, <1>2, PrefixedFacts
<1> HIDE DEF P
<1>17. Framed(r, P, z)
  <2>1. P[0] = 3 /\ P[m] = Len(z)
    BY <1>1, <1>9, <1>14, <1>15
  <2>2. ASSUME NEW i \in 1..m
        PROVE  /\ P[i - 1] \in Nat \ {0, 1, 2} /\ P[i] = P[i - 1] + 1 + Len(Frames(r)[i])
               /\ P[i] <= Len(z)
               /\ z[P[i - 1] + 1] = Len4(Len(Frames(r)[i]) % LenLimit)
               /\ \A j \in 1..Len(Frames(r)[i]) : z[P[i - 1] + 1 + j] = Frames(r)[i][j]
    <3> DEFINE f == Frames(r)[i]
               s == ss[i]
    <3>1. i - 1 \in 0..m /\ i \in 0..m
      BY <1>1
    <3>2. \A j \in 1..Len(s) : w[e[i - 1] + j] = s[j]
      BY <1>14
    <3>3. s[1] = Len4(Len(f) % LenLimit) /\ \A j \in 1..Len(f) : s[1 + j] = f[j]
      BY <1>1, <1>16
    <3>a. P[i - 1] = 3 + e[i - 1] /\ P[i] = 3 + e[i] /\ e[i - 1] \in Nat /\ e[i] = e[i - 1] + Len(s)
          /\ e[i] <= Len(w)
      BY <1>14, <1>15, <3>1
    <3>b. Len(s) = 1 + Len(f) /\ Len(f) \in Nat
      BY <1>1, <1>16
    <3>c. Len(z) = 3 + Len(w)
      BY <1>9
    <3> HIDE DEF f, s
    <3>4. P[i - 1] \in Nat \ {0, 1, 2} /\ P[i] = P[i - 1] + 1 + Len(f) /\ P[i] <= Len(z)
      <4> DEFINE p == P[i - 1]
                 q == P[i]
                 u == e[i - 1]
                 v == e[i]
      <4>1. p = 3 + u /\ q = 3 + v /\ u \in Nat /\ v = u + Len(s) /\ v <= Len(w)
        BY <3>a
      <4> HIDE DEF p, q, u, v
      <4>2. p \in Nat \ {0, 1, 2} /\ q = p + 1 + Len(f) /\ q <= Len(z)
        BY <4>1, <3>b, <3>c, <1>10
      <4> QED BY <4>2 DEF p, q
    <3>5. \A j \in 1..Len(s) : z[P[i - 1] + j] = s[j]
      <4> TAKE j \in 1..Len(s)
      <4>1. e[i - 1] + j \in 1..Len(w) /\ P[i - 1] + j = 3 + (e[i - 1] + j)
        BY <3>a, <3>b, <1>10
      <4>2. z[3 + (e[i - 1] + j)] = w[e[i - 1] + j]
        BY <1>9, <4>1
      <4> QED BY <3>2, <4>1, <4>2
    <3>6. z[P[i - 1] + 1] = Len4(Len(f) % LenLimit)
      <4>1. 1 \in 1..Len(s)
        BY <3>b
      <4> QED BY <3>3, <3>5, <4>1
    <3>7. \A j \in 1..Len(f) : z[P[i - 1] + 1 + j] = f[j]
      <4> TAKE j \in 1..Len(f)
      <4>1. 1 + j \in 1..Len(s) /\ P[i - 1] + 1 + j = P[i - 1] + (1 + j)
        BY <3>b, <3>4
      <4>2. z[P[i - 1] + (1 + j)] = s[1 + j]
        BY <3>5, <4>1
      <4> QED BY <3>3, <4>1, <4>2
    <3> QED BY <3>4, <3>6, <3>7 DEF f
  <2> QED BY <2>1, <2>2 DEF Framed, m
<1>18. \A c \in Range(z) :
              \/ c \in Range(r.nonce)
              \/ c \in Range(k)
              \/ \E i \in 1..m :
                   c \in Range(Frames(r)[i]) \/ c = Len4(Len(Frames(r)[i]) % LenLimit)
  BY <1>4, <1>5, <1>8, <1>9, <1>16
<1>19. Len(z) > 3
  <2>1. m \in 1..m /\ Len(ss[m]) = 1 + Len(Frames(r)[m]) /\ e[m - 1] \in Nat
        /\ Len(Frames(r)[m]) \in Nat
    BY <1>1, <1>14, <1>16
  <2>2. e[m] = e[m - 1] + Len(ss[m])
    BY <1>14, <2>1
  <2> QED BY <1>9, <1>14, <2>1, <2>2
<1> QED
  BY <1>5, <1>7, <1>9, <1>11, <1>12, <1>17, <1>18, <1>19 DEF a, k, m

-----------------------------------------------------------------------------
(* Marks.  A mark is an atom that only the holder of a key can write: a    *)
(* cell of an HMAC or the tag of an inner vault.  The callers hand none to *)
(* a seal, so the marks of a blob are those its seal computed.             *)
CleanCell(c) == IsFiniteSet(c) /\ <<"flipped bit">> \notin c
Marked == {"hmac", "vault tag"}
Marks(c) == {a \in c : a[1] \in Marked}
CleanSeq(x) == \A c \in Range(x) : CleanCell(c)
HasMark(x, a) == a[1] \in Marked /\ \E c \in Range(x) : a \in c

LEMMA CallersCell ==
  ASSUME NEW c \in Cells
  PROVE  CleanCell(c) /\ Marks(c) = {} /\ \A a \in c : a[1] \notin Reserved
<1>1. IsFiniteSet(c) /\ \A a \in c : a[1] \notin Reserved
  BY CellsAssumption
<1>2. <<"flipped bit">>[1] \in Reserved /\ Marked \subseteq Reserved
  BY DEF Reserved, Marked
<1> QED
  BY <1>1, <1>2 DEF CleanCell, Marks

LEMMA CallersSeq ==
  ASSUME NEW x \in Seq(Cells)
  PROVE  CleanSeq(x) /\ (\A a : ~HasMark(x, a)) /\ \A c \in Range(x) : c \in Cells
<1>1. \A c \in Range(x) : c \in Cells
  <2>1. x \in [1..Len(x) -> Cells]
    BY LenProperties
  <2> QED BY <2>1 DEF Range
<1> QED
  BY <1>1, CallersCell DEF CleanSeq, HasMark, Marks

LEMMA XorCell ==
  ASSUME NEW a, NEW b
  PROVE  /\ CleanCell(a) /\ CleanCell(b) => CleanCell(Xor(a, b))
         /\ \A e \in Xor(a, b) : e \in a \/ e \in b
<1>1. \A e \in Xor(a, b) : e \in a \/ e \in b
  BY DEF Xor
<1>2. ASSUME IsFiniteSet(a), IsFiniteSet(b) PROVE IsFiniteSet(Xor(a, b))
  <2>1. IsFiniteSet(a \ b) /\ IsFiniteSet(b \ a)
    BY <1>2, FS_Difference
  <2> QED BY <2>1, FS_Union DEF Xor
<1> QED
  BY <1>1, <1>2 DEF CleanCell

LEMMA KsCellFacts ==
  ASSUME NEW key, NEW nonce, NEW n \in Nat, NEW j
  PROVE  CleanCell(KsCell(key, nonce, n, j)) /\ \A e \in KsCell(key, nonce, n, j) : e[1] = "ks"
<1> DEFINE f == [i \in 1..n |-> <<"ks", key, nonce, i, j>>]
           T == KsCell(key, nonce, n, j)
<1>1. \A i \in 1..n : f[i] = <<"ks", key, nonce, i, j>>
  OBVIOUS
<1>2. f \in Surjection(1..n, T)
  BY DEF Surjection, KsCell
<1>3. IsFiniteSet(1..n)
  BY FS_Interval
<1> HIDE DEF f
<1>4. IsFiniteSet(T)
  <2> HIDE DEF T
  <2> QED BY <1>2, <1>3, FS_Surjection
<1>5. \A e \in T : e[1] = "ks"
  BY DEF KsCell
<1>6. <<"flipped bit">>[1] # "ks"
  OBVIOUS
<1>7. <<"flipped bit">> \notin T
  <2> HIDE DEF T
  <2> QED BY <1>5, <1>6
<1> QED
  BY <1>4, <1>5, <1>7 DEF CleanCell

LEMMA SingleCell ==
  ASSUME NEW a, a[1] # "flipped bit"
  PROVE  CleanCell({a})
<1>1. <<"flipped bit">>[1] = "flipped bit"
  OBVIOUS
<1>2. a # <<"flipped bit">>
  BY <1>1, Zenon
<1> QED
  BY <1>2, FS_Singleton DEF CleanCell

LEMMA EncryptCells ==
  ASSUME NEW key, NEW nonce, NEW n \in Nat, NEW data, IsSequence(data)
  PROVE  /\ CleanSeq(data) => CleanSeq(Encrypt(key, nonce, n, data))
         /\ \A a : HasMark(Encrypt(key, nonce, n, data), a) => HasMark(data, a)
<1> DEFINE x == Encrypt(key, nonce, n, data)
<1>1. /\ IsSequence(x) /\ Len(x) = Len(data)
      /\ \A j \in 1..Len(data) : x[j] = Xor(data[j], KsCell(key, nonce, n, j))
  BY EncryptFacts
<1> HIDE DEF x
<1>2. Range(x) = {x[i] : i \in 1..Len(x)} /\ \A i \in 1..Len(data) : data[i] \in Range(data)
  BY <1>1, SequenceFacts
<1>3. \A c \in Range(x) : \E d \in Range(data), j \in 1..Len(data) : c = Xor(d, KsCell(key, nonce, n, j))
  BY <1>1, <1>2
<1>4. CleanSeq(data) => CleanSeq(x)
  BY <1>3, XorCell, KsCellFacts DEF CleanSeq
<1>5. ASSUME NEW a, HasMark(x, a) PROVE HasMark(data, a)
  <2>1. PICK c \in Range(x) : a \in c
    BY <1>5 DEF HasMark
  <2>2. PICK d \in Range(data), j \in 1..Len(data) : c = Xor(d, KsCell(key, nonce, n, j))
    BY <1>3
  <2>3. a \in d \/ a \in KsCell(key, nonce, n, j)
    BY <2>1, <2>2, XorCell
  <2>4. a \in d
    BY <2>3, <1>5, KsCellFacts DEF HasMark, Marked
  <2> QED BY <2>4, <1>5 DEF HasMark
<1> QED
  BY <1>4, <1>5 DEF x

LEMMA VaultXorCells ==
  ASSUME NEW alg, NEW key, NEW nonce, NEW data, IsSequence(data)
  PROVE  /\ CleanSeq(data) => CleanSeq(VaultXor(alg, key, nonce, data))
         /\ \A a : HasMark(VaultXor(alg, key, nonce, data), a) => HasMark(data, a)
<1> DEFINE x == VaultXor(alg, key, nonce, data)
<1>1. /\ IsSequence(x) /\ Len(x) = Len(data)
      /\ \A j \in 1..Len(data) : x[j] = Xor(data[j], VaultCell(alg, key, nonce, j))
  BY VaultXorFacts
<1> HIDE DEF x
<1>2. Range(x) = {x[i] : i \in 1..Len(x)} /\ \A i \in 1..Len(data) : data[i] \in Range(data)
  BY <1>1, SequenceFacts
<1>3. \A c \in Range(x) : \E d \in Range(data), j \in 1..Len(data) : c = Xor(d, VaultCell(alg, key, nonce, j))
  BY <1>1, <1>2
<1>v. \A j : CleanCell(VaultCell(alg, key, nonce, j)) /\ \A e \in VaultCell(alg, key, nonce, j) : e[1] = "vault"
  <2> TAKE j
  <2>1. \A e \in VaultCell(alg, key, nonce, j) : e[1] = "vault"
    BY DEF VaultCell
  <2>2. <<"vault", alg, key, nonce, j>>[1] # "flipped bit"
    OBVIOUS
  <2> QED BY <2>1, <2>2, SingleCell DEF VaultCell
<1>4. CleanSeq(data) => CleanSeq(x)
  BY <1>3, XorCell, <1>v DEF CleanSeq
<1>5. ASSUME NEW a, HasMark(x, a) PROVE HasMark(data, a)
  <2>1. PICK c \in Range(x) : a \in c
    BY <1>5 DEF HasMark
  <2>2. PICK d \in Range(data), j \in 1..Len(data) : c = Xor(d, VaultCell(alg, key, nonce, j))
    BY <1>3
  <2>3. a \in d \/ a \in VaultCell(alg, key, nonce, j)
    BY <2>1, <2>2, XorCell
  <2>4. a \in d
    BY <2>3, <1>5, <1>v DEF HasMark, Marked
  <2> QED BY <2>4, <1>5 DEF HasMark
<1> QED
  BY <1>4, <1>5 DEF x

PrfMark(key, input, a) == \E i \in 1..2 : a = <<"hmac", key, input, i>>

LEMMA PrfCells ==
  ASSUME NEW key, NEW input
  PROVE  /\ CleanSeq(Prf(key, input))
         /\ \A a : HasMark(Prf(key, input), a) => PrfMark(key, input, a)
<1>1. Range(Prf(key, input)) = {{<<"hmac", key, input, i>>} : i \in 1..2}
  BY PrfFacts
<1>2. \A i \in 1..2 : CleanCell({<<"hmac", key, input, i>>})
  <2> TAKE i \in 1..2
  <2>1. <<"hmac", key, input, i>>[1] # "flipped bit"
    OBVIOUS
  <2> QED BY <2>1, SingleCell
<1>3. CleanSeq(Prf(key, input))
  BY <1>1, <1>2, Zenon DEF CleanSeq
<1>4. \A a : HasMark(Prf(key, input), a) => PrfMark(key, input, a)
  BY <1>1, Zenon DEF HasMark, PrfMark
<1> QED
  BY <1>3, <1>4

-----------------------------------------------------------------------------
(* What the PRF is fed. *)
CommitInput(salt, aad) == salt \o Len8(aad) \o aad
MacInput(nonce, commit, aad, ct) == nonce \o commit \o Len8(aad) \o aad \o ct
SivInput(aad, pt) == Len8(aad) \o aad \o pt
ChunkInput(salt, i, flags, aad, ct) ==
  salt \o <<{<<"index", i>>}, flags>> \o Len8(aad) \o aad \o ct

LEMMA PrfInputs ==
  /\ \A key, salt, aad : KeyCommitment(key, salt, aad) = Prf(SubKey(key, "commit"), CommitInput(salt, aad))
  /\ \A key, nonce, commit, aad, ct :
       AeadTag(key, nonce, commit, aad, ct) = Prf(SubKey(key, "mac"), MacInput(nonce, commit, aad, ct))
  /\ \A key, aad, pt : SynthesiseIv(key, aad, pt) = Prf(SubKey(key, "siv"), SivInput(aad, pt))
  /\ \A key, salt, i, flags, aad, ct :
       ChunkTag(key, salt, i, flags, aad, ct)
         = Prf(SubKey(key, "stream"), ChunkInput(salt, i, flags, aad, ct))
BY Zenon DEF KeyCommitment, CommitInput, AeadTag, MacInput, SynthesiseIv, SivInput, ChunkTag, ChunkInput

InnerNonce(r) == SubSeq(r.inonce, 1, InnerLen)
VaultCt(r) == VaultXor(r.alg, DeriveKeys(r.key).inner, InnerNonce(r), r.chunks[1])
VaultMark(r) == <<"vault tag", r.alg, DeriveKeys(r.key).inner, InnerNonce(r), VaultCt(r), r.aad>>

VaultCells(r, v) ==
  /\ IsSequence(v) /\ Len(v) = 3 + Len(r.chunks[1])
  /\ v[1] = r.alg
  /\ SubSeq(v, 2, 2) = InnerNonce(r)
  /\ SubSeq(v, 3, Len(v)) = Append(VaultCt(r), {VaultMark(r)})
  /\ Range(v) = {r.alg} \cup Range(InnerNonce(r)) \cup Range(VaultCt(r)) \cup {{VaultMark(r)}}

Glued11(a, b, c, z) ==
  /\ IsSequence(z) /\ Len(z) = 2 + Len(c)
  /\ z[1] = a[1]
  /\ SubSeq(z, 2, 2) = b
  /\ SubSeq(z, 3, Len(z)) = c
  /\ Range(z) = Range(a) \cup Range(b) \cup Range(c)

LEMMA Glue11 ==
  ASSUME NEW a, NEW b, NEW c, IsSequence(a), IsSequence(b), IsSequence(c),
         Len(a) = 1, Len(b) = 1, NEW z, z = a \o b \o c
  PROVE  Glued11(a, b, c, z)
<1> DEFINE x == a \o b
           y == x \o c
<1>0. Len(c) \in Nat
  BY SequenceFacts
<1>1. /\ IsSequence(x) /\ Len(x) = 2 /\ Range(x) = Range(a) \cup Range(b)
      /\ x[1] = a[1] /\ x[2] = b[1]
  <2>1. /\ IsSequence(x) /\ Len(x) = Len(a) + Len(b) /\ Range(x) = Range(a) \cup Range(b)
        /\ \A i \in 1..Len(a) : x[i] = a[i]
        /\ \A i \in 1..Len(b) : x[Len(a) + i] = b[i]
    BY ONLY IsSequence(a), IsSequence(b), Joined
  <2> HIDE DEF x
  <2>2. \A i \in 1..1 : x[i] = a[i] /\ x[1 + i] = b[i]
    BY <2>1
  <2> QED BY <2>1, <2>2
<1>y. z = y
  OBVIOUS
<1> HIDE DEF x
<1>2. /\ SubSeq(y, 1, Len(x)) = x /\ SubSeq(y, Len(x) + 1, Len(y)) = c
      /\ IsSequence(y) /\ Len(y) = Len(x) + Len(c) /\ Range(y) = Range(x) \cup Range(c)
      /\ \A i \in 1..Len(x) : y[i] = x[i]
  <2>1. IsSequence(x)
    BY <1>1
  <2> QED BY ONLY <2>1, IsSequence(c), CutJoined, Joined
<1> HIDE DEF y
<1>3. y[1] = a[1] /\ y[2] = b[1] /\ Len(y) = 2 + Len(c) /\ SubSeq(y, 3, Len(y)) = c
  BY <1>1, <1>2
<1>4. SubSeq(y, 2, 2) = b
  <2>0. 2 <= Len(y)
    BY <1>0, <1>3
  <2>1. /\ IsSequence(SubSeq(y, 2, 2)) /\ Len(SubSeq(y, 2, 2)) = 1
        /\ \A i \in 1..1 : SubSeq(y, 2, 2)[i] = y[2 + i - 1]
    BY <1>2, <2>0, Part
  <2>2. \A i \in 1..1 : SubSeq(y, 2, 2)[i] = b[i]
    BY <1>3, <2>1
  <2> QED BY <2>1, <2>2, SameSequence
<1>5. Range(y) = Range(a) \cup Range(b) \cup Range(c)
  BY <1>1, <1>2
<1> QED
  BY <1>y, <1>2, <1>3, <1>4, <1>5 DEF Glued11

(* What seal_twolock is given, whether or not it is a request of the model. *)
VaultParts(r) ==
  /\ IsSequence(r.inonce) /\ Len(r.inonce) >= InnerLen
  /\ IsSequence(r.chunks[1]) /\ IsSequence(r.aad) /\ IsSequence(r.nonce)

LEMMA RequestParts ==
  ASSUME NEW r \in Requests, r.fmt # "stream", Len(r.inonce) >= InnerLen
  PROVE  VaultParts(r)
BY RequestFacts DEF VaultParts

LEMMA VaultFacts ==
  ASSUME NEW r, VaultParts(r)
  PROVE  VaultCells(r, Vault(r)) /\ IsSequence(VaultCt(r)) /\ Len(VaultCt(r)) = Len(r.chunks[1])
         /\ IsSequence(InnerNonce(r)) /\ Len(InnerNonce(r)) = 1
<1> DEFINE v == Vault(r)
           o == <<r.alg>>
           b == InnerNonce(r)
           ct == VaultCt(r)
           t == {VaultMark(r)}
           c == Append(ct, t)
<1>1. IsSequence(r.chunks[1]) /\ Len(r.chunks[1]) \in Nat
  BY SequenceFacts DEF VaultParts
<1>2. IsSequence(ct) /\ Len(ct) = Len(r.chunks[1])
  BY <1>1, VaultXorFacts DEF VaultCt
<1>3. IsSequence(b) /\ Len(b) = 1
  <2>1. IsSequence(r.inonce) /\ Len(r.inonce) \in Nat
    BY SequenceFacts DEF VaultParts
  <2>2. 1 <= Len(r.inonce)
    BY <2>1, ConstantsKnown DEF VaultParts
  <2>3. /\ IsSequence(SubSeq(r.inonce, 1, 1)) /\ Len(SubSeq(r.inonce, 1, 1)) = 1
    BY <2>1, <2>2, Part
  <2> QED BY <2>3, ConstantsKnown DEF InnerNonce
<1>4. IsSequence(o) /\ Len(o) = 1 /\ o[1] = r.alg /\ Range(o) = {r.alg}
  BY One
<1>5. v = o \o b \o c
  BY Zenon DEF Vault, InnerBlob, InnerNonce, VaultSeal, VaultCt, VaultMark, VaultTag
<1> HIDE DEF v, o, b, ct, t
<1>6. IsSequence(c) /\ Len(c) = Len(ct) + 1 /\ Range(c) = Range(ct) \cup {t}
  BY <1>2, Appended
<1> HIDE DEF c
<1>7. /\ IsSequence(v) /\ Len(v) = 2 + Len(c)
      /\ v[1] = o[1]
      /\ SubSeq(v, 2, 2) = b
      /\ SubSeq(v, 3, Len(v)) = c
      /\ Range(v) = Range(o) \cup Range(b) \cup Range(c)
  <2>1. Glued11(o, b, c, v)
    BY ONLY <1>3, <1>4, <1>5, <1>6, Glue11, Zenon
  <2> QED BY <2>1 DEF Glued11
<1>8. Len(v) = 3 + Len(r.chunks[1])
  BY <1>1, <1>2, <1>6, <1>7
<1>9. Range(v) = {r.alg} \cup Range(b) \cup Range(ct) \cup {t}
  BY <1>4, <1>6, <1>7
<1>10. VaultCells(r, v)
  BY <1>4, <1>7, <1>8, <1>9 DEF VaultCells, b, ct, t, c
<1> QED
  BY <1>2, <1>3, <1>10 DEF v, ct, b

-----------------------------------------------------------------------------
AeadMark(key, pt, aad, n, nonce, a) ==
  \/ PrfMark(SubKey(key, "commit"), CommitInput(nonce, aad), a)
  \/ PrfMark(SubKey(key, "mac"),
             MacInput(nonce, KeyCommitment(key, nonce, aad), aad, Encrypt(key, nonce, n, pt)), a)

SealMark(s, a) ==
  LET r == s.r
  IN  \/ r.fmt = "aead" /\ AeadMark(r.key, r.chunks[1], r.aad, s.n, r.nonce, a)
      \/ /\ r.fmt = "twolock"
         /\ \/ AeadMark(DeriveKeys(r.key).outer, Vault(r), r.aad, s.n, r.nonce, a)
            \/ a = VaultMark(r)
      \/ /\ r.fmt = "siv"
         /\ \/ PrfMark(SubKey(r.key, "commit"),
                       CommitInput(SynthesiseIv(r.key, r.aad, r.chunks[1]), r.aad), a)
            \/ PrfMark(SubKey(r.key, "siv"), SivInput(r.aad, r.chunks[1]), a)
      \/ /\ r.fmt = "stream"
         /\ \/ PrfMark(SubKey(r.key, "commit"), CommitInput(r.nonce, r.aad), a)
            \/ \E i \in 1..Len(Chunks(r)) :
                 PrfMark(SubKey(r.key, "stream"),
                         ChunkInput(r.nonce, i - 1, FlagsOf(r, i), r.aad, ChunkCt(r, i)), a)

(* What every sealed blob is made of. *)
Sound(b) == IsSequence(b) /\ CleanSeq(b)

LEMMA AeadBlobCells ==
  ASSUME NEW key, NEW pt, NEW aad, NEW n \in Nat, NEW nonce \in Seq(Cells),
         Sound(pt), Len(nonce) >= NonceLen,
         NEW b, b = AeadBlob(key, pt, aad, n, nonce)
  PROVE  /\ Sound(b) /\ Len(b) > 3
         /\ \A a : HasMark(b, a) => AeadMark(key, pt, aad, n, nonce, a) \/ HasMark(pt, a)
<1> DEFINE ct     == Encrypt(key, nonce, n, pt)
           commit == KeyCommitment(key, nonce, aad)
           tag    == AeadTag(key, nonce, commit, aad, ct)
           first  == SubSeq(nonce, 1, 1)
<1>1. IsSequence(pt) /\ CleanSeq(pt) /\ Len(pt) \in Nat /\ IsSequence(nonce)
  BY InSeq, SequenceFacts DEF Sound
<1>2. /\ IsSequence(b) /\ Len(b) = 5 + Len(pt)
      /\ Range(b) = Range(first) \cup Range(commit) \cup Range(ct) \cup Range(tag)
  BY <1>1, AeadBlobFacts
<1>3. \A c \in Range(first) : c \in Cells
  BY <1>1, NonceCell, CallersSeq, ConstantsKnown
<1>4. CleanSeq(ct) /\ \A a : HasMark(ct, a) => HasMark(pt, a)
  BY <1>1, EncryptCells
<1>5. /\ CleanSeq(commit)
      /\ \A a : HasMark(commit, a) => PrfMark(SubKey(key, "commit"), CommitInput(nonce, aad), a)
  BY PrfInputs, PrfCells
<1>6. /\ CleanSeq(tag)
      /\ \A a : HasMark(tag, a) => PrfMark(SubKey(key, "mac"), MacInput(nonce, commit, aad, ct), a)
  BY PrfInputs, PrfCells
<1>7. AeadMark(key, pt, aad, n, nonce, 0) \in BOOLEAN
  BY DEF AeadMark
<1>8. \A a : \/ PrfMark(SubKey(key, "commit"), CommitInput(nonce, aad), a)
             \/ PrfMark(SubKey(key, "mac"), MacInput(nonce, commit, aad, ct), a)
             => AeadMark(key, pt, aad, n, nonce, a)
  BY DEF AeadMark
<1> HIDE DEF ct, commit, tag, first
<1>9. CleanSeq(b)
  BY <1>2, <1>3, <1>4, <1>5, <1>6, CallersCell DEF CleanSeq
<1>10. ASSUME NEW a, HasMark(b, a) PROVE AeadMark(key, pt, aad, n, nonce, a) \/ HasMark(pt, a)
  <2>1. PICK c \in Range(b) : a \in c
    BY <1>10 DEF HasMark
  <2>2. c \notin Range(first)
    BY <1>3, <1>10, <2>1, CallersCell DEF HasMark, Marks
  <2>3. HasMark(ct, a) \/ HasMark(commit, a) \/ HasMark(tag, a)
    BY <1>2, <1>10, <2>1, <2>2 DEF HasMark
  <2> QED BY <1>4, <1>5, <1>6, <1>8, <2>3
<1> QED
  BY <1>1, <1>2, <1>9, <1>10 DEF Sound

LEMMA VaultCellsSound ==
  ASSUME NEW r \in Requests, r.fmt # "stream", Len(r.inonce) >= InnerLen
  PROVE  Sound(Vault(r)) /\ \A a : HasMark(Vault(r), a) => a = VaultMark(r)
<1> DEFINE v == Vault(r)
           m == VaultMark(r)
<1>1. /\ IsSequence(v)
      /\ Range(v) = {r.alg} \cup Range(InnerNonce(r)) \cup Range(VaultCt(r)) \cup {{m}}
  BY RequestParts, VaultFacts DEF VaultCells
<1>2. r.alg \in Cells /\ r.chunks[1] \in Seq(Cells) /\ IsSequence(r.chunks[1]) /\ r.inonce \in Seq(Cells)
      /\ IsSequence(r.inonce) /\ Len(r.inonce) \in Nat
  BY RequestFacts, SequenceFacts
<1>3. \A c \in Range(InnerNonce(r)) : c \in Cells
  <2>1. 1 <= Len(r.inonce)
    BY <1>2, ConstantsKnown
  <2>2. Range(SubSeq(r.inonce, 1, 1)) \subseteq Range(r.inonce)
    BY <1>2, <2>1, Part
  <2> QED BY <1>2, <2>2, CallersSeq, ConstantsKnown DEF InnerNonce
<1>4. CleanSeq(VaultCt(r)) /\ \A a : ~HasMark(VaultCt(r), a)
  BY <1>2, CallersSeq, VaultXorCells DEF VaultCt
<1>5. CleanCell({m})
  <2>1. m[1] # "flipped bit"
    BY DEF VaultMark
  <2> HIDE DEF m
  <2> QED BY <2>1, SingleCell
<1> HIDE DEF v, m
<1>6. CleanSeq(v)
  BY <1>1, <1>2, <1>3, <1>4, <1>5, CallersCell DEF CleanSeq
<1>7. ASSUME NEW a, HasMark(v, a) PROVE a = m
  <2>1. PICK c \in Range(v) : a \in c
    BY <1>7 DEF HasMark
  <2>2. c \notin Cells
    BY <1>7, <2>1, CallersCell DEF HasMark, Marks
  <2>3. c \notin Range(VaultCt(r))
    BY <1>4, <1>7, <2>1 DEF HasMark
  <2> QED BY <1>1, <1>2, <1>3, <2>1, <2>2, <2>3
<1> QED
  BY <1>1, <1>6, <1>7 DEF Sound, v, m

MarksOf(s, b) == \A a : HasMark(b, a) => SealMark(s, a)
GenuineCells(s) == Sound(s.blob) /\ Len(s.blob) > HeaderLen /\ MarksOf(s, s.blob)

LEMMA AeadGenuineCells ==
  ASSUME NEW s, Genuine(s), s.r.fmt = "aead"
  PROVE  GenuineCells(s)
<1> DEFINE r == s.r
           b == s.blob
<1>1. /\ r \in Requests /\ s.n \in Nat /\ Len(r.nonce) >= NonceLen
      /\ b = AeadBlob(r.key, r.chunks[1], r.aad, s.n, r.nonce)
  BY BlobsAssumption DEF Genuine
<1>2. r.nonce \in Seq(Cells) /\ r.chunks[1] \in Seq(Cells) /\ IsSequence(r.chunks[1])
  BY <1>1, RequestFacts
<1>3. Sound(r.chunks[1]) /\ \A a : ~HasMark(r.chunks[1], a)
  BY <1>2, CallersSeq DEF Sound
<1>4. /\ Sound(b) /\ Len(b) > 3
      /\ \A a : HasMark(b, a) =>
           AeadMark(r.key, r.chunks[1], r.aad, s.n, r.nonce, a) \/ HasMark(r.chunks[1], a)
  BY <1>1, <1>2, <1>3, AeadBlobCells
<1>5. \A a : AeadMark(r.key, r.chunks[1], r.aad, s.n, r.nonce, a) => SealMark(s, a)
  BY Zenon DEF SealMark
<1> QED
  BY <1>3, <1>4, <1>5, ConstantsKnown DEF GenuineCells, MarksOf

LEMMA TwolockGenuineCells ==
  ASSUME NEW s, Genuine(s), s.r.fmt = "twolock"
  PROVE  GenuineCells(s)
<1> DEFINE r == s.r
           b == s.blob
           v == Vault(r)
           k == DeriveKeys(r.key).outer
<1>1. /\ r \in Requests /\ s.n \in Nat /\ Len(r.nonce) >= NonceLen /\ Len(r.inonce) >= InnerLen
      /\ b = AeadBlob(k, v, r.aad, s.n, r.nonce)
  BY BlobsAssumption DEF Genuine
<1>2. r.nonce \in Seq(Cells)
  BY <1>1, RequestFacts
<1>3. Sound(v) /\ \A a : HasMark(v, a) => a = VaultMark(r)
  BY <1>1, VaultCellsSound
<1>5. \A a : AeadMark(k, v, r.aad, s.n, r.nonce, a) \/ a = VaultMark(r) => SealMark(s, a)
  BY Zenon DEF SealMark
<1> HIDE DEF v, k
<1>4. /\ Sound(b) /\ Len(b) > 3
      /\ \A a : HasMark(b, a) => AeadMark(k, v, r.aad, s.n, r.nonce, a) \/ HasMark(v, a)
  BY <1>1, <1>2, <1>3, AeadBlobCells
<1> QED
  BY <1>3, <1>4, <1>5, ConstantsKnown DEF GenuineCells, MarksOf

LEMMA SivGenuineCells ==
  ASSUME NEW s, Genuine(s), s.r.fmt = "siv"
  PROVE  GenuineCells(s)
<1> DEFINE r == s.r
           b == s.blob
           pt == r.chunks[1]
           siv == SynthesiseIv(r.key, r.aad, pt)
           commit == KeyCommitment(r.key, siv, r.aad)
           ct == Encrypt(r.key, siv, s.n, pt)
<1>1. /\ r \in Requests /\ s.n \in Nat /\ b = SealSiv(r.key, pt, r.aad, s.n).out
  BY BlobsAssumption DEF Genuine
<1>2. pt \in Seq(Cells) /\ IsSequence(pt) /\ Len(pt) \in Nat
  BY <1>1, RequestFacts, SequenceFacts
<1>3. IsSequence(b) /\ Len(b) = 4 + Len(pt) /\ Range(b) = Range(commit) \cup Range(siv) \cup Range(ct)
  BY <1>1, <1>2, SivBlobFacts
<1>4. CleanSeq(ct) /\ \A a : ~HasMark(ct, a)
  BY <1>1, <1>2, CallersSeq, EncryptCells
<1>5. CleanSeq(commit) /\ \A a : HasMark(commit, a) => SealMark(s, a)
  <2>1. /\ CleanSeq(commit)
        /\ \A a : HasMark(commit, a) =>
             PrfMark(SubKey(r.key, "commit"), CommitInput(siv, r.aad), a)
    BY PrfInputs, PrfCells
  <2>2. \A a : PrfMark(SubKey(r.key, "commit"), CommitInput(siv, r.aad), a) => SealMark(s, a)
    BY Zenon DEF SealMark
  <2> QED BY <2>1, <2>2
<1>6. CleanSeq(siv) /\ \A a : HasMark(siv, a) => SealMark(s, a)
  <2>1. /\ CleanSeq(siv)
        /\ \A a : HasMark(siv, a) => PrfMark(SubKey(r.key, "siv"), SivInput(r.aad, pt), a)
    BY PrfInputs, PrfCells
  <2>2. \A a : PrfMark(SubKey(r.key, "siv"), SivInput(r.aad, pt), a) => SealMark(s, a)
    BY Zenon DEF SealMark
  <2> QED BY <2>1, <2>2
<1> HIDE DEF siv, commit, ct
<1>7. CleanSeq(b) /\ MarksOf(s, b)
  BY <1>3, <1>4, <1>5, <1>6 DEF CleanSeq, HasMark, MarksOf
<1> QED
  BY <1>2, <1>3, <1>7, ConstantsKnown DEF GenuineCells, Sound

LEMMA StreamGenuineCells ==
  ASSUME NEW s, Genuine(s), s.r.fmt = "stream"
  PROVE  GenuineCells(s)
<1> DEFINE r == s.r
           b == s.blob
           commit == KeyCommitment(r.key, r.nonce, r.aad)
           m == Len(Chunks(r))
<1>1. r \in Requests /\ r.n \in Nat /\ Len(r.nonce) >= NonceLen /\ b = StreamBlob(r)
  BY BlobsAssumption DEF Genuine
<1>2. r.nonce \in Seq(Cells)
  BY <1>1, RequestFacts
<1>3. /\ IsSequence(b) /\ Len(b) > 3
      /\ \A c \in Range(b) :
           \/ c \in Range(r.nonce)
           \/ c \in Range(commit)
           \/ \E i \in 1..m : c \in Range(Frames(r)[i]) \/ c = Len4(Len(Frames(r)[i]) % LenLimit)
  BY <1>1, StreamBlobFacts
<1>4. \A c \in Range(r.nonce) : c \in Cells
  BY <1>2, CallersSeq
<1>5. CleanSeq(commit) /\ \A a : HasMark(commit, a) => SealMark(s, a)
  <2>1. /\ CleanSeq(commit)
        /\ \A a : HasMark(commit, a) =>
             PrfMark(SubKey(r.key, "commit"), CommitInput(r.nonce, r.aad), a)
    BY PrfInputs, PrfCells
  <2>2. \A a : PrfMark(SubKey(r.key, "commit"), CommitInput(r.nonce, r.aad), a) => SealMark(s, a)
    BY Zenon DEF SealMark
  <2> QED BY <2>1, <2>2
<1>6. ASSUME NEW i \in 1..m PROVE CleanSeq(TagOf(r, i)) /\ \A a : HasMark(TagOf(r, i), a) => SealMark(s, a)
  <2> DEFINE input == ChunkInput(r.nonce, i - 1, FlagsOf(r, i), r.aad, ChunkCt(r, i))
  <2>1. /\ CleanSeq(TagOf(r, i))
        /\ \A a : HasMark(TagOf(r, i), a) => PrfMark(SubKey(r.key, "stream"), input, a)
    BY PrfInputs, PrfCells DEF TagOf
  <2>2. \A a : PrfMark(SubKey(r.key, "stream"), input, a) => SealMark(s, a)
    BY Zenon DEF SealMark
  <2> QED BY <2>1, <2>2
<1>7. ASSUME NEW i \in 1..m PROVE CleanSeq(ChunkCt(r, i)) /\ \A a : ~HasMark(ChunkCt(r, i), a)
  <2>1. Chunks(r)[i] \in Seq(Cells) /\ IsSequence(Chunks(r)[i])
    BY <1>1, ChunksFacts
  <2> QED BY <1>1, <2>1, CallersSeq, EncryptCells DEF ChunkCt
<1>8. ASSUME NEW i \in 1..m PROVE
         CleanCell(FlagsOf(r, i)) /\ \A a \in FlagsOf(r, i) : a[1] \notin Marked
  <2>1. CleanCell({<<"flags", 1>>}) /\ CleanCell({<<"flags", 0>>})
    BY SingleCell
  <2>2. FlagsOf(r, i) = {<<"flags", 1>>} \/ FlagsOf(r, i) = {<<"flags", 0>>}
    BY DEF FlagsOf, FINAL, MORE
  <2>3. <<"flags", 1>>[1] \notin Marked /\ <<"flags", 0>>[1] \notin Marked
    BY DEF Marked
  <2>4. \A a : (a \in {<<"flags", 1>>} => a[1] \notin Marked) /\ (a \in {<<"flags", 0>>} => a[1] \notin Marked)
    BY <2>3, Zenon
  <2> QED BY <2>1, <2>2, <2>4
<1>9. ASSUME NEW v PROVE CleanCell(Len4(v)) /\ \A a \in Len4(v) : a[1] \notin Marked
  <2> DEFINE a == <<"len4", v>>
  <2>1. a[1] = "len4" /\ "len4" \notin Marked /\ a[1] # "flipped bit"
    BY DEF Marked
  <2>2. Len4(v) = {a}
    BY DEF Len4
  <2> HIDE DEF a
  <2> QED BY <2>1, <2>2, SingleCell
<1>10. ASSUME NEW i \in 1..m PROVE
         Range(Frames(r)[i]) = {FlagsOf(r, i)} \cup Range(ChunkCt(r, i)) \cup Range(TagOf(r, i))
  BY <1>1, FrameFacts
<1>11. ASSUME NEW c \in Range(b) PROVE CleanCell(c) /\ \A a \in c : a[1] \in Marked => SealMark(s, a)
  <2>1. CASE c \in Range(r.nonce)
    BY <1>4, <2>1, CallersCell DEF Marked, Reserved
  <2>2. CASE c \in Range(commit)
    BY <1>5, <2>2 DEF CleanSeq, HasMark
  <2>3. ASSUME NEW i \in 1..m, c \in Range(Frames(r)[i])
        PROVE  CleanCell(c) /\ \A a \in c : a[1] \in Marked => SealMark(s, a)
    <3>1. CASE c = FlagsOf(r, i)
      BY <1>8, <3>1
    <3>2. CASE c \in Range(ChunkCt(r, i))
      BY <1>7, <3>2 DEF CleanSeq, HasMark
    <3>3. CASE c \in Range(TagOf(r, i))
      BY <1>6, <3>3 DEF CleanSeq, HasMark
    <3> QED BY <1>10, <2>3, <3>1, <3>2, <3>3
  <2>4. ASSUME NEW i \in 1..m, c = Len4(Len(Frames(r)[i]) % LenLimit)
        PROVE  CleanCell(c) /\ \A a \in c : a[1] \in Marked => SealMark(s, a)
    BY <1>9, <2>4
  <2> QED BY <1>3, <2>1, <2>2, <2>3, <2>4
<1>12. CleanSeq(b) /\ MarksOf(s, b)
  BY <1>11 DEF CleanSeq, MarksOf, HasMark
<1> QED
  BY <1>3, <1>12, ConstantsKnown DEF GenuineCells, Sound

(* The cells of a sealed blob are clean, and its marks are those of its    *)
(* seal.                                                                   *)
LEMMA GenuineBlob ==
  ASSUME NEW s, Genuine(s)
  PROVE  GenuineCells(s)
<1>1. s.r.fmt \in {"aead", "siv", "twolock", "stream"}
  BY RequestFacts DEF Genuine, Formats
<1> QED
  BY <1>1, AeadGenuineCells, TwolockGenuineCells, SivGenuineCells, StreamGenuineCells

-----------------------------------------------------------------------------
(* The inductive invariant.  Every mark in the blob under way was written  *)
(* by a seal or, once the outer wall was redone (`peeled`), with an outer  *)
(* key; until then every cell is one of a sealed blob or a length field,   *)
(* flipped or not.  That a blob which opens was sealed does not survive an *)
(* edit by itself: what survives is where its cells come from, and the     *)
(* checks of the openers do the rest.                                      *)
OuterMark(a) == \E k \in Keys : \E use, input : PrfMark(SubKey(DeriveKeys(k).outer, use), input, a)
Known(a, S, p) == (\E s \in S : SealMark(s, a)) \/ (p /\ OuterMark(a))
Written(d, S) == (\E v : d = Len4(v)) \/ (\E s \in S : d \in Range(s.blob))
FromSealed(c, S) == \E d : Written(d, S) /\ (c = d \/ c = Flip(d))
GoodCell(c, S, p) ==
  /\ IsFiniteSet(c)
  /\ \A a \in c : a[1] \in Marked => Known(a, S, p)
  /\ ~p => FromSealed(c, S)

SealedInv == \A s \in sealed : Genuine(s)
GoodCells(w, S, p) == IsSequence(w) /\ \A c \in Range(w) : GoodCell(c, S, p)
WireInv == GoodCells(wire, sealed, peeled)
GotInv ==
  got # None =>
    /\ wire # <<>> /\ got.blob = wire
    /\ got.fmt \in Formats /\ got.key \in Keys /\ got.aad \in Aads /\ got.n \in MapCounts
    /\ got.py.ok \in BOOLEAN /\ got.rs.ok \in BOOLEAN
CountInv ==
  /\ IsFiniteSet(sealed) /\ Cardinality(sealed) <= MaxSeals
  /\ edits \in 0..MaxEdits /\ peeled \in BOOLEAN /\ garble \in Misreads
Inv == SealedInv /\ WireInv /\ GotInv /\ CountInv

LEMMA FlipTwice ==
  ASSUME NEW c PROVE Flip(Flip(c)) = c
BY XorTwice DEF Flip

LEMMA GoodFlip ==
  ASSUME NEW c, NEW S, NEW p, GoodCell(c, S, p)
  PROVE  GoodCell(Flip(c), S, p)
<1>1. IsFiniteSet(Flip(c))
  <2>1. IsFiniteSet({<<"flipped bit">>}) /\ IsFiniteSet(c)
    BY FS_Singleton DEF GoodCell
  <2>2. IsFiniteSet(c \cup {<<"flipped bit">>})
    BY <2>1, FS_Union
  <2>3. Flip(c) \in SUBSET (c \cup {<<"flipped bit">>})
    BY DEF Flip, Xor
  <2> QED BY <2>2, <2>3, FS_Subset
<1>2. ASSUME NEW a \in Flip(c), a[1] \in Marked PROVE Known(a, S, p)
  <2>1. <<"flipped bit">>[1] \notin Marked
    BY DEF Marked
  <2>2. a \in c
    BY <1>2, <2>1 DEF Flip, Xor
  <2> QED BY <1>2, <2>2 DEF GoodCell
<1>3. ASSUME ~p PROVE FromSealed(Flip(c), S)
  <2>1. PICK d : Written(d, S) /\ (c = d \/ c = Flip(d))
    BY <1>3 DEF GoodCell, FromSealed
  <2>2. Flip(c) = Flip(d) \/ Flip(c) = d
    BY <2>1, FlipTwice
  <2> QED BY <2>1, <2>2 DEF FromSealed
<1> QED
  BY <1>1, <1>2, <1>3 DEF GoodCell

LEMMA GoodLen4 ==
  ASSUME NEW v, NEW S, NEW p
  PROVE  GoodCell(Len4(v), S, p)
<1> DEFINE a == <<"len4", v>>
<1>1. a[1] \notin Marked
  BY DEF Marked
<1>2. Len4(v) = {a}
  BY DEF Len4
<1> HIDE DEF a
<1>3. IsFiniteSet(Len4(v))
  BY <1>2, FS_Singleton
<1>4. FromSealed(Len4(v), S)
  BY DEF FromSealed, Written
<1> QED
  BY <1>1, <1>2, <1>3, <1>4 DEF GoodCell

LEMMA GoodBlob ==
  ASSUME NEW S, NEW p, NEW s \in S, Genuine(s)
  PROVE  GoodCells(s.blob, S, p)
<1>1. IsSequence(s.blob) /\ CleanSeq(s.blob) /\ MarksOf(s, s.blob)
  BY GenuineBlob DEF GenuineCells, Sound
<1>2. ASSUME NEW c \in Range(s.blob) PROVE GoodCell(c, S, p)
  <2>1. IsFiniteSet(c)
    BY <1>1 DEF CleanSeq, CleanCell
  <2>2. \A a \in c : a[1] \in Marked => SealMark(s, a)
    BY <1>1 DEF MarksOf, HasMark
  <2>3. FromSealed(c, S)
    BY DEF FromSealed, Written
  <2> QED BY <2>1, <2>2, <2>3 DEF GoodCell, Known
<1> QED
  BY <1>1, <1>2 DEF GoodCells

-----------------------------------------------------------------------------
(* The edits: what is made of good cells is made of good cells. *)

LEMMA GoodPart ==
  ASSUME NEW w, NEW S, NEW p, GoodCells(w, S, p), NEW m \in Nat \ {0}, NEW n \in Int, n <= Len(w)
  PROVE  GoodCells(SubSeq(w, m, n), S, p)
<1>1. IsSequence(SubSeq(w, m, n)) /\ Range(SubSeq(w, m, n)) \subseteq Range(w)
  BY Part DEF GoodCells
<1> QED
  BY <1>1 DEF GoodCells

LEMMA GoodJoined ==
  ASSUME NEW x, NEW y, NEW S, NEW p, GoodCells(x, S, p), GoodCells(y, S, p)
  PROVE  GoodCells(x \o y, S, p)
<1> DEFINE z == x \o y
<1>1. IsSequence(x) /\ IsSequence(y)
  BY DEF GoodCells
<1>2. IsSequence(z) /\ Range(z) = Range(x) \cup Range(y)
  BY ONLY <1>1, Joined
<1> HIDE DEF z
<1>3. GoodCells(z, S, p)
  BY <1>2 DEF GoodCells
<1> QED
  BY <1>3 DEF z

LEMMA GoodOne ==
  ASSUME NEW c, NEW S, NEW p, GoodCell(c, S, p)
  PROVE  GoodCells(<<c>>, S, p)
<1> DEFINE o == <<c>>
<1>1. IsSequence(o) /\ Range(o) = {c}
  BY One
<1> HIDE DEF o
<1>2. GoodCells(o, S, p)
  BY <1>1 DEF GoodCells
<1> QED
  BY <1>2 DEF o

LEMMA GoodTampered ==
  ASSUME NEW w, NEW S, NEW p, GoodCells(w, S, p), NEW i \in DOMAIN w
  PROVE  GoodCells([w EXCEPT ![i] = Flip(@)], S, p)
<1> DEFINE z == [w EXCEPT ![i] = Flip(@)]
<1>1. /\ IsSequence(w) /\ Len(w) \in Nat /\ DOMAIN w = 1..Len(w) /\ Range(w) = {w[j] : j \in 1..Len(w)}
      /\ w = [j \in 1..Len(w) |-> w[j]]
  BY SequenceFacts DEF GoodCells
<1>2. z = [j \in 1..Len(w) |-> z[j]] /\ \A j \in 1..Len(w) : z[j] = w[j] \/ z[j] = Flip(w[j])
  BY <1>1
<1> HIDE DEF z
<1>3. IsSequence(z) /\ Len(z) = Len(w)
  BY <1>1, <1>2, FunctionIsSequence
<1>4. Range(z) = {z[j] : j \in 1..Len(w)}
  BY <1>3, SequenceFacts
<1>5. ASSUME NEW c \in Range(z) PROVE GoodCell(c, S, p)
  <2>1. PICK j \in 1..Len(w) : c = z[j]
    BY <1>4
  <2>2. GoodCell(w[j], S, p)
    BY <1>1 DEF GoodCells
  <2> QED BY <1>2, <2>1, <2>2, GoodFlip
<1>6. GoodCells(z, S, p)
  BY <1>3, <1>5 DEF GoodCells
<1> QED
  BY <1>6 DEF z

LEMMA GoodLost ==
  ASSUME NEW w, NEW S, NEW p, GoodCells(w, S, p), NEW i \in DOMAIN w
  PROVE  GoodCells(RemoveAt(w, i), S, p)
<1>1. Len(w) \in Nat /\ i \in 1..Len(w)
  BY SequenceFacts DEF GoodCells
<1>2. GoodCells(SubSeq(w, 1, i - 1), S, p)
  BY <1>1, GoodPart
<1>3. GoodCells(SubSeq(w, i + 1, Len(w)), S, p)
  BY <1>1, GoodPart
<1> DEFINE x == SubSeq(w, 1, i - 1)
           y == SubSeq(w, i + 1, Len(w))
<1>4. RemoveAt(w, i) = x \o y
  BY Zenon DEF RemoveAt
<1>5. GoodCells(x \o y, S, p)
  BY ONLY <1>2, <1>3, GoodJoined, Zenon
<1> QED
  BY ONLY <1>4, <1>5, Zenon

LEMMA GoodRepeated ==
  ASSUME NEW w, NEW S, NEW p, GoodCells(w, S, p), NEW i \in DOMAIN w
  PROVE  GoodCells(InsertAt(w, i, w[i]), S, p)
<1>1. Len(w) \in Nat /\ i \in 1..Len(w) /\ GoodCell(w[i], S, p)
  BY SequenceFacts DEF GoodCells
<1> DEFINE x == SubSeq(w, 1, i - 1)
           o == <<w[i]>>
           y == SubSeq(w, i, Len(w))
<1>2. GoodCells(x, S, p) /\ GoodCells(y, S, p) /\ GoodCells(o, S, p)
  <2>1. i - 1 \in Int /\ i - 1 <= Len(w) /\ i \in Nat \ {0} /\ Len(w) \in Int /\ 1 \in Nat \ {0} /\ Len(w) <= Len(w)
    BY <1>1
  <2>2. GoodCells(x, S, p)
    BY <2>1, GoodPart
  <2>3. GoodCells(y, S, p)
    BY <2>1, GoodPart
  <2>4. GoodCells(o, S, p)
    BY <1>1, GoodOne
  <2> QED BY <2>2, <2>3, <2>4
<1>3. InsertAt(w, i, w[i]) = x \o o \o y
  BY Zenon DEF InsertAt
<1> HIDE DEF x, o, y
<1>4. GoodCells(x \o o, S, p)
  BY ONLY <1>2, GoodJoined, Zenon
<1>5. GoodCells(x \o o \o y, S, p)
  BY ONLY <1>2, <1>4, GoodJoined, Zenon
<1> QED
  BY ONLY <1>3, <1>5, Zenon

(* The loop of _split as a function. *)
SplitStep(blob, g, pos) ==
  LET end == pos + LenBytes + NumberAt(blob[pos + 1])
  IN  IF pos = Len(blob) THEN <<>>
      ELSE IF end >= Len(blob) THEN << SubSeq(blob, pos + LenBytes + 1, Len(blob)) >>
      ELSE << SubSeq(blob, pos + LenBytes + 1, end) >> \o g[end]
SplitLoop(blob, g) == g = [pos \in 0..Len(blob) |-> SplitStep(blob, g, pos)]

LEMMA SplitLocal ==
  ASSUME NEW blob, NEW g, NEW h, NEW pos \in 0..Len(blob),
         Len(blob) \in Nat, garble \in Misreads,
         \A p \in pos + 1..Len(blob) : g[p] = h[p]
  PROVE  SplitStep(blob, g, pos) = SplitStep(blob, h, pos)
<1> DEFINE end == pos + LenBytes + NumberAt(blob[pos + 1])
<1>1. NumberAt(blob[pos + 1]) \in Nat
  BY NumberRange, BlobsAssumption
<1>2. CASE pos = Len(blob)
  BY <1>2, Zenon DEF SplitStep
<1>3. CASE end >= Len(blob)
  BY <1>3, Zenon DEF SplitStep
<1>4. CASE ~(end >= Len(blob))
  <2>1. end \in pos + 1..Len(blob)
    BY <1>1, <1>4 DEF LenBytes
  <2>2. g[end] = h[end]
    BY <2>1
  <2> QED BY <2>2, Zenon DEF SplitStep
<1> QED
  BY <1>2, <1>3, <1>4

LEMMA SplitLoopExists ==
  ASSUME NEW blob, Len(blob) \in Nat, garble \in Misreads
  PROVE  \E g : SplitLoop(blob, g)
<1> DEFINE L == Len(blob)
           Dom(k) == L - k..L
           Step(g, at) == SplitStep(blob, g, at)
           P(k, g) == g = [at \in Dom(k) |-> Step(g, at)]
           S == {k \in Nat : k <= L + 1 => \E g : P(k - 1, g)}
<1> HIDE DEF Step, Dom
<1>d. \A k \in Int : \A at : at \in Dom(k) <=> at \in L - k..L
  BY DEF Dom
<1>1. 0 \in S
  <2> DEFINE e == [at \in Dom(0 - 1) |-> 0]
             f == [at \in Dom(0 - 1) |-> Step(e, at)]
  <2>1. e = f
    <3>1. Dom(0 - 1) = {}
      BY <1>d
    <3> QED BY <3>1
  <2> HIDE DEF e
  <2>2. P(0 - 1, e)
    <3>1. P(0 - 1, e) <=> e = f
      BY Zenon
    <3> QED BY <2>1, <3>1
  <2> HIDE DEF P
  <2> QED BY <2>2
<1>2. ASSUME NEW k \in Nat, k \in S PROVE k + 1 \in S
  <2> SUFFICES ASSUME k + 1 <= L + 1 PROVE \E g : P(k, g)
    <3> HIDE DEF P
    <3> QED OBVIOUS
  <2>1. PICK g : P(k - 1, g)
    <3> HIDE DEF P
    <3> QED BY <1>2
  <2> DEFINE h == [at \in Dom(k) |-> IF at = L - k THEN Step(g, at) ELSE g[at]]
             f == [at \in Dom(k) |-> Step(h, at)]
  <2>2. \A at \in Dom(k - 1) : g[at] = Step(g, at)
    BY <2>1
  <2>3. \A at \in Dom(k) : h[at] = IF at = L - k THEN Step(g, at) ELSE g[at]
    OBVIOUS
  <2>4. \A at \in Dom(k) : f[at] = Step(h, at)
    OBVIOUS
  <2> HIDE DEF P
  <2>5. ASSUME NEW at \in Dom(k) PROVE h[at] = f[at]
    <3> HIDE DEF h, f
    <3>1. at \in L - k..L /\ at \in 0..Len(blob)
      BY <1>d
    <3>2. \A p \in at + 1..Len(blob) : g[p] = h[p]
      <4> TAKE p \in at + 1..Len(blob)
      <4>1. p \in Dom(k) /\ p # L - k
        BY <1>d, <3>1
      <4> QED BY <2>3, <4>1
    <3>3. Step(g, at) = Step(h, at)
      <4> USE DEF Step
      <4> QED BY <3>1, <3>2, SplitLocal
    <3>4. h[at] = Step(g, at)
      <4>1. CASE at = L - k
        BY <2>3, <4>1
      <4>2. CASE at # L - k
        <5>1. at \in Dom(k - 1)
          BY <1>d, <3>1, <4>2
        <5> QED BY <2>2, <2>3, <4>2, <5>1
      <4> QED BY <4>1, <4>2
    <3> QED BY <2>4, <3>3, <3>4
  <2>6. h = f
    BY <2>5
  <2> HIDE DEF h
  <2>7. P(k, h)
    BY <2>6 DEF P
  <2> QED BY <2>7
<1> HIDE DEF S
<1>3. L + 1 \in S
  BY <1>1, <1>2, SetInduction
<1>4. PICK g : P(L + 1 - 1, g)
  <2> HIDE DEF P
  <2> QED BY <1>3 DEF S
<1>5. L - (L + 1 - 1) = 0
  OBVIOUS
<1>6. SplitLoop(blob, g)
  BY <1>4, <1>5 DEF SplitLoop, Step, Dom
<1> QED
  BY <1>6

GoodFrames(fs, S, p) == IsSequence(fs) /\ \A f \in Range(fs) : GoodCells(f, S, p)

LEMMA GoodOneFrame ==
  ASSUME NEW f, NEW S, NEW p, GoodCells(f, S, p)
  PROVE  GoodFrames(<<f>>, S, p)
<1> DEFINE o == <<f>>
<1>1. IsSequence(o) /\ Range(o) = {f}
  BY One
<1> HIDE DEF o
<1>2. GoodFrames(o, S, p)
  BY <1>1 DEF GoodFrames
<1> QED
  BY <1>2 DEF o

LEMMA GoodFramesJoined ==
  ASSUME NEW x, NEW y, NEW S, NEW p, GoodFrames(x, S, p), GoodFrames(y, S, p)
  PROVE  GoodFrames(x \o y, S, p)
<1> DEFINE z == x \o y
<1>1. IsSequence(x) /\ IsSequence(y)
  BY DEF GoodFrames
<1>2. IsSequence(z) /\ Range(z) = Range(x) \cup Range(y)
  BY ONLY <1>1, Joined
<1> HIDE DEF z
<1>3. GoodFrames(z, S, p)
  BY <1>2 DEF GoodFrames
<1> QED
  BY <1>3 DEF z

LEMMA GoodFramesPart ==
  ASSUME NEW w, NEW S, NEW p, GoodFrames(w, S, p), NEW m \in Nat \ {0}, NEW n \in Int, n <= Len(w)
  PROVE  GoodFrames(SubSeq(w, m, n), S, p)
<1>1. IsSequence(SubSeq(w, m, n)) /\ Range(SubSeq(w, m, n)) \subseteq Range(w)
  BY Part DEF GoodFrames
<1> QED
  BY <1>1 DEF GoodFrames

(* The frames that _split finds in good cells are good.                    *)
LEMMA SplitGood ==
  ASSUME NEW blob, NEW S, NEW p, GoodCells(blob, S, p), Len(blob) >= HeaderLen, garble \in Misreads
  PROVE  GoodFrames(Split(blob), S, p)
<1> DEFINE L == Len(blob)
           f == CHOOSE g : SplitLoop(blob, g)
           T == {k \in Nat : \A q \in 0..k : q <= L => GoodFrames(f[L - q], S, p)}
<1>0. L \in Nat /\ IsSequence(blob)
  BY SequenceFacts DEF GoodCells
<1>1. SplitLoop(blob, f)
  BY <1>0, SplitLoopExists
<1>2. Split(blob) = f[HeaderLen]
  BY Zenon DEF Split, SplitLoop, SplitStep
<1> HIDE DEF f
<1>3. \A pos \in 0..L : f[pos] = SplitStep(blob, f, pos)
  BY <1>1 DEF SplitLoop
<1>4. ASSUME NEW pos \in 0..L, \A q \in pos + 1..L : GoodFrames(f[q], S, p)
      PROVE  GoodFrames(f[pos], S, p)
  <2> DEFINE end == pos + LenBytes + NumberAt(blob[pos + 1])
             x == SubSeq(blob, pos + LenBytes + 1, L)
             y == SubSeq(blob, pos + LenBytes + 1, end)
  <2>0. NumberAt(blob[pos + 1]) \in Nat
    BY NumberRange, BlobsAssumption
  <2>1. end \in Nat /\ end > pos /\ pos + LenBytes + 1 \in Nat \ {0}
    BY <2>0 DEF LenBytes
  <2>2. /\ pos = L => f[pos] = <<>>
        /\ pos # L /\ end >= L => f[pos] = <<x>>
        /\ pos # L /\ ~(end >= L) => f[pos] = <<y>> \o f[end]
    BY <1>3, Zenon DEF SplitStep
  <2> HIDE DEF end
  <2>3. CASE pos = L
    <3>1. IsSequence(<<>>) /\ Range(<<>>) = {}
      BY DEF IsSequence, Range
    <3> QED BY <2>2, <2>3, <3>1 DEF GoodFrames
  <2>4. CASE pos # L /\ end >= L
    <3>1. GoodCells(x, S, p)
      BY <1>0, <2>1, GoodPart
    <3>2. GoodFrames(<<x>>, S, p)
      BY <3>1, GoodOneFrame
    <3> QED BY <2>2, <2>4, <3>2
  <2>5. CASE pos # L /\ ~(end >= L)
    <3>1. GoodCells(y, S, p)
      BY <1>0, <2>1, <2>5, GoodPart
    <3>2. GoodFrames(<<y>>, S, p)
      BY <3>1, GoodOneFrame
    <3>3. GoodFrames(f[end], S, p)
      BY <1>0, <1>4, <2>1, <2>5
    <3> DEFINE o == <<y>>
               z == f[end]
    <3>4. f[pos] = o \o z
      BY <2>2, <2>5, Zenon
    <3> HIDE DEF o, z
    <3>5. GoodFrames(o \o z, S, p)
      BY ONLY <3>2, <3>3, GoodFramesJoined, Zenon DEF o, z
    <3> QED BY ONLY <3>4, <3>5, Zenon
  <2> QED BY <2>3, <2>4, <2>5
<1> DEFINE G(q) == GoodFrames(f[q], S, p)
<1>5. \A pos \in 0..L : (\A q \in pos + 1..L : G(q)) => G(pos)
  BY <1>4
<1>t. T = {k \in Nat : \A q \in 0..k : q <= L => G(L - q)}
  OBVIOUS
<1> HIDE DEF G, T
<1>6. 0 \in T
  <2>1. G(L)
    BY <1>0, <1>5
  <2> QED BY <1>0, <1>t, <2>1
<1>7. ASSUME NEW k \in Nat, k \in T PROVE k + 1 \in T
  <2> SUFFICES ASSUME NEW q \in 0..k + 1, q <= L PROVE G(L - q)
    BY <1>t
  <2>1. CASE q <= k
    BY <1>7, <1>t, <2>1
  <2>2. CASE q = k + 1
    <3> DEFINE pos == L - q
    <3>1. pos \in 0..L
      BY <1>0
    <3>2. ASSUME NEW u \in pos + 1..L PROVE G(u)
      <4>1. L - u \in 0..k /\ L - u <= L /\ L - (L - u) = u
        BY <1>0, <2>2
      <4>2. G(L - (L - u))
        BY <1>7, <1>t, <4>1
      <4> QED BY <4>1, <4>2
    <3> QED BY <1>5, <3>1, <3>2
  <2> QED BY <2>1, <2>2
<1>8. L \in T
  BY <1>0, <1>6, <1>7, SetInduction
<1>9. G(HeaderLen)
  <2>1. L - HeaderLen \in 0..L /\ L - (L - HeaderLen) = HeaderLen
    BY <1>0, ConstantsKnown
  <2> QED BY <1>8, <1>t, <2>1
<1> QED
  BY <1>2, <1>9 DEF G

LEMMA JoinGood ==
  ASSUME NEW h, NEW fs, NEW S, NEW p, GoodCells(h, S, p), GoodFrames(fs, S, p)
  PROVE  GoodCells(Join(h, fs), S, p)
<1> DEFINE ps == [i \in DOMAIN fs |-> Prefixed(fs[i])]
           m == Len(fs)
<1>1. /\ m \in Nat /\ DOMAIN fs = 1..m
      /\ \A i \in 1..m : GoodCells(fs[i], S, p)
  BY SequenceFacts DEF GoodFrames
<1>2. ps = [i \in 1..m |-> ps[i]] /\ \A i \in 1..m : ps[i] = Prefixed(fs[i])
  BY <1>1
<1>j. Join(h, fs) = h \o FlattenSeq(ps)
  BY Zenon DEF Join
<1> HIDE DEF ps
<1>3. IsSequence(ps) /\ Len(ps) = m
  BY <1>1, <1>2, FunctionIsSequence
<1>4. ASSUME NEW i \in 1..m PROVE GoodCells(ps[i], S, p)
  <2>1. /\ IsSequence(ps[i])
        /\ Range(ps[i]) = {Len4(Len(fs[i]) % LenLimit)} \cup Range(fs[i])
    BY <1>1, <1>2, PrefixedFacts DEF GoodCells
  <2> QED BY <1>1, <2>1, GoodLen4 DEF GoodCells
<1> DEFINE w == FlattenSeq(ps)
<1>5. IsSequence(w) /\ \A c \in Range(w) : \E i \in 1..m : c \in Range(ps[i])
  BY <1>3, <1>4, FlattenFacts DEF GoodCells
<1> HIDE DEF w
<1>6. GoodCells(w, S, p)
  BY <1>4, <1>5 DEF GoodCells
<1>7. GoodCells(h \o w, S, p)
  BY ONLY <1>6, GoodCells(h, S, p), GoodJoined, Zenon
<1> QED
  BY ONLY <1>j, <1>7, Zenon DEF w

LEMMA SwapGood ==
  ASSUME NEW fs, NEW S, NEW p, GoodFrames(fs, S, p), NEW i \in DOMAIN fs, NEW j \in DOMAIN fs
  PROVE  GoodFrames([fs EXCEPT ![i] = fs[j], ![j] = fs[i]], S, p)
<1> DEFINE z == [fs EXCEPT ![i] = fs[j], ![j] = fs[i]]
<1>1. /\ IsSequence(fs) /\ Len(fs) \in Nat /\ DOMAIN fs = 1..Len(fs)
      /\ fs = [k \in 1..Len(fs) |-> fs[k]]
      /\ \A k \in 1..Len(fs) : fs[k] \in Range(fs)
  BY SequenceFacts DEF GoodFrames
<1>2. z = [k \in 1..Len(fs) |-> z[k]] /\ \A k \in 1..Len(fs) : z[k] \in Range(fs)
  BY <1>1
<1> HIDE DEF z
<1>3. IsSequence(z) /\ Len(z) = Len(fs)
  BY <1>1, <1>2, FunctionIsSequence
<1>4. Range(z) = {z[k] : k \in 1..Len(fs)}
  BY <1>3, SequenceFacts
<1>5. GoodFrames(z, S, p)
  BY <1>2, <1>3, <1>4 DEF GoodFrames
<1> QED
  BY <1>5 DEF z

(* Whatever is done with those frames, the blob joined from them is good.  *)
LEMMA ReframeGood ==
  ASSUME NEW w, NEW S, NEW p, GoodCells(w, S, p), Len(w) >= HeaderLen, garble \in Misreads,
         NEW i \in DOMAIN Split(w), NEW j \in DOMAIN Split(w),
         NEW fs \in {SubSeq(Split(w), 1, i - 1) \o SubSeq(Split(w), j, Len(Split(w))),
                     [Split(w) EXCEPT ![i] = Split(w)[j], ![j] = Split(w)[i]]}
  PROVE  GoodCells(Join(SubSeq(w, 1, HeaderLen), fs), S, p)
<1> DEFINE frames == Split(w)
           x == SubSeq(frames, 1, i - 1)
           y == SubSeq(frames, j, Len(frames))
<1>1. GoodFrames(frames, S, p)
  BY SplitGood
<1>f. fs = x \o y \/ fs = [frames EXCEPT ![i] = frames[j], ![j] = frames[i]]
  OBVIOUS
<1>w. Len(w) \in Nat /\ IsSequence(w)
  BY SequenceFacts DEF GoodCells
<1>i. i \in DOMAIN frames /\ j \in DOMAIN frames
  OBVIOUS
<1> HIDE DEF frames
<1>2. i \in 1..Len(frames) /\ j \in 1..Len(frames) /\ Len(frames) \in Nat
  BY <1>1, <1>i, SequenceFacts DEF GoodFrames
<1>a. /\ 1 \in Nat \ {0} /\ i - 1 \in Int /\ i - 1 <= Len(frames)
      /\ j \in Nat \ {0} /\ Len(frames) \in Int /\ Len(frames) <= Len(frames)
  BY <1>2
<1>3. GoodFrames(x, S, p)
  BY <1>1, <1>a, GoodFramesPart
<1>4. GoodFrames(y, S, p)
  BY <1>1, <1>a, GoodFramesPart
<1> HIDE DEF x, y
<1>5. GoodFrames(x \o y, S, p)
  BY ONLY <1>3, <1>4, GoodFramesJoined, Zenon
<1>6. GoodFrames(fs, S, p)
  <2>1. CASE fs = x \o y
    BY ONLY <1>5, <2>1, Zenon
  <2>2. CASE fs = [frames EXCEPT ![i] = frames[j], ![j] = frames[i]]
    BY ONLY <1>1, <1>i, <2>2, SwapGood, Zenon
  <2> QED BY <1>f, <2>1, <2>2
<1>7. GoodCells(SubSeq(w, 1, HeaderLen), S, p)
  <2>1. 1 \in Nat \ {0} /\ HeaderLen \in Int /\ HeaderLen <= Len(w)
    BY <1>w, ConstantsKnown
  <2> QED BY <2>1, GoodPart
<1> QED
  BY <1>6, <1>7, JoinGood

-----------------------------------------------------------------------------
(* The outer key alone: what Rewrap writes is known to have been written with it. *)

LEMMA GoodPrf ==
  ASSUME NEW S, NEW k \in Keys, NEW use, NEW input
  PROVE  GoodCells(Prf(SubKey(DeriveKeys(k).outer, use), input), S, TRUE)
<1> DEFINE key == SubKey(DeriveKeys(k).outer, use)
           z == Prf(key, input)
<1>1. \A a : PrfMark(key, input, a) => OuterMark(a)
  BY DEF OuterMark
<1> HIDE DEF key
<1>2. IsSequence(z) /\ CleanSeq(z) /\ \A a : HasMark(z, a) => PrfMark(key, input, a)
  BY PrfFacts, PrfCells
<1> HIDE DEF z
<1>3. GoodCells(z, S, TRUE)
  BY <1>1, <1>2 DEF GoodCells, GoodCell, CleanSeq, CleanCell, HasMark, Known
<1> QED
  BY <1>3 DEF z, key

LEMMA GoodEncrypt ==
  ASSUME NEW key, NEW nonce, NEW n \in Nat, NEW x, NEW S, GoodCells(x, S, TRUE)
  PROVE  GoodCells(Encrypt(key, nonce, n, x), S, TRUE)
<1> DEFINE z == Encrypt(key, nonce, n, x)
<1>1. IsSequence(x) /\ Len(x) \in Nat
  BY SequenceFacts DEF GoodCells
<1>2. /\ IsSequence(z) /\ Len(z) = Len(x)
      /\ \A j \in 1..Len(x) : z[j] = Xor(x[j], KsCell(key, nonce, n, j))
  BY <1>1, EncryptFacts
<1> HIDE DEF z
<1>3. Range(z) = {z[j] : j \in 1..Len(x)} /\ \A j \in 1..Len(x) : x[j] \in Range(x)
  BY <1>1, <1>2, SequenceFacts
<1>4. ASSUME NEW c \in Range(z) PROVE GoodCell(c, S, TRUE)
  <2>1. PICK j \in 1..Len(x) : c = Xor(x[j], KsCell(key, nonce, n, j))
    BY <1>2, <1>3
  <2>2. GoodCell(x[j], S, TRUE)
    BY <1>3 DEF GoodCells
  <2> DEFINE d == x[j]
             e == KsCell(key, nonce, n, j)
  <2>3. CleanCell(e) /\ \A a \in e : a[1] = "ks"
    BY KsCellFacts
  <2>4. GoodCell(d, S, TRUE) /\ c = Xor(d, e)
    BY <2>1, <2>2
  <2> HIDE DEF d, e
  <2>5. IsFiniteSet(c)
    <3>1. IsFiniteSet(d \cup e)
      BY <2>3, <2>4, FS_Union DEF GoodCell, CleanCell
    <3>2. c \in SUBSET (d \cup e)
      BY <2>4 DEF Xor
    <3> QED BY <3>1, <3>2, FS_Subset
  <2>6. ASSUME NEW a \in c, a[1] \in Marked PROVE Known(a, S, TRUE)
    <3>1. a \in d
      BY <2>3, <2>4, <2>6, XorCell DEF Marked
    <3> QED BY <2>4, <2>6, <3>1 DEF GoodCell
  <2> QED BY <2>5, <2>6 DEF GoodCell
<1>5. GoodCells(z, S, TRUE)
  BY <1>2, <1>4 DEF GoodCells
<1> QED
  BY <1>5 DEF z

LEMMA GoodMore ==
  ASSUME NEW w, NEW S, NEW p \in BOOLEAN, GoodCells(w, S, p)
  PROVE  GoodCells(w, S, TRUE)
BY DEF GoodCells, GoodCell, Known

LEMMA GoodAead ==
  ASSUME NEW S, NEW k \in Keys, NEW pt, NEW aad, NEW n \in Nat, NEW nonce,
         GoodCells(pt, S, TRUE), GoodCells(nonce, S, TRUE), Len(nonce) = NonceLen
  PROVE  GoodCells(SealAead(DeriveKeys(k).outer, pt, aad, n, nonce).out, S, TRUE)
<1> DEFINE key == DeriveKeys(k).outer
           ct == Encrypt(key, nonce, n, pt)
           commit == KeyCommitment(key, nonce, aad)
           tag == AeadTag(key, nonce, commit, aad, ct)
<1>1. SealAead(key, pt, aad, n, nonce).out = nonce \o commit \o ct \o tag
  BY Zenon DEF SealAead, Ok
<1>2. GoodCells(ct, S, TRUE)
  BY GoodEncrypt
<1>3. GoodCells(commit, S, TRUE) /\ GoodCells(tag, S, TRUE)
  BY PrfInputs, GoodPrf
<1> HIDE DEF ct, commit, tag
<1>4. GoodCells(nonce \o commit, S, TRUE)
  BY ONLY <1>3, GoodCells(nonce, S, TRUE), GoodJoined, Zenon
<1>5. GoodCells(nonce \o commit \o ct, S, TRUE)
  BY ONLY <1>2, <1>4, GoodJoined, Zenon
<1>6. GoodCells(nonce \o commit \o ct \o tag, S, TRUE)
  BY ONLY <1>3, <1>5, GoodJoined, Zenon
<1> QED
  BY ONLY <1>1, <1>6, Zenon

Redone(out, new) ==
  new \in {out, Front(out)} \cup {[out EXCEPT ![i] = Flip(@)] : i \in DOMAIN out}

(* So is a blob whose outer wall was redone around an altered vault.       *)
LEMMA RewrapGood ==
  ASSUME NEW w, NEW S, NEW p \in BOOLEAN, GoodCells(w, S, p), NEW k \in Keys, NEW aad, NEW old,
         NEW inner, inner = OpenAead(DeriveKeys(k).outer, w, old, DefaultMaps), inner.ok,
         NEW new, Redone(inner.out, new)
  PROVE  GoodCells(SealAead(DeriveKeys(k).outer, new, aad, DefaultMaps, SubSeq(w, 1, NonceLen)).out,
                   S, TRUE)
<1> DEFINE key == DeriveKeys(k).outer
           ct == SubSeq(w, HeaderLen + 1, Len(w) - TagLen)
           x == Encrypt(key, SubSeq(w, 1, NonceLen), DefaultMaps, ct)
           nonce == SubSeq(w, 1, NonceLen)
<1>0. IsSequence(w) /\ Len(w) \in Nat
  BY SequenceFacts DEF GoodCells
<1>1. Len(w) >= HeaderLen + TagLen /\ inner.out = x
  <2>1. ~(Len(w) < HeaderLen + TagLen) /\ inner.out = x
    BY Zenon DEF OpenAead, Ok, Refused
  <2> QED BY <1>0, <2>1, ConstantsKnown
<1>2. GoodCells(w, S, TRUE)
  BY GoodMore
<1>3. GoodCells(ct, S, TRUE)
  <2>1. HeaderLen + 1 \in Nat \ {0} /\ Len(w) - TagLen \in Int /\ Len(w) - TagLen <= Len(w)
    BY <1>0, ConstantsKnown
  <2> QED BY <1>2, <2>1, GoodPart
<1>4. GoodCells(x, S, TRUE)
  <2>1. DefaultMaps \in Nat
    BY DEF DefaultMaps
  <2> HIDE DEF ct, key
  <2> QED BY <1>3, <2>1, GoodEncrypt
<1>5. GoodCells(nonce, S, TRUE) /\ Len(nonce) = NonceLen
  <2>1. 1 \in Nat \ {0} /\ NonceLen \in Int /\ NonceLen <= Len(w) /\ NonceLen = 1
    BY <1>0, <1>1, ConstantsKnown
  <2>2. GoodCells(nonce, S, TRUE)
    BY <1>2, <2>1, GoodPart
  <2>3. Len(nonce) = IF 1 <= NonceLen THEN NonceLen - 1 + 1 ELSE 0
    BY <1>0, <2>1, Part
  <2>4. Len(nonce) = NonceLen
    BY ONLY <2>1, <2>3
  <2> QED BY <2>2, <2>4
<1> HIDE DEF x
<1>6. GoodCells(new, S, TRUE)
  <2>0. IsSequence(x) /\ Len(x) \in Nat
    BY <1>4, SequenceFacts DEF GoodCells
  <2>1. CASE new = x
    BY <1>4, <2>1
  <2>2. CASE new = Front(x)
    <3>0. 1 \in Nat \ {0} /\ Len(x) - 1 \in Int /\ Len(x) - 1 <= Len(x)
      BY <2>0
    <3>1. GoodCells(SubSeq(x, 1, Len(x) - 1), S, TRUE)
      BY <1>4, <3>0, GoodPart
    <3> QED BY <2>2, <3>1 DEF Front
  <2>3. ASSUME NEW i \in DOMAIN x, new = [x EXCEPT ![i] = Flip(@)] PROVE GoodCells(new, S, TRUE)
    BY <1>4, <2>3, GoodTampered
  <2>4. new \in {x, Front(x)} \cup {[x EXCEPT ![i] = Flip(@)] : i \in DOMAIN x}
    BY <1>1 DEF Redone
  <2> QED BY <2>1, <2>2, <2>3, <2>4
<1>7. DefaultMaps \in Nat
  BY DEF DefaultMaps
<1> HIDE DEF nonce
<1>8. GoodCells(SealAead(DeriveKeys(k).outer, new, aad, DefaultMaps, nonce).out, S, TRUE)
  BY <1>5, <1>6, <1>7, GoodAead
<1> QED
  BY <1>8 DEF nonce

LEMMA SpliceGood ==
  ASSUME NEW w, NEW b, NEW S, NEW p, GoodCells(w, S, p), GoodCells(b, S, p),
         NEW i \in DOMAIN w, NEW j \in {1, i + 1}
  PROVE  GoodCells(SubSeq(w, 1, i) \o SubSeq(b, j, Len(b)), S, p)
<1> DEFINE x == SubSeq(w, 1, i)
           y == SubSeq(b, j, Len(b))
<1>1. Len(w) \in Nat /\ i \in 1..Len(w) /\ Len(b) \in Nat
  BY SequenceFacts DEF GoodCells
<1>2. /\ 1 \in Nat \ {0} /\ i \in Int /\ i <= Len(w)
      /\ j \in Nat \ {0} /\ Len(b) \in Int /\ Len(b) <= Len(b)
  BY <1>1
<1>3. GoodCells(x, S, p)
  BY <1>2, GoodPart
<1>4. GoodCells(y, S, p)
  BY <1>2, GoodPart
<1> HIDE DEF x, y
<1>5. GoodCells(x \o y, S, p)
  BY ONLY <1>3, <1>4, GoodJoined, Zenon
<1> QED
  BY ONLY <1>5, Zenon DEF x, y

LEMMA TruncateGood ==
  ASSUME NEW w, NEW S, NEW p, GoodCells(w, S, p), NEW i \in DOMAIN w
  PROVE  GoodCells(SubSeq(w, 1, i), S, p)
<1>1. Len(w) \in Nat /\ i \in 1..Len(w)
  BY SequenceFacts DEF GoodCells
<1>2. 1 \in Nat \ {0} /\ i \in Int /\ i <= Len(w)
  BY <1>1
<1> QED
  BY <1>2, GoodPart

LEMMA GoodEmpty ==
  ASSUME NEW S, NEW p
  PROVE  GoodCells(<<>>, S, p)
<1>1. IsSequence(<<>>) /\ Range(<<>>) = {}
  BY DEF IsSequence, Range
<1> QED
  BY <1>1 DEF GoodCells

-----------------------------------------------------------------------------
(* One lemma per action.                                                   *)
LEMMA InvInit == Init => Inv
<1> SUFFICES ASSUME Init PROVE Inv
  OBVIOUS
<1>1. SealedInv
  BY DEF Init, SealedInv
<1>2. WireInv
  BY GoodEmpty DEF Init, WireInv
<1>3. GotInv
  BY DEF Init, GotInv
<1>4. CountInv
  <2>1. IsFiniteSet({}) /\ Cardinality({}) = 0
    BY FS_EmptySet
  <2>2. 0 <= MaxSeals /\ 0 \in 0..MaxEdits
    BY BlobsAssumption
  <2> QED BY <2>1, <2>2 DEF Init, CountInv
<1> QED
  BY <1>1, <1>2, <1>3, <1>4 DEF Inv

(* The edits that leave `peeled` as it was. *)
LEMMA EditKeeps ==
  ASSUME Inv, NEW b, Edit(b), peeled' = peeled, GoodCells(b, sealed, peeled)
  PROVE  Inv'
<1>0. edits + 1 \in 0..MaxEdits
  BY BlobsAssumption DEF Inv, CountInv, Edit
<1> QED
  BY <1>0 DEF Inv, SealedInv, WireInv, GotInv, CountInv, Edit

LEMMA SealKeeps ==
  ASSUME Inv, NEW port \in Ports \cup {"kat"}, NEW r \in Requests, Seal(port, r)
  PROVE  Inv'
<1> DEFINE s == [r |-> r, n |-> MapsUsed(port, r), blob |-> SealBy(port, r).out]
<1>1. Genuine(s)
  BY SealIsGenuine DEF Seal
<1>2. sealed' = sealed \cup {s} /\ wire = <<>> /\ Cardinality(sealed) < MaxSeals
      /\ wire' = wire /\ edits' = edits /\ peeled' = peeled /\ garble' = garble /\ got' = got
  BY Zenon DEF Seal
<1> HIDE DEF s
<1>3. SealedInv'
  BY <1>1, <1>2 DEF Inv, SealedInv
<1>4. WireInv'
  BY <1>2, GoodEmpty DEF WireInv
<1>5. GotInv'
  BY <1>2 DEF Inv, GotInv
<1>6. CountInv'
  <2>1. IsFiniteSet(sealed) /\ Cardinality(sealed) \in Nat
    BY FS_CardinalityType DEF Inv, CountInv
  <2>2. IsFiniteSet(sealed') /\ Cardinality(sealed') <= Cardinality(sealed) + 1
    <3>1. /\ IsFiniteSet(sealed \cup {s})
          /\ Cardinality(sealed \cup {s}) = IF s \in sealed THEN Cardinality(sealed) ELSE Cardinality(sealed) + 1
      BY <2>1, FS_AddElement
    <3> QED BY <1>2, <2>1, <3>1
  <2>3. Cardinality(sealed') \in Nat
    BY <2>2, FS_CardinalityType
  <2>4. Cardinality(sealed') <= MaxSeals
    BY <1>2, <2>1, <2>2, <2>3, BlobsAssumption
  <2> QED BY <1>2, <2>2, <2>4 DEF Inv, CountInv
<1> QED
  BY <1>3, <1>4, <1>5, <1>6 DEF Inv

LEMMA SendKeeps ==
  ASSUME Inv, NEW s \in sealed, Send(s)
  PROVE  Inv'
<1>1. GoodCells(s.blob, sealed, peeled)
  BY GoodBlob DEF Inv, SealedInv
<1>2. got = None
  BY DEF Inv, GotInv, Send
<1> QED
  BY <1>1, <1>2 DEF Inv, SealedInv, WireInv, GotInv, CountInv, Send

LEMMA OpenBoolean ==
  ASSUME NEW port \in Ports, NEW fmt \in Formats, NEW key, NEW blob, NEW aad, NEW n,
         Len(blob) \in Nat, garble \in Misreads
  PROVE  OpenBy(port, fmt, key, blob, aad, n).ok \in BOOLEAN
<1>0. Refused.ok \in BOOLEAN /\ \A x : Ok(x).ok \in BOOLEAN
  BY DEF Refused, Ok
<1>1. OpenAead(key, blob, aad, n).ok \in BOOLEAN
  BY <1>0, Zenon DEF OpenAead
<1>2. OpenSiv(key, blob, aad, n).ok \in BOOLEAN
  BY <1>0, Zenon DEF OpenSiv
<1>3. \A m : OpenTwolock(key, blob, aad, m).ok \in BOOLEAN
  BY <1>0, Zenon DEF OpenTwolock, VaultOpen
<1>4. OpenStreamRs(key, blob, aad, n).ok \in BOOLEAN
  <2>1. PICK f : OpenStreamRs(key, blob, aad, n) =
                   IF ~HeaderVerifies(key, blob, aad) THEN Refused
                   ELSE RsAccepts(Len(blob), f[<<HeaderLen, 0>>])
    BY RsOpens
  <2> QED BY <1>0, <2>1, Zenon DEF RsAccepts
<1>5. OpenStream(key, blob, aad, n).ok \in BOOLEAN
  BY <1>4, StreamOpenersAgree
<1> QED
  BY <1>1, <1>2, <1>3, <1>4, <1>5 DEF OpenBy, Ports, Formats

LEMMA DeliverKeeps ==
  ASSUME Inv, NEW fmt \in Formats, NEW key \in Keys, NEW aad \in Aads, NEW n \in MapCounts,
         Deliver(fmt, key, aad, n)
  PROVE  Inv'
<1>1. Len(wire) \in Nat /\ garble \in Misreads
  BY SequenceFacts DEF Inv, WireInv, GoodCells, CountInv
<1>2. /\ OpenBy("py", fmt, key, wire, aad, n).ok \in BOOLEAN
      /\ OpenBy("rs", fmt, key, wire, aad, n).ok \in BOOLEAN
  BY <1>1, OpenBoolean DEF Ports
<1>3. GotInv'
  BY <1>2 DEF Deliver, GotInv
<1>4. SealedInv' /\ WireInv' /\ CountInv'
  BY DEF Deliver, Inv, SealedInv, WireInv, CountInv
<1> QED
  BY <1>3, <1>4 DEF Inv

LEMMA ReframeKeeps ==
  ASSUME Inv, NEW s \in sealed, Reframe(s)
  PROVE  Inv'
<1>1. GoodCells(wire, sealed, peeled) /\ garble \in Misreads
  BY DEF Inv, WireInv, CountInv
<1>2. wire = s.blob /\ peeled' = peeled
  BY Zenon DEF Reframe
<1>3. Len(wire) >= HeaderLen
  <2>1. Len(s.blob) > HeaderLen /\ Len(s.blob) \in Nat
    BY GenuineBlob, SequenceFacts DEF Inv, SealedInv, GenuineCells, Sound
  <2> QED BY <1>2, <2>1, ConstantsKnown
<1>4. PICK i, j \in DOMAIN Split(wire) :
        \E fs \in {SubSeq(Split(wire), 1, i - 1) \o SubSeq(Split(wire), j, Len(Split(wire))),
                   [Split(wire) EXCEPT ![i] = Split(wire)[j], ![j] = Split(wire)[i]]} :
          Edit(Join(SubSeq(wire, 1, HeaderLen), fs))
  BY Zenon DEF Reframe
<1>5. PICK fs \in {SubSeq(Split(wire), 1, i - 1) \o SubSeq(Split(wire), j, Len(Split(wire))),
                   [Split(wire) EXCEPT ![i] = Split(wire)[j], ![j] = Split(wire)[i]]} :
        Edit(Join(SubSeq(wire, 1, HeaderLen), fs))
  BY <1>4, Zenon
<1>6. GoodCells(Join(SubSeq(wire, 1, HeaderLen), fs), sealed, peeled)
  BY ONLY <1>1, <1>3, ReframeGood, Zenon
<1> QED
  BY ONLY Inv, <1>2, <1>5, <1>6, EditKeeps, Zenon

LEMMA RewrapKeeps ==
  ASSUME Inv, NEW s \in sealed, NEW aad, Rewrap(s, aad)
  PROVE  Inv'
<1> DEFINE k == s.r.key
           inner == OpenAead(DeriveKeys(k).outer, wire, s.r.aad, DefaultMaps)
<1>1. inner.ok /\ peeled' = TRUE
  BY Zenon DEF Rewrap
<1>2. PICK new : Redone(inner.out, new) /\
        Edit(SealAead(DeriveKeys(k).outer, new, aad, DefaultMaps, SubSeq(wire, 1, NonceLen)).out)
  BY Zenon DEF Rewrap, Redone
<1>3. k \in Keys
  BY RequestFacts DEF Inv, SealedInv, Genuine
<1>4. peeled \in BOOLEAN /\ GoodCells(wire, sealed, peeled)
  BY DEF Inv, CountInv, WireInv
<1> DEFINE b == SealAead(DeriveKeys(k).outer, new, aad, DefaultMaps, SubSeq(wire, 1, NonceLen)).out
<1>5. GoodCells(b, sealed, TRUE)
  <2> HIDE DEF inner
  <2>1. inner = OpenAead(DeriveKeys(k).outer, wire, s.r.aad, DefaultMaps)
    BY Zenon DEF inner
  <2>2. Redone(inner.out, new)
    BY <1>2
  <2> HIDE DEF k
  <2> QED BY ONLY <1>1, <1>3, <1>4, <2>1, <2>2, RewrapGood
<1>6. Edit(b)
  BY <1>2
<1> HIDE DEF b, inner
<1>7. edits + 1 \in 0..MaxEdits
  BY <1>6, BlobsAssumption DEF Inv, CountInv, Edit
<1> QED
  BY <1>1, <1>5, <1>6, <1>7 DEF Inv, SealedInv, WireInv, GotInv, CountInv, Edit

LEMMA InvNext == Inv /\ [Next]_vars => Inv'
<1> SUFFICES ASSUME Inv, [Next]_vars PROVE Inv'
  OBVIOUS
<1>w. GoodCells(wire, sealed, peeled)
  BY DEF Inv, WireInv
<1>1. CASE \E port \in Ports \cup {"kat"}, r \in Requests : Seal(port, r)
  BY <1>1, SealKeeps
<1>2. CASE \E s \in sealed : Send(s)
  BY <1>2, SendKeeps
<1>3. ASSUME NEW i \in DOMAIN wire, Truncate(i) PROVE Inv'
  <2>1. GoodCells(SubSeq(wire, 1, i), sealed, peeled)
    BY <1>w, TruncateGood
  <2> QED BY ONLY Inv, <1>3, <2>1, EditKeeps, Zenon DEF Truncate
<1>4. ASSUME NEW i \in DOMAIN wire, Tamper(i) PROVE Inv'
  <2>1. GoodCells([wire EXCEPT ![i] = Flip(@)], sealed, peeled)
    BY <1>w, GoodTampered
  <2> QED BY ONLY Inv, <1>4, <2>1, EditKeeps, Zenon DEF Tamper
<1>5. ASSUME NEW i \in DOMAIN wire, Lose(i) PROVE Inv'
  <2>1. GoodCells(RemoveAt(wire, i), sealed, peeled)
    BY <1>w, GoodLost
  <2> QED BY ONLY Inv, <1>5, <2>1, EditKeeps, Zenon DEF Lose
<1>6. ASSUME NEW i \in DOMAIN wire, Repeat(i) PROVE Inv'
  <2>1. GoodCells(InsertAt(wire, i, wire[i]), sealed, peeled)
    BY <1>w, GoodRepeated
  <2> QED BY ONLY Inv, <1>6, <2>1, EditKeeps, Zenon DEF Repeat
<1>7. ASSUME NEW s \in sealed, NEW i \in DOMAIN wire, Splice(s, i, 1) \/ Splice(s, i, i + 1) PROVE Inv'
  <2>1. GoodCells(s.blob, sealed, peeled)
    BY GoodBlob DEF Inv, SealedInv
  <2>2. GoodCells(SubSeq(wire, 1, i) \o SubSeq(s.blob, 1, Len(s.blob)), sealed, peeled)
    BY ONLY <1>w, <2>1, i \in DOMAIN wire, 1 \in {1, i + 1}, SpliceGood, Zenon
  <2>3. GoodCells(SubSeq(wire, 1, i) \o SubSeq(s.blob, i + 1, Len(s.blob)), sealed, peeled)
    BY ONLY <1>w, <2>1, i \in DOMAIN wire, i + 1 \in {1, i + 1}, SpliceGood, Zenon
  <2> QED BY ONLY Inv, <1>7, <2>2, <2>3, EditKeeps, Zenon DEF Splice
<1>8. CASE \E s \in sealed : Reframe(s)
  BY <1>8, ReframeKeeps
<1>9. CASE \E s \in sealed, aad \in Aads : Rewrap(s, aad)
  BY <1>9, RewrapKeeps
<1>10. CASE \E fmt \in Formats, key \in Keys, aad \in Aads, n \in MapCounts : Deliver(fmt, key, aad, n)
  BY <1>10, DeliverKeeps
<1>11. CASE UNCHANGED vars
  BY <1>11 DEF vars, Inv, SealedInv, WireInv, GotInv, CountInv
<1> QED
  BY <1>1, <1>2, <1>3, <1>4, <1>5, <1>6, <1>7, <1>8, <1>9, <1>10, <1>11, Zenon DEF Next

LEMMA Invariance == Spec => []Inv
BY InvInit, InvNext, PTL DEF Spec

(***************************************************************************)
(* The state keeps its shape: every sealed blob is longer than its header, *)
(* an edit never leaves the cells of a blob, and both openers always come  *)
(* to a verdict (the sealers and openers of cipher/ and rust/src/).        *)
(***************************************************************************)
THEOREM TypeCorrect == Spec => []TypeOK
<1>1. ASSUME Inv PROVE TypeOK
  <2>1. ASSUME NEW s \in sealed
        PROVE  s.r \in Requests /\ s.n \in MapCounts /\ Len(s.blob) > HeaderLen
    BY <1>1, GenuineBlob DEF Inv, SealedInv, GenuineCells, Genuine
  <2>2. IsFiniteSet(UNION Range(wire))
    <3>1. /\ IsSequence(wire) /\ Len(wire) \in Nat
          /\ Range(wire) = {wire[i] : i \in 1..Len(wire)}
          /\ \A c \in Range(wire) : IsFiniteSet(c)
      BY <1>1, SequenceFacts DEF Inv, WireInv, GoodCells, GoodCell
    <3>2. IsFiniteSet(1..Len(wire))
      <4>1. 1 \in Int /\ Len(wire) \in Int
        BY <3>1
      <4> QED BY ONLY <4>1, FS_Interval
    <3>3. wire \in Surjection(1..Len(wire), Range(wire))
      BY <3>1, SequenceFacts DEF Surjection
    <3>4. IsFiniteSet(Range(wire))
      BY <3>2, <3>3, FS_Surjection
    <3> QED BY <3>1, <3>4, FS_UNION
  <2> QED BY <1>1, <2>1, <2>2 DEF Inv, CountInv, GotInv, TypeOK
<1> QED
  BY <1>1, Invariance, PTL

(* w is a head, a length, associated data of that length and a rest. *)
Labelled(h, a, p, w) ==
  /\ IsSequence(w) /\ Len(w) = Len(h) + 1 + Len(a) + Len(p)
  /\ \A i \in 1..Len(h) : w[i] = h[i]
  /\ w[Len(h) + 1] = {<<"len8", Len(a)>>}
  /\ \A i \in 1..Len(a) : w[Len(h) + 1 + i] = a[i]
  /\ \A i \in 1..Len(p) : w[Len(h) + 1 + Len(a) + i] = p[i]

LEMMA LabelledSame ==
  ASSUME NEW h, NEW a, NEW p, NEW g, NEW b, NEW q, NEW w,
         IsSequence(h), IsSequence(a), IsSequence(p),
         IsSequence(g), IsSequence(b), IsSequence(q), Len(h) = Len(g),
         Labelled(h, a, p, w), Labelled(g, b, q, w)
  PROVE  h = g /\ a = b /\ p = q
<1>0. /\ Len(h) \in Nat /\ Len(a) \in Nat /\ Len(p) \in Nat
      /\ Len(g) \in Nat /\ Len(b) \in Nat /\ Len(q) \in Nat
  BY SequenceFacts
<1>1. Len(a) = Len(b)
  <2>1. {<<"len8", Len(a)>>} = {<<"len8", Len(b)>>}
    BY DEF Labelled
  <2>2. <<"len8", Len(a)>> = <<"len8", Len(b)>>
    BY <2>1
  <2> QED BY <2>2
<1>2. Len(p) = Len(q)
  BY <1>0, <1>1 DEF Labelled
<1>3. h = g
  <2>1. \A i \in 1..Len(h) : h[i] = g[i]
    BY DEF Labelled
  <2> QED BY <2>1, SameSequence
<1>4. a = b
  <2>1. \A i \in 1..Len(a) : a[i] = b[i]
    BY <1>1 DEF Labelled
  <2> QED BY <1>1, <2>1, SameSequence
<1>5. p = q
  <2>1. \A i \in 1..Len(p) : p[i] = q[i]
    BY <1>1, <1>2 DEF Labelled
  <2> QED BY <1>2, <2>1, SameSequence
<1> QED
  BY <1>3, <1>4, <1>5

LEMMA Len8Facts ==
  ASSUME NEW a
  PROVE  IsSequence(Len8(a)) /\ Len(Len8(a)) = 1 /\ Len8(a)[1] = {<<"len8", Len(a)>>}
BY One DEF Len8

LEMMA EmptyFacts == IsSequence(<<>>) /\ Len(<<>>) = 0
BY DEF IsSequence

(* The inputs of commit.py, aead.py, siv.py and streaming.py are of that   *)
(* form.                                                                   *)
LEMMA CommitLabelled ==
  ASSUME NEW h, NEW a, IsSequence(h), IsSequence(a)
  PROVE  Labelled(h, a, <<>>, CommitInput(h, a))
<1> DEFINE l == Len8(a)
           x == h \o l
           w == x \o a
<1>0. Len(h) \in Nat /\ Len(a) \in Nat
  BY SequenceFacts
<1>1. IsSequence(l) /\ Len(l) = 1 /\ l[1] = {<<"len8", Len(a)>>}
  BY Len8Facts
<1>w. CommitInput(h, a) = w
  BY Zenon DEF CommitInput
<1> HIDE DEF l
<1>2. /\ IsSequence(x) /\ Len(x) = Len(h) + Len(l)
      /\ \A i \in 1..Len(h) : x[i] = h[i]
      /\ \A i \in 1..Len(l) : x[Len(h) + i] = l[i]
  <2>1. IsSequence(l)
    BY <1>1
  <2> QED BY ONLY <2>1, IsSequence(h), Joined
<1> HIDE DEF x
<1>3. Len(x) = Len(h) + 1 /\ x[Len(h) + 1] = {<<"len8", Len(a)>>}
  BY <1>0, <1>1, <1>2
<1>4. /\ IsSequence(w) /\ Len(w) = Len(x) + Len(a)
      /\ \A i \in 1..Len(x) : w[i] = x[i]
      /\ \A i \in 1..Len(a) : w[Len(x) + i] = a[i]
  <2>1. IsSequence(x)
    BY <1>2
  <2> QED BY ONLY <2>1, IsSequence(a), Joined
<1> HIDE DEF w
<1> DEFINE e == <<>>
<1>e. IsSequence(e) /\ Len(e) = 0
  BY EmptyFacts
<1> HIDE DEF e
<1>5. \A i \in 1..Len(h) : w[i] = h[i]
  BY <1>0, <1>2, <1>3, <1>4
<1>6. w[Len(h) + 1] = {<<"len8", Len(a)>>}
  BY <1>0, <1>3, <1>4
<1>7. \A i \in 1..Len(a) : w[Len(h) + 1 + i] = a[i]
  BY <1>0, <1>3, <1>4
<1>8. Len(w) = Len(h) + 1 + Len(a) + Len(e)
  BY <1>0, <1>3, <1>4, <1>e
<1>10. \A i \in 1..Len(e) : w[Len(h) + 1 + Len(a) + i] = e[i]
  BY <1>e
<1>9. Labelled(h, a, e, w)
  BY ONLY <1>4, <1>5, <1>6, <1>7, <1>8, <1>10, Zenon DEF Labelled
<1> QED
  BY <1>9, <1>w DEF e

LEMMA FullLabelled ==
  ASSUME NEW h, NEW a, NEW p, IsSequence(h), IsSequence(a), IsSequence(p),
         NEW w, w = h \o Len8(a) \o a \o p
  PROVE  Labelled(h, a, p, w)
<1> DEFINE x == CommitInput(h, a)
           z == x \o p
<1>w. w = z
  BY Zenon DEF CommitInput
<1>0. Len(h) \in Nat /\ Len(a) \in Nat /\ Len(p) \in Nat
  BY SequenceFacts
<1>1. Labelled(h, a, <<>>, x)
  BY CommitLabelled
<1> HIDE DEF x
<1>2. IsSequence(x) /\ Len(x) = Len(h) + 1 + Len(a)
  BY <1>0, <1>1, EmptyFacts DEF Labelled
<1>3. /\ IsSequence(z) /\ Len(z) = Len(x) + Len(p)
      /\ \A i \in 1..Len(x) : z[i] = x[i]
      /\ \A i \in 1..Len(p) : z[Len(x) + i] = p[i]
  <2>1. IsSequence(x)
    BY <1>2
  <2> QED BY ONLY <2>1, IsSequence(p), Joined
<1> HIDE DEF z
<1>x. /\ \A i \in 1..Len(h) : x[i] = h[i]
      /\ x[Len(h) + 1] = {<<"len8", Len(a)>>}
      /\ \A i \in 1..Len(a) : x[Len(h) + 1 + i] = a[i]
  BY <1>1 DEF Labelled
<1>4. /\ \A i \in 1..Len(h) : z[i] = h[i]
      /\ z[Len(h) + 1] = {<<"len8", Len(a)>>}
      /\ \A i \in 1..Len(a) : z[Len(h) + 1 + i] = a[i]
  <2>1. \A i \in 1..Len(h) : i \in 1..Len(x)
    BY <1>0, <1>2
  <2>2. Len(h) + 1 \in 1..Len(x)
    BY <1>0, <1>2
  <2>3. \A i \in 1..Len(a) : Len(h) + 1 + i \in 1..Len(x)
    BY <1>0, <1>2
  <2> QED BY <1>x, <1>3, <2>1, <2>2, <2>3
<1>5. Labelled(h, a, p, z)
  BY <1>0, <1>2, <1>3, <1>4 DEF Labelled
<1> QED
  BY <1>5, <1>w

LEMMA SivLabelled ==
  ASSUME NEW a, NEW p, IsSequence(a), IsSequence(p)
  PROVE  Labelled(<<>>, a, p, SivInput(a, p))
<1> DEFINE l == Len8(a)
           x == l \o a
           w == x \o p
<1>0. Len(a) \in Nat /\ Len(p) \in Nat
  BY SequenceFacts
<1>1. IsSequence(l) /\ Len(l) = 1 /\ l[1] = {<<"len8", Len(a)>>}
  BY Len8Facts
<1>w. SivInput(a, p) = w
  BY Zenon DEF SivInput
<1> HIDE DEF l
<1>2. /\ IsSequence(x) /\ Len(x) = Len(l) + Len(a)
      /\ \A i \in 1..Len(l) : x[i] = l[i]
      /\ \A i \in 1..Len(a) : x[Len(l) + i] = a[i]
  <2>1. IsSequence(l)
    BY <1>1
  <2> QED BY ONLY <2>1, IsSequence(a), Joined
<1> HIDE DEF x
<1>3. Len(x) = 1 + Len(a) /\ x[1] = {<<"len8", Len(a)>>} /\ \A i \in 1..Len(a) : x[1 + i] = a[i]
  BY <1>0, <1>1, <1>2
<1>4. /\ IsSequence(w) /\ Len(w) = Len(x) + Len(p)
      /\ \A i \in 1..Len(x) : w[i] = x[i]
      /\ \A i \in 1..Len(p) : w[Len(x) + i] = p[i]
  <2>1. IsSequence(x)
    BY <1>2
  <2> QED BY ONLY <2>1, IsSequence(p), Joined
<1> HIDE DEF w
<1>5. Labelled(<<>>, a, p, w)
  BY <1>0, <1>3, <1>4, EmptyFacts DEF Labelled
<1> QED
  BY <1>5, <1>w

LEMMA MacLabelled ==
  ASSUME NEW nonce, NEW commit, NEW a, NEW ct,
         IsSequence(nonce), IsSequence(commit), IsSequence(a), IsSequence(ct)
  PROVE  \E h : /\ IsSequence(h) /\ Len(h) = Len(nonce) + Len(commit)
                /\ \A i \in 1..Len(nonce) : h[i] = nonce[i]
                /\ \A i \in 1..Len(commit) : h[Len(nonce) + i] = commit[i]
                /\ Labelled(h, a, ct, MacInput(nonce, commit, a, ct))
<1> DEFINE h == nonce \o commit
<1>1. /\ IsSequence(h) /\ Len(h) = Len(nonce) + Len(commit)
      /\ \A i \in 1..Len(nonce) : h[i] = nonce[i]
      /\ \A i \in 1..Len(commit) : h[Len(nonce) + i] = commit[i]
  BY ONLY IsSequence(nonce), IsSequence(commit), Joined
<1>2. MacInput(nonce, commit, a, ct) = h \o Len8(a) \o a \o ct
  BY Zenon DEF MacInput
<1> HIDE DEF h
<1>3. Labelled(h, a, ct, MacInput(nonce, commit, a, ct))
  BY ONLY <1>1, <1>2, IsSequence(a), IsSequence(ct), FullLabelled, Zenon
<1> QED
  BY <1>1, <1>3

LEMMA ChunkLabelled ==
  ASSUME NEW salt, NEW i, NEW flags, NEW a, NEW ct,
         IsSequence(salt), IsSequence(a), IsSequence(ct)
  PROVE  \E h : /\ IsSequence(h) /\ Len(h) = Len(salt) + 2
                /\ \A j \in 1..Len(salt) : h[j] = salt[j]
                /\ h[Len(salt) + 1] = {<<"index", i>>}
                /\ h[Len(salt) + 2] = flags
                /\ Labelled(h, a, ct, ChunkInput(salt, i, flags, a, ct))
<1> DEFINE o == <<{<<"index", i>>}, flags>>
           h == salt \o o
<1>0. IsSequence(o) /\ Len(o) = 2 /\ o[1] = {<<"index", i>>} /\ o[2] = flags
  <2>1. o \in Seq({{<<"index", i>>}, flags})
    OBVIOUS
  <2>2. IsSequence(o)
    BY <2>1, InSeq
  <2> QED BY <2>2
<1>2. ChunkInput(salt, i, flags, a, ct) = h \o Len8(a) \o a \o ct
  BY Zenon DEF ChunkInput
<1> HIDE DEF o
<1>s. Len(salt) \in Nat
  BY SequenceFacts
<1>1. /\ IsSequence(h) /\ Len(h) = Len(salt) + Len(o)
      /\ \A j \in 1..Len(salt) : h[j] = salt[j]
      /\ \A j \in 1..Len(o) : h[Len(salt) + j] = o[j]
  <2>1. IsSequence(o)
    BY <1>0
  <2> QED BY ONLY <2>1, IsSequence(salt), Joined
<1> HIDE DEF h
<1>3. Labelled(h, a, ct, ChunkInput(salt, i, flags, a, ct))
  BY ONLY <1>1, <1>2, IsSequence(a), IsSequence(ct), FullLabelled, Zenon
<1>4. /\ Len(h) = Len(salt) + 2 /\ h[Len(salt) + 1] = {<<"index", i>>} /\ h[Len(salt) + 2] = flags
  BY <1>0, <1>1, <1>s
<1> QED
  BY <1>1, <1>3, <1>4

-----------------------------------------------------------------------------
LEMMA SivInputSame ==
  ASSUME NEW a, NEW p, NEW b, NEW q, IsSequence(a), IsSequence(p), IsSequence(b), IsSequence(q),
         SivInput(a, p) = SivInput(b, q)
  PROVE  a = b /\ p = q
<1>1. Labelled(<<>>, a, p, SivInput(a, p)) /\ Labelled(<<>>, b, q, SivInput(a, p))
  BY SivLabelled
<1> QED
  BY <1>1, EmptyFacts, LabelledSame

(***************************************************************************)
(* Python, Rust and the vector generator make one blob of one request, and *)
(* SIV blobs under one key share a synthetic IV exactly when message and   *)
(* data are equal, for every message, nonce and data (aead.py, siv.py,     *)
(* twolock.py, streaming.py, generate_kat.py).                             *)
(***************************************************************************)
THEOREM SealersAgreeEverywhere == Spec => []BlobsDetermined
<1>1. ASSUME Inv PROVE SealersAgree
  BY <1>1, Zenon, RequestFacts DEF SealersAgree, Inv, SealedInv, Genuine, Formats
<1>2. ASSUME Inv PROVE SivSeparates
  <2> SUFFICES ASSUME NEW s \in sealed, NEW t \in sealed, s.r.fmt = "siv", t.r.fmt = "siv",
                      s.r.key = t.r.key
               PROVE  SubSeq(s.blob, TagLen + 1, 2 * TagLen) = SubSeq(t.blob, TagLen + 1, 2 * TagLen)
                      <=> s.r.aad = t.r.aad /\ s.r.chunks[1] = t.r.chunks[1]
    BY Zenon DEF SivSeparates
  <2>1. ASSUME NEW u \in {s, t}
        PROVE  /\ SubSeq(u.blob, TagLen + 1, 2 * TagLen)
                    = Prf(SubKey(u.r.key, "siv"), SivInput(u.r.aad, u.r.chunks[1]))
               /\ IsSequence(u.r.aad) /\ IsSequence(u.r.chunks[1])
    <3>1. u.r \in Requests /\ u.r.fmt = "siv"
          /\ u.blob = SealSiv(u.r.key, u.r.chunks[1], u.r.aad, u.n).out
      BY <1>2 DEF Inv, SealedInv, Genuine
    <3>2. IsSequence(u.r.aad) /\ IsSequence(u.r.chunks[1])
      BY <3>1, RequestFacts
    <3>3. SubSeq(u.blob, 3, 4) = SynthesiseIv(u.r.key, u.r.aad, u.r.chunks[1])
      BY <3>1, <3>2, SivBlobFacts
    <3>4. TagLen + 1 = 3 /\ 2 * TagLen = 4
      BY ConstantsKnown
    <3> QED BY <3>2, <3>3, <3>4, PrfInputs
  <2>2. ASSUME SubSeq(s.blob, TagLen + 1, 2 * TagLen) = SubSeq(t.blob, TagLen + 1, 2 * TagLen)
        PROVE  s.r.aad = t.r.aad /\ s.r.chunks[1] = t.r.chunks[1]
    <3>1. SivInput(s.r.aad, s.r.chunks[1]) = SivInput(t.r.aad, t.r.chunks[1])
      <4> DEFINE ks == SubKey(s.r.key, "siv")
                 is == SivInput(s.r.aad, s.r.chunks[1])
                 kt == SubKey(t.r.key, "siv")
                 it == SivInput(t.r.aad, t.r.chunks[1])
      <4>1. Prf(ks, is) = Prf(kt, it)
        BY <2>1, <2>2
      <4> HIDE DEF ks, is, kt, it
      <4>2. is = it
        BY <4>1, PrfInjective
      <4> QED BY <4>2 DEF is, it
    <3> QED BY <2>1, <3>1, SivInputSame
  <2> QED BY <2>1, <2>2
<1> QED
  BY <1>1, <1>2, Invariance, PTL DEF BlobsDetermined

(* Only a delivery changes `got`, and what was delivered is judged with the *)
(* blobs sealed and the edits made by then.                                 *)
Quiet == got' = got /\ (got # None => sealed' = sealed /\ peeled' = peeled)
Delivered(fmt, key, aad, n) ==
  /\ fmt \in Formats /\ key \in Keys /\ aad \in Aads /\ n \in MapCounts
  /\ sealed' = sealed /\ peeled' = peeled
  /\ got' = [fmt |-> fmt, key |-> key, aad |-> aad, n |-> n, blob |-> wire,
             py |-> OpenBy("py", fmt, key, wire, aad, n),
             rs |-> OpenBy("rs", fmt, key, wire, aad, n)]

LEMMA EditQuiet ==
  ASSUME NEW b, Edit(b) PROVE Quiet
BY DEF Edit, Quiet

LEMMA OnlyDeliveries ==
  ASSUME Inv, [Next]_vars
  PROVE  Quiet \/ \E fmt, key, aad, n : Delivered(fmt, key, aad, n)
<1>1. CASE \E port \in Ports \cup {"kat"}, r \in Requests : Seal(port, r)
  BY <1>1, Zenon DEF Seal, Inv, GotInv, Quiet
<1>2. CASE \E s \in sealed : Send(s)
  BY <1>2 DEF Send, Quiet
<1>3. CASE \E i \in DOMAIN wire : Truncate(i) \/ Tamper(i) \/ Lose(i) \/ Repeat(i)
  BY <1>3, EditQuiet, Zenon DEF Truncate, Tamper, Lose, Repeat
<1>4. CASE \E s \in sealed, i \in DOMAIN wire : Splice(s, i, 1) \/ Splice(s, i, i + 1)
  BY <1>4, EditQuiet, Zenon DEF Splice
<1>5. CASE \E s \in sealed : Reframe(s)
  BY <1>5, EditQuiet, Zenon DEF Reframe
<1>6. CASE \E s \in sealed, aad \in Aads : Rewrap(s, aad)
  BY <1>6, EditQuiet, Zenon DEF Rewrap
<1>7. ASSUME NEW fmt \in Formats, NEW key \in Keys, NEW aad \in Aads, NEW n \in MapCounts,
             Deliver(fmt, key, aad, n)
      PROVE  Delivered(fmt, key, aad, n)
  BY <1>7, Zenon DEF Deliver, Delivered
<1>8. CASE UNCHANGED vars
  BY <1>8 DEF vars, Quiet
<1> QED
  BY <1>1, <1>2, <1>3, <1>4, <1>5, <1>6, <1>7, <1>8, Zenon DEF Next

LEMMA SamePorts ==
  ASSUME NEW fmt \in Formats, NEW key, NEW blob, NEW aad, NEW n,
         Len(blob) \in Nat, garble \in Misreads, fmt = "twolock" => n = DefaultMaps
  PROVE  OpenBy("py", fmt, key, blob, aad, n) = OpenBy("rs", fmt, key, blob, aad, n)
BY StreamOpenersAgree DEF OpenBy, Formats

(***************************************************************************)
(* Python and Rust make the same of every blob, however it was altered on  *)
(* the way; for the two locks, where Python has no argument for the number *)
(* of maps, with the default one.                                          *)
(***************************************************************************)
THEOREM PortsAlwaysAgree == Spec => []PortsAgree
<1>1. Init => PortsAgree
  BY DEF Init, PortsAgree
<1>2. Inv /\ PortsAgree /\ [Next]_vars => PortsAgree'
  <2> SUFFICES ASSUME Inv, PortsAgree, [Next]_vars PROVE PortsAgree'
    OBVIOUS
  <2>1. CASE Quiet
    BY <2>1 DEF Quiet, PortsAgree
  <2>2. ASSUME NEW fmt, NEW key, NEW aad, NEW n, Delivered(fmt, key, aad, n)
        PROVE  PortsAgree'
    <3>1. Len(wire) \in Nat /\ garble \in Misreads
      BY SequenceFacts DEF Inv, WireInv, GoodCells, CountInv
    <3>2. (fmt = "twolock" => n = DefaultMaps) =>
             OpenBy("py", fmt, key, wire, aad, n) = OpenBy("rs", fmt, key, wire, aad, n)
      BY <2>2, <3>1, SamePorts DEF Delivered
    <3>3. /\ got'.fmt = fmt /\ got'.n = n
          /\ got'.py = OpenBy("py", fmt, key, wire, aad, n)
          /\ got'.rs = OpenBy("rs", fmt, key, wire, aad, n)
      BY <2>2, Zenon DEF Delivered
    <3> QED BY <3>2, <3>3, Zenon DEF PortsAgree
  <2> QED BY <2>1, <2>2, OnlyDeliveries
<1> QED
  BY <1>1, <1>2, Invariance, PTL DEF Spec

(* open_ with the fields named by their cells. *)
AeadAccepts(key, b, aad) ==
  /\ Len(b) >= 5
  /\ AeadTag(key, SubSeq(b, 1, 1), SubSeq(b, 2, 3), aad, SubSeq(b, 4, Len(b) - 2))
       = SubSeq(b, Len(b) - 1, Len(b))
  /\ KeyCommitment(key, SubSeq(b, 1, 1), aad) = SubSeq(b, 2, 3)

LEMMA OpenAeadMeans ==
  ASSUME NEW key, NEW b, NEW aad, NEW n, Len(b) \in Nat
  PROVE  OpenAead(key, b, aad, n) =
           IF AeadAccepts(key, b, aad)
           THEN Ok(Encrypt(key, SubSeq(b, 1, 1), n, SubSeq(b, 4, Len(b) - 2)))
           ELSE Refused
<1>1. /\ NonceLen = 1 /\ NonceLen + 1 = 2 /\ HeaderLen = 3 /\ HeaderLen + 1 = 4
      /\ Len(b) - TagLen = Len(b) - 2 /\ Len(b) - TagLen + 1 = Len(b) - 1
      /\ Len(b) < HeaderLen + TagLen <=> ~(Len(b) >= 5)
  BY ConstantsKnown
<1> QED
  BY <1>1, Zenon DEF OpenAead, AeadAccepts

LEMMA CommitSame ==
  ASSUME NEW k, NEW h, NEW a, NEW j, NEW g, NEW b, KeyCommitment(k, h, a) = KeyCommitment(j, g, b)
  PROVE  k = j /\ CommitInput(h, a) = CommitInput(g, b)
<1>1. /\ KeyCommitment(k, h, a) = Prf(SubKey(k, "commit"), CommitInput(h, a))
      /\ KeyCommitment(j, g, b) = Prf(SubKey(j, "commit"), CommitInput(g, b))
  BY PrfInputs
<1> DEFINE u == SubKey(k, "commit")
           v == SubKey(j, "commit")
           x == CommitInput(h, a)
           y == CommitInput(g, b)
<1>2. Prf(u, x) = Prf(v, y)
  BY <1>1
<1> HIDE DEF u, v, x, y
<1>3. u = v /\ x = y
  BY <1>2, PrfInjective
<1> QED
  BY <1>3 DEF SubKey, u, v, x, y

(* open_ of a blob that arrives as it was sealed.                          *)
LEMMA AeadOpens ==
  ASSUME NEW key, NEW pt, NEW aad, NEW n, NEW nonce,
         IsSequence(pt), IsSequence(aad), IsSequence(nonce), Len(nonce) >= NonceLen,
         NEW b, b = AeadBlob(key, pt, aad, n, nonce)
  PROVE  OpenAead(key, b, aad, n) = IF Len(nonce) = NonceLen THEN Ok(pt) ELSE Refused
<1> DEFINE ct     == Encrypt(key, nonce, n, pt)
           commit == KeyCommitment(key, nonce, aad)
           tag    == AeadTag(key, nonce, commit, aad, ct)
           first  == SubSeq(nonce, 1, 1)
<1>0. Len(pt) \in Nat /\ Len(nonce) \in Nat /\ Len(aad) \in Nat
  BY SequenceFacts
<1>1. /\ IsSequence(b) /\ Len(b) = 5 + Len(pt)
      /\ SubSeq(b, 1, 1) = first
      /\ SubSeq(b, 2, 3) = commit
      /\ SubSeq(b, 4, Len(b) - 2) = ct
      /\ SubSeq(b, Len(b) - 1, Len(b)) = tag
  BY AeadBlobFacts
<1>2. Len(b) \in Nat /\ Len(b) >= 5
  BY <1>0, <1>1
<1>3. CASE Len(nonce) = NonceLen
  <2>1. first = nonce
    BY <1>3, Whole, ConstantsKnown
  <2>2. AeadAccepts(key, b, aad)
    BY <1>1, <1>2, <2>1, Zenon DEF AeadAccepts
  <2>3. OpenAead(key, b, aad, n) = Ok(Encrypt(key, nonce, n, ct))
    BY <1>1, <1>2, <2>1, <2>2, OpenAeadMeans, Zenon
  <2> QED BY <1>3, <2>3, EncryptTwice
<1>4. CASE Len(nonce) # NonceLen
  <2>1. IsSequence(first) /\ Len(first) = 1
    BY NonceCell, ConstantsKnown
  <2>2. ASSUME AeadAccepts(key, b, aad) PROVE FALSE
    <3>1. KeyCommitment(key, first, aad) = KeyCommitment(key, nonce, aad)
      BY <1>1, <2>2, Zenon DEF AeadAccepts
    <3>2. CommitInput(first, aad) = CommitInput(nonce, aad)
      BY <3>1, CommitSame
    <3>3. /\ Labelled(first, aad, <<>>, CommitInput(first, aad))
          /\ Labelled(nonce, aad, <<>>, CommitInput(nonce, aad))
      BY <2>1, CommitLabelled
    <3> DEFINE e == Len(<<>>)
               u == Len(aad)
               l == Len(nonce)
    <3>4. 1 + 1 + u + e = l + 1 + u + e
      BY <2>1, <3>2, <3>3 DEF Labelled
    <3>5. e = 0 /\ u \in Nat /\ l \in Nat
      BY <1>0, EmptyFacts
    <3> HIDE DEF e, u, l
    <3>7. l = 1
      BY <3>4, <3>5
    <3>6. Len(nonce) = 1
      BY <3>7 DEF l
    <3> QED BY <1>4, <3>6, ConstantsKnown
  <2> QED BY <1>2, <1>4, <2>2, OpenAeadMeans
<1> QED
  BY <1>3, <1>4

LEMMA OpenSivMeans ==
  ASSUME NEW key, NEW b, NEW aad, NEW n, Len(b) \in Nat
  PROVE  LET pt == Encrypt(key, SubSeq(b, 3, 4), n, SubSeq(b, 5, Len(b)))
         IN  OpenSiv(key, b, aad, n) =
               IF /\ Len(b) >= 4
                  /\ KeyCommitment(key, SubSeq(b, 3, 4), aad) = SubSeq(b, 1, 2)
                  /\ SynthesiseIv(key, aad, pt) = SubSeq(b, 3, 4)
               THEN Ok(pt) ELSE Refused
<1>1. /\ TagLen = 2 /\ TagLen + 1 = 3 /\ 2 * TagLen = 4 /\ 2 * TagLen + 1 = 5
      /\ Len(b) < 2 * TagLen <=> ~(Len(b) >= 4)
  BY ConstantsKnown
<1> QED
  BY <1>1, Zenon DEF OpenSiv

(* open_siv of a blob that arrives as it was sealed.                       *)
LEMMA SivOpens ==
  ASSUME NEW key, NEW pt, NEW aad, NEW n, IsSequence(pt),
         NEW b, b = SealSiv(key, pt, aad, n).out
  PROVE  OpenSiv(key, b, aad, n) = Ok(pt)
<1> DEFINE siv    == SynthesiseIv(key, aad, pt)
           commit == KeyCommitment(key, siv, aad)
           ct     == Encrypt(key, siv, n, pt)
<1>1. /\ IsSequence(b) /\ Len(b) = 4 + Len(pt)
      /\ SubSeq(b, 1, 2) = commit
      /\ SubSeq(b, 3, 4) = siv
      /\ SubSeq(b, 5, Len(b)) = ct
  BY SivBlobFacts
<1>2. Len(pt) \in Nat /\ Len(b) \in Nat /\ Len(b) >= 4
  BY <1>1, SequenceFacts
<1>3. Encrypt(key, siv, n, ct) = pt
  BY EncryptTwice
<1> QED
  BY <1>1, <1>2, <1>3, OpenSivMeans, Zenon

LEMMA OpenTwolockMeans ==
  ASSUME NEW key, NEW b, NEW aad, NEW n,
         NEW inner, inner = OpenAead(DeriveKeys(key).outer, b, aad, n).out, Len(inner) \in Nat
  PROVE  OpenTwolock(key, b, aad, n) =
           IF /\ OpenAead(DeriveKeys(key).outer, b, aad, n).ok
              /\ Len(inner) >= 2 /\ inner[1] \in Algs
           THEN VaultOpen(inner[1], DeriveKeys(key).inner, SubSeq(inner, 2, 2),
                          SubSeq(inner, 3, Len(inner)), aad)
           ELSE Refused
<1>1. /\ 1 + InnerLen = 2 /\ 2 + InnerLen = 3
      /\ Len(inner) < 1 + InnerLen <=> ~(Len(inner) >= 2)
  BY ConstantsKnown
<1> QED
  BY <1>1, Zenon DEF OpenTwolock

(* The inner vault of the two locks, opened with its own key.              *)
LEMMA VaultOpens ==
  ASSUME NEW r, VaultParts(r), NEW v, v = Vault(r)
  PROVE  /\ Len(v) \in Nat /\ Len(v) >= 3 /\ v[1] = r.alg
         /\ VaultOpen(v[1], DeriveKeys(r.key).inner, SubSeq(v, 2, 2), SubSeq(v, 3, Len(v)), r.aad)
              = Ok(r.chunks[1])
<1> DEFINE ct == VaultCt(r)
           k == DeriveKeys(r.key).inner
           tag == {VaultMark(r)}
<1>1. /\ VaultCells(r, v) /\ IsSequence(ct)
  BY VaultFacts
<1>2. IsSequence(r.chunks[1]) /\ Len(r.chunks[1]) \in Nat
  BY SequenceFacts DEF VaultParts
<1>3. /\ Len(v) = 3 + Len(r.chunks[1]) /\ v[1] = r.alg /\ SubSeq(v, 2, 2) = InnerNonce(r)
      /\ SubSeq(v, 3, Len(v)) = Append(ct, tag)
  BY <1>1 DEF VaultCells
<1>4. tag = VaultTag(r.alg, k, InnerNonce(r), ct, r.aad)
  BY Zenon DEF VaultTag, VaultMark
<1>5. VaultXor(r.alg, k, InnerNonce(r), ct) = r.chunks[1]
  BY <1>2, VaultXorTwice DEF VaultCt
<1> HIDE DEF ct, tag, k
<1>6. /\ Append(ct, tag) # <<>> /\ Last(Append(ct, tag)) = tag /\ Front(Append(ct, tag)) = ct
  BY <1>1, Appended
<1>7. VaultOpen(r.alg, k, InnerNonce(r), Append(ct, tag), r.aad) = Ok(r.chunks[1])
  BY <1>4, <1>5, <1>6, Zenon DEF VaultOpen
<1> QED
  <2>1. Len(v) \in Nat /\ Len(v) >= 3
    BY <1>2, <1>3
  <2>2. VaultOpen(v[1], k, SubSeq(v, 2, 2), SubSeq(v, 3, Len(v)), r.aad) = Ok(r.chunks[1])
    BY <1>3, <1>7, Zenon
  <2> QED BY <1>3, <2>1, <2>2, Zenon DEF k

(* open_twolock of a blob that arrives as it was sealed.                   *)
LEMMA TwolockOpens ==
  ASSUME NEW r, VaultParts(r), r.alg \in Algs, Len(r.nonce) >= NonceLen, NEW n,
         NEW b, b = AeadBlob(DeriveKeys(r.key).outer, Vault(r), r.aad, n, r.nonce)
  PROVE  OpenTwolock(r.key, b, r.aad, n) =
           IF Len(r.nonce) = NonceLen THEN Ok(r.chunks[1]) ELSE Refused
<1> DEFINE v == Vault(r)
           o == OpenAead(DeriveKeys(r.key).outer, b, r.aad, n)
<1>1. IsSequence(v) /\ IsSequence(r.aad) /\ IsSequence(r.nonce)
  BY VaultFacts DEF VaultCells, VaultParts
<1>2. /\ Len(v) \in Nat /\ Len(v) >= 3 /\ v[1] = r.alg
      /\ VaultOpen(v[1], DeriveKeys(r.key).inner, SubSeq(v, 2, 2), SubSeq(v, 3, Len(v)), r.aad)
           = Ok(r.chunks[1])
  BY VaultOpens
<1> HIDE DEF v
<1>3. o = IF Len(r.nonce) = NonceLen THEN Ok(v) ELSE Refused
  BY <1>1, AeadOpens DEF v
<1>4. CASE Len(r.nonce) = NonceLen
  <2>1. o.ok /\ o.out = v
    BY <1>3, <1>4 DEF Ok
  <2>2. Len(v) >= 2 /\ v[1] \in Algs
    BY <1>2
  <2> QED BY <1>2, <1>4, <2>1, <2>2, OpenTwolockMeans
<1>5. CASE Len(r.nonce) # NonceLen
  <2>1. ~o.ok /\ o.out = <<>>
    BY <1>3, <1>5 DEF Refused
  <2>2. Len(o.out) \in Nat
    BY <2>1, EmptyFacts
  <2> HIDE DEF o
  <2>3. OpenTwolock(r.key, b, r.aad, n) = Refused
    BY <2>1, <2>2, OpenTwolockMeans DEF o
  <2> QED BY <1>5, <2>3
<1> QED
  BY <1>4, <1>5

(* Frame i of the stream r stands in w after cell p, and its length is one. *)
FrameAt(r, p, i, w) ==
  /\ Len(Frames(r)[i]) < LenLimit
  /\ w[p + 1] = Len4(Len(Frames(r)[i]))
  /\ p + 1 + Len(Frames(r)[i]) <= Len(w)
  /\ \A k \in 1..Len(Frames(r)[i]) : w[p + 1 + k] = Frames(r)[i][k]

LEMMA NumberKnown ==
  ASSUME NEW v \in 0..LenLimit - 1
  PROVE  NumberAt(Len4(v)) = v
<1>1. \A u : Len4(v) = Len4(u) => u = v
  <2> TAKE u
  <2> HAVE Len4(v) = Len4(u)
  <2>1. <<"len4", v>> = <<"len4", u>>
    BY DEF Len4
  <2> QED BY <2>1
<1> QED
  BY <1>1 DEF NumberAt

LEMMA NumberMeans ==
  ASSUME NEW cell, garble \in Misreads, NumberAt(cell) \notin Misreads
  PROVE  cell = Len4(NumberAt(cell)) /\ NumberAt(cell) < LenLimit
<1>1. \E v \in 0..LenLimit - 1 : cell = Len4(v)
  BY DEF NumberAt
<1>2. PICK v \in 0..LenLimit - 1 : cell = Len4(v)
  BY <1>1
<1>3. NumberAt(cell) = v
  BY <1>2, NumberKnown
<1> QED
  BY <1>2, <1>3, BlobsAssumption

(* A frame in its place is read as it was written.                         *)
LEMMA FrameRead ==
  ASSUME NEW r \in Requests, NEW i \in 1..Len(Chunks(r)), NEW p \in Nat, NEW w, IsSequence(w),
         FrameAt(r, p, i, w)
  PROVE  /\ NumberAt(w[p + 1]) = Len(Frames(r)[i])
         /\ FrameEnd(w, p) = p + 1 + Len(Frames(r)[i])
         /\ FrameFlags(w, p) = FlagsOf(r, i)
         /\ FrameText(w, p) = ChunkCt(r, i)
         /\ SubSeq(w, FrameEnd(w, p) - TagLen + 1, FrameEnd(w, p)) = TagOf(r, i)
<1> DEFINE f == Frames(r)[i]
           ct == ChunkCt(r, i)
           tag == TagOf(r, i)
           m == Len(Chunks(r)[i])
           end == p + 4 + m
<1>0. /\ Len(w) \in Nat /\ LenLimit \in Nat
      /\ m \in Nat /\ IsSequence(Chunks(r)[i])
  BY ChunksFacts, SequenceFacts, BlobsAssumption
<1>1. /\ IsSequence(f) /\ Len(f) = 3 + m
      /\ IsSequence(ct) /\ Len(ct) = m
      /\ f[1] = FlagsOf(r, i)
      /\ \A k \in 1..m : f[1 + k] = ct[k]
      /\ \A k \in 1..2 : f[1 + m + k] = tag[k]
  BY FrameFacts
<1>2. IsSequence(tag) /\ Len(tag) = 2
  BY PrfInputs, PrfFacts DEF TagOf
<1>f. /\ Len(f) < LenLimit
      /\ w[p + 1] = Len4(Len(f))
      /\ p + 1 + Len(f) <= Len(w)
      /\ \A k \in 1..Len(f) : w[p + 1 + k] = f[k]
  BY DEF FrameAt
<1> HIDE DEF f, ct, tag, m
<1>3. NumberAt(w[p + 1]) = Len(f)
  <2>1. Len(f) \in 0..LenLimit - 1
    BY <1>0, <1>1, <1>f
  <2> QED BY <1>f, <2>1, NumberKnown
<1>4. FrameEnd(w, p) = end /\ end = p + 1 + Len(f) /\ end <= Len(w)
  BY <1>0, <1>1, <1>3, <1>f, ConstantsKnown DEF FrameEnd
<1>5. FrameFlags(w, p) = FlagsOf(r, i)
  <2>1. 1 \in 1..Len(f) /\ p + 1 + 1 = p + LenBytes + 1
    BY <1>0, <1>1, ConstantsKnown
  <2>2. w[p + 1 + 1] = f[1]
    BY <1>f, <2>1
  <2> QED BY <1>1, <2>1, <2>2 DEF FrameFlags
<1>6. FrameText(w, p) = ct
  <2> DEFINE x == SubSeq(w, p + 3, end - 2)
  <2>0. /\ p + LenBytes + 2 = p + 3 /\ end - TagLen = end - 2 /\ end - 2 <= Len(w)
        /\ p + 3 \in Nat \ {0} /\ end - 2 \in Int
    BY <1>0, <1>4, ConstantsKnown
  <2>1. FrameText(w, p) = x
    BY <1>4, <2>0, Zenon DEF FrameText
  <2>2. /\ IsSequence(x)
        /\ Len(x) = IF p + 3 <= end - 2 THEN end - 2 - (p + 3) + 1 ELSE 0
        /\ \A k \in 1..(end - 2) - (p + 3) + 1 : x[k] = w[p + 3 + k - 1]
    BY <2>0, Part
  <2> HIDE DEF x
  <2>3. Len(x) = m /\ (end - 2) - (p + 3) + 1 = m
    BY <1>0, <2>2
  <2>4. \A k \in 1..m : x[k] = w[p + 1 + (1 + k)] /\ 1 + k \in 1..Len(f)
    <3> TAKE k \in 1..m
    <3>1. p + 3 + k - 1 = p + 1 + (1 + k)
      BY <1>0
    <3> QED BY <1>0, <1>1, <2>2, <2>3, <3>1
  <2>5. \A k \in 1..m : x[k] = ct[k]
    BY <1>1, <1>f, <2>4
  <2>6. x = ct
    BY <1>1, <2>2, <2>3, <2>5, SameSequence
  <2> QED BY <2>1, <2>6
<1>7. SubSeq(w, end - 1, end) = tag
  <2> DEFINE x == SubSeq(w, end - 1, end)
  <2>0. end - 1 \in Nat \ {0} /\ end \in Int /\ end <= Len(w)
    BY <1>0, <1>4
  <2>2. /\ IsSequence(x)
        /\ Len(x) = IF end - 1 <= end THEN end - (end - 1) + 1 ELSE 0
        /\ \A k \in 1..end - (end - 1) + 1 : x[k] = w[end - 1 + k - 1]
    BY <2>0, Part
  <2> HIDE DEF x
  <2>3. Len(x) = 2 /\ end - (end - 1) + 1 = 2
    BY <1>0, <2>2
  <2>4. \A k \in 1..2 : x[k] = w[p + 1 + (1 + m + k)] /\ 1 + m + k \in 1..Len(f)
    <3> TAKE k \in 1..2
    <3>1. end - 1 + k - 1 = p + 1 + (1 + m + k)
      BY <1>0
    <3>2. x[k] = w[end - 1 + k - 1]
      BY <2>2, <2>3
    <3> QED BY <1>0, <1>1, <3>1, <3>2
  <2>5. \A k \in 1..2 : x[k] = tag[k]
    BY <1>1, <1>f, <2>4
  <2> QED
    <3>1. x = tag
      BY <1>2, <2>2, <2>3, <2>5, SameSequence
    <3> QED BY <3>1 DEF x
<1>8. FrameEnd(w, p) - TagLen + 1 = end - 1
  BY <1>0, <1>4, ConstantsKnown
<1> QED
  BY <1>3, <1>4, <1>5, <1>6, <1>7, <1>8 DEF f, ct, tag

(* It verifies at the index it was sealed for, and its chunk comes out.    *)
LEMMA FrameVerifies ==
  ASSUME NEW r \in Requests, NEW i \in 1..Len(Chunks(r)), NEW p \in Nat, NEW w, IsSequence(w),
         FrameAt(r, p, i, w), SubSeq(w, 1, 1) = r.nonce
  PROVE  /\ ChunkVerifies(r.key, w, r.aad, p, i - 1)
         /\ ChunkPlain(r.key, w, r.n, p, i - 1) = Chunks(r)[i]
<1> DEFINE salt == SubSeq(w, 1, NonceLen)
<1>0. salt = r.nonce
  BY ConstantsKnown
<1>1. /\ NumberAt(w[p + 1]) = Len(Frames(r)[i])
      /\ FrameEnd(w, p) = p + 1 + Len(Frames(r)[i])
      /\ FrameFlags(w, p) = FlagsOf(r, i)
      /\ FrameText(w, p) = ChunkCt(r, i)
      /\ SubSeq(w, FrameEnd(w, p) - TagLen + 1, FrameEnd(w, p)) = TagOf(r, i)
  BY FrameRead
<1>2. Chunks(r)[i] \in Seq(Cells) /\ IsSequence(Chunks(r)[i]) /\ Len(Chunks(r)[i]) \in Nat
  BY ChunksFacts, SequenceFacts
<1>3. Len(Frames(r)[i]) >= 1 + TagLen
  <2>1. Len(Frames(r)[i]) = 3 + Len(Chunks(r)[i])
    BY FrameFacts
  <2> QED BY <1>2, <2>1, ConstantsKnown
<1>4. FrameEnd(w, p) <= Len(w)
  BY <1>1 DEF FrameAt
<1> HIDE DEF salt
<1>5. ChunkTag(r.key, salt, i - 1, FrameFlags(w, p), r.aad, FrameText(w, p)) = TagOf(r, i)
  BY <1>0, <1>1, Zenon DEF TagOf
<1>6. ChunkVerifies(r.key, w, r.aad, p, i - 1)
  BY <1>1, <1>3, <1>4, <1>5, Zenon DEF ChunkVerifies, salt
<1>7. ChunkPlain(r.key, w, r.n, p, i - 1)
        = Encrypt(r.key, ChunkNonce(r.nonce, i - 1, FlagsOf(r, i)), r.n, ChunkCt(r, i))
  BY <1>0, <1>1, Zenon DEF ChunkPlain, salt
<1> QED
  BY <1>2, <1>6, <1>7, EncryptTwice DEF ChunkCt

(* What the stream opener accepts has a chunk that verifies.               *)
LEMMA AcceptedOnly ==
  ASSUME NEW key, NEW b, NEW aad, NEW n, Len(b) \in Nat, garble \in Misreads
  PROVE  ~OpenStream(key, b, aad, n).ok => OpenStream(key, b, aad, n) = Refused
<1>1. PICK f : OpenStreamRs(key, b, aad, n) =
                 IF ~HeaderVerifies(key, b, aad) THEN Refused
                 ELSE RsAccepts(Len(b), f[<<HeaderLen, 0>>])
  BY RsOpens
<1>2. \A x : Ok(x).ok
  BY DEF Ok
<1>3. ~OpenStreamRs(key, b, aad, n).ok => OpenStreamRs(key, b, aad, n) = Refused
  BY <1>1, <1>2, Zenon DEF RsAccepts
<1> QED
  BY <1>3, StreamOpenersAgree

(* Induction from the end of an interval to its beginning.                 *)
LEMMA DownInduction ==
  ASSUME NEW m \in Nat, NEW G,
         \A j \in 1..m : (\A i \in j + 1..m : i \in G) => j \in G
  PROVE  \A j \in 1..m : j \in G
<1> DEFINE T == {k \in Nat : \A j \in 1..m : j > m - k => j \in G}
<1>1. 0 \in T
  OBVIOUS
<1>2. ASSUME NEW k \in Nat, k \in T PROVE k + 1 \in T
  <2> SUFFICES ASSUME NEW j \in 1..m, j > m - (k + 1) PROVE j \in G
    OBVIOUS
  <2>1. \A i \in j + 1..m : i \in G
    BY <1>2
  <2> QED BY <2>1
<1> HIDE DEF T
<1>3. m \in T
  BY <1>1, <1>2, SetInduction
<1> QED
  BY <1>3 DEF T

LEMMA FlattenChunks ==
  ASSUME NEW r \in Requests, r.fmt = "stream"
  PROVE  FlattenSeq(Chunks(r)) = Plaintext(r)
<1>1. CASE r.chunks # <<>>
  BY <1>1, Zenon DEF Chunks, Plaintext
<1>2. CASE r.chunks = <<>>
  <2> DEFINE e == <<>>
             ss == <<e>>
  <2>1. Chunks(r) = ss /\ Plaintext(r) = FlattenSeq(e)
    BY <1>2, Zenon DEF Chunks, Plaintext
  <2>2. Len(ss) = 1 /\ ss[1] = e
    OBVIOUS
  <2>3. FlattenSeq(e) = e
    BY EmptyFacts DEF FlattenSeq
  <2> HIDE DEF ss, e
  <2>4. PICK F : Flattening(ss, F) /\ FlattenSeq(ss) = F[1]
    <3>1. 1 \in Nat \ {0}
      OBVIOUS
    <3> QED BY <2>2, <3>1, FlattenDef
  <2>5. F[1] = ss[1]
    BY <2>2, <2>4 DEF Flattening
  <2> QED BY <2>1, <2>2, <2>3, <2>4, <2>5
<1> QED
  BY <1>1, <1>2

(* What open_stream returns for a stream that arrives whole. *)
LEMMA StreamOpens ==
  ASSUME NEW r \in Requests, r.fmt = "stream", WellFormed(r), garble \in Misreads,
         NEW w, w = StreamBlob(r)
  PROVE  OpenStream(r.key, w, r.aad, r.n) = Ok(Plaintext(r))
<1> DEFINE ss == Chunks(r)
           m == Len(ss)
           Flat == FlattenSeq(ss)
<1>n. Len(r.nonce) = 1 /\ \A i \in 1..m : Len(Frames(r)[i]) < LenLimit
  BY FramesDomain, ConstantsKnown DEF WellFormed
<1>1. /\ IsSequence(w) /\ Len(w) > 3
      /\ SubSeq(w, 1, 1) = SubSeq(r.nonce, 1, 1)
      /\ SubSeq(w, 2, 3) = KeyCommitment(r.key, r.nonce, r.aad)
      /\ \E P : Framed(r, P, w)
  BY <1>n, StreamBlobFacts, ConstantsKnown
<1>2. PICK P : Framed(r, P, w)
  BY <1>1
<1>3. IsSequence(r.nonce) /\ IsSequence(r.aad) /\ IsSequence(ss) /\ m \in Nat \ {0}
      /\ \A i \in 1..m : IsSequence(ss[i])
  BY RequestFacts, ChunksFacts
<1>4. SubSeq(w, 1, 1) = r.nonce
  BY <1>1, <1>3, <1>n, Whole
<1>5. Len(w) \in Nat
  BY <1>1, SequenceFacts
<1>h. HeaderVerifies(r.key, w, r.aad)
  <2>1. Len(w) >= HeaderLen /\ NonceLen = 1 /\ NonceLen + 1 = 2 /\ HeaderLen = 3
    BY <1>1, <1>5, ConstantsKnown
  <2> QED BY <1>1, <1>4, <2>1, Zenon DEF HeaderVerifies
<1>6. PICK f : /\ PyLoop(r.key, w, r.aad, r.n, f)
               /\ OpenStream(r.key, w, r.aad, r.n) =
                    IF ~HeaderVerifies(r.key, w, r.aad) THEN Refused ELSE f[<<HeaderLen, 0>>]
  BY <1>5, PyOpens
<1>7. PICK F : Flattening(ss, F) /\ Flat = F[m]
  BY <1>3, FlattenDef
<1>8. F[1] = ss[1] /\ \A i \in 1..m : i # 1 => F[i] = F[i - 1] \o ss[i]
  <2>1. \A i \in 1..m : F[i] = IF i = 1 THEN ss[i] ELSE F[i - 1] \o ss[i]
    BY <1>7, Zenon DEF Flattening
  <2>2. 1 \in 1..m
    BY <1>3
  <2> QED BY <2>1, <2>2, Zenon
<1> HIDE DEF ss, m, Flat
<1>9. \A i \in 1..m : IsSequence(F[i])
  <2> DEFINE T == {k \in Nat : k + 1 \in 1..m => IsSequence(F[k + 1])}
  <2>1. 0 \in T
    BY <1>3, <1>8
  <2>2. ASSUME NEW k \in Nat, k \in T PROVE k + 1 \in T
    <3> SUFFICES ASSUME k + 1 + 1 \in 1..m PROVE IsSequence(F[k + 1 + 1])
      OBVIOUS
    <3> DEFINE j == k + 1 + 1
               x == F[j - 1]
               y == ss[j]
    <3>1. j \in 1..m /\ j # 1 /\ j - 1 = k + 1 /\ k + 1 \in 1..m
      BY <1>3
    <3>2. IsSequence(x) /\ IsSequence(y)
      BY <1>3, <2>2, <3>1
    <3> HIDE DEF j
    <3>3. F[j] = x \o y
      BY <1>8, <3>1, Zenon
    <3> HIDE DEF x, y
    <3>4. IsSequence(x \o y)
      BY ONLY <3>2, Joined
    <3>5. IsSequence(F[j])
      BY ONLY <3>3, <3>4, Zenon
    <3> QED BY <3>5 DEF j
  <2> HIDE DEF T
  <2>3. \A k \in Nat : k \in T
    BY <2>1, <2>2, SetInduction
  <2> SUFFICES ASSUME NEW i \in 1..m PROVE IsSequence(F[i])
    OBVIOUS
  <2>4. i - 1 \in T /\ i - 1 + 1 = i
    BY <1>3, <2>3
  <2> QED BY <2>4 DEF T
<1>p. /\ P[0] = 3 /\ P[m] = Len(w)
      /\ \A i \in 1..m : /\ P[i - 1] \in Nat \ {0, 1, 2}
                         /\ P[i] = P[i - 1] + 1 + Len(Frames(r)[i]) /\ P[i] <= Len(w)
  BY <1>2 DEF Framed, ss, m
<1>10. ASSUME NEW i \in 1..m PROVE
         /\ FrameAt(r, P[i - 1], i, w)
         /\ FrameEnd(w, P[i - 1]) = P[i] /\ FrameFlags(w, P[i - 1]) = FlagsOf(r, i)
         /\ ChunkVerifies(r.key, w, r.aad, P[i - 1], i - 1)
         /\ ChunkPlain(r.key, w, r.n, P[i - 1], i - 1) = ss[i]
         /\ P[i - 1] \in Nat /\ P[i - 1] # Len(w) /\ P[i - 1] \in 0..Len(w)
  <2>1. /\ P[i - 1] \in Nat \ {0, 1, 2} /\ P[i] = P[i - 1] + 1 + Len(Frames(r)[i])
        /\ P[i] <= Len(w)
        /\ w[P[i - 1] + 1] = Len4(Len(Frames(r)[i]) % LenLimit)
        /\ \A k \in 1..Len(Frames(r)[i]) : w[P[i - 1] + 1 + k] = Frames(r)[i][k]
    BY <1>2 DEF Framed, ss, m
  <2>2. Len(Frames(r)[i]) \in Nat /\ Len(Frames(r)[i]) < LenLimit /\ LenLimit \in Nat
    BY <1>n, FrameFacts, SequenceFacts, BlobsAssumption DEF m, ss
  <2>3. Len(Frames(r)[i]) % LenLimit = Len(Frames(r)[i])
    <3> DEFINE u == Len(Frames(r)[i])
    <3>1. u \in Nat /\ u < LenLimit /\ LenLimit \in Nat
      BY <2>2
    <3> HIDE DEF u
    <3>2. u % LenLimit = u
      BY <3>1
    <3> QED BY <3>2 DEF u
  <2>4. FrameAt(r, P[i - 1], i, w)
    BY <2>1, <2>2, <2>3 DEF FrameAt
  <2>5. P[i - 1] \in Nat /\ P[i - 1] # Len(w) /\ P[i - 1] \in 0..Len(w)
    BY <1>5, <2>1, <2>2
  <2>6. i \in 1..Len(Chunks(r))
    BY DEF m, ss
  <2>7. FrameEnd(w, P[i - 1]) = P[i] /\ FrameFlags(w, P[i - 1]) = FlagsOf(r, i)
    BY <1>1, <2>1, <2>4, <2>5, <2>6, FrameRead
  <2>8. /\ ChunkVerifies(r.key, w, r.aad, P[i - 1], i - 1)
        /\ ChunkPlain(r.key, w, r.n, P[i - 1], i - 1) = ss[i]
    BY <1>1, <1>4, <2>4, <2>5, <2>6, FrameVerifies DEF ss
  <2> QED BY <2>4, <2>5, <2>7, <2>8
<1> DEFINE Rest(j, out) == /\ IsSequence(out)
                           /\ (j = 1 => out = F[m])
                           /\ (j # 1 => F[j - 1] \o out = F[m])
           G == {j \in 1..m : \E out : f[<<P[j - 1], j - 1>>] = Ok(out) /\ Rest(j, out)}
<1> HIDE DEF Rest
<1>11. ASSUME NEW j \in 1..m, \A i \in j + 1..m : i \in G PROVE j \in G
  <2> DEFINE x == ss[j]
             p == P[j - 1]
  <2>1. /\ p \in 0..Len(w) /\ p # Len(w) /\ ChunkVerifies(r.key, w, r.aad, p, j - 1)
        /\ FrameEnd(w, p) = P[j] /\ FrameFlags(w, p) = FlagsOf(r, j)
        /\ ChunkPlain(r.key, w, r.n, p, j - 1) = x
        /\ IsSequence(x) /\ j - 1 \in Nat /\ j - 1 + 1 = j
    BY <1>3, <1>10
  <2>2. f[<<p, j - 1>>] = PyStep(r.key, w, r.aad, r.n, f, p, j - 1)
    <3> DEFINE at == <<p, j - 1>>
    <3>1. at \in (0..Len(w)) \X Nat /\ at[1] = p /\ at[2] = j - 1
      BY <2>1
    <3> HIDE DEF at, p
    <3>2. f[at] = PyStep(r.key, w, r.aad, r.n, f, at[1], at[2])
      BY <1>6, <3>1 DEF PyLoop
    <3> QED BY <3>1, <3>2 DEF at
  <2> HIDE DEF x, p
  <2>3. f[<<p, j - 1>>] =
          IF FlagsOf(r, j) = FINAL
          THEN IF P[j] # Len(w) THEN Refused ELSE Ok(x)
          ELSE IF f[<<P[j], j>>].ok THEN Ok(x \o f[<<P[j], j>>].out) ELSE Refused
    BY <2>1, <2>2, Zenon DEF PyStep
  <2>4. CASE j = m
    <3>1. FlagsOf(r, j) = FINAL /\ P[j] = Len(w)
      BY <1>p, <2>4 DEF FlagsOf, m, ss
    <3>2. f[<<p, j - 1>>] = Ok(x)
      BY <2>3, <3>1, Zenon
    <3>3. Rest(j, x)
      <4>1. j = 1 => x = F[m]
        BY <1>8, <2>4 DEF x
      <4>2. j # 1 => F[j - 1] \o x = F[m]
        BY <1>8, <2>4, Zenon DEF x
      <4> QED BY <2>1, <4>1, <4>2, Zenon DEF Rest
    <3> QED BY <3>2, <3>3 DEF p
  <2>5. CASE j # m
    <3>1. j + 1 \in 1..m /\ j + 1 # 1 /\ j + 1 - 1 = j /\ j + 1 \in j + 1..m
      BY <1>3, <2>5
    <3>2. FlagsOf(r, j) # FINAL
      <4>1. FlagsOf(r, j) = MORE
        BY <2>5 DEF FlagsOf, m, ss
      <4>2. <<"flags", 0>> # <<"flags", 1>>
        OBVIOUS
      <4> QED BY <4>1, <4>2 DEF FINAL, MORE
    <3> DEFINE q == j + 1
    <3>3. \E out : f[<<P[q - 1], q - 1>>] = Ok(out) /\ Rest(q, out)
      BY <1>11, <3>1
    <3>4. q - 1 = j /\ q # 1
      BY <3>1
    <3> HIDE DEF q
    <3>5. PICK out : f[<<P[j], j>>] = Ok(out) /\ Rest(q, out)
      BY <3>3, <3>4, Zenon
    <3>6. IsSequence(out) /\ F[j] \o out = F[m]
      BY <3>4, <3>5, Zenon DEF Rest
    <3>x. IsSequence(x)
      BY <2>1
    <3>y. IsSequence(out)
      BY <3>6
    <3>7. f[<<p, j - 1>>] = Ok(x \o out)
      <4>1. Ok(out).ok /\ Ok(out).out = out
        BY DEF Ok
      <4> QED BY <2>3, <3>2, <3>5, <4>1, Zenon
    <3>8. Rest(j, x \o out)
      <4>0. IsSequence(x \o out)
        BY ONLY <3>x, <3>y, Joined
      <4>1. CASE j = 1
        <5>1. x = F[j]
          BY <1>8, <4>1 DEF x
        <5> QED BY <3>6, <4>0, <4>1, <5>1, Zenon DEF Rest
      <4>2. CASE j # 1
        <5> DEFINE u == F[j - 1]
        <5>1. IsSequence(u)
          <6>1. j - 1 \in 1..m
            BY <1>3, <4>2
          <6> QED BY <1>9, <6>1
        <5>2. F[j] = u \o x
          BY <1>8, <4>2, Zenon DEF x
        <5> HIDE DEF u
        <5>3. (u \o x) \o out = u \o (x \o out)
          BY ONLY <5>1, <3>x, <3>y, JoinAssoc
        <5>4. u \o (x \o out) = F[m]
          BY ONLY <3>6, <5>2, <5>3, Zenon
        <5> QED BY <4>0, <4>2, <5>4, Zenon DEF Rest, u
      <4> QED BY <4>1, <4>2
    <3>9. \E z : f[<<p, j - 1>>] = Ok(z) /\ Rest(j, z)
      BY ONLY <3>7, <3>8, Zenon
    <3> QED BY <3>9 DEF p
  <2> QED BY <2>4, <2>5
<1>g. G \subseteq 1..m /\ \A j \in G : \E out : f[<<P[j - 1], j - 1>>] = Ok(out) /\ Rest(j, out)
  OBVIOUS
<1> HIDE DEF G
<1>12. 1 \in G
  <2>1. m \in Nat /\ 1 \in 1..m
    BY <1>3
  <2>2. \A j \in 1..m : (\A i \in j + 1..m : i \in G) => j \in G
    BY <1>11
  <2>3. \A j \in 1..m : j \in G
    BY ONLY <2>1, <2>2, DownInduction
  <2> QED BY <2>1, <2>3
<1> DEFINE one == 1
<1>o. one \in G /\ one - 1 = 0 /\ one = 1
  BY <1>12
<1> HIDE DEF one
<1>13. PICK out : f[<<P[one - 1], one - 1>>] = Ok(out) /\ Rest(one, out)
  BY <1>g, <1>o, Zenon
<1>14. f[<<3, 0>>] = Ok(F[m])
  BY <1>13, <1>o, <1>p, Zenon DEF Rest
<1>15. F[m] = Plaintext(r)
  BY <1>7, FlattenChunks DEF Flat, ss
<1> QED
  BY <1>6, <1>h, <1>14, <1>15, ConstantsKnown

Mark(k, use, input) == <<"hmac", SubKey(k, use), input, 1>>

LEMMA MarkSame ==
  ASSUME NEW j, NEW v, NEW text, NEW k, NEW use, NEW input,
         PrfMark(SubKey(j, v), text, Mark(k, use, input))
  PROVE  j = k /\ v = use /\ text = input
<1>1. PICK i \in 1..2 : Mark(k, use, input) = <<"hmac", SubKey(j, v), text, i>>
  BY Zenon DEF PrfMark
<1>2. SubKey(k, use) = SubKey(j, v) /\ text = input
  BY <1>1 DEF Mark
<1> QED
  BY <1>2 DEF SubKey

(* Which seal wrote an HMAC, from the use of its key. *)
LEMMA MarkMeans ==
  ASSUME NEW s, NEW k, NEW use, NEW input, s.r.fmt \in Formats,
         SealMark(s, Mark(k, use, input))
  PROVE  LET r == s.r IN
         /\ use \in {"commit", "mac", "siv", "stream"}
         /\ use = "mac" =>
              \/ /\ r.fmt = "aead" /\ r.key = k
                 /\ input = MacInput(r.nonce, KeyCommitment(k, r.nonce, r.aad), r.aad,
                                     Encrypt(k, r.nonce, s.n, r.chunks[1]))
              \/ /\ r.fmt = "twolock" /\ DeriveKeys(r.key).outer = k
                 /\ input = MacInput(r.nonce, KeyCommitment(k, r.nonce, r.aad), r.aad,
                                     Encrypt(k, r.nonce, s.n, Vault(r)))
         /\ use = "siv" =>
              r.fmt = "siv" /\ r.key = k /\ input = SivInput(r.aad, r.chunks[1])
         /\ use = "stream" =>
              /\ r.fmt = "stream" /\ r.key = k
              /\ \E i \in 1..Len(Chunks(r)) :
                   input = ChunkInput(r.nonce, i - 1, FlagsOf(r, i), r.aad, ChunkCt(r, i))
<1> DEFINE r == s.r
           a == Mark(k, use, input)
           Mac(key, pt) == MacInput(r.nonce, KeyCommitment(key, r.nonce, r.aad), r.aad,
                                    Encrypt(key, r.nonce, s.n, pt))
<1> HIDE DEF Mac
<1>s. /\ "commit" # "mac" /\ "commit" # "siv" /\ "commit" # "stream" /\ "mac" # "siv"
      /\ "mac" # "stream" /\ "siv" # "stream"
  OBVIOUS
<1>1. ASSUME NEW key, NEW pt, AeadMark(key, pt, r.aad, s.n, r.nonce, a)
      PROVE  /\ key = k
             /\ use = "commit" \/ (use = "mac" /\ input = Mac(key, pt))
  <2>1. CASE PrfMark(SubKey(key, "commit"), CommitInput(r.nonce, r.aad), a)
    BY <2>1, MarkSame
  <2>2. CASE PrfMark(SubKey(key, "mac"), Mac(key, pt), a)
    BY <2>2, MarkSame
  <2> QED BY <1>1, <2>1, <2>2, Zenon DEF AeadMark, Mac
<1>2. CASE r.fmt = "aead"
  <2>1. AeadMark(r.key, r.chunks[1], r.aad, s.n, r.nonce, a)
    BY <1>2 DEF SealMark
  <2>2. r.key = k /\ (use = "commit" \/ (use = "mac" /\ input = Mac(k, r.chunks[1])))
    BY <1>1, <2>1, Zenon
  <2> QED BY <1>s, <1>2, <2>2, Zenon DEF Mac
<1>3. CASE r.fmt = "twolock"
  <2>1. a # VaultMark(r)
    <3>1. a[1] = "hmac" /\ VaultMark(r)[1] = "vault tag"
      BY DEF Mark, VaultMark
    <3> QED BY <3>1
  <2>2. AeadMark(DeriveKeys(r.key).outer, Vault(r), r.aad, s.n, r.nonce, a)
    BY <1>3, <2>1 DEF SealMark
  <2>3. DeriveKeys(r.key).outer = k /\ (use = "commit" \/ (use = "mac" /\ input = Mac(k, Vault(r))))
    BY <1>1, <2>2, Zenon
  <2> QED BY <1>s, <1>3, <2>3, Zenon DEF Mac
<1>4. CASE r.fmt = "siv"
  <2>1. \/ PrfMark(SubKey(r.key, "commit"),
                   CommitInput(SynthesiseIv(r.key, r.aad, r.chunks[1]), r.aad), a)
        \/ PrfMark(SubKey(r.key, "siv"), SivInput(r.aad, r.chunks[1]), a)
    BY <1>4 DEF SealMark
  <2>2. \/ use = "commit"
        \/ use = "siv" /\ r.key = k /\ input = SivInput(r.aad, r.chunks[1])
    BY <2>1, MarkSame
  <2> QED BY <1>s, <1>4, <2>2, Zenon
<1>5. CASE r.fmt = "stream"
  <2>1. \/ PrfMark(SubKey(r.key, "commit"), CommitInput(r.nonce, r.aad), a)
        \/ \E i \in 1..Len(Chunks(r)) :
             PrfMark(SubKey(r.key, "stream"),
                     ChunkInput(r.nonce, i - 1, FlagsOf(r, i), r.aad, ChunkCt(r, i)), a)
    BY <1>5 DEF SealMark
  <2>2. \/ use = "commit"
        \/ /\ use = "stream" /\ r.key = k
           /\ \E i \in 1..Len(Chunks(r)) :
                input = ChunkInput(r.nonce, i - 1, FlagsOf(r, i), r.aad, ChunkCt(r, i))
    BY <2>1, MarkSame
  <2> QED BY <1>s, <1>5, <2>2, Zenon
<1> QED
  BY <1>2, <1>3, <1>4, <1>5 DEF Formats

(* A tag in the blob under way was written by a seal under the same key,    *)
(* unless the key is an outer key and the wall was redone.                  *)
LEMMA Origin ==
  ASSUME Inv, NEW k, NEW use, NEW input, NEW i \in 1..Len(wire) - 1,
         SubSeq(wire, i, i + 1) = Prf(SubKey(k, use), input),
         k \in Keys \/ ~peeled
  PROVE  \E s \in sealed : SealMark(s, Mark(k, use, input)) /\ Genuine(s) /\ s.r.fmt \in Formats
<1> DEFINE a == Mark(k, use, input)
           x == SubSeq(wire, i, i + 1)
           c == Prf(SubKey(k, use), input)[1]
<1>0. IsSequence(wire) /\ Len(wire) \in Nat
  BY SequenceFacts DEF Inv, WireInv, GoodCells
<1>1. /\ IsSequence(x) /\ \A j \in 1..(i + 1) - i + 1 : x[j] = wire[i + j - 1]
  <2>1. i \in Nat \ {0} /\ i + 1 \in Int /\ i + 1 <= Len(wire)
    BY <1>0
  <2> QED BY <1>0, <2>1, Part
<1>2. x[1] = wire[i]
  <2>1. 1 \in 1..(i + 1) - i + 1 /\ i + 1 - 1 = i
    BY <1>0
  <2> QED BY <1>1, <2>1
<1>3. c = {a}
  BY PrfFacts DEF Mark
<1>4. wire[i] = {a} /\ wire[i] \in Range(wire)
  <2>1. i \in 1..Len(wire)
    BY <1>0
  <2> QED BY <1>0, <1>2, <1>3, <2>1, SequenceFacts
<1>5. a[1] \in Marked
  BY DEF Mark, Marked
<1>6. Known(a, sealed, peeled)
  <2> HIDE DEF a
  <2> QED BY <1>4, <1>5 DEF Inv, WireInv, GoodCells, GoodCell
<1>7. CASE \E s \in sealed : SealMark(s, a)
  BY <1>7, RequestFacts DEF Inv, SealedInv, Genuine
<1>8. CASE peeled /\ OuterMark(a)
  <2>1. PICK j \in Keys : \E v, text : PrfMark(SubKey(DeriveKeys(j).outer, v), text, a)
    BY <1>8 DEF OuterMark
  <2>2. k = DeriveKeys(j).outer
    BY <2>1, MarkSame
  <2>3. k \in Keys
    BY <1>8
  <2> QED BY <2>2, <2>3, KeysAssumption
<1> QED
  BY <1>6, <1>7, <1>8 DEF Known

-----------------------------------------------------------------------------
(* Equal inputs of the tag have equal nonce, commitment, data and          *)
(* ciphertext.                                                             *)
LEMMA MacInputSame ==
  ASSUME NEW n, NEW c, NEW a, NEW t, NEW m, NEW d, NEW b, NEW u,
         IsSequence(n), IsSequence(c), IsSequence(a), IsSequence(t),
         IsSequence(m), IsSequence(d), IsSequence(b), IsSequence(u),
         Len(n) = 1, Len(m) >= 1, Len(c) = 2, Len(d) = 2,
         m \in Seq(Cells), NEW e, c[1] = {e}, e[1] \in Reserved,
         MacInput(n, c, a, t) = MacInput(m, d, b, u)
  PROVE  n = m /\ c = d /\ a = b /\ t = u
<1> DEFINE w == MacInput(n, c, a, t)
<1>0. Len(m) \in Nat
  BY SequenceFacts
<1>1. PICK h : /\ IsSequence(h) /\ Len(h) = Len(n) + Len(c)
               /\ \A i \in 1..Len(n) : h[i] = n[i]
               /\ \A i \in 1..Len(c) : h[Len(n) + i] = c[i]
               /\ Labelled(h, a, t, w)
  BY MacLabelled
<1>2. PICK g : /\ IsSequence(g) /\ Len(g) = Len(m) + Len(d)
               /\ \A i \in 1..Len(m) : g[i] = m[i]
               /\ \A i \in 1..Len(d) : g[Len(m) + i] = d[i]
               /\ Labelled(g, b, u, w)
  BY MacLabelled
<1> HIDE DEF w
<1>3. Len(m) = 1
  <2> SUFFICES ASSUME Len(m) # 1 PROVE FALSE
    OBVIOUS
  <2>1. 2 \in 1..Len(m) /\ 2 \in 1..Len(g) /\ 2 \in 1..Len(h)
    <3> DEFINE l == Len(m)
               y == Len(h)
               z == Len(g)
    <3>1. l \in Nat /\ l >= 1 /\ l # 1 /\ z = l + 2 /\ y = 3
      BY <1>0, <1>1, <1>2
    <3> HIDE DEF l, y, z
    <3>2. 2 \in 1..l /\ 2 \in 1..z /\ 2 \in 1..y
      BY <3>1
    <3> QED BY <3>2 DEF l, y, z
  <2>2. w[2] = m[2]
    BY <1>2, <2>1 DEF Labelled
  <2>3. w[2] = h[2]
    BY <1>1, <2>1 DEF Labelled
  <2>4. h[2] = c[1]
    BY <1>1
  <2>5. m[2] \in Cells
    BY <2>1, CallersSeq, SequenceFacts
  <2> QED BY <2>2, <2>3, <2>4, <2>5, CallersCell
<1>4. h = g /\ a = b /\ t = u
  <2>1. Len(h) = Len(g)
    BY <1>1, <1>2, <1>3
  <2> QED BY <1>1, <1>2, <2>1, LabelledSame
<1>5. n[1] = m[1] /\ c[1] = d[1] /\ c[2] = d[2]
  <2>1. \A i \in 1..1 : h[i] = n[i] /\ h[i] = m[i]
    BY <1>1, <1>2, <1>3, <1>4
  <2>2. \A i \in 1..2 : h[1 + i] = c[i] /\ h[1 + i] = d[i]
    BY <1>1, <1>2, <1>3, <1>4
  <2> QED BY <2>1, <2>2
<1>6. n = m
  BY <1>3, <1>5, SameSequence
<1>7. c = d
  <2>1. \A i \in 1..2 : c[i] = d[i]
    BY <1>5
  <2> QED BY <2>1, SameSequence
<1> QED
  BY <1>4, <1>6, <1>7

(* Equal inputs of a chunk tag have equal salt, index, flags, data and     *)
(* ciphertext.                                                             *)
LEMMA ChunkInputSame ==
  ASSUME NEW n, NEW i, NEW f, NEW a, NEW t, NEW m, NEW j, NEW g, NEW b, NEW u,
         IsSequence(n), IsSequence(a), IsSequence(t),
         IsSequence(m), IsSequence(b), IsSequence(u),
         Len(n) = 1, Len(m) >= 1, m \in Seq(Cells),
         ChunkInput(n, i, f, a, t) = ChunkInput(m, j, g, b, u)
  PROVE  n = m /\ i = j /\ f = g /\ a = b /\ t = u
<1> DEFINE w == ChunkInput(n, i, f, a, t)
           e == <<"index", i>>
<1>0. Len(m) \in Nat
  BY SequenceFacts
<1>1. PICK h : /\ IsSequence(h) /\ Len(h) = Len(n) + 2
               /\ \A q \in 1..Len(n) : h[q] = n[q]
               /\ h[Len(n) + 1] = {<<"index", i>>} /\ h[Len(n) + 2] = f
               /\ Labelled(h, a, t, w)
  BY ChunkLabelled
<1>2. PICK v : /\ IsSequence(v) /\ Len(v) = Len(m) + 2
               /\ \A q \in 1..Len(m) : v[q] = m[q]
               /\ v[Len(m) + 1] = {<<"index", j>>} /\ v[Len(m) + 2] = g
               /\ Labelled(v, b, u, w)
  BY ChunkLabelled
<1> HIDE DEF w
<1>3. Len(m) = 1
  <2> SUFFICES ASSUME Len(m) # 1 PROVE FALSE
    OBVIOUS
  <2>1. 2 \in 1..Len(m) /\ 2 \in 1..Len(v) /\ 2 \in 1..Len(h)
    <3> DEFINE l == Len(m)
               y == Len(h)
               z == Len(v)
    <3>1. l \in Nat /\ l >= 1 /\ l # 1 /\ z = l + 2 /\ y = 3
      BY <1>0, <1>1, <1>2
    <3> HIDE DEF l, y, z
    <3>2. 2 \in 1..l /\ 2 \in 1..z /\ 2 \in 1..y
      BY <3>1
    <3> QED BY <3>2 DEF l, y, z
  <2>2. w[2] = m[2]
    BY <1>2, <2>1 DEF Labelled
  <2>3. w[2] = h[2]
    BY <1>1, <2>1 DEF Labelled
  <2>4. h[2] = {e}
    BY <1>1
  <2>5. m[2] \in Cells
    BY <2>1, CallersSeq, SequenceFacts
  <2>6. e[1] \in Reserved
    BY DEF Reserved
  <2> HIDE DEF e
  <2> QED BY <2>2, <2>3, <2>4, <2>5, <2>6, CallersCell
<1>4. h = v /\ a = b /\ t = u
  <2>1. Len(h) = Len(v)
    BY <1>1, <1>2, <1>3
  <2> QED BY <1>1, <1>2, <2>1, LabelledSame
<1>5. n[1] = m[1] /\ f = g
  <2>1. \A q \in 1..1 : h[q] = n[q] /\ h[q] = m[q]
    BY <1>1, <1>2, <1>3, <1>4
  <2> QED BY <1>1, <1>2, <1>3, <1>4, <2>1
<1>6. i = j
  <2>1. {<<"index", i>>} = {<<"index", j>>}
    BY <1>1, <1>2, <1>3, <1>4
  <2>2. <<"index", i>> = <<"index", j>>
    BY <2>1
  <2> QED BY <2>2
<1>7. n = m
  BY <1>3, <1>5, SameSequence
<1> QED
  BY <1>4, <1>5, <1>6, <1>7

(* A chunk that verifies is the chunk of its index of one sealed stream.    *)
FrameOf(s, k, aad, p, j) ==
  /\ Genuine(s) /\ s.r.fmt = "stream" /\ s.r.key = k /\ s.r.aad = aad
  /\ s.r.nonce = SubSeq(wire, 1, 1)
  /\ j + 1 \in 1..Len(Chunks(s.r))
  /\ FrameAt(s.r, p, j + 1, wire)

LEMMA PinFrame ==
  ASSUME Inv, NEW k \in Keys, NEW aad \in Seq(Cells), NEW p \in 0..Len(wire), NEW j \in Nat,
         Len(wire) >= 3, ChunkVerifies(k, wire, aad, p, j)
  PROVE  \E s \in sealed : FrameOf(s, k, aad, p, j)
<1> DEFINE w == wire
           v == NumberAt(w[p + 1])
           end == FrameEnd(w, p)
           fl == FrameFlags(w, p)
           x == FrameText(w, p)
           salt == SubSeq(w, 1, 1)
           input == ChunkInput(salt, j, fl, aad, x)
<1>0. /\ IsSequence(w) /\ Len(w) \in Nat /\ IsSequence(aad) /\ garble \in Misreads
      /\ v \in 0..LenLimit - 1 /\ LenLimit \in Nat
  BY InSeq, SequenceFacts, NumberRange, BlobsAssumption DEF Inv, WireInv, GoodCells, CountInv
<1>1. /\ end = p + 1 + v /\ end <= Len(w) /\ v >= 3
      /\ ChunkTag(k, salt, j, fl, aad, x) = SubSeq(w, end - TagLen + 1, end)
  <2>1. /\ end <= Len(w) /\ v >= 1 + TagLen
        /\ ChunkTag(k, SubSeq(w, 1, NonceLen), j, fl, aad, x) = SubSeq(w, end - TagLen + 1, end)
    BY Zenon DEF ChunkVerifies
  <2>2. end = p + 1 + v
    BY ConstantsKnown DEF FrameEnd
  <2> QED BY <1>0, <2>1, <2>2, ConstantsKnown
<1>u. /\ v \in Nat /\ Len(w) \in Nat /\ p \in Nat
      /\ end = p + 1 + v /\ end <= Len(w) /\ v >= 3
  <2> HIDE DEF end, v
  <2> QED BY <1>0, <1>1
<1> HIDE DEF end, v
<1>2. /\ IsSequence(x) /\ Len(x) = v - 3
      /\ \A q \in 1..v - 3 : x[q] = w[p + 2 + q]
  <2> DEFINE y == SubSeq(w, p + 3, end - 2)
  <2>0. /\ p + LenBytes + 2 = p + 3 /\ end - TagLen = end - 2 /\ end - 2 <= Len(w)
        /\ p + 3 \in Nat \ {0} /\ end - 2 \in Int
    BY <1>u, ConstantsKnown
  <2>1. x = y
    BY <2>0, Zenon DEF FrameText, end
  <2>2. /\ IsSequence(y)
        /\ Len(y) = IF p + 3 <= end - 2 THEN end - 2 - (p + 3) + 1 ELSE 0
        /\ \A q \in 1..(end - 2) - (p + 3) + 1 : y[q] = w[p + 3 + q - 1]
    BY <1>0, <2>0, Part
  <2> HIDE DEF y
  <2>3. Len(y) = v - 3 /\ (end - 2) - (p + 3) + 1 = v - 3
    BY <1>0, <1>1, <2>2
  <2>4. \A q \in 1..v - 3 : y[q] = w[p + 2 + q]
    <3> TAKE q \in 1..v - 3
    <3>1. p + 3 + q - 1 = p + 2 + q
      BY <1>0, <1>1
    <3>2. y[q] = w[p + 3 + q - 1]
      BY <2>2, <2>3
    <3> QED BY <3>1, <3>2
  <2> HIDE DEF x
  <2> QED BY <2>1, <2>2, <2>3, <2>4
<1>3. IsSequence(salt) /\ Len(salt) = 1
  <2>1. 1 \in Nat \ {0} /\ 1 \in Int /\ 1 <= Len(w)
    BY <1>0
  <2> QED BY <1>0, <2>1, Part
<1>v. v \in Nat
  BY <1>0, <1>1
<1>w. (w[p + 1] = Len4(v) /\ v < LenLimit) \/ v \in Misreads
  BY <1>0, NumberMeans DEF v
<1>f. fl = w[p + 2]
  <2>1. p + LenBytes + 1 = p + 2
    BY ConstantsKnown
  <2> QED BY <2>1 DEF FrameFlags
<1> HIDE DEF v, end, fl, x, salt
<1>4. SubSeq(w, end - 1, end) = Prf(SubKey(k, "stream"), input)
  <2>1. end - TagLen + 1 = end - 1
    BY <1>0, <1>1, <1>v, ConstantsKnown
  <2> QED BY <1>1, <2>1, PrfInputs
<1> HIDE DEF input
<1>5. PICK s \in sealed : /\ SealMark(s, Mark(k, "stream", input))
                          /\ Genuine(s) /\ s.r.fmt \in Formats
  <2> DEFINE q == end - 1
  <2>1. q \in 1..Len(wire) - 1 /\ end = q + 1
    BY <1>0, <1>1, <1>v
  <2> HIDE DEF q
  <2>2. SubSeq(wire, q, q + 1) = Prf(SubKey(k, "stream"), input)
    BY <1>4, <2>1 DEF q
  <2> QED BY <2>1, <2>2, Origin
<1> DEFINE r == s.r
<1>6. PICK i \in 1..Len(Chunks(r)) :
        input = ChunkInput(r.nonce, i - 1, FlagsOf(r, i), r.aad, ChunkCt(r, i))
  BY <1>5, MarkMeans
<1>7. r.fmt = "stream" /\ r.key = k /\ r \in Requests /\ Len(r.nonce) >= NonceLen
  BY <1>5, MarkMeans DEF Genuine
<1>8. /\ r.nonce \in Seq(Cells) /\ IsSequence(r.nonce) /\ IsSequence(r.aad)
      /\ Len(Frames(r)[i]) = 3 + Len(Chunks(r)[i])
      /\ IsSequence(ChunkCt(r, i)) /\ Len(ChunkCt(r, i)) = Len(Chunks(r)[i])
      /\ Len(Chunks(r)[i]) \in Nat /\ Len(Chunks(r)) \in Nat
  BY <1>7, RequestFacts, FrameFacts, ChunksFacts, SequenceFacts
<1> HIDE DEF r
<1>9. salt = r.nonce /\ j = i - 1 /\ fl = FlagsOf(r, i) /\ aad = r.aad /\ x = ChunkCt(r, i)
  <2>1. Len(r.nonce) >= 1
    BY <1>7, ConstantsKnown
  <2>2. ChunkInput(salt, j, fl, aad, x)
          = ChunkInput(r.nonce, i - 1, FlagsOf(r, i), r.aad, ChunkCt(r, i))
    BY <1>6 DEF input
  <2> QED BY <1>0, <1>2, <1>3, <1>8, <2>1, <2>2, ChunkInputSame
<1>10. v = Len(Frames(r)[i])
  BY <1>1, <1>2, <1>8, <1>9, <1>v
<1>11. w[p + 1] = Len4(v) /\ v < LenLimit
  <2>1. Len(Frames(r)[i]) \notin Misreads
    BY <1>7, FramesDomain, RequestsAssumption
  <2> QED BY <1>w, <1>10, <2>1
<1>12. FrameAt(r, p, i, w)
  <2> DEFINE f == Frames(r)[i]
             m == Len(Chunks(r)[i])
             tag == TagOf(r, i)
  <2>1. /\ f[1] = FlagsOf(r, i) /\ Len(f) = 3 + m /\ Len(ChunkCt(r, i)) = m
        /\ \A q \in 1..m : f[1 + q] = ChunkCt(r, i)[q]
        /\ \A q \in 1..2 : f[1 + m + q] = tag[q]
    BY <1>7, FrameFacts
  <2>2. SubSeq(w, end - 1, end) = tag
    BY <1>4, <1>6, <1>7, PrfInputs DEF TagOf
  <2>3. w[end - 1] = tag[1] /\ w[end] = tag[2]
    <3> DEFINE y == SubSeq(w, end - 1, end)
    <3>0. end - 1 \in Nat \ {0} /\ end \in Int /\ end <= Len(w)
      BY <1>0, <1>1, <1>v
    <3>1. \A q \in 1..end - (end - 1) + 1 : y[q] = w[end - 1 + q - 1]
      BY <1>0, <3>0, Part
    <3> HIDE DEF y
    <3>2. /\ 1 \in 1..end - (end - 1) + 1 /\ 2 \in 1..end - (end - 1) + 1
          /\ end - 1 + 1 - 1 = end - 1 /\ end - 1 + 2 - 1 = end
      BY <3>0
    <3>3. y[1] = w[end - 1] /\ y[2] = w[end]
      BY <3>1, <3>2
    <3> QED BY <2>2, <3>3 DEF y
  <2> HIDE DEF f, m, tag
  <2>m. m \in Nat /\ v = 3 + m
    BY <1>8, <1>10, <2>1 DEF m, f
  <2>4. ASSUME NEW q \in 1..Len(f) PROVE w[p + 1 + q] = f[q]
    <3>1. CASE q = 1
      <4>1. p + 1 + 1 = p + 2
        OBVIOUS
      <4> QED BY <1>9, <1>f, <2>1, <3>1, <4>1
    <3>2. CASE q \in 2..1 + m
      <4>1. q - 1 \in 1..m /\ q - 1 \in 1..v - 3 /\ 1 + (q - 1) = q /\ p + 2 + (q - 1) = p + 1 + q
        BY <2>m, <3>2
      <4>2. x[q - 1] = w[p + 2 + (q - 1)] /\ f[1 + (q - 1)] = x[q - 1]
        BY <1>2, <1>9, <2>1, <4>1
      <4> QED BY <4>1, <4>2
    <3>3. CASE q = 2 + m
      <4>1. end - 1 = p + 1 + q /\ q = 1 + m + 1
        BY <1>1, <2>m, <3>3
      <4>2. f[1 + m + 1] = tag[1]
        BY <2>1
      <4> QED BY <2>3, <4>1, <4>2
    <3>4. CASE q = 3 + m
      <4>1. end = p + 1 + q /\ q = 1 + m + 2
        BY <1>1, <2>m, <3>4
      <4>2. f[1 + m + 2] = tag[2]
        BY <2>1
      <4> QED BY <2>3, <4>1, <4>2
    <3> QED BY <2>1, <2>m, <3>1, <3>2, <3>3, <3>4
  <2>5. Len(f) = v
    BY <1>10 DEF f
  <2> QED BY <1>1, <1>11, <2>4, <2>5 DEF FrameAt, f
<1>13. j + 1 = i
  BY <1>8, <1>9
<1> QED
  BY <1>5, <1>7, <1>9, <1>12, <1>13 DEF r, salt, FrameOf

(* Two sequences that agree cell by cell.                                  *)
LEMMA SameCells ==
  ASSUME NEW x, NEW y, IsSequence(x), IsSequence(y), Len(x) = Len(y), Len(x) > 3,
         SubSeq(x, 1, 1) = SubSeq(y, 1, 1), SubSeq(x, 2, 3) = SubSeq(y, 2, 3),
         \A q \in 4..Len(x) : x[q] = y[q]
  PROVE  x = y
<1>0. Len(x) \in Nat
  BY SequenceFacts
<1>1. ASSUME NEW z \in {x, y}
      PROVE  SubSeq(z, 1, 1)[1] = z[1] /\ SubSeq(z, 2, 3)[1] = z[2] /\ SubSeq(z, 2, 3)[2] = z[3]
  <2>1. IsSequence(z) /\ 1 <= Len(z) /\ 3 <= Len(z)
    BY <1>0
  <2>2. \A i \in 1..1 : SubSeq(z, 1, 1)[i] = z[1 + i - 1]
    BY <2>1, Part
  <2>3. \A i \in 1..2 : SubSeq(z, 2, 3)[i] = z[2 + i - 1]
    BY <2>1, Part
  <2> QED BY <2>2, <2>3
<1>2. x[1] = y[1] /\ x[2] = y[2] /\ x[3] = y[3]
  BY <1>1
<1>3. \A q \in 1..Len(x) : q = 1 \/ q = 2 \/ q = 3 \/ q \in 4..Len(x)
  BY <1>0
<1>4. \A q \in 1..Len(x) : x[q] = y[q]
  BY <1>2, <1>3
<1> QED
  BY <1>4, SameSequence

(* A stream that opens is a sealed stream, whole and in order.              *)
LEMMA StreamPinned ==
  ASSUME Inv, NEW k \in Keys, NEW aad \in Seq(Cells), NEW n,
         OpenStream(k, wire, aad, n).ok
  PROVE  \E s \in sealed :
           /\ Genuine(s) /\ s.r.fmt = "stream" /\ s.r.key = k /\ s.r.aad = aad
           /\ s.blob = wire /\ WellFormed(s.r) /\ s.r.nonce = SubSeq(wire, 1, 1)
<1> DEFINE w == wire
<1>0. IsSequence(w) /\ Len(w) \in Nat /\ garble \in Misreads
  BY SequenceFacts DEF Inv, WireInv, GoodCells, CountInv
<1>1. PICK f : /\ PyLoop(k, w, aad, n, f)
               /\ OpenStream(k, w, aad, n) =
                    IF ~HeaderVerifies(k, w, aad) THEN Refused ELSE f[<<HeaderLen, 0>>]
  BY <1>0, PyOpens
<1>r. ~Refused.ok
  BY DEF Refused
<1>2. HeaderVerifies(k, w, aad) /\ f[<<3, 0>>].ok
  BY <1>1, <1>r, ConstantsKnown, Zenon
<1>3. Len(w) >= 3 /\ KeyCommitment(k, SubSeq(w, 1, 1), aad) = SubSeq(w, 2, 3)
  BY <1>2, ConstantsKnown DEF HeaderVerifies
<1>4. \A p \in 0..Len(w), j \in Nat : f[<<p, j>>] = PyStep(k, w, aad, n, f, p, j)
  <2> SUFFICES ASSUME NEW p \in 0..Len(w), NEW j \in Nat
               PROVE  f[<<p, j>>] = PyStep(k, w, aad, n, f, p, j)
    OBVIOUS
  <2> DEFINE at == <<p, j>>
  <2>1. at \in (0..Len(w)) \X Nat /\ at[1] = p /\ at[2] = j
    OBVIOUS
  <2> HIDE DEF at
  <2>2. f[at] = PyStep(k, w, aad, n, f, at[1], at[2])
    BY <1>1, <2>1 DEF PyLoop
  <2> QED BY <2>1, <2>2 DEF at
<1>5. \A p \in 0..Len(w), j \in Nat :
        f[<<p, j>>].ok =>
          /\ p # Len(w) /\ ChunkVerifies(k, w, aad, p, j)
          /\ FrameFlags(w, p) = FINAL => FrameEnd(w, p) = Len(w)
          /\ FrameFlags(w, p) # FINAL => f[<<FrameEnd(w, p), j + 1>>].ok
  BY <1>4, <1>r, Zenon DEF PyStep
<1>6. PICK s \in sealed :
        /\ Genuine(s) /\ s.r.fmt = "stream" /\ s.r.key = k /\ s.r.aad = aad
        /\ s.r.nonce = SubSeq(w, 1, 1)
  <2>1. 3 \in 0..Len(w) /\ 0 \in Nat
    BY <1>0, <1>3
  <2>2. ChunkVerifies(k, w, aad, 3, 0)
    BY <1>2, <1>5, <2>1
  <2> QED BY <1>3, <2>1, <2>2, PinFrame DEF FrameOf
<1> DEFINE r == s.r
           b == s.blob
           m == Len(Chunks(r))
<1>7. r \in Requests /\ Len(r.nonce) >= NonceLen /\ b = StreamBlob(r)
  BY <1>6 DEF Genuine
<1>8. /\ IsSequence(b) /\ Len(b) > 3
      /\ SubSeq(b, 1, 1) = SubSeq(r.nonce, 1, 1)
      /\ SubSeq(b, 2, 3) = KeyCommitment(r.key, r.nonce, r.aad)
      /\ \E P : Framed(r, P, b)
  BY <1>7, StreamBlobFacts
<1>9. PICK P : Framed(r, P, b)
  BY <1>8
<1>10. m \in Nat \ {0} /\ Len(b) \in Nat
  BY <1>7, <1>8, ChunksFacts, SequenceFacts
<1>11. /\ P[0] = 3 /\ P[m] = Len(b)
       /\ \A i \in 1..m :
            /\ P[i - 1] \in Nat \ {0, 1, 2} /\ P[i] = P[i - 1] + 1 + Len(Frames(r)[i])
            /\ P[i] <= Len(b)
            /\ b[P[i - 1] + 1] = Len4(Len(Frames(r)[i]) % LenLimit)
            /\ \A q \in 1..Len(Frames(r)[i]) : b[P[i - 1] + 1 + q] = Frames(r)[i][q]
  BY <1>9 DEF Framed
<1>12. \A i \in 1..m : Len(Frames(r)[i]) \in Nat
  BY <1>7, FrameFacts, SequenceFacts
<1>13. ASSUME NEW p \in 0..Len(w), NEW j \in Nat, ChunkVerifies(k, w, aad, p, j)
       PROVE  /\ j + 1 \in 1..m
              /\ FrameAt(r, p, j + 1, w)
  <2>1. PICK t \in sealed :
          /\ Genuine(t) /\ t.r.fmt = "stream" /\ t.r.key = k /\ t.r.aad = aad
          /\ t.r.nonce = SubSeq(w, 1, 1)
          /\ j + 1 \in 1..Len(Chunks(t.r))
          /\ FrameAt(t.r, p, j + 1, w)
    <3>1. Len(wire) >= 3 /\ p \in 0..Len(wire) /\ ChunkVerifies(k, wire, aad, p, j)
      BY <1>3, <1>13
    <3>2. j \in Nat /\ k \in Keys /\ aad \in Seq(Cells)
      OBVIOUS
    <3>3. PICK t \in sealed : FrameOf(t, k, aad, p, j)
      BY <3>1, <3>2, PinFrame
    <3> QED BY <3>3 DEF FrameOf
  <2>2. t.r = r
    <3>1. t.r \in Requests
      BY <2>1 DEF Genuine
    <3> QED BY <1>6, <1>7, <2>1, <3>1, FreshSalts
  <2> QED BY <2>1, <2>2
<1> DEFINE Good(j) == f[<<P[j - 1], j - 1>>].ok /\ P[j - 1] <= Len(w) =>
                        /\ Len(w) = Len(b)
                        /\ \A q \in P[j - 1] + 1..Len(w) : w[q] = b[q]
                        /\ \A i \in j..m : Len(Frames(r)[i]) < LenLimit
           G == {j \in 1..m : Good(j)}
<1> HIDE DEF r, b, m
<1>14. ASSUME NEW j \in 1..m, \A i \in j + 1..m : i \in G PROVE j \in G
  <2> SUFFICES ASSUME f[<<P[j - 1], j - 1>>].ok, P[j - 1] <= Len(w)
               PROVE  /\ Len(w) = Len(b)
                      /\ \A q \in P[j - 1] + 1..Len(w) : w[q] = b[q]
                      /\ \A i \in j..m : Len(Frames(r)[i]) < LenLimit
    OBVIOUS
  <2> DEFINE p == P[j - 1]
             h == j - 1
             F == Frames(r)[j]
             u == Len(F)
  <2>1. p \in Nat /\ p \in 0..Len(w) /\ h \in Nat /\ h + 1 = j /\ u \in Nat
        /\ P[j] = p + 1 + u
    BY <1>0, <1>11, <1>12
  <2>2. f[<<p, h>>].ok
    OBVIOUS
  <2>g. \A i \in j + 1..m : Good(i)
    BY <1>14
  <2>F. \A q \in 1..u : b[p + 1 + q] = F[q]
    BY <1>11
  <2>B. b[p + 1] = Len4(u % LenLimit)
    BY <1>11
  <2> HIDE DEF h, p, Good, F, u
  <2>3. /\ p # Len(w) /\ ChunkVerifies(k, w, aad, p, h)
        /\ FrameFlags(w, p) = FINAL => FrameEnd(w, p) = Len(w)
        /\ FrameFlags(w, p) # FINAL => f[<<FrameEnd(w, p), h + 1>>].ok
    BY <1>5, <2>1, <2>2
  <2>4. FrameAt(r, p, j, w)
    BY <1>13, <2>1, <2>3
  <2>5. FrameEnd(w, p) = P[j] /\ FrameFlags(w, p) = FlagsOf(r, j)
    <3>1. j \in 1..Len(Chunks(r)) /\ r \in Requests
      BY <1>7 DEF m, r
    <3>2. FrameEnd(w, p) = p + 1 + Len(Frames(r)[j]) /\ FrameFlags(w, p) = FlagsOf(r, j)
      BY <1>0, <2>1, <2>4, <3>1, FrameRead
    <3> QED BY <2>1, <3>2 DEF u, F
  <2>6. /\ u < LenLimit /\ w[p + 1] = Len4(u) /\ p + 1 + u <= Len(w)
        /\ \A q \in 1..u : w[p + 1 + q] = F[q]
    BY <2>4 DEF FrameAt, u, F
  <2>7. \A q \in p + 1..P[j] : w[q] = b[q]
    <3>u. u \in Nat /\ u < LenLimit /\ LenLimit \in Nat
      BY <2>1, <2>6, BlobsAssumption
    <3>1. u % LenLimit = u
      BY ONLY <3>u
    <3> SUFFICES ASSUME NEW q \in p + 1..P[j] PROVE w[q] = b[q]
      OBVIOUS
    <3>2. CASE q = p + 1
      BY <2>6, <2>B, <3>1, <3>2
    <3>3. CASE q # p + 1
      <4>1. q - p - 1 \in 1..u /\ p + 1 + (q - p - 1) = q
        BY <2>1, <3>3
      <4> QED BY <2>6, <2>F, <4>1
    <3> QED BY <3>2, <3>3
  <2>8. CASE j = m
    <3>1. FlagsOf(r, j) = FINAL
      BY <2>8 DEF FlagsOf, m
    <3>2. Len(w) = Len(b) /\ P[j] = Len(w)
      BY <1>11, <2>3, <2>5, <2>8, <3>1
    <3>3. \A i \in j..m : Len(Frames(r)[i]) < LenLimit
      BY <1>10, <2>6, <2>8 DEF u, F
    <3> QED BY <2>7, <3>2, <3>3 DEF p
  <2>9. CASE j # m
    <3>1. j + 1 \in 1..m /\ j + 1 \in j + 1..m /\ j + 1 - 1 = j
      BY <1>10, <2>9
    <3>2. FlagsOf(r, j) # FINAL
      <4>1. FlagsOf(r, j) = MORE
        BY <2>9 DEF FlagsOf, m
      <4>2. <<"flags", 0>> # <<"flags", 1>>
        OBVIOUS
      <4> QED BY <4>1, <4>2 DEF FINAL, MORE
    <3>3. f[<<P[j], j>>].ok /\ P[j] <= Len(w)
      BY <2>1, <2>3, <2>5, <2>6, <3>2
    <3> DEFINE l == j + 1
    <3>4. Good(l)
      BY <2>g, <3>1
    <3>5. l - 1 = j
      BY <3>1
    <3> HIDE DEF l
    <3>6. /\ Len(w) = Len(b)
          /\ \A q \in P[j] + 1..Len(w) : w[q] = b[q]
          /\ \A i \in l..m : Len(Frames(r)[i]) < LenLimit
      BY <3>3, <3>4, <3>5, Zenon DEF Good
    <3>7. \A q \in p + 1..Len(w) : w[q] = b[q]
      <4> SUFFICES ASSUME NEW q \in p + 1..Len(w) PROVE w[q] = b[q]
        OBVIOUS
      <4>1. q \in p + 1..P[j] \/ q \in P[j] + 1..Len(w)
        BY <1>0, <2>1
      <4> QED BY <2>7, <3>6, <4>1
    <3>8. \A i \in j..m : Len(Frames(r)[i]) < LenLimit
      <4> SUFFICES ASSUME NEW i \in j..m PROVE Len(Frames(r)[i]) < LenLimit
        OBVIOUS
      <4>1. i = j \/ i \in l..m
        BY <1>10 DEF l
      <4> QED BY <2>6, <3>6, <4>1 DEF u, F
    <3> QED BY <3>6, <3>7, <3>8 DEF p
  <2> QED BY <2>8, <2>9
<1>g. \A j \in G : Good(j)
  OBVIOUS
<1> HIDE DEF G, Good
<1>15. 1 \in G
  <2>1. m \in Nat /\ 1 \in 1..m
    BY <1>10
  <2>2. \A j \in 1..m : (\A i \in j + 1..m : i \in G) => j \in G
    BY <1>14
  <2>3. \A j \in 1..m : j \in G
    BY ONLY <2>1, <2>2, DownInduction
  <2> QED BY <2>1, <2>3
<1> DEFINE one == 1
<1>o. Good(one) /\ one - 1 = 0 /\ one = 1
  BY <1>15, <1>g
<1> HIDE DEF one
<1>16. /\ Len(w) = Len(b)
       /\ \A q \in 4..Len(w) : w[q] = b[q]
       /\ \A i \in 1..m : Len(Frames(r)[i]) < LenLimit
  <2>1. f[<<P[one - 1], one - 1>>].ok /\ P[one - 1] <= Len(w)
    BY <1>2, <1>3, <1>o, <1>11
  <2>2. /\ Len(w) = Len(b)
        /\ \A q \in P[one - 1] + 1..Len(w) : w[q] = b[q]
        /\ \A i \in one..m : Len(Frames(r)[i]) < LenLimit
    BY <1>o, <2>1, Zenon DEF Good
  <2>3. P[one - 1] + 1 = 4
    BY <1>o, <1>11
  <2> QED BY <1>o, <2>2, <2>3
<1>17. IsSequence(r.nonce) /\ Len(r.nonce) = 1 /\ SubSeq(r.nonce, 1, 1) = r.nonce
  <2>1. 1 \in Nat \ {0} /\ 1 \in Int /\ 1 <= Len(w)
    BY <1>0, <1>3
  <2>2. IsSequence(SubSeq(w, 1, 1)) /\ Len(SubSeq(w, 1, 1)) = 1
    BY <1>0, <2>1, Part
  <2>3. IsSequence(r.nonce) /\ Len(r.nonce) = 1
    BY <1>6, <2>2 DEF r
  <2> QED BY <2>3, Whole
<1>18. w = b
  <2>1. SubSeq(w, 1, 1) = SubSeq(b, 1, 1) /\ SubSeq(w, 2, 3) = SubSeq(b, 2, 3)
    BY <1>3, <1>6, <1>8, <1>17 DEF r, b
  <2>2. IsSequence(b) /\ Len(w) > 3
    BY <1>8, <1>16 DEF b
  <2> HIDE DEF w
  <2>3. IsSequence(w)
    BY <1>0
  <2> QED BY <1>16, <2>1, <2>2, <2>3, SameCells
<1>19. WellFormed(r)
  <2>1. DOMAIN Frames(r) = 1..m
    BY <1>7, FramesDomain DEF m, r
  <2> QED BY <1>16, <1>17, <2>1, ConstantsKnown DEF WellFormed
<1> QED
  BY <1>6, <1>18, <1>19 DEF r, b

(* A commitment in the header tells the key: committing AEAD.              *)
LEMMA CommitPins ==
  ASSUME NEW k, NEW h, NEW g, NEW a, IsSequence(h), IsSequence(g), IsSequence(a),
         KeyCommitment(k, h, a) = KeyCommitment(k, g, a)
  PROVE  h = g
<1>1. CommitInput(h, a) = CommitInput(g, a)
  BY CommitSame
<1>2. Labelled(h, a, <<>>, CommitInput(h, a)) /\ Labelled(g, a, <<>>, CommitInput(g, a))
  BY CommitLabelled
<1> DEFINE w == CommitInput(h, a)
           l == Len(h)
           m == Len(g)
           u == Len(a)
           e == Len(<<>>)
<1>3. /\ Len(w) = l + 1 + u + e /\ Len(w) = m + 1 + u + e
      /\ \A i \in 1..l : w[i] = h[i]
      /\ \A i \in 1..m : w[i] = g[i]
  BY <1>1, <1>2 DEF Labelled
<1>4. l \in Nat /\ m \in Nat /\ u \in Nat /\ e = 0
  BY SequenceFacts, EmptyFacts
<1> HIDE DEF l, m, u, e
<1>5. l = m
  BY <1>3, <1>4
<1>6. \A i \in 1..l : h[i] = g[i]
  BY <1>3, <1>5
<1> QED
  BY <1>5, <1>6, SameSequence DEF l, m

(* A sealed stream that Python would not have sealed is refused whole.      *)
LEMMA StreamRefused ==
  ASSUME Inv, NEW s \in sealed, s.r.fmt = "stream", s.blob = wire, ~WellFormed(s.r), NEW n
  PROVE  OpenStream(s.r.key, wire, s.r.aad, n) = Refused
<1> DEFINE r == s.r
<1>1. Genuine(s) /\ Len(wire) \in Nat /\ garble \in Misreads
  BY SequenceFacts DEF Inv, SealedInv, WireInv, GoodCells, CountInv
<1>2. r \in Requests /\ Len(r.nonce) >= NonceLen /\ wire = StreamBlob(r)
  BY <1>1 DEF Genuine
<1>3. r.key \in Keys /\ r.aad \in Seq(Cells) /\ IsSequence(r.aad) /\ IsSequence(r.nonce)
  BY <1>2, RequestFacts
<1>4. /\ SubSeq(wire, 1, 1) = SubSeq(r.nonce, 1, 1)
      /\ SubSeq(wire, 2, 3) = KeyCommitment(r.key, r.nonce, r.aad)
  BY <1>2, StreamBlobFacts
<1>5. ASSUME OpenStream(r.key, wire, r.aad, n).ok
      PROVE  FALSE
  <2>1. PICK t \in sealed :
           /\ Genuine(t) /\ t.r.fmt = "stream" /\ t.r.key = r.key /\ t.r.aad = r.aad
           /\ t.blob = wire /\ WellFormed(t.r) /\ t.r.nonce = SubSeq(wire, 1, 1)
    BY <1>3, <1>5, StreamPinned
  <2>2. t.r \in Requests /\ Len(t.r.nonce) >= NonceLen /\ wire = StreamBlob(t.r)
    BY <2>1 DEF Genuine
  <2>3. SubSeq(wire, 2, 3) = KeyCommitment(r.key, t.r.nonce, r.aad) /\ IsSequence(t.r.nonce)
    BY <2>1, <2>2, StreamBlobFacts, RequestFacts
  <2>4. t.r.nonce = r.nonce
    BY <1>3, <1>4, <2>3, CommitPins
  <2>5. t.r = r
    BY <1>2, <2>1, <2>2, <2>4, FreshSalts
  <2> QED BY <2>1, <2>5
<1> QED
  BY <1>1, <1>5, AcceptedOnly

(* What each opener makes of a blob that arrives as it was sealed. *)
Opened(s, out) == out = IF WellFormed(s.r) THEN Ok(Plaintext(s.r)) ELSE Refused

LEMMA WholeAead ==
  ASSUME NEW s, Genuine(s), s.r.fmt = "aead", NEW n, n = s.n
  PROVE  Opened(s, OpenAead(s.r.key, s.blob, s.r.aad, n))
<1>1. /\ s.r \in Requests /\ Len(s.r.nonce) >= NonceLen
      /\ s.blob = AeadBlob(s.r.key, s.r.chunks[1], s.r.aad, n, s.r.nonce)
  BY DEF Genuine
<1>2. IsSequence(s.r.chunks[1]) /\ IsSequence(s.r.aad) /\ IsSequence(s.r.nonce)
  BY <1>1, RequestFacts
<1>3. OpenAead(s.r.key, s.blob, s.r.aad, n) =
        IF Len(s.r.nonce) = NonceLen THEN Ok(s.r.chunks[1]) ELSE Refused
  BY <1>1, <1>2, AeadOpens
<1>4. (WellFormed(s.r) <=> Len(s.r.nonce) = NonceLen) /\ Plaintext(s.r) = s.r.chunks[1]
  BY DEF WellFormed, Plaintext
<1> QED
  BY <1>3, <1>4 DEF Opened

LEMMA WholeSiv ==
  ASSUME NEW s, Genuine(s), s.r.fmt = "siv", NEW n, n = s.n
  PROVE  Opened(s, OpenSiv(s.r.key, s.blob, s.r.aad, n))
<1>1. s.r \in Requests /\ s.blob = SealSiv(s.r.key, s.r.chunks[1], s.r.aad, n).out
  BY DEF Genuine
<1>2. IsSequence(s.r.chunks[1])
  BY <1>1, RequestFacts
<1>3. OpenSiv(s.r.key, s.blob, s.r.aad, n) = Ok(s.r.chunks[1])
  BY <1>1, <1>2, SivOpens
<1>4. WellFormed(s.r) /\ Plaintext(s.r) = s.r.chunks[1]
  BY DEF WellFormed, Plaintext
<1> QED
  BY <1>3, <1>4 DEF Opened

LEMMA WholeTwolock ==
  ASSUME NEW s, Genuine(s), s.r.fmt = "twolock", NEW n, n = s.n
  PROVE  Opened(s, OpenTwolock(s.r.key, s.blob, s.r.aad, n))
<1>1. /\ s.r \in Requests /\ Len(s.r.nonce) >= NonceLen
      /\ s.r.alg \in Algs /\ Len(s.r.inonce) >= InnerLen
      /\ s.blob = AeadBlob(DeriveKeys(s.r.key).outer, Vault(s.r), s.r.aad, n, s.r.nonce)
  BY DEF Genuine
<1>3. OpenTwolock(s.r.key, s.blob, s.r.aad, n) =
        IF Len(s.r.nonce) = NonceLen THEN Ok(s.r.chunks[1]) ELSE Refused
  BY <1>1, RequestParts, TwolockOpens
<1>4. (WellFormed(s.r) <=> Len(s.r.nonce) = NonceLen) /\ Plaintext(s.r) = s.r.chunks[1]
  BY DEF WellFormed, Plaintext
<1> QED
  BY <1>3, <1>4 DEF Opened

LEMMA WholeStream ==
  ASSUME Inv, NEW s \in sealed, s.r.fmt = "stream", s.blob = wire, NEW n, n = s.n
  PROVE  /\ Opened(s, OpenStream(s.r.key, wire, s.r.aad, n))
         /\ Opened(s, OpenStreamRs(s.r.key, wire, s.r.aad, n))
<1>1. Genuine(s) /\ Len(wire) \in Nat /\ garble \in Misreads
  BY SequenceFacts DEF Inv, SealedInv, WireInv, GoodCells, CountInv
<1>2. s.r \in Requests /\ s.n = s.r.n /\ wire = StreamBlob(s.r)
  BY <1>1 DEF Genuine
<1>3. Opened(s, OpenStream(s.r.key, wire, s.r.aad, n))
  <2>1. CASE WellFormed(s.r)
    BY <1>1, <1>2, <2>1, StreamOpens DEF Opened
  <2>2. CASE ~WellFormed(s.r)
    BY <2>2, StreamRefused DEF Opened
  <2> QED BY <2>1, <2>2
<1> QED
  BY <1>1, <1>3, StreamOpenersAgree

(* The four openers together.                                              *)
LEMMA WholeOpens ==
  ASSUME Inv, NEW fmt \in Formats, NEW key, NEW aad, NEW n, NEW s \in sealed,
         s.blob = wire, s.r.fmt = fmt, s.r.key = key, s.r.aad = aad, s.n = n,
         NEW port \in Ports, port = "rs" \/ fmt # "twolock" \/ n = DefaultMaps
  PROVE  Opened(s, OpenBy(port, fmt, key, wire, aad, n))
<1>1. Genuine(s)
  BY DEF Inv, SealedInv
<1>2. CASE fmt = "aead"
  <2>1. OpenBy(port, fmt, key, wire, aad, n) = OpenAead(key, wire, aad, n)
    BY <1>2 DEF OpenBy
  <2> QED BY <1>1, <1>2, <2>1, WholeAead
<1>3. CASE fmt = "siv"
  <2>1. OpenBy(port, fmt, key, wire, aad, n) = OpenSiv(key, wire, aad, n)
    BY <1>3 DEF OpenBy
  <2> QED BY <1>1, <1>3, <2>1, WholeSiv
<1>4. CASE fmt = "twolock"
  <2>1. OpenBy(port, fmt, key, wire, aad, n) = OpenTwolock(key, wire, aad, n)
    BY <1>4 DEF OpenBy, Ports
  <2> QED BY <1>1, <1>4, <2>1, WholeTwolock
<1>5. CASE fmt = "stream"
  <2>1. \/ OpenBy(port, fmt, key, wire, aad, n) = OpenStream(key, wire, aad, n)
        \/ OpenBy(port, fmt, key, wire, aad, n) = OpenStreamRs(key, wire, aad, n)
    BY <1>5 DEF OpenBy, Ports
  <2> QED BY <1>5, <2>1, WholeStream
<1> QED
  BY <1>2, <1>3, <1>4, <1>5 DEF Formats

(***************************************************************************)
(* A blob that arrives as it was sealed opens to its message in both       *)
(* ports, except one that only Rust would seal (a nonce too long, a chunk  *)
(* past the 32-bit frame length): both refuse that one.                    *)
(***************************************************************************)
THEOREM WholeBlobsOpen == Spec => []GenuineOpens
<1>1. Init => GenuineOpens
  BY DEF Init, GenuineOpens
<1>2. Inv /\ GenuineOpens /\ [Next]_vars => GenuineOpens'
  <2> SUFFICES ASSUME Inv, GenuineOpens, [Next]_vars PROVE GenuineOpens'
    OBVIOUS
  <2>1. CASE Quiet
    BY <2>1 DEF Quiet, GenuineOpens
  <2>2. ASSUME NEW fmt, NEW key, NEW aad, NEW n, Delivered(fmt, key, aad, n)
        PROVE  GenuineOpens'
    <3>1. /\ got'.fmt = fmt /\ got'.n = n /\ got'.key = key /\ got'.aad = aad /\ got'.blob = wire
          /\ got'["py"] = OpenBy("py", fmt, key, wire, aad, n)
          /\ got'["rs"] = OpenBy("rs", fmt, key, wire, aad, n)
          /\ sealed' = sealed /\ fmt \in Formats
      BY <2>2, Zenon DEF Delivered
    <3>2. ASSUME NEW s \in sealed, s.blob = wire, SameContext(s, got'), s.n = n,
                 NEW port \in Ports, port = "rs" \/ s.r.fmt # "twolock" \/ n = DefaultMaps
          PROVE  got'[port] = IF WellFormed(s.r) THEN Ok(Plaintext(s.r)) ELSE Refused
      <4>1. s.r.fmt = fmt /\ s.r.key = key /\ s.r.aad = aad
        BY <3>1, <3>2 DEF SameContext
      <4>2. Opened(s, OpenBy(port, fmt, key, wire, aad, n))
        BY <3>1, <3>2, <4>1, WholeOpens
      <4>3. got'[port] = OpenBy(port, fmt, key, wire, aad, n)
        BY <3>1, <3>2, Zenon DEF Ports
      <4> QED BY <4>2, <4>3 DEF Opened
    <3> QED BY <3>1, <3>2, Zenon DEF GenuineOpens, SameContext
  <2> QED BY <2>1, <2>2, OnlyDeliveries
<1> QED
  BY <1>1, <1>2, Invariance, PTL DEF Spec

(* Joined fields of one length agree one by one.                           *)
LEMMA SameFour ==
  ASSUME NEW x, NEW y, IsSequence(x), IsSequence(y), Len(x) >= 5, Len(y) >= 5,
         SubSeq(x, 1, 1) = SubSeq(y, 1, 1), SubSeq(x, 2, 3) = SubSeq(y, 2, 3),
         SubSeq(x, 4, Len(x) - 2) = SubSeq(y, 4, Len(y) - 2),
         SubSeq(x, Len(x) - 1, Len(x)) = SubSeq(y, Len(y) - 1, Len(y))
  PROVE  x = y
<1> DEFINE a == SubSeq(x, 1, 1)
           b == SubSeq(x, 2, 3)
           c == SubSeq(x, 4, Len(x) - 2)
           d == SubSeq(x, Len(x) - 1, Len(x))
<1>1. x = a \o b \o c \o d
  BY Cut4
<1>2. y = SubSeq(y, 1, 1) \o SubSeq(y, 2, 3) \o SubSeq(y, 4, Len(y) - 2)
            \o SubSeq(y, Len(y) - 1, Len(y))
  BY Cut4
<1>3. /\ SubSeq(y, 1, 1) = a /\ SubSeq(y, 2, 3) = b
      /\ SubSeq(y, 4, Len(y) - 2) = c /\ SubSeq(y, Len(y) - 1, Len(y)) = d
  OBVIOUS
<1> HIDE DEF a, b, c, d
<1> QED
  BY ONLY <1>1, <1>2, <1>3, Zenon

(* The blob under way is one that the committing AEAD made under key k, for *)
(* a caller or for the outer wall of the two locks.                         *)
AeadOf(s, k, aad, x) ==
  /\ Genuine(s)
  /\ \/ s.r.fmt = "aead" /\ s.r.key = k /\ x = s.r.chunks[1]
     \/ s.r.fmt = "twolock" /\ DeriveKeys(s.r.key).outer = k /\ x = Vault(s.r)
  /\ s.r.aad = aad /\ s.blob = wire /\ Len(s.r.nonce) = NonceLen

LEMMA AeadPinned ==
  ASSUME Inv, NEW k, NEW aad, IsSequence(aad), k \in Keys \/ ~peeled,
         AeadAccepts(k, wire, aad)
  PROVE  \E s \in sealed : \E x : AeadOf(s, k, aad, x)
<1> DEFINE w      == wire
           nonce  == SubSeq(w, 1, 1)
           commit == SubSeq(w, 2, 3)
           ct     == SubSeq(w, 4, Len(w) - 2)
           tag    == SubSeq(w, Len(w) - 1, Len(w))
           input  == MacInput(nonce, commit, aad, ct)
<1>0. IsSequence(w) /\ Len(w) \in Nat /\ Len(w) >= 5
  BY SequenceFacts DEF Inv, WireInv, GoodCells, AeadAccepts
<1>1. KeyCommitment(k, nonce, aad) = commit /\ tag = AeadTag(k, nonce, commit, aad, ct)
  BY Zenon DEF AeadAccepts
<1>2. tag = Prf(SubKey(k, "mac"), input)
  BY <1>1, PrfInputs
<1>3. IsSequence(nonce) /\ Len(nonce) = 1 /\ IsSequence(ct)
  <2>1. 1 \in Nat \ {0} /\ 1 \in Int /\ 1 <= Len(w)
    BY <1>0
  <2>2. 4 \in Nat \ {0} /\ Len(w) - 2 \in Int /\ Len(w) - 2 <= Len(w)
    BY <1>0
  <2>3. IsSequence(nonce) /\ Len(nonce) = 1
    BY <1>0, <2>1, Part
  <2>4. IsSequence(ct)
    BY <1>0, <2>2, Part
  <2> QED BY <2>3, <2>4
<1> DEFINE e == <<"hmac", SubKey(k, "commit"), CommitInput(nonce, aad), 1>>
<1>4. IsSequence(commit) /\ Len(commit) = 2 /\ commit[1] = {e} /\ e[1] \in Reserved
  <2>1. commit = Prf(SubKey(k, "commit"), CommitInput(nonce, aad))
    BY <1>1, PrfInputs
  <2>2. e[1] \in Reserved
    BY DEF Reserved
  <2> DEFINE u == SubKey(k, "commit")
             v == CommitInput(nonce, aad)
  <2> HIDE DEF u, v, commit
  <2>3. commit = Prf(u, v) => IsSequence(commit) /\ Len(commit) = 2 /\ commit[1] = {<<"hmac", u, v, 1>>}
    BY PrfFacts
  <2> QED BY <2>1, <2>2, <2>3 DEF u, v
<1> HIDE DEF input, tag, ct, commit, nonce, e
<1>5. PICK s \in sealed : SealMark(s, Mark(k, "mac", input)) /\ Genuine(s) /\ s.r.fmt \in Formats
  <2> DEFINE i == Len(w) - 1
  <2>1. i \in 1..Len(wire) - 1 /\ i + 1 = Len(w)
    BY <1>0
  <2>2. SubSeq(wire, i, i + 1) = Prf(SubKey(k, "mac"), input)
    BY <1>2, <2>1 DEF tag
  <2> HIDE DEF i
  <2> QED BY <2>1, <2>2, Origin
<1> DEFINE r == s.r
           x == IF r.fmt = "aead" THEN r.chunks[1] ELSE Vault(r)
           h == r.nonce
           com == KeyCommitment(k, h, r.aad)
           cipher == Encrypt(k, h, s.n, x)
<1>6. /\ \/ r.fmt = "aead" /\ r.key = k /\ x = r.chunks[1]
         \/ r.fmt = "twolock" /\ DeriveKeys(r.key).outer = k /\ x = Vault(r)
      /\ input = MacInput(h, com, r.aad, cipher)
  <2>1. \/ /\ r.fmt = "aead" /\ r.key = k
           /\ input = MacInput(h, com, r.aad, Encrypt(k, h, s.n, r.chunks[1]))
        \/ /\ r.fmt = "twolock" /\ DeriveKeys(r.key).outer = k
           /\ input = MacInput(h, com, r.aad, Encrypt(k, h, s.n, Vault(r)))
    BY <1>5, MarkMeans, Zenon
  <2>2. "aead" # "twolock"
    OBVIOUS
  <2> QED BY <2>1, <2>2, Zenon
<1>7. /\ r \in Requests /\ Len(h) >= NonceLen
      /\ s.blob = AeadBlob(k, x, r.aad, s.n, h)
      /\ r.fmt = "twolock" => Len(r.inonce) >= InnerLen
  BY <1>5, <1>6 DEF Genuine
<1>8. /\ IsSequence(h) /\ h \in Seq(Cells) /\ IsSequence(r.aad) /\ IsSequence(x)
      /\ Len(h) >= 1
  <2>1. IsSequence(x)
    <3>1. CASE r.fmt = "aead"
      BY <1>6, <1>7, <3>1, RequestFacts
    <3>2. CASE r.fmt = "twolock"
      BY <1>6, <1>7, <3>2, RequestParts, VaultFacts DEF VaultCells
    <3> QED BY <1>6, <3>1, <3>2
  <2> QED BY <1>7, <2>1, RequestFacts, ConstantsKnown
<1>9. IsSequence(com) /\ Len(com) = 2 /\ IsSequence(cipher)
  BY <1>8, PrfInputs, PrfFacts, EncryptFacts
<1> HIDE DEF r, x, h, com, cipher
<1>10. nonce = h /\ commit = com /\ aad = r.aad /\ ct = cipher
  <2>1. MacInput(nonce, commit, aad, ct) = MacInput(h, com, r.aad, cipher)
    BY <1>6 DEF input
  <2> QED BY <1>3, <1>4, <1>8, <1>9, <2>1, MacInputSame
<1> DEFINE b == s.blob
<1>11. /\ IsSequence(b) /\ Len(b) = 5 + Len(x)
       /\ SubSeq(b, 1, 1) = SubSeq(h, 1, 1)
       /\ SubSeq(b, 2, 3) = com
       /\ SubSeq(b, 4, Len(b) - 2) = cipher
       /\ SubSeq(b, Len(b) - 1, Len(b)) = AeadTag(k, h, com, r.aad, cipher)
  <2>1. b = AeadBlob(k, x, r.aad, s.n, h) /\ IsSequence(x) /\ IsSequence(h) /\ Len(h) >= NonceLen
    BY <1>7, <1>8
  <2> HIDE DEF b
  <2> QED BY <2>1, AeadBlobFacts DEF com, cipher
<1>12. /\ SubSeq(h, 1, 1) = h /\ Len(h) = 1 /\ Len(b) >= 5
  <2>1. Len(x) \in Nat
    BY <1>8, SequenceFacts
  <2> QED BY <1>3, <1>8, <1>10, <1>11, <2>1, Whole
<1> HIDE DEF b
<1>13. w = b
  <2>1. /\ SubSeq(w, 1, 1) = SubSeq(b, 1, 1) /\ SubSeq(w, 2, 3) = SubSeq(b, 2, 3)
        /\ SubSeq(w, 4, Len(w) - 2) = SubSeq(b, 4, Len(b) - 2)
        /\ SubSeq(w, Len(w) - 1, Len(w)) = SubSeq(b, Len(b) - 1, Len(b))
    BY <1>1, <1>10, <1>11, <1>12, Zenon DEF nonce, commit, ct, tag
  <2> QED BY <1>0, <1>11, <1>12, <2>1, SameFour
<1>14. AeadOf(s, k, aad, x)
  BY <1>5, <1>6, <1>10, <1>12, <1>13, ConstantsKnown DEF AeadOf, r, b, h
<1> QED
  BY <1>14

KsFree(c) == \A a \in c : a[1] # "ks"

(* Two keystreams with different numbers of maps do not cancel out.         *)
LEMMA KsDiffer ==
  ASSUME NEW c, KsFree(c), NEW k, NEW h, NEW m \in Nat \ {0}, NEW n \in Nat \ {0}, m # n, NEW j
  PROVE  ~KsFree(Xor(Xor(c, KsCell(k, h, m, j)), KsCell(k, h, n, j)))
<1> DEFINE A(i) == <<"ks", k, h, i, j>>
<1>1. ASSUME NEW p \in Nat \ {0}, NEW i \in Nat
      PROVE  A(i) \in KsCell(k, h, p, j) <=> i \in 1..p
  <2>1. ASSUME A(i) \in KsCell(k, h, p, j) PROVE i \in 1..p
    <3>1. PICK q \in 1..p : A(i) = <<"ks", k, h, q, j>>
      BY <2>1 DEF KsCell
    <3> QED BY <3>1
  <2>2. ASSUME i \in 1..p PROVE A(i) \in KsCell(k, h, p, j)
    BY <2>2 DEF KsCell
  <2> QED BY <2>1, <2>2
<1>2. \A i : A(i)[1] = "ks"
  OBVIOUS
<1>3. \A i : A(i) \notin c
  BY <1>2, Zenon DEF KsFree
<1> HIDE DEF A
<1>4. CASE m < n
  <2>1. A(n) \in KsCell(k, h, n, j) /\ A(n) \notin KsCell(k, h, m, j)
    BY <1>1, <1>4
  <2>2. A(n) \in Xor(Xor(c, KsCell(k, h, m, j)), KsCell(k, h, n, j))
    BY <1>3, <2>1, Zenon DEF Xor
  <2> QED BY <1>2, <2>2, Zenon DEF KsFree
<1>5. CASE n < m
  <2>1. A(m) \in KsCell(k, h, m, j) /\ A(m) \notin KsCell(k, h, n, j)
    BY <1>1, <1>5
  <2>2. A(m) \in Xor(Xor(c, KsCell(k, h, m, j)), KsCell(k, h, n, j))
    BY <1>3, <2>1, Zenon DEF Xor
  <2> QED BY <1>2, <2>2, Zenon DEF KsFree
<1> QED
  BY <1>4, <1>5

LEMMA AlgKsFree ==
  ASSUME NEW c \in Algs
  PROVE  KsFree(c)
<1>1. c = {<<"alg", 1>>} \/ c = {<<"alg", 2>>}
  BY DEF Algs
<1>2. <<"alg", 1>>[1] # "ks" /\ <<"alg", 2>>[1] # "ks"
  OBVIOUS
<1> QED
  BY <1>1, <1>2 DEF KsFree

(* The parts of a blob that open_twolock accepts. *)
TwolockParts(k, b, aad, n, ct, inner) ==
  /\ AeadAccepts(DeriveKeys(k).outer, b, aad)
  /\ ct = SubSeq(b, 4, Len(b) - 2)
  /\ inner = Encrypt(DeriveKeys(k).outer, SubSeq(b, 1, 1), n, ct)
  /\ IsSequence(ct) /\ IsSequence(inner) /\ Len(inner) = Len(ct)
  /\ Len(b) = 5 + Len(ct) /\ Len(inner) >= 2 /\ inner[1] \in Algs
  /\ OpenTwolock(k, b, aad, n) =
       VaultOpen(inner[1], DeriveKeys(k).inner, SubSeq(inner, 2, 2),
                 SubSeq(inner, 3, Len(inner)), aad)

LEMMA TwolockAccepts ==
  ASSUME NEW k, NEW b, IsSequence(b), NEW aad, NEW n, OpenTwolock(k, b, aad, n).ok
  PROVE  \E ct, inner : TwolockParts(k, b, aad, n, ct, inner)
<1> DEFINE outer == DeriveKeys(k).outer
           o == OpenAead(outer, b, aad, n)
           ct == SubSeq(b, 4, Len(b) - 2)
           inner == Encrypt(outer, SubSeq(b, 1, 1), n, ct)
<1>0. Len(b) \in Nat
  BY SequenceFacts
<1>1. o = IF AeadAccepts(outer, b, aad) THEN Ok(inner) ELSE Refused
  BY <1>0, OpenAeadMeans
<1>r. ~Refused.ok /\ Refused.out = <<>> /\ Len(<<>>) = 0 /\ Ok(inner).ok /\ Ok(inner).out = inner
  BY EmptyFacts DEF Refused, Ok
<1>2. /\ Len(b) >= 5 => IsSequence(ct) /\ Len(b) = 5 + Len(ct)
  <2> SUFFICES ASSUME Len(b) >= 5 PROVE IsSequence(ct) /\ Len(b) = 5 + Len(ct)
    OBVIOUS
  <2>1. 4 \in Nat \ {0} /\ Len(b) - 2 \in Int /\ Len(b) - 2 <= Len(b)
    BY <1>0
  <2>2. IsSequence(ct) /\ Len(ct) = IF 4 <= Len(b) - 2 THEN Len(b) - 2 - 4 + 1 ELSE 0
    BY <2>1, Part
  <2> DEFINE l == Len(b)
             m == Len(ct)
  <2>3. l \in Nat /\ l >= 5 /\ m = IF 4 <= l - 2 THEN l - 2 - 4 + 1 ELSE 0
    BY <1>0, <2>2
  <2> HIDE DEF l, m
  <2>4. l = 5 + m
    BY <2>3
  <2> QED BY <2>2, <2>4 DEF l, m
<1>3. AeadAccepts(outer, b, aad) => Len(b) >= 5
  BY DEF AeadAccepts
<1>4. AeadAccepts(outer, b, aad) => IsSequence(inner) /\ Len(inner) = Len(ct) /\ Len(inner) \in Nat
  <2> SUFFICES ASSUME IsSequence(ct)
               PROVE  IsSequence(inner) /\ Len(inner) = Len(ct) /\ Len(inner) \in Nat
    BY <1>2, <1>3
  <2> HIDE DEF ct
  <2> QED BY EncryptFacts, SequenceFacts
<1>5. Len(o.out) \in Nat
  <2> HIDE DEF inner, o
  <2> QED BY <1>1, <1>4, <1>r
<1>6. OpenTwolock(k, b, aad, n) =
           IF o.ok /\ Len(o.out) >= 2 /\ o.out[1] \in Algs
           THEN VaultOpen(o.out[1], DeriveKeys(k).inner, SubSeq(o.out, 2, 2),
                          SubSeq(o.out, 3, Len(o.out)), aad)
           ELSE Refused
  BY <1>5, OpenTwolockMeans
<1> HIDE DEF o, inner, ct
<1>7. o.ok /\ Len(o.out) >= 2 /\ o.out[1] \in Algs
  BY <1>6, <1>r, Zenon
<1>8. AeadAccepts(outer, b, aad) /\ o.out = inner
  BY <1>1, <1>7, <1>r, Zenon
<1>9. TwolockParts(k, b, aad, n, ct, inner)
  BY <1>2, <1>3, <1>4, <1>6, <1>7, <1>8, Zenon DEF TwolockParts, ct, inner
<1> QED
  BY <1>9

LEMMA OuterSame ==
  ASSUME NEW k, NEW j, DeriveKeys(k).outer = DeriveKeys(j).outer
  PROVE  k = j
<1>1. <<"hkdf", k, "outer-wall">> = <<"hkdf", j, "outer-wall">>
  BY DEF DeriveKeys
<1> QED
  BY <1>1

LEMMA InnerSame ==
  ASSUME NEW k, NEW j, DeriveKeys(k).inner = DeriveKeys(j).inner
  PROVE  k = j
<1>1. <<"hkdf", k, "inner-vault">> = <<"hkdf", j, "inner-vault">>
  BY DEF DeriveKeys
<1> QED
  BY <1>1

TwolockOf(s, k, aad, n) ==
  /\ Genuine(s) /\ s.r.fmt = "twolock" /\ s.r.key = k /\ s.r.aad = aad
  /\ s.blob = wire /\ s.n = n

(* Behind the outer wall, what open_twolock accepts was sealed whole.       *)
LEMMA TwolockPinned ==
  ASSUME Inv, ~peeled, NEW k \in Keys, NEW aad, IsSequence(aad), NEW n \in MapCounts,
         OpenTwolock(k, wire, aad, n).ok
  PROVE  \E s \in sealed : TwolockOf(s, k, aad, n)
<1> DEFINE outer == DeriveKeys(k).outer
<1>0. IsSequence(wire)
  BY DEF Inv, WireInv, GoodCells
<1>1. PICK ct, inner : TwolockParts(k, wire, aad, n, ct, inner)
  BY <1>0, TwolockAccepts
<1>2. PICK s \in sealed : \E x : AeadOf(s, outer, aad, x)
  BY <1>1, AeadPinned DEF TwolockParts
<1>3. PICK x : AeadOf(s, outer, aad, x)
  BY <1>2
<1> DEFINE r == s.r
           h == r.nonce
<1>4. Genuine(s) /\ r \in Requests /\ r.key \in Keys
  BY <1>3, RequestFacts DEF AeadOf, Genuine
<1>5. /\ r.fmt = "twolock" /\ DeriveKeys(r.key).outer = outer /\ x = Vault(r)
  <2>1. r.key # outer
    BY <1>4, KeysAssumption
  <2> QED BY <1>3, <2>1 DEF AeadOf
<1>6. r.key = k
  BY <1>5, OuterSame
<1>7. /\ r.alg \in Algs /\ Len(r.inonce) >= InnerLen
      /\ wire = AeadBlob(outer, x, aad, s.n, h)
      /\ Len(h) = 1 /\ r.aad = aad /\ s.blob = wire /\ Len(h) >= NonceLen
      /\ s.n \in MapCounts
  BY <1>3, <1>5, ConstantsKnown DEF AeadOf, Genuine
<1>8. IsSequence(x) /\ x[1] = r.alg /\ Len(x) \in Nat /\ Len(x) >= 3 /\ IsSequence(h)
  BY <1>4, <1>5, <1>7, RequestParts, VaultFacts, VaultOpens, RequestFacts DEF VaultCells
<1> HIDE DEF r, h, outer
<1>9. ct = Encrypt(outer, h, s.n, x) /\ SubSeq(wire, 1, 1) = h
  <2>1. /\ SubSeq(wire, 1, 1) = SubSeq(h, 1, 1)
        /\ SubSeq(wire, 4, Len(wire) - 2) = Encrypt(outer, h, s.n, x)
    <3> DEFINE b == wire
    <3>1. b = AeadBlob(outer, x, aad, s.n, h) /\ IsSequence(x) /\ IsSequence(h) /\ Len(h) >= NonceLen
      BY <1>7, <1>8
    <3> HIDE DEF b
    <3>2. /\ SubSeq(b, 1, 1) = SubSeq(h, 1, 1)
          /\ SubSeq(b, 4, Len(b) - 2) = Encrypt(outer, h, s.n, x)
      BY <3>1, AeadBlobFacts
    <3> QED BY <3>2 DEF b
  <2>2. SubSeq(h, 1, 1) = h
    BY <1>7, <1>8, Whole
  <2> QED BY <1>1, <2>1, <2>2 DEF TwolockParts
<1>10. inner[1] = Xor(Xor(x[1], KsCell(outer, h, s.n, 1)), KsCell(outer, h, n, 1))
  <2>1. inner = Encrypt(outer, h, n, ct)
    BY <1>1, <1>9 DEF TwolockParts, outer
  <2>2. /\ IsSequence(ct) /\ Len(ct) = Len(x)
        /\ \A j \in 1..Len(x) : ct[j] = Xor(x[j], KsCell(outer, h, s.n, j))
    BY <1>8, <1>9, EncryptFacts
  <2>3. \A j \in 1..Len(ct) : inner[j] = Xor(ct[j], KsCell(outer, h, n, j))
    BY <2>1, <2>2, EncryptFacts
  <2>4. 1 \in 1..Len(x)
    BY <1>8
  <2> QED BY <2>2, <2>3, <2>4
<1>11. s.n = n
  <2> SUFFICES ASSUME s.n # n PROVE FALSE
    OBVIOUS
  <2>1. s.n \in Nat \ {0} /\ n \in Nat \ {0}
    BY <1>7, BlobsAssumption
  <2>2. KsFree(x[1])
    BY <1>7, <1>8, AlgKsFree DEF r
  <2>3. ~KsFree(inner[1])
    BY <1>10, <2>1, <2>2, KsDiffer
  <2>4. inner[1] \in Algs
    BY <1>1 DEF TwolockParts
  <2> QED BY <2>3, <2>4, AlgKsFree
<1> QED
  BY <1>4, <1>5, <1>6, <1>7, <1>11 DEF TwolockOf, r

(* Nobody but a seal of the two locks writes the tag of an inner vault.     *)
VaultTagOf(s, a) == s.r.fmt = "twolock" /\ a = VaultMark(s.r)

LEMMA VaultOrigin ==
  ASSUME NEW S, NEW p, NEW a, a[1] = "vault tag", Known(a, S, p)
  PROVE  \E s \in S : VaultTagOf(s, a)
<1>0. ASSUME NEW key, NEW input, PrfMark(key, input, a) PROVE FALSE
  <2>1. PICK i \in 1..2 : a = <<"hmac", key, input, i>>
    BY <1>0 DEF PrfMark
  <2>2. a[1] = "hmac"
    BY <2>1
  <2> QED BY <2>2
<1>1. ~OuterMark(a)
  BY <1>0, Zenon DEF OuterMark
<1>2. PICK s \in S : SealMark(s, a)
  BY <1>1 DEF Known
<1>3. ASSUME NEW key, NEW pt, AeadMark(key, pt, s.r.aad, s.n, s.r.nonce, a) PROVE FALSE
  BY <1>0, <1>3, Zenon DEF AeadMark
<1>4. s.r.fmt = "twolock" /\ a = VaultMark(s.r)
  BY <1>0, <1>2, <1>3, Zenon DEF SealMark
<1> QED
  BY <1>4 DEF VaultTagOf

(* With the outer wall gone or not: what the vault returns was sealed.      *)
LEMMA VaultPinned ==
  ASSUME Inv, NEW k, NEW aad, NEW n \in MapCounts, OpenTwolock(k, wire, aad, n).ok
  PROVE  \E s \in sealed :
           /\ Genuine(s) /\ s.r.fmt = "twolock" /\ s.r.key = k /\ s.r.aad = aad
           /\ OpenTwolock(k, wire, aad, n).out = s.r.chunks[1]
<1>0. IsSequence(wire) /\ n \in Nat /\ \A c \in Range(wire) : GoodCell(c, sealed, peeled)
  BY BlobsAssumption DEF Inv, WireInv, GoodCells
<1>1. PICK ct, inner : TwolockParts(k, wire, aad, n, ct, inner)
  BY <1>0, TwolockAccepts
<1> DEFINE outer == DeriveKeys(k).outer
           key   == DeriveKeys(k).inner
           alg   == inner[1]
           nonce == SubSeq(inner, 2, 2)
           data  == SubSeq(inner, 3, Len(inner))
           V     == <<"vault tag", alg, key, nonce, Front(data), aad>>
           m     == Len(inner)
           h     == SubSeq(wire, 1, 1)
<1>2. /\ ct = SubSeq(wire, 4, Len(wire) - 2) /\ inner = Encrypt(outer, h, n, ct)
      /\ IsSequence(ct) /\ IsSequence(inner) /\ m = Len(ct)
      /\ Len(wire) = 5 + m /\ m \in Nat /\ m >= 2
      /\ OpenTwolock(k, wire, aad, n) = VaultOpen(alg, key, nonce, data, aad)
  BY <1>1, SequenceFacts DEF TwolockParts
<1>3. /\ data # <<>> /\ Last(data) = {V}
      /\ OpenTwolock(k, wire, aad, n).out = VaultXor(alg, key, nonce, Front(data))
  <2>1. ~Refused.ok /\ \A x : Ok(x).out = x
    BY DEF Refused, Ok
  <2>2. VaultTag(alg, key, nonce, Front(data), aad) = {V}
    BY DEF VaultTag
  <2> HIDE DEF V, data, nonce, alg, key
  <2> QED BY <1>2, <2>1, <2>2, Zenon DEF VaultOpen
<1>4. Last(data) = inner[m]
  <2>1. 3 \in Nat \ {0} /\ m \in Int /\ m <= Len(inner)
    BY <1>2
  <2>2. /\ IsSequence(data)
        /\ Len(data) = IF 3 <= m THEN m - 3 + 1 ELSE 0
        /\ \A i \in 1..m - 3 + 1 : data[i] = inner[3 + i - 1]
    BY <1>2, <2>1, Part
  <2> HIDE DEF data, m
  <2>3. m >= 3
    <3> SUFFICES ASSUME m < 3 PROVE FALSE
      BY <1>2
    <3>1. Len(data) = 0
      BY <1>2, <2>2
    <3>2. data = <<>>
      BY <2>2, <3>1, EmptyFacts, SameSequence
    <3> QED BY <1>3, <3>2
  <2>4. Len(data) = m - 2 /\ m - 2 \in 1..m - 3 + 1 /\ 3 + (m - 2) - 1 = m
    BY <1>2, <2>2, <2>3
  <2>5. data[m - 2] = inner[m]
    BY <2>2, <2>4
  <2> QED BY <2>4, <2>5 DEF Last
<1>5. inner[m] = Xor(ct[m], KsCell(outer, h, n, m)) /\ ct[m] \in Range(wire)
  <2>0. IsSequence(ct) /\ inner = Encrypt(outer, h, n, ct)
    BY <1>2
  <2>1. \A j \in 1..Len(ct) : inner[j] = Xor(ct[j], KsCell(outer, h, n, j))
    <3> HIDE DEF outer, h
    <3> QED BY <2>0, EncryptFacts
  <2>2. Range(ct) \subseteq Range(wire)
    <3>1. 4 \in Nat \ {0} /\ Len(wire) - 2 \in Int /\ Len(wire) - 2 <= Len(wire)
      BY <1>2
    <3> DEFINE u == Len(wire) - 2
    <3>2. u \in Int /\ u <= Len(wire) /\ 4 \in Nat \ {0}
      BY <3>1
    <3> HIDE DEF u
    <3>3. Range(SubSeq(wire, 4, u)) \subseteq Range(wire)
      BY <1>0, <3>2, Part
    <3> QED BY <1>2, <3>3 DEF u
  <2>3. m \in 1..Len(ct) /\ Range(ct) = {ct[i] : i \in 1..Len(ct)}
    <3>1. m \in 1..m /\ m = Len(ct)
      BY <1>2
    <3> HIDE DEF m
    <3> QED BY <2>0, <3>1, SequenceFacts
  <2> HIDE DEF m
  <2> QED BY <2>1, <2>2, <2>3
<1>6. V \in ct[m]
  <2>1. V \in Xor(ct[m], KsCell(outer, h, n, m))
    BY <1>3, <1>4, <1>5
  <2>2. V[1] = "vault tag"
    OBVIOUS
  <2>3. V \notin KsCell(outer, h, n, m)
    <3>1. \A e \in KsCell(outer, h, n, m) : e[1] = "ks"
      BY <1>0, KsCellFacts
    <3> HIDE DEF V
    <3> QED BY <2>2, <3>1
  <2> HIDE DEF V
  <2> QED BY <2>1, <2>3, XorCell
<1>7. PICK s \in sealed : VaultTagOf(s, V)
  <2>1. V[1] = "vault tag" /\ "vault tag" \in Marked
    BY DEF Marked
  <2> HIDE DEF V
  <2>2. Known(V, sealed, peeled)
    BY <1>0, <1>5, <1>6, <2>1 DEF GoodCell
  <2> QED BY <2>1, <2>2, VaultOrigin
<1> DEFINE r == s.r
<1>8. /\ alg = r.alg /\ key = DeriveKeys(r.key).inner /\ nonce = InnerNonce(r)
      /\ Front(data) = VaultCt(r) /\ aad = r.aad /\ r.fmt = "twolock"
  BY <1>7 DEF VaultMark, VaultTagOf
<1>9. Genuine(s) /\ IsSequence(r.chunks[1])
  BY <1>8, RequestFacts DEF Inv, SealedInv, Genuine
<1>10. k = r.key
  BY <1>8, InnerSame
<1>11. OpenTwolock(k, wire, aad, n).out = r.chunks[1]
  <2>1. VaultXor(r.alg, key, InnerNonce(r), VaultCt(r)) = r.chunks[1]
    BY <1>8, <1>9, VaultXorTwice DEF VaultCt
  <2> HIDE DEF alg, key, nonce, data, r
  <2> QED BY <1>3, <1>8, <2>1
<1> QED
  BY <1>7, <1>8, <1>9, <1>10, <1>11

-----------------------------------------------------------------------------
(* Which blob a cell with a keystream under a synthetic IV comes from.      *)
KsAtom(k, h, i, j) == <<"ks", k, h, i, j>>

LEMMA CallersKsFree ==
  ASSUME NEW c \in Cells
  PROVE  KsFree(c)
BY CellsAssumption DEF KsFree, Reserved

LEMMA PrfKsFree ==
  ASSUME NEW key, NEW input, NEW c \in Range(Prf(key, input))
  PROVE  KsFree(c)
<1>1. PICK i \in 1..2 : c = {<<"hmac", key, input, i>>}
  BY PrfFacts
<1>2. <<"hmac", key, input, i>>[1] # "ks"
  OBVIOUS
<1> QED
  BY <1>1, <1>2 DEF KsFree

(* Where the atoms of a keystream stand in what it enciphers.               *)
LEMMA EncryptAtom ==
  ASSUME NEW key, NEW nonce, NEW n, NEW data, IsSequence(data),
         \A c \in Range(data) : KsFree(c),
         NEW c \in Range(Encrypt(key, nonce, n, data)), NEW k, NEW h, NEW i, NEW j,
         KsAtom(k, h, i, j) \in c
  PROVE  /\ key = k /\ nonce = h /\ i \in 1..n /\ j \in 1..Len(data)
         /\ c = Xor(data[j], KsCell(key, nonce, n, j))
<1> DEFINE y == Encrypt(key, nonce, n, data)
           a == KsAtom(k, h, i, j)
<1>1. /\ IsSequence(y) /\ Len(y) = Len(data)
      /\ \A q \in 1..Len(data) : y[q] = Xor(data[q], KsCell(key, nonce, n, q))
  BY EncryptFacts
<1>2. PICK q \in 1..Len(data) : c = Xor(data[q], KsCell(key, nonce, n, q))
  <2> HIDE DEF y
  <2>1. PICK q \in 1..Len(y) : c = y[q]
    BY <1>1, SequenceFacts DEF y
  <2> QED BY <1>1, <2>1
<1>3. a[1] = "ks" /\ data[q] \in Range(data)
  BY SequenceFacts DEF KsAtom
<1>4. a \in KsCell(key, nonce, n, q)
  <2> HIDE DEF a
  <2>1. a \notin data[q]
    BY <1>3, Zenon DEF KsFree
  <2> QED BY <1>2, <2>1, XorCell DEF a
<1>5. PICK p \in 1..n : a = <<"ks", key, nonce, p, q>>
  BY <1>4 DEF KsCell
<1>6. key = k /\ nonce = h /\ i = p /\ j = q
  BY <1>5 DEF KsAtom
<1> QED
  BY <1>2, <1>6

IvTag(h) == \E e : h[1] = {e} /\ e[1] = "hmac"

LEMMA NoCallersTag ==
  ASSUME NEW x \in Seq(Cells), Len(x) >= 1
  PROVE  x[1] \in Cells /\ ~IvTag(x)
<1>1. x[1] \in Cells
  <2>1. 1 \in 1..Len(x)
    BY SequenceFacts, InSeq
  <2> QED BY <2>1
<1>2. ASSUME NEW e, x[1] = {e}, e[1] = "hmac" PROVE FALSE
  <2>1. \A a \in {e} : a[1] \notin Reserved
    BY <1>1, <1>2, CellsAssumption
  <2>2. e[1] \notin Reserved
    BY <2>1
  <2> QED BY <1>2, <2>2 DEF Reserved
<1> QED
  BY <1>1, <1>2 DEF IvTag

LEMMA AeadKs ==
  ASSUME NEW key, NEW pt, NEW aad, NEW n, NEW nonce \in Seq(Cells), IsSequence(pt),
         Len(nonce) >= NonceLen, \A c \in Range(pt) : KsFree(c),
         NEW b, b = AeadBlob(key, pt, aad, n, nonce),
         NEW d \in Range(b), NEW k, NEW h, NEW i, NEW j, KsAtom(k, h, i, j) \in d
  PROVE  ~IvTag(h)
<1> DEFINE first  == SubSeq(nonce, 1, 1)
           ct     == Encrypt(key, nonce, n, pt)
           commit == KeyCommitment(key, nonce, aad)
           tag    == AeadTag(key, nonce, commit, aad, ct)
<1>0. IsSequence(nonce) /\ Len(nonce) >= 1
  BY InSeq, ConstantsKnown
<1>1. Range(b) = Range(first) \cup Range(commit) \cup Range(ct) \cup Range(tag)
  BY <1>0, AeadBlobFacts
<1>2. \A c \in Range(first) : KsFree(c)
  <2>1. 1 \in Nat \ {0} /\ 1 \in Int
    OBVIOUS
  <2>2. Range(first) \subseteq Range(nonce)
    BY <1>0, <2>1, Part
  <2> HIDE DEF first
  <2> QED BY <2>2, CallersSeq, CallersKsFree
<1>3. \A c \in Range(commit) \cup Range(tag) : KsFree(c)
  <2>1. /\ commit = Prf(SubKey(key, "commit"), CommitInput(nonce, aad))
        /\ tag = Prf(SubKey(key, "mac"), MacInput(nonce, commit, aad, ct))
    BY PrfInputs
  <2> HIDE DEF commit, tag
  <2> QED BY <2>1, PrfKsFree
<1>4. ~KsFree(d)
  <2>1. KsAtom(k, h, i, j)[1] = "ks"
    BY DEF KsAtom
  <2> QED BY <2>1, Zenon DEF KsFree
<1>5. d \in Range(ct)
  <2> HIDE DEF first, ct, commit, tag
  <2> QED BY <1>1, <1>2, <1>3, <1>4
<1>6. nonce = h
  BY <1>5, EncryptAtom
<1> QED
  BY <1>0, <1>6, NoCallersTag

LEMMA VaultKsFree ==
  ASSUME NEW r \in Requests, r.fmt = "twolock", r.alg \in Algs, Len(r.inonce) >= InnerLen
  PROVE  IsSequence(Vault(r)) /\ \A c \in Range(Vault(r)) : KsFree(c)
<1> DEFINE v == Vault(r)
           ct == VaultCt(r)
           pt == r.chunks[1]
           alg == r.alg
           key == DeriveKeys(r.key).inner
           nonce == InnerNonce(r)
<1>0. pt \in Seq(Cells) /\ IsSequence(pt) /\ r.inonce \in Seq(Cells) /\ IsSequence(r.inonce)
  BY RequestFacts
<1>1. /\ IsSequence(v)
      /\ Range(v) = {r.alg} \cup Range(nonce) \cup Range(ct) \cup {{VaultMark(r)}}
  BY RequestParts, VaultFacts DEF VaultCells
<1>2. \A c \in Range(nonce) : KsFree(c)
  <2>1. 1 \in Nat \ {0} /\ InnerLen \in Int /\ InnerLen <= Len(r.inonce)
    BY ConstantsKnown
  <2>2. Range(nonce) \subseteq Range(r.inonce)
    BY <1>0, <2>1, Part DEF InnerNonce
  <2> HIDE DEF nonce
  <2> QED BY <1>0, <2>2, CallersSeq, CallersKsFree
<1>3. KsFree({VaultMark(r)})
  <2>1. VaultMark(r)[1] # "ks"
    BY DEF VaultMark
  <2> QED BY <2>1, Zenon DEF KsFree
<1>4. KsFree(alg)
  BY AlgKsFree
<1>5. ASSUME NEW c \in Range(ct) PROVE KsFree(c)
  <2>1. /\ IsSequence(ct) /\ Len(ct) = Len(pt)
        /\ \A q \in 1..Len(pt) : ct[q] = Xor(pt[q], VaultCell(alg, key, nonce, q))
    BY <1>0, VaultXorFacts DEF VaultCt
  <2>2. PICK q \in 1..Len(pt) : c = Xor(pt[q], VaultCell(alg, key, nonce, q))
    <3> HIDE DEF ct, pt
    <3>1. PICK q \in 1..Len(ct) : c = ct[q]
      BY <2>1, SequenceFacts DEF ct
    <3> QED BY <2>1, <3>1
  <2>3. KsFree(pt[q])
    BY <1>0, CallersKsFree
  <2>4. KsFree(VaultCell(alg, key, nonce, q))
    <3>1. <<"vault", alg, key, nonce, q>>[1] # "ks"
      OBVIOUS
    <3> QED BY <3>1, Zenon DEF VaultCell, KsFree
  <2> QED BY <2>2, <2>3, <2>4, XorCell DEF KsFree
<1> QED
  <2> HIDE DEF v, ct, nonce, alg
  <2> QED BY <1>1, <1>2, <1>3, <1>4, <1>5 DEF v, alg

LEMMA StreamKs ==
  ASSUME NEW r \in Requests, Len(r.nonce) >= NonceLen, NEW b, b = StreamBlob(r),
         NEW d \in Range(b), NEW k, NEW h, NEW i, NEW j, KsAtom(k, h, i, j) \in d
  PROVE  ~IvTag(h)
<1> DEFINE commit == KeyCommitment(r.key, r.nonce, r.aad)
           m == Len(Chunks(r))
<1>0. r.nonce \in Seq(Cells) /\ IsSequence(r.nonce) /\ Len(r.nonce) >= 1
  BY RequestFacts, ConstantsKnown
<1>1. \/ d \in Range(r.nonce)
      \/ d \in Range(commit)
      \/ \E q \in 1..m : d \in Range(Frames(r)[q]) \/ d = Len4(Len(Frames(r)[q]) % LenLimit)
  BY StreamBlobFacts
<1>2. \A c \in Range(r.nonce) : KsFree(c)
  BY <1>0, CallersSeq, CallersKsFree
<1>3. \A c \in Range(commit) : KsFree(c)
  BY PrfInputs, PrfKsFree
<1>4. ~KsFree(d)
  <2>1. KsAtom(k, h, i, j)[1] = "ks"
    BY DEF KsAtom
  <2> QED BY <2>1, Zenon DEF KsFree
<1>5. ASSUME NEW v PROVE KsFree(Len4(v))
  <2>1. <<"len4", v>>[1] # "ks"
    OBVIOUS
  <2> QED BY <2>1, Zenon DEF Len4, KsFree
<1>6. PICK q \in 1..m : d \in Range(Frames(r)[q])
  <2> HIDE DEF commit, m
  <2> QED BY <1>1, <1>2, <1>3, <1>4, <1>5
<1>7. Range(Frames(r)[q]) = {FlagsOf(r, q)} \cup Range(ChunkCt(r, q)) \cup Range(TagOf(r, q))
  BY FrameFacts
<1>8. KsFree(FlagsOf(r, q))
  <2>1. FlagsOf(r, q) = {<<"flags", 1>>} \/ FlagsOf(r, q) = {<<"flags", 0>>}
    BY DEF FlagsOf, FINAL, MORE
  <2>2. <<"flags", 1>>[1] # "ks" /\ <<"flags", 0>>[1] # "ks"
    OBVIOUS
  <2> QED BY <2>1, <2>2, Zenon DEF KsFree
<1>9. \A c \in Range(TagOf(r, q)) : KsFree(c)
  BY PrfInputs, PrfKsFree DEF TagOf
<1>10. d \in Range(ChunkCt(r, q))
  BY <1>4, <1>6, <1>7, <1>8, <1>9
<1> DEFINE nonce == ChunkNonce(r.nonce, q - 1, FlagsOf(r, q))
<1>11. nonce = h
  <2>1. Chunks(r)[q] \in Seq(Cells) /\ IsSequence(Chunks(r)[q])
    BY ChunksFacts
  <2>2. \A c \in Range(Chunks(r)[q]) : KsFree(c)
    BY <2>1, CallersSeq, CallersKsFree
  <2> HIDE DEF nonce
  <2>3. d \in Range(Encrypt(r.key, nonce, r.n, Chunks(r)[q]))
    BY <1>10 DEF ChunkCt, nonce
  <2> QED BY <2>1, <2>2, <2>3, EncryptAtom
<1>12. nonce[1] = r.nonce[1]
  <2> DEFINE x == r.nonce
             y == <<{<<"index", q - 1>>}, FlagsOf(r, q)>>
             z == x \o y
  <2>1. IsSequence(x) /\ 1 \in 1..Len(x)
    BY <1>0, SequenceFacts
  <2>2. IsSequence(y)
    <3> DEFINE e == {<<"index", q - 1>>}
               f == FlagsOf(r, q)
    <3> HIDE DEF e, f
    <3>1. <<e, f>> \in Seq({e, f})
      OBVIOUS
    <3> QED BY <3>1, InSeq DEF e, f
  <2>3. nonce = z
    BY DEF ChunkNonce
  <2> HIDE DEF x, y
  <2>4. \A p \in 1..Len(x) : z[p] = x[p]
    BY ONLY <2>1, <2>2, Joined
  <2> HIDE DEF z, nonce
  <2> QED BY <2>1, <2>3, <2>4 DEF x
<1> QED
  <2> HIDE DEF nonce
  <2> QED BY <1>0, <1>11, <1>12, NoCallersTag DEF IvTag

SivCell(u, d, k, h, i, j) ==
  /\ u.r.fmt = "siv" /\ u.r.key = k /\ h = SynthesiseIv(k, u.r.aad, u.r.chunks[1])
  /\ i \in 1..u.n /\ j \in 1..Len(u.r.chunks[1])
  /\ d = Xor(u.r.chunks[1][j], KsCell(k, h, u.n, j))

LEMMA SivKsOrigin ==
  ASSUME NEW u, Genuine(u), NEW d \in Range(u.blob),
         NEW k, NEW h, NEW i, NEW j, KsAtom(k, h, i, j) \in d, IvTag(h)
  PROVE  SivCell(u, d, k, h, i, j)
<1> DEFINE r == u.r
<1>1. r \in Requests /\ r.nonce \in Seq(Cells) /\ r.fmt \in Formats
  BY RequestFacts DEF Genuine
<1>2. CASE r.fmt = "aead"
  <2>1. /\ u.blob = AeadBlob(r.key, r.chunks[1], r.aad, u.n, r.nonce)
        /\ Len(r.nonce) >= NonceLen
    BY <1>2 DEF Genuine
  <2>2. r.chunks[1] \in Seq(Cells) /\ IsSequence(r.chunks[1])
    BY <1>1, <1>2, RequestFacts
  <2>3. \A c \in Range(r.chunks[1]) : KsFree(c)
    BY <2>2, CallersSeq, CallersKsFree
  <2> QED BY <1>1, <2>1, <2>2, <2>3, AeadKs
<1>3. CASE r.fmt = "twolock"
  <2>1. /\ u.blob = AeadBlob(DeriveKeys(r.key).outer, Vault(r), r.aad, u.n, r.nonce)
        /\ Len(r.nonce) >= NonceLen /\ r.alg \in Algs /\ Len(r.inonce) >= InnerLen
    BY <1>3 DEF Genuine
  <2>2. IsSequence(Vault(r)) /\ \A c \in Range(Vault(r)) : KsFree(c)
    BY <1>1, <1>3, <2>1, VaultKsFree
  <2> QED BY <1>1, <2>1, <2>2, AeadKs
<1>4. CASE r.fmt = "stream"
  <2>1. u.blob = StreamBlob(r) /\ Len(r.nonce) >= NonceLen
    BY <1>4 DEF Genuine
  <2> QED BY <1>1, <2>1, StreamKs
<1>5. CASE r.fmt = "siv"
  <2> DEFINE pt  == r.chunks[1]
             siv == SynthesiseIv(r.key, r.aad, pt)
             commit == KeyCommitment(r.key, siv, r.aad)
             ct  == Encrypt(r.key, siv, u.n, pt)
  <2>1. u.blob = SealSiv(r.key, pt, r.aad, u.n).out
    BY <1>5 DEF Genuine
  <2>2. pt \in Seq(Cells) /\ IsSequence(pt)
    BY <1>1, <1>5, RequestFacts
  <2>3. \A c \in Range(pt) : KsFree(c)
    BY <2>2, CallersSeq, CallersKsFree
  <2>4. Range(u.blob) = Range(commit) \cup Range(siv) \cup Range(ct)
    BY <2>1, <2>2, SivBlobFacts
  <2>5. \A c \in Range(commit) \cup Range(siv) : KsFree(c)
    <3>1. /\ commit = Prf(SubKey(r.key, "commit"), CommitInput(siv, r.aad))
          /\ siv = Prf(SubKey(r.key, "siv"), SivInput(r.aad, pt))
      BY PrfInputs
    <3> HIDE DEF commit, siv
    <3> QED BY <3>1, PrfKsFree
  <2>6. ~KsFree(d)
    <3>1. KsAtom(k, h, i, j)[1] = "ks"
      BY DEF KsAtom
    <3> QED BY <3>1, Zenon DEF KsFree
  <2>7. d \in Range(ct)
    <3> HIDE DEF commit, siv, ct
    <3> QED BY <2>4, <2>5, <2>6
  <2>8. /\ r.key = k /\ siv = h /\ i \in 1..u.n /\ j \in 1..Len(pt)
        /\ d = Xor(pt[j], KsCell(r.key, siv, u.n, j))
    <3> HIDE DEF siv, pt
    <3> QED BY <2>2, <2>3, <2>7, EncryptAtom
  <2> QED BY <1>5, <2>8 DEF SivCell
<1> QED
  BY <1>1, <1>2, <1>3, <1>4, <1>5 DEF Formats

LEMMA SameThree ==
  ASSUME NEW x, NEW y, IsSequence(x), IsSequence(y), Len(x) >= 4, Len(y) >= 4,
         SubSeq(x, 1, 2) = SubSeq(y, 1, 2), SubSeq(x, 3, 4) = SubSeq(y, 3, 4),
         SubSeq(x, 5, Len(x)) = SubSeq(y, 5, Len(y))
  PROVE  x = y
<1>0. Len(x) \in Nat /\ Len(y) \in Nat
  BY SequenceFacts
<1>1. ASSUME NEW z \in {x, y}
      PROVE  /\ Len(SubSeq(z, 5, Len(z))) = Len(z) - 4
             /\ \A i \in 5..Len(z) : SubSeq(z, 5, Len(z))[i - 4] = z[i]
             /\ SubSeq(z, 1, 2)[1] = z[1] /\ SubSeq(z, 1, 2)[2] = z[2]
             /\ SubSeq(z, 3, 4)[1] = z[3] /\ SubSeq(z, 3, 4)[2] = z[4]
  <2> DEFINE l == Len(z)
             t == SubSeq(z, 5, l)
  <2>1. IsSequence(z) /\ l \in Nat /\ l >= 4
    BY <1>0
  <2>2. /\ Len(t) = IF 5 <= l THEN l - 5 + 1 ELSE 0
        /\ \A i \in 1..l - 5 + 1 : t[i] = z[5 + i - 1]
    <3>1. 5 \in Nat \ {0} /\ l \in Int /\ l <= Len(z) /\ IsSequence(z)
      BY <2>1
    <3> HIDE DEF l
    <3> QED BY ONLY <3>1, Part
  <2>3. /\ SubSeq(z, 1, 2)[1] = z[1 + 1 - 1] /\ SubSeq(z, 1, 2)[2] = z[1 + 2 - 1]
        /\ SubSeq(z, 3, 4)[1] = z[3 + 1 - 1] /\ SubSeq(z, 3, 4)[2] = z[3 + 2 - 1]
    <3>1. 2 <= Len(z) /\ 4 <= Len(z)
      BY <2>1
    <3>2. \A i \in 1..2 : SubSeq(z, 1, 2)[i] = z[1 + i - 1]
      BY <2>1, <3>1, Part
    <3>3. \A i \in 1..4 - 3 + 1 : SubSeq(z, 3, 4)[i] = z[3 + i - 1]
      BY <2>1, <3>1, Part
    <3>4. 1 \in 1..2 /\ 2 \in 1..2 /\ 1 \in 1..4 - 3 + 1 /\ 2 \in 1..4 - 3 + 1
      OBVIOUS
    <3> QED BY ONLY <3>2, <3>3, <3>4, Zenon
  <2> HIDE DEF t, l
  <2>4. Len(t) = l - 4
    BY <2>1, <2>2
  <2>5. ASSUME NEW i \in 5..l PROVE t[i - 4] = z[i]
    <3>1. i - 4 \in 1..l - 5 + 1 /\ 5 + (i - 4) - 1 = i
      BY <2>1
    <3> QED BY <2>2, <3>1
  <2>6. 1 + 1 - 1 = 1 /\ 1 + 2 - 1 = 2 /\ 3 + 1 - 1 = 3 /\ 3 + 2 - 1 = 4
    OBVIOUS
  <2> QED BY <2>3, <2>4, <2>5, <2>6 DEF t, l
<1>2. Len(x) = Len(y)
  BY <1>0, <1>1
<1>3. x[1] = y[1] /\ x[2] = y[2] /\ x[3] = y[3] /\ x[4] = y[4]
  BY <1>1
<1>4. \A i \in 5..Len(x) : x[i] = y[i]
  BY <1>1, <1>2
<1>5. \A i \in 1..Len(x) : i = 1 \/ i = 2 \/ i = 3 \/ i = 4 \/ i \in 5..Len(x)
  BY <1>0
<1>6. \A i \in 1..Len(x) : x[i] = y[i]
  BY <1>3, <1>4, <1>5
<1> QED
  BY <1>2, <1>6, SameSequence

(* What open_siv accepts is what seal_siv makes of the result. *)
Resealed(k, b, aad, n, pt) ==
  /\ IsSequence(pt) /\ OpenSiv(k, b, aad, n) = Ok(pt)
  /\ Len(b) = 4 + Len(pt) /\ b = SealSiv(k, pt, aad, n).out
  /\ SubSeq(b, 3, 4) = SynthesiseIv(k, aad, pt)
  /\ SubSeq(b, 5, Len(b)) = Encrypt(k, SynthesiseIv(k, aad, pt), n, pt)

LEMMA SivResealed ==
  ASSUME NEW k, NEW b, IsSequence(b), NEW aad, NEW n, OpenSiv(k, b, aad, n).ok
  PROVE  \E pt : Resealed(k, b, aad, n, pt)
<1> DEFINE siv == SubSeq(b, 3, 4)
           y   == SubSeq(b, 5, Len(b))
           pt  == Encrypt(k, siv, n, y)
<1>0. Len(b) \in Nat /\ ~Refused.ok
  BY SequenceFacts DEF Refused
<1>1. OpenSiv(k, b, aad, n) =
               IF /\ Len(b) >= 4
                  /\ KeyCommitment(k, siv, aad) = SubSeq(b, 1, 2)
                  /\ SynthesiseIv(k, aad, pt) = siv
               THEN Ok(pt) ELSE Refused
  BY <1>0, OpenSivMeans
<1> HIDE DEF siv, y, pt
<1>2. /\ Len(b) >= 4 /\ KeyCommitment(k, siv, aad) = SubSeq(b, 1, 2)
      /\ SynthesiseIv(k, aad, pt) = siv /\ OpenSiv(k, b, aad, n) = Ok(pt)
  BY <1>0, <1>1, Zenon
<1>3. IsSequence(y) /\ Len(b) = 4 + Len(y)
  <2> DEFINE l == Len(b)
             m == Len(y)
  <2>1. 5 \in Nat \ {0} /\ l \in Int /\ l <= Len(b) /\ l \in Nat /\ l >= 4
    BY <1>0, <1>2
  <2>2. IsSequence(y) /\ m = IF 5 <= l THEN l - 5 + 1 ELSE 0
    BY <2>1, Part DEF y
  <2> HIDE DEF l, m
  <2>3. l = 4 + m
    BY <2>1, <2>2
  <2> QED BY <2>2, <2>3 DEF l, m
<1>4. IsSequence(pt) /\ Len(pt) = Len(y) /\ y = Encrypt(k, siv, n, pt)
  BY <1>3, EncryptFacts, EncryptTwice DEF pt
<1> DEFINE c == SealSiv(k, pt, aad, n).out
<1>5. /\ IsSequence(c) /\ Len(c) = 4 + Len(pt)
      /\ SubSeq(c, 1, 2) = KeyCommitment(k, siv, aad)
      /\ SubSeq(c, 3, 4) = siv
      /\ SubSeq(c, 5, Len(c)) = Encrypt(k, siv, n, pt)
  <2> HIDE DEF c
  <2>1. c = SealSiv(k, pt, aad, n).out
    BY DEF c
  <2> QED BY <1>2, <1>4, <2>1, SivBlobFacts
<1> HIDE DEF c
<1>6. b = c
  <2>1. Len(c) >= 4
    BY <1>2, <1>3, <1>4, <1>5
  <2>2. /\ SubSeq(b, 1, 2) = SubSeq(c, 1, 2) /\ SubSeq(b, 3, 4) = SubSeq(c, 3, 4)
        /\ SubSeq(b, 5, Len(b)) = SubSeq(c, 5, Len(c))
    BY <1>2, <1>4, <1>5, Zenon DEF siv, y
  <2> QED BY <1>2, <1>5, <2>1, <2>2, SameThree
<1>7. /\ IsSequence(pt) /\ OpenSiv(k, b, aad, n) = Ok(pt)
      /\ Len(b) = 4 + Len(pt) /\ b = SealSiv(k, pt, aad, n).out
      /\ SubSeq(b, 3, 4) = SynthesiseIv(k, aad, pt)
      /\ SubSeq(b, 5, Len(b)) = Encrypt(k, SynthesiseIv(k, aad, pt), n, pt)
  BY <1>2, <1>3, <1>4, <1>6, Zenon DEF c, siv, y
<1> QED
  BY <1>7, Zenon DEF Resealed

SivOf(s, k, aad, pt) ==
  /\ Genuine(s) /\ s.r.fmt = "siv" /\ s.r.key = k /\ s.r.aad = aad /\ s.r.chunks[1] = pt

LEMMA SynthesiseSame ==
  ASSUME NEW k, NEW a, NEW p, NEW j, NEW b, NEW q,
         IsSequence(a), IsSequence(p), IsSequence(b), IsSequence(q),
         SynthesiseIv(k, a, p) = SynthesiseIv(j, b, q)
  PROVE  a = b /\ p = q
<1> DEFINE x == SivInput(a, p)
           y == SivInput(b, q)
           u == SubKey(k, "siv")
           v == SubKey(j, "siv")
<1>1. Prf(u, x) = Prf(v, y)
  BY PrfInputs
<1> HIDE DEF x, y, u, v
<1>2. x = y
  BY <1>1, PrfInjective
<1> QED
  BY <1>2, SivInputSame DEF x, y

(* What SIV returns was sealed under that key and data, whatever was done   *)
(* to the blob on the way.                                                  *)
LEMMA SivPlain ==
  ASSUME Inv, NEW k \in Keys, NEW aad, IsSequence(aad), NEW pt, IsSequence(pt),
         Len(wire) >= 4, SubSeq(wire, 3, 4) = SynthesiseIv(k, aad, pt)
  PROVE  \E s \in sealed : SivOf(s, k, aad, pt)
<1> DEFINE input == SivInput(aad, pt)
<1>0. Len(wire) \in Nat
  BY SequenceFacts DEF Inv, WireInv, GoodCells
<1>1. SubSeq(wire, 3, 3 + 1) = Prf(SubKey(k, "siv"), input)
  <2>1. 3 + 1 = 4
    OBVIOUS
  <2> QED BY <2>1, PrfInputs
<1> HIDE DEF input
<1>2. 3 \in 1..Len(wire) - 1
  BY <1>0
<1>3. PICK s \in sealed : SealMark(s, Mark(k, "siv", input)) /\ Genuine(s) /\ s.r.fmt \in Formats
  BY <1>1, <1>2, Origin
<1>4. s.r.fmt = "siv" /\ s.r.key = k /\ input = SivInput(s.r.aad, s.r.chunks[1])
  BY <1>3, MarkMeans
<1>5. IsSequence(s.r.aad) /\ IsSequence(s.r.chunks[1])
  BY <1>3, <1>4, RequestFacts DEF Genuine
<1>6. aad = s.r.aad /\ pt = s.r.chunks[1]
  BY <1>4, <1>5, SivInputSame DEF input
<1> QED
  BY <1>3, <1>4, <1>6 DEF SivOf

LEMMA KsMember ==
  ASSUME NEW k, NEW h, NEW p, NEW i \in 1..p, NEW j
  PROVE  KsAtom(k, h, i, j) \in KsCell(k, h, p, j)
BY DEF KsAtom, KsCell

LEMMA KsIndex ==
  ASSUME NEW k, NEW h, NEW p, NEW i, NEW j, KsAtom(k, h, i, j) \in KsCell(k, h, p, j)
  PROVE  i \in 1..p
<1>1. PICK q \in 1..p : KsAtom(k, h, i, j) = <<"ks", k, h, q, j>>
  BY DEF KsCell
<1> QED
  BY <1>1 DEF KsAtom

(* Where the atoms of a keystream go when its cell is flipped or not.       *)
LEMMA KsThrough ==
  ASSUME NEW c, KsFree(c), NEW k, NEW h, NEW p, NEW i, NEW j
  PROVE  KsAtom(k, h, i, j) \in Xor(c, KsCell(k, h, p, j)) <=> KsAtom(k, h, i, j) \in KsCell(k, h, p, j)
<1>1. KsAtom(k, h, i, j)[1] = "ks"
  BY DEF KsAtom
<1>2. KsAtom(k, h, i, j) \notin c
  BY <1>1, Zenon DEF KsFree
<1> QED
  BY <1>2, Zenon DEF Xor

LEMMA KsFlipped ==
  ASSUME NEW c, NEW k, NEW h, NEW i, NEW j
  PROVE  KsAtom(k, h, i, j) \in Flip(c) <=> KsAtom(k, h, i, j) \in c
<1> DEFINE a == KsAtom(k, h, i, j)
           f == <<"flipped bit">>
<1>1. a[1] = "ks" /\ f[1] = "flipped bit"
  BY DEF KsAtom
<1>2. a # f
  BY <1>1
<1>3. a \notin {f}
  BY <1>2
<1>4. Flip(c) = Xor(c, {f})
  BY DEF Flip
<1> HIDE DEF a, f
<1>5. a \in Flip(c) <=> a \in c
  BY <1>3, <1>4, Zenon DEF Xor
<1> QED
  BY <1>5 DEF a

SivWhole(s, k, aad, pt) == SivOf(s, k, aad, pt) /\ s.blob = wire

(* Without the outer key's help, what SIV accepts is a sealed blob: nobody  *)
(* makes the keystream of another number of maps.                           *)
LEMMA SivPinned ==
  ASSUME Inv, ~peeled, NEW k \in Keys, NEW aad, IsSequence(aad), NEW n \in MapCounts,
         NEW pt, IsSequence(pt), Len(wire) = 4 + Len(pt),
         wire = SealSiv(k, pt, aad, n).out,
         SubSeq(wire, 3, 4) = SynthesiseIv(k, aad, pt),
         SubSeq(wire, 5, Len(wire)) = Encrypt(k, SynthesiseIv(k, aad, pt), n, pt)
  PROVE  \E s \in sealed : SivWhole(s, k, aad, pt)
<1> DEFINE h == SynthesiseIv(k, aad, pt)
           y == SubSeq(wire, 5, Len(wire))
<1>0. IsSequence(wire) /\ Len(pt) \in Nat /\ Len(wire) >= 4
      /\ \A c \in Range(wire) : FromSealed(c, sealed)
  BY SequenceFacts DEF Inv, WireInv, GoodCells, GoodCell
<1>n. n \in Nat \ {0}
  BY BlobsAssumption
<1>1. PICK s \in sealed : SivOf(s, k, aad, pt)
  BY <1>0, SivPlain
<1>2. pt \in Seq(Cells) /\ s.blob = SealSiv(k, pt, aad, s.n).out
  BY <1>1, RequestFacts DEF SivOf, Genuine
<1>3. CASE Len(pt) = 0
  <2> DEFINE b == s.blob
  <2>0. b = SealSiv(k, pt, aad, s.n).out
    BY <1>2
  <2>1. /\ IsSequence(b) /\ Len(b) = 4 + Len(pt)
        /\ SubSeq(b, 1, 2) = KeyCommitment(k, h, aad)
        /\ SubSeq(b, 3, 4) = h /\ SubSeq(b, 5, Len(b)) = Encrypt(k, h, s.n, pt)
    <3> HIDE DEF b
    <3> QED BY <2>0, SivBlobFacts
  <2>2. /\ SubSeq(wire, 1, 2) = KeyCommitment(k, h, aad)
        /\ SubSeq(wire, 3, 4) = h /\ SubSeq(wire, 5, Len(wire)) = Encrypt(k, h, n, pt)
    <3> DEFINE w == wire
    <3>1. w = SealSiv(k, pt, aad, n).out
      OBVIOUS
    <3> HIDE DEF w
    <3>2. SubSeq(w, 1, 2) = KeyCommitment(k, h, aad)
      BY <3>1, SivBlobFacts
    <3> QED BY <3>2 DEF w
  <2>3. Encrypt(k, h, s.n, pt) = Encrypt(k, h, n, pt)
    <3> HIDE DEF h
    <3>1. /\ IsSequence(Encrypt(k, h, s.n, pt)) /\ Len(Encrypt(k, h, s.n, pt)) = 0
          /\ IsSequence(Encrypt(k, h, n, pt)) /\ Len(Encrypt(k, h, n, pt)) = 0
      BY <1>3, EncryptFacts
    <3> QED BY <3>1, SameSequence
  <2> HIDE DEF b, h
  <2>4. Len(b) >= 4
    BY <1>0, <2>1
  <2>5. wire = b
    BY <1>0, <2>1, <2>2, <2>3, <2>4, SameThree
  <2> QED BY <1>1, <2>5 DEF b, SivWhole
<1>4. CASE Len(pt) # 0
  <2> DEFINE c == y[1]
  <2>1. c = Xor(pt[1], KsCell(k, h, n, 1)) /\ 1 \in 1..Len(pt)
    <3>1. 1 \in 1..Len(pt) /\ y = Encrypt(k, h, n, pt)
      BY <1>0, <1>4
    <3> HIDE DEF y, h
    <3> QED BY <3>1, EncryptFacts
  <2>2. c \in Range(wire)
    <3> DEFINE l == Len(wire)
    <3>1. 5 \in Nat \ {0} /\ l \in Int /\ l <= Len(wire) /\ 1 \in 1..l - 5 + 1 /\ 5 + 1 - 1 = 5
          /\ 5 \in 1..Len(wire)
      BY <1>0, <1>4
    <3> HIDE DEF l
    <3>2. \A i \in 1..l - 5 + 1 : SubSeq(wire, 5, l)[i] = wire[5 + i - 1]
      BY <1>0, <3>1, Part
    <3>3. SubSeq(wire, 5, l)[1] = wire[5]
      BY <3>1, <3>2
    <3> QED BY <1>0, <3>1, <3>3, SequenceFacts DEF l
  <2>3. PICK d : Written(d, sealed) /\ (c = d \/ c = Flip(d))
    BY <1>0, <2>2 DEF FromSealed
  <2>4. KsFree(pt[1])
    BY <1>2, <2>1, CallersKsFree
  <2> DEFINE a(i) == KsAtom(k, h, i, 1)
  <2>5. \A i : a(i) \in c <=> a(i) \in d
    BY <2>3, KsFlipped
  <2>6. \A i : a(i) \in c <=> a(i) \in KsCell(k, h, n, 1)
    BY <2>1, <2>4, KsThrough
  <2>7. a(n) \in d
    <3>1. n \in 1..n
      BY <1>n
    <3> HIDE DEF h
    <3>2. a(n) \in KsCell(k, h, n, 1)
      BY <3>1, KsMember
    <3> HIDE DEF a, c
    <3> QED BY <2>5, <2>6, <3>2, Zenon
  <2>i. IvTag(h)
    <3> DEFINE e == <<"hmac", SubKey(k, "siv"), SivInput(aad, pt), 1>>
    <3>1. h[1] = {e}
      BY PrfInputs, PrfFacts
    <3>2. e[1] = "hmac"
      OBVIOUS
    <3> HIDE DEF e, h
    <3> QED BY <3>1, <3>2 DEF IvTag
  <2>8. PICK u \in sealed : d \in Range(u.blob)
    <3>1. ASSUME NEW v, d = Len4(v) PROVE FALSE
      <4>1. d = {<<"len4", v>>} /\ a(n)[1] = "ks" /\ <<"len4", v>>[1] = "len4"
        BY <3>1 DEF Len4, KsAtom
      <4>2. a(n) = <<"len4", v>>
        BY <2>7, <4>1
      <4> HIDE DEF a
      <4> QED BY <4>1, <4>2
    <3> QED BY <2>3, <3>1 DEF Written
  <2>9. Genuine(u)
    BY DEF Inv, SealedInv
  <2>10. SivCell(u, d, k, h, n, 1)
    <3> HIDE DEF h
    <3> QED BY <2>7, <2>8, <2>9, <2>i, SivKsOrigin
  <2>11. /\ u.r.fmt = "siv" /\ u.r.key = k /\ h = SynthesiseIv(k, u.r.aad, u.r.chunks[1])
         /\ n \in 1..u.n /\ d = Xor(u.r.chunks[1][1], KsCell(k, h, u.n, 1))
         /\ 1 \in 1..Len(u.r.chunks[1])
    <3> HIDE DEF h
    <3> QED BY <2>10 DEF SivCell
  <2>12. u.r \in Requests /\ IsSequence(u.r.aad) /\ u.r.chunks[1] \in Seq(Cells)
         /\ IsSequence(u.r.chunks[1])
    BY <2>9, <2>11, RequestFacts DEF Genuine
  <2>13. u.r.aad = aad /\ u.r.chunks[1] = pt
    BY <2>11, <2>12, SynthesiseSame
  <2>14. u.n \in Nat \ {0}
    BY <2>9, BlobsAssumption DEF Genuine
  <2>15. a(u.n) \in d
    <3>1. KsFree(u.r.chunks[1][1])
      BY <2>11, <2>12, CallersKsFree
    <3>2. a(u.n) \in KsCell(k, h, u.n, 1)
      BY <2>14, KsMember
    <3> HIDE DEF h
    <3> QED BY <2>11, <3>1, <3>2, KsThrough
  <2>16. u.n \in 1..n
    <3>1. a(u.n) \in KsCell(k, h, n, 1)
      BY <2>5, <2>6, <2>15
    <3> HIDE DEF h
    <3> QED BY <3>1, KsIndex
  <2>17. u.n = n
    BY <1>n, <2>11, <2>14, <2>16
  <2>18. u.blob = wire
    BY <2>9, <2>11, <2>13, <2>17 DEF Genuine
  <2> QED BY <2>9, <2>11, <2>13, <2>18 DEF SivOf, SivWhole
<1> QED
  BY <1>3, <1>4

(* The seal that what an opener returned goes back to.                      *)
SealOf(s, fmt, key, aad, n, out) ==
  /\ s.r.fmt = fmt /\ s.r.key = key /\ s.r.aad = aad
  /\ ~peeled => s.blob = wire
  /\ s.n = n \/ fmt \in {"siv", "twolock"} => out = Plaintext(s.r)

(* The committing AEAD.                                                    *)
LEMMA AeadOrigin ==
  ASSUME Inv, NEW key \in Keys, NEW aad, IsSequence(aad), NEW n,
         OpenAead(key, wire, aad, n).ok
  PROVE  \E s \in sealed : SealOf(s, "aead", key, aad, n, OpenAead(key, wire, aad, n).out)
<1> DEFINE o == OpenAead(key, wire, aad, n)
<1>0. Len(wire) \in Nat /\ ~Refused.ok
  BY SequenceFacts DEF Inv, WireInv, GoodCells, Refused
<1>1. AeadAccepts(key, wire, aad)
  BY <1>0, OpenAeadMeans
<1>2. PICK s \in sealed : \E x : AeadOf(s, key, aad, x)
  BY <1>1, AeadPinned
<1>3. Genuine(s) /\ s.r \in Requests /\ s.r.key \in Keys
  BY <1>2, RequestFacts DEF AeadOf, Genuine
<1>4. s.r.fmt = "aead" /\ s.r.key = key /\ s.r.aad = aad /\ s.blob = wire
  <2>1. key # DeriveKeys(s.r.key).outer
    BY <1>3, KeysAssumption
  <2> QED BY <1>2, <2>1 DEF AeadOf
<1>5. ASSUME s.n = n PROVE o.out = Plaintext(s.r)
  <2>1. Opened(s, o)
    BY <1>3, <1>4, <1>5, WholeAead
  <2>2. \A x : Ok(x).out = x
    BY DEF Ok
  <2>3. o.ok
    OBVIOUS
  <2> HIDE DEF o
  <2> QED BY <1>0, <2>1, <2>2, <2>3, Zenon DEF Opened
<1> QED
  BY <1>4, <1>5 DEF SealOf

(* SIV.                                                                    *)
LEMMA SivOrigin ==
  ASSUME Inv, NEW key \in Keys, NEW aad, IsSequence(aad), NEW n \in MapCounts,
         OpenSiv(key, wire, aad, n).ok
  PROVE  \E s \in sealed : SealOf(s, "siv", key, aad, n, OpenSiv(key, wire, aad, n).out)
<1>0. IsSequence(wire)
  BY DEF Inv, WireInv, GoodCells
<1>p. PICK pt : Resealed(key, wire, aad, n, pt)
  BY <1>0, SivResealed
<1>1. /\ IsSequence(pt) /\ OpenSiv(key, wire, aad, n) = Ok(pt)
      /\ Len(wire) = 4 + Len(pt) /\ wire = SealSiv(key, pt, aad, n).out
      /\ SubSeq(wire, 3, 4) = SynthesiseIv(key, aad, pt)
      /\ SubSeq(wire, 5, Len(wire)) = Encrypt(key, SynthesiseIv(key, aad, pt), n, pt)
  BY <1>p DEF Resealed
<1>2. OpenSiv(key, wire, aad, n).out = pt
  BY <1>1 DEF Ok
<1>3. \A s : SivOf(s, key, aad, pt) =>
        /\ s.r.fmt = "siv" /\ s.r.key = key /\ s.r.aad = aad /\ pt = Plaintext(s.r)
  BY DEF SivOf, Plaintext
<1>4. CASE peeled
  <2>1. Len(wire) >= 4
    BY <1>1, SequenceFacts
  <2>2. PICK s \in sealed : SivOf(s, key, aad, pt)
    BY <1>1, <2>1, SivPlain
  <2> QED BY <1>2, <1>3, <1>4, <2>2 DEF SealOf
<1>5. CASE ~peeled
  <2>2. PICK s \in sealed : SivWhole(s, key, aad, pt)
    BY <1>1, <1>5, SivPinned
  <2> QED BY <1>2, <1>3, <2>2 DEF SealOf, SivWhole
<1> QED
  BY <1>4, <1>5

(* The two locks.                                                          *)
LEMMA TwolockOrigin ==
  ASSUME Inv, NEW key \in Keys, NEW aad, IsSequence(aad), NEW n \in MapCounts, NEW g,
         OpenTwolock(key, wire, aad, n).ok
  PROVE  \E s \in sealed : SealOf(s, "twolock", key, aad, g, OpenTwolock(key, wire, aad, n).out)
<1> DEFINE o == OpenTwolock(key, wire, aad, n)
<1>r. ~Refused.ok /\ \A x : Ok(x).out = x
  BY DEF Refused, Ok
<1>1. CASE peeled
  <2>1. PICK s \in sealed :
           /\ Genuine(s) /\ s.r.fmt = "twolock" /\ s.r.key = key /\ s.r.aad = aad
           /\ o.out = s.r.chunks[1]
    BY VaultPinned
  <2>2. Plaintext(s.r) = s.r.chunks[1]
    BY <2>1 DEF Plaintext
  <2> HIDE DEF o
  <2>3. SealOf(s, "twolock", key, aad, g, o.out)
    BY <1>1, <2>1, <2>2 DEF SealOf
  <2> QED BY <2>3 DEF o
<1>2. CASE ~peeled
  <2>1. PICK s \in sealed : TwolockOf(s, key, aad, n)
    BY <1>2, TwolockPinned
  <2>2. Genuine(s) /\ s.r.fmt = "twolock" /\ s.r.key = key /\ s.r.aad = aad /\ s.blob = wire
        /\ s.n = n
    BY <2>1 DEF TwolockOf
  <2>3. Opened(s, o)
    BY <2>2, WholeTwolock
  <2>4. o.ok
    OBVIOUS
  <2> HIDE DEF o
  <2>5. o.out = Plaintext(s.r)
    BY <1>r, <2>3, <2>4, Zenon DEF Opened
  <2>6. SealOf(s, "twolock", key, aad, g, o.out)
    BY <2>2, <2>5 DEF SealOf
  <2> QED BY <2>6 DEF o
<1> QED
  BY <1>1, <1>2

(* The stream.                                                             *)
LEMMA StreamOrigin ==
  ASSUME Inv, NEW key \in Keys, NEW aad \in Seq(Cells), NEW n,
         OpenStream(key, wire, aad, n).ok
  PROVE  \E s \in sealed : SealOf(s, "stream", key, aad, n, OpenStream(key, wire, aad, n).out)
<1> DEFINE o == OpenStream(key, wire, aad, n)
<1>1. PICK s \in sealed :
           /\ Genuine(s) /\ s.r.fmt = "stream" /\ s.r.key = key /\ s.r.aad = aad
           /\ s.blob = wire /\ WellFormed(s.r) /\ s.r.nonce = SubSeq(wire, 1, 1)
  BY StreamPinned
<1>2. ASSUME s.n = n PROVE o.out = Plaintext(s.r)
  <2>1. Opened(s, o)
    BY <1>1, <1>2, WholeStream
  <2>2. Ok(Plaintext(s.r)).out = Plaintext(s.r)
    BY DEF Ok
  <2> HIDE DEF o
  <2> QED BY <1>1, <2>1, <2>2, Zenon DEF Opened
<1> HIDE DEF o
<1>3. SealOf(s, "stream", key, aad, n, o.out)
  BY <1>1, <1>2 DEF SealOf
<1> QED
  BY <1>3 DEF o

(* Any format: what either port returns goes back to a seal.               *)
LEMMA OpenedWasSealed ==
  ASSUME Inv, NEW port \in Ports, NEW fmt \in Formats, NEW key \in Keys, NEW aad \in Aads,
         NEW n \in MapCounts, OpenBy(port, fmt, key, wire, aad, n).ok
  PROVE  \E s \in sealed :
           SealOf(s, fmt, key, aad, n, OpenBy(port, fmt, key, wire, aad, n).out)
<1> DEFINE o == OpenBy(port, fmt, key, wire, aad, n)
<1>1. aad \in Seq(Cells) /\ IsSequence(aad) /\ DefaultMaps \in MapCounts
  BY RequestsAssumption, InSeq
<1>2. CASE fmt = "aead"
  <2>1. o = OpenAead(key, wire, aad, n)
    BY <1>2 DEF OpenBy
  <2> QED BY <1>1, <1>2, <2>1, AeadOrigin
<1>3. CASE fmt = "siv"
  <2>1. o = OpenSiv(key, wire, aad, n)
    BY <1>3 DEF OpenBy
  <2> QED BY <1>1, <1>3, <2>1, SivOrigin
<1>4. CASE fmt = "twolock"
  <2>1. PICK m \in MapCounts : o = OpenTwolock(key, wire, aad, m)
    BY <1>1, <1>4 DEF OpenBy, Ports
  <2> QED BY <1>1, <1>4, <2>1, TwolockOrigin
<1>5. CASE fmt = "stream"
  <2>1. o = OpenStream(key, wire, aad, n)
    <3>1. Len(wire) \in Nat /\ garble \in Misreads
      BY SequenceFacts DEF Inv, WireInv, GoodCells, CountInv
    <3> QED BY <1>5, <3>1, StreamOpenersAgree DEF OpenBy, Ports
  <2> QED BY <1>1, <1>5, <2>1, StreamOrigin
<1> QED
  BY <1>2, <1>3, <1>4, <1>5 DEF Formats

(***************************************************************************)
(* What any opener returns was sealed, whole and unaltered, in that format *)
(* under that key and data; and with the outer wall of the two locks       *)
(* redone by someone who holds the outer key, the inner vault still        *)
(* returns nothing else.                                                   *)
(***************************************************************************)
THEOREM NothingElse == Spec => []NothingElseOpens
<1>1. Init => NothingElseOpens
  BY DEF Init, NothingElseOpens, OpensOnlySealed, VaultHolds
<1>2. Inv /\ NothingElseOpens /\ [Next]_vars => NothingElseOpens'
  <2> SUFFICES ASSUME Inv, NothingElseOpens, [Next]_vars PROVE NothingElseOpens'
    OBVIOUS
  <2>1. CASE Quiet
    BY <2>1 DEF Quiet, NothingElseOpens, OpensOnlySealed, VaultHolds
  <2>2. ASSUME NEW fmt, NEW key, NEW aad, NEW n, Delivered(fmt, key, aad, n)
        PROVE  NothingElseOpens'
    <3> DEFINE g == got'
    <3>1. /\ g.fmt = fmt /\ g.n = n /\ g.key = key /\ g.aad = aad /\ g.blob = wire
          /\ g["py"] = OpenBy("py", fmt, key, wire, aad, n)
          /\ g["rs"] = OpenBy("rs", fmt, key, wire, aad, n)
          /\ sealed' = sealed /\ peeled' = peeled
          /\ fmt \in Formats /\ key \in Keys /\ aad \in Aads /\ n \in MapCounts
      BY <2>2, Zenon DEF Delivered
    <3> HIDE DEF g
    <3>2. ASSUME NEW port \in Ports, g[port].ok
          PROVE  \E s \in sealed :
                   /\ SameContext(s, g)
                   /\ ~peeled => s.blob = g.blob
                   /\ s.n = g.n \/ g.fmt \in {"siv", "twolock"} => g[port].out = Plaintext(s.r)
      <4>1. g[port] = OpenBy(port, fmt, key, wire, aad, n)
        BY <3>1, Zenon DEF Ports
      <4>2. PICK s \in sealed :
              SealOf(s, fmt, key, aad, n, OpenBy(port, fmt, key, wire, aad, n).out)
        BY <3>1, <3>2, <4>1, OpenedWasSealed
      <4>3. SealOf(s, fmt, key, aad, n, g[port].out)
        BY <4>1, <4>2
      <4>4. /\ SameContext(s, g)
            /\ ~peeled => s.blob = g.blob
            /\ s.n = g.n \/ g.fmt \in {"siv", "twolock"} => g[port].out = Plaintext(s.r)
        BY <3>1, <4>3, Zenon DEF SealOf, SameContext
      <4> QED BY <4>4
    <3>3. (peeled' <=> peeled) /\ sealed' = sealed /\ got' = g
      BY <3>1 DEF g
    <3> QED BY <3>2, <3>3, Zenon DEF NothingElseOpens, OpensOnlySealed, VaultHolds, SameContext
  <2> QED BY <2>1, <2>2, OnlyDeliveries
<1> QED
  BY <1>1, <1>2, Invariance, PTL DEF Spec

-----------------------------------------------------------------------------
(* The scripts.  First the attacks on the AEAD, SIV and the two locks: what *)
(* an opener makes of a blob with one cell flipped, and of one opened with *)
(* another key or other data.                                              *)
(* One cell of a blob flipped. *)
Altered(w, b, p) ==
  /\ IsSequence(w) /\ Len(w) = Len(b) /\ w[p] # b[p]
  /\ \A q \in 1..Len(b) : q # p => w[q] = b[q]

LEMMA FlipDiffers ==
  ASSUME NEW c
  PROVE  Flip(c) # c
<1>1. <<"flipped bit">> \in c => <<"flipped bit">> \notin Flip(c)
  BY DEF Flip, Xor
<1>2. <<"flipped bit">> \notin c => <<"flipped bit">> \in Flip(c)
  BY DEF Flip, Xor
<1> QED
  BY <1>1, <1>2

LEMMA FlippedAt ==
  ASSUME NEW b, IsSequence(b), NEW p \in 1..Len(b), NEW w, w = FlipAt(b, p)
  PROVE  Altered(w, b, p)
<1>1. Len(b) \in Nat /\ DOMAIN b = 1..Len(b)
  BY SequenceFacts
<1> DEFINE L == Len(b)
<1>2. L \in Nat /\ DOMAIN b = 1..L /\ p \in 1..L
  BY <1>1
<1>3. w = [b EXCEPT ![p] = Flip(b[p])]
  BY DEF FlipAt
<1>7. L = Len(b)
  OBVIOUS
<1> HIDE DEF L
<1>4. DOMAIN w = 1..L /\ w[p] = Flip(b[p]) /\ \A q \in 1..L : q # p => w[q] = b[q]
  BY <1>2, <1>3
<1>5. w = [i \in 1..L |-> w[i]]
  BY <1>3, <1>2
<1>6. IsSequence(w) /\ Len(w) = L
  BY <1>5, <1>2, FunctionIsSequence
<1> QED
  BY <1>4, <1>6, <1>7, FlipDiffers DEF Altered

LEMMA AlteredPart ==
  ASSUME NEW b, IsSequence(b), NEW p \in 1..Len(b), NEW w, Altered(w, b, p),
         NEW m \in Nat \ {0}, NEW n \in Int, n <= Len(b), p < m \/ p > n
  PROVE  SubSeq(w, m, n) = SubSeq(b, m, n)
<1> DEFINE x == SubSeq(w, m, n)
           y == SubSeq(b, m, n)
           L == Len(b)
<1>1. L \in Nat /\ IsSequence(w) /\ Len(w) = L /\ \A q \in 1..L : q # p => w[q] = b[q]
  BY SequenceFacts DEF Altered
<1>2. /\ IsSequence(x) /\ Len(x) = IF m <= n THEN n - m + 1 ELSE 0
      /\ \A i \in 1..n - m + 1 : x[i] = w[m + i - 1]
  BY <1>1, Part
<1>3. /\ IsSequence(y) /\ Len(y) = IF m <= n THEN n - m + 1 ELSE 0
      /\ \A i \in 1..n - m + 1 : y[i] = b[m + i - 1]
  BY Part
<1>4. n <= L
  OBVIOUS
<1> HIDE DEF x, y, L
<1>5. \A i \in 1..Len(x) : x[i] = y[i]
  <2> SUFFICES ASSUME NEW i \in 1..Len(x) PROVE x[i] = y[i]
    OBVIOUS
  <2>1. m <= n /\ i \in 1..n - m + 1
    BY <1>2
  <2>2. m + i - 1 \in 1..L /\ m + i - 1 # p
    BY <2>1, <1>4, <1>1
  <2> QED
    BY <2>1, <2>2, <1>1, <1>2, <1>3
<1>6. x = y
  BY <1>2, <1>3, <1>5, SameSequence
<1> QED
  BY <1>6 DEF x, y

(* The tag tells the ciphertext, everything else being the same.           *)
LEMMA TagTellsText ==
  ASSUME NEW k, NEW h, NEW c, NEW a, NEW t, NEW u,
         IsSequence(h), IsSequence(c), IsSequence(a), IsSequence(t), IsSequence(u),
         AeadTag(k, h, c, a, t) = AeadTag(k, h, c, a, u)
  PROVE  t = u
<1>1. MacInput(h, c, a, t) = MacInput(h, c, a, u)
  BY PrfInputs, PrfInjective
<1> DEFINE z == h \o c \o Len8(a) \o a
<1>2. IsSequence(h \o c)
  BY Joined
<1>3. IsSequence((h \o c) \o Len8(a))
  BY <1>2, Len8Facts, Joined
<1>4. IsSequence(z)
  BY <1>3, Joined
<1>5. z \o t = z \o u
  BY <1>1 DEF MacInput
<1> HIDE DEF z
<1> QED
  BY <1>4, <1>5, SplitEqual

(* open_ refuses a blob of its format with one cell flipped.               *)
LEMMA AeadAltered ==
  ASSUME NEW key, NEW pt, NEW aad, NEW n, NEW nonce,
         IsSequence(pt), IsSequence(aad), IsSequence(nonce), Len(nonce) = NonceLen,
         NEW b, b = AeadBlob(key, pt, aad, n, nonce),
         NEW p \in 1..Len(b), NEW m
  PROVE  OpenAead(key, FlipAt(b, p), aad, m) = Refused
<1> DEFINE w == FlipAt(b, p)
           L == Len(b)
           ct == Encrypt(key, nonce, n, pt)
           commit == KeyCommitment(key, nonce, aad)
           tag == AeadTag(key, nonce, commit, aad, ct)
<1>1. /\ IsSequence(b) /\ L = 5 + Len(pt)
      /\ SubSeq(b, 1, 1) = nonce /\ SubSeq(b, 2, 3) = commit
      /\ SubSeq(b, 4, L - 2) = ct /\ SubSeq(b, L - 1, L) = tag
  <2>2. Len(nonce) = 1 /\ Len(nonce) >= NonceLen
    BY ConstantsKnown
  <2>1. Len(nonce) >= NonceLen /\ SubSeq(nonce, 1, 1) = nonce
    BY <2>2, Whole
  <2> QED
    BY <2>1, AeadBlobFacts
<1>2. Altered(w, b, p)
  BY <1>1, FlippedAt
<1>3. Len(pt) \in Nat /\ L \in Nat /\ L >= 5 /\ p \in 1..L
  BY <1>1, SequenceFacts
<1>4. IsSequence(w) /\ Len(w) = L /\ w[p] # b[p]
  BY <1>2 DEF Altered
<1>11. w = FlipAt(b, p)
  OBVIOUS
<1> HIDE DEF w
<1>5. \A i \in Nat \ {0}, j \in Int : j <= L /\ (p < i \/ p > j) => SubSeq(w, i, j) = SubSeq(b, i, j)
  <2> SUFFICES ASSUME NEW i \in Nat \ {0}, NEW j \in Int, j <= L, p < i \/ p > j
               PROVE  SubSeq(w, i, j) = SubSeq(b, i, j)
    OBVIOUS
  <2>1. IsSequence(b) /\ p \in 1..Len(b) /\ j <= Len(b)
    BY <1>1
  <2> QED
    BY <2>1, <1>2, AlteredPart
<1>6. \A i \in Nat \ {0}, j \in Int : j <= L /\ i <= p /\ p <= j => SubSeq(w, i, j) # SubSeq(b, i, j)
  <2> SUFFICES ASSUME NEW i \in Nat \ {0}, NEW j \in Int, j <= L, i <= p, p <= j
               PROVE  SubSeq(w, i, j) # SubSeq(b, i, j)
    OBVIOUS
  <2>1. SubSeq(w, i, j)[p - i + 1] = w[i + (p - i + 1) - 1]
    <3>1. p - i + 1 \in 1..j - i + 1
      BY <1>3
    <3>2. j <= Len(w)
      BY <1>4
    <3> QED
      BY <3>1, <3>2, <1>4, Part
  <2>2. SubSeq(b, i, j)[p - i + 1] = b[i + (p - i + 1) - 1]
    <3>1. p - i + 1 \in 1..j - i + 1
      BY <1>3
    <3> QED
      BY <3>1, <1>1, Part
  <2>3. i + (p - i + 1) - 1 = p
    BY <1>3
  <2> QED
    BY <2>1, <2>2, <2>3, <1>4
<1>7. IsSequence(ct) /\ IsSequence(commit)
  <2>1. IsSequence(ct)
    BY EncryptFacts
  <2> QED
    BY <2>1, PrfInputs, PrfFacts
<1>8. ~AeadAccepts(key, w, aad)
  <2> SUFFICES ASSUME AeadAccepts(key, w, aad) PROVE FALSE
    OBVIOUS
  <2> DEFINE h == SubSeq(w, 1, 1)
             c == SubSeq(w, 2, 3)
             t == SubSeq(w, 4, L - 2)
             g == SubSeq(w, L - 1, L)
  <2>1. AeadTag(key, h, c, aad, t) = g /\ KeyCommitment(key, h, aad) = c
    BY <1>4 DEF AeadAccepts
  <2>2. IsSequence(h) /\ IsSequence(t)
    <3>1. 1 \in Nat \ {0} /\ 1 \in Int /\ 1 <= Len(w) /\ 4 \in Nat \ {0} /\ L - 2 \in Int /\ L - 2 <= Len(w)
      BY <1>3, <1>4
    <3> QED
      BY <3>1, <1>4, Part
  <2>3. /\ p # 1 => h = nonce
        /\ p \notin 2..3 => c = commit
        /\ p \notin 4..L - 2 => t = ct
        /\ p \notin L - 1..L => g = tag
    <3>1. p # 1 => h = SubSeq(b, 1, 1)
      BY <1>3, <1>5
    <3>2. p \notin 2..3 => c = SubSeq(b, 2, 3)
      BY <1>3, <1>5
    <3>3. p \notin 4..L - 2 => t = SubSeq(b, 4, L - 2)
      BY <1>3, <1>5
    <3>4. p \notin L - 1..L => g = SubSeq(b, L - 1, L)
      BY <1>3, <1>5
    <3> QED
      BY <1>1, <3>1, <3>2, <3>3, <3>4
  <2>4. /\ p = 1 => h # nonce
        /\ p \in 2..3 => c # commit
        /\ p \in 4..L - 2 => t # ct
        /\ p \in L - 1..L => g # tag
    <3>1. p = 1 => h # SubSeq(b, 1, 1)
      <4>1. 1 \in Nat \ {0} /\ 1 \in Int /\ 1 <= L
        BY <1>3
      <4>2. p = 1 => 1 <= p /\ p <= 1
        BY <1>3
      <4> QED
        BY <4>1, <4>2, <1>6
    <3>2. p \in 2..3 => c # SubSeq(b, 2, 3)
      <4>1. 2 \in Nat \ {0} /\ 3 \in Int /\ 3 <= L
        BY <1>3
      <4>2. p \in 2..3 => 2 <= p /\ p <= 3
        BY <1>3
      <4> QED
        BY <4>1, <4>2, <1>6
    <3>3. p \in 4..L - 2 => t # SubSeq(b, 4, L - 2)
      <4>1. 4 \in Nat \ {0} /\ L - 2 \in Int /\ L - 2 <= L
        BY <1>3
      <4>2. p \in 4..L - 2 => 4 <= p /\ p <= L - 2
        BY <1>3
      <4> QED
        BY <4>1, <4>2, <1>6
    <3>4. p \in L - 1..L => g # SubSeq(b, L - 1, L)
      <4>3. \A l \in Nat : l >= 5 => l - 1 \in Nat \ {0} /\ l \in Int /\ l <= l
        OBVIOUS
      <4>1. L - 1 \in Nat \ {0} /\ L \in Int /\ L <= L
        BY <1>3, <4>3
      <4>2. p \in L - 1..L => L - 1 <= p /\ p <= L
        BY <1>3
      <4> QED
        BY <4>1, <4>2, <1>6
    <3> QED
      BY <1>1, <3>1, <3>2, <3>3, <3>4
  <2>5. p = 1 \/ p \in 2..3 \/ p \in 4..L - 2 \/ p \in L - 1..L
    BY <1>3
  <2>6. 1 \notin 2..3 /\ 1 \notin 4..L - 2 /\ 1 \notin L - 1..L
    BY <1>3
  <2>7. \A q \in 2..3 : q # 1 /\ q \notin 4..L - 2 /\ q \notin L - 1..L
    BY <1>3
  <2>8. \A q \in 4..L - 2 : q # 1 /\ q \notin 2..3 /\ q \notin L - 1..L
    BY <1>3
  <2>9. \A q \in L - 1..L : q # 1 /\ q \notin 2..3 /\ q \notin 4..L - 2
    BY <1>3
  <2> DEFINE T1 == 2..3
             T2 == 4..L - 2
             T3 == L - 1..L
  <2> HIDE DEF h, c, t, g, ct, commit, T1, T2, T3
  <2>10. CASE p = 1
    <3>1. c = commit
      BY <2>10, <2>3, <2>6 DEF T1, T2, T3
    <3>2. KeyCommitment(key, h, aad) = KeyCommitment(key, nonce, aad)
      BY <3>1, <2>1 DEF commit
    <3>3. h = nonce
      BY <3>2, <2>2, CommitPins
    <3> QED
      BY <3>3, <2>4, <2>10
  <2>11. CASE p \in T1
    <3>1. h = nonce
      BY <2>11, <2>3, <2>7 DEF T1, T2, T3
    <3>2. c = commit
      BY <3>1, <2>1 DEF commit
    <3> QED
      BY <3>2, <2>4, <2>11 DEF T1
  <2>12. CASE p \in T2
    <3>1. h = nonce /\ c = commit /\ g = tag
      BY <2>12, <2>3, <2>8 DEF T1, T2, T3
    <3>2. AeadTag(key, nonce, commit, aad, t) = AeadTag(key, nonce, commit, aad, ct)
      BY <3>1, <2>1
    <3>3. t = ct
      BY <3>2, <2>2, <1>7, TagTellsText
    <3> QED
      BY <3>3, <2>4, <2>12 DEF T2
  <2>13. CASE p \in T3
    <3>1. h = nonce /\ c = commit /\ t = ct
      BY <2>13, <2>3, <2>9 DEF T1, T2, T3
    <3>2. g = tag
      BY <3>1, <2>1
    <3> QED
      BY <3>2, <2>4, <2>13 DEF T3
  <2> QED
    BY <2>5, <2>10, <2>11, <2>12, <2>13 DEF T1, T2, T3
<1>9. Len(w) \in Nat
  BY <1>3, <1>4
<1>10. OpenAead(key, w, aad, m) = Refused
  BY <1>8, <1>9, OpenAeadMeans
<1> QED
  BY <1>10, <1>11

(* open_ refuses it under any other key or data.                           *)
LEMMA AeadElsewhere ==
  ASSUME NEW key, NEW pt, NEW aad, NEW n, NEW nonce,
         IsSequence(pt), IsSequence(aad), IsSequence(nonce), Len(nonce) = NonceLen,
         NEW b, b = AeadBlob(key, pt, aad, n, nonce),
         NEW k, NEW a, IsSequence(a), k # key \/ a # aad, NEW m
  PROVE  OpenAead(k, b, a, m) = Refused
<1>1. /\ IsSequence(b) /\ Len(b) = 5 + Len(pt)
      /\ SubSeq(b, 1, 1) = nonce /\ SubSeq(b, 2, 3) = KeyCommitment(key, nonce, aad)
  <2>2. Len(nonce) = 1 /\ Len(nonce) >= NonceLen
    BY ConstantsKnown
  <2>1. Len(nonce) >= NonceLen /\ SubSeq(nonce, 1, 1) = nonce
    BY <2>2, Whole
  <2> QED
    BY <2>1, AeadBlobFacts
<1>2. ~AeadAccepts(k, b, a)
  <2> SUFFICES ASSUME AeadAccepts(k, b, a) PROVE FALSE
    OBVIOUS
  <2>1. KeyCommitment(k, nonce, a) = KeyCommitment(key, nonce, aad)
    BY <1>1 DEF AeadAccepts
  <2>2. k = key /\ CommitInput(nonce, a) = CommitInput(nonce, aad)
    BY <2>1, CommitSame
  <2>3. Labelled(nonce, a, <<>>, CommitInput(nonce, a)) /\ Labelled(nonce, aad, <<>>, CommitInput(nonce, a))
    BY <2>2, CommitLabelled
  <2>4. a = aad
    BY <2>3, EmptyFacts, LabelledSame
  <2> QED
    BY <2>2, <2>4
<1>3. Len(b) \in Nat
  BY <1>1, SequenceFacts
<1> QED
  BY <1>2, <1>3, OpenAeadMeans

-----------------------------------------------------------------------------
(* The scripts of aead.py and commitment_attack.py.                        *)
LEMMA AeadMakes ==
  ASSUME NEW key, NEW pt, NEW aad, NEW n, NEW nonce, IsSequence(nonce), Len(nonce) = NonceLen
  PROVE  SealAead(key, pt, aad, n, nonce).out = AeadBlob(key, pt, aad, n, nonce)
<1>1. SealAead(key, pt, aad, n, nonce).ok
  BY DEF SealAead, Ok
<1> QED
  BY <1>1, AeadSealed

LEMMA FreshFacts ==
  /\ IsSequence(FreshNonce) /\ Len(FreshNonce) = NonceLen
  /\ \A r \in Requests : r.nonce # FreshNonce
<1>1. IsSequence(FreshNonce) /\ Len(FreshNonce) = 1
  BY One DEF FreshNonce
<1> QED
  BY <1>1, DrawnAgain, ConstantsKnown

LEMMA FreshBlobDiffers ==
  ASSUME NEW key, NEW pt, NEW aad, NEW n, NEW nonce, IsSequence(pt),
         IsSequence(nonce), Len(nonce) = NonceLen, nonce # FreshNonce
  PROVE  AeadBlob(key, pt, aad, n, FreshNonce) # AeadBlob(key, pt, aad, n, nonce)
<1>1. \A h : IsSequence(h) /\ Len(h) = NonceLen =>
        SubSeq(AeadBlob(key, pt, aad, n, h), 1, 1) = h
  <2> SUFFICES ASSUME NEW h, IsSequence(h), Len(h) = NonceLen
               PROVE  SubSeq(AeadBlob(key, pt, aad, n, h), 1, 1) = h
    OBVIOUS
  <2>1. Len(h) = 1 /\ Len(h) >= NonceLen
    BY ConstantsKnown
  <2>2. SubSeq(h, 1, 1) = h
    BY <2>1, Whole
  <2> DEFINE b == AeadBlob(key, pt, aad, n, h)
  <2>3. SubSeq(b, 1, 1) = SubSeq(h, 1, 1)
    BY <2>1, AeadBlobFacts
  <2> QED
    BY <2>2, <2>3
<1> QED
  BY <1>1, FreshFacts

AeadAsked(s, r) ==
  /\ r \in Requests /\ IsSequence(r.chunks[1]) /\ IsSequence(r.aad) /\ IsSequence(r.nonce)
  /\ Len(r.nonce) = NonceLen
  /\ s.blob = AeadBlob(r.key, r.chunks[1], r.aad, s.n, r.nonce)

LEMMA AeadAsks ==
  ASSUME NEW s, Genuine(s), s.r.fmt = "aead", WellFormed(s.r)
  PROVE  AeadAsked(s, s.r)
<1>1. s.r \in Requests
  BY DEF Genuine
<1>2. s.r.fmt # "stream" /\ Len(s.r.nonce) = NonceLen
  BY DEF WellFormed
<1>3. IsSequence(s.r.chunks[1]) /\ IsSequence(s.r.aad) /\ IsSequence(s.r.nonce)
  BY <1>1, <1>2, RequestFacts
<1> QED
  BY <1>1, <1>2, <1>3 DEF Genuine, AeadAsked

LEMMA RefusedIsRejected == Rejected(Refused)
  BY DEF Rejected, Refused

LEMMA AeadDemoPasses ==
  ASSUME NEW s, Genuine(s), s.r.fmt = "aead", WellFormed(s.r), NEW wrong, wrong # s.r.key
  PROVE  AeadDemo(s, wrong)
<1> DEFINE r == s.r
           pt == r.chunks[1]
           b == s.blob
<1>1. AeadAsked(s, r)
  BY AeadAsks
<1>2. Len(r.nonce) >= NonceLen
  BY <1>1, ConstantsKnown DEF AeadAsked
<1>3. OpenAead(r.key, b, r.aad, s.n) = Ok(pt)
  BY <1>1, <1>2, AeadOpens DEF AeadAsked
<1>4. SealAead(r.key, pt, r.aad, s.n, FreshNonce).out # b
  BY <1>1, AeadMakes, FreshFacts, FreshBlobDiffers DEF AeadAsked
<1>5. Rejected(OpenAead(r.key, FlipAt(b, HeaderLen + 1), r.aad, s.n))
  <2>1. Len(b) = 5 + Len(pt) /\ Len(pt) \in Nat
    BY <1>1, <1>2, AeadBlobFacts, SequenceFacts DEF AeadAsked
  <2>2. HeaderLen + 1 \in 1..Len(b)
    BY <2>1, ConstantsKnown
  <2> DEFINE p == HeaderLen + 1
  <2>3. p \in 1..Len(b)
    BY <2>2
  <2> HIDE DEF p
  <2>4. OpenAead(r.key, FlipAt(b, p), r.aad, s.n) = Refused
    BY <1>1, <2>3, AeadAltered DEF AeadAsked
  <2> QED
    BY <2>4, RefusedIsRejected DEF p
<1>6. Rejected(OpenAead(wrong, b, r.aad, s.n))
  BY <1>1, AeadElsewhere, RefusedIsRejected DEF AeadAsked
<1> QED
  BY <1>3, <1>4, <1>5, <1>6 DEF AeadDemo

LEMMA SivElsewhere ==
  ASSUME NEW key, NEW pt, NEW aad, NEW n, IsSequence(pt),
         NEW b, b = SealSiv(key, pt, aad, n).out, NEW k, k # key, NEW a, NEW m
  PROVE  OpenSiv(k, b, a, m) = Refused
<1>1. /\ IsSequence(b) /\ Len(b) = 4 + Len(pt)
      /\ SubSeq(b, 1, 2) = KeyCommitment(key, SynthesiseIv(key, aad, pt), aad)
  BY SivBlobFacts
<1>2. Len(b) \in Nat
  BY <1>1, SequenceFacts
<1>3. KeyCommitment(k, SubSeq(b, 3, 4), a) # SubSeq(b, 1, 2)
  BY <1>1, CommitSame
<1> QED
  BY <1>2, <1>3, OpenSivMeans

LEMMA CommitmentPasses ==
  ASSUME NEW s, Genuine(s), s.r.fmt = "aead", WellFormed(s.r)
  PROVE  CommitmentFunctional(s.r, s.n)
<1> DEFINE r == s.r
           pt == r.chunks[1]
           aead == SealAead(r.key, pt, r.aad, s.n, FreshNonce).out
           siv == SealSiv(r.key, pt, r.aad, s.n).out
<1>1. AeadAsked(s, r)
  BY AeadAsks
<1>2. aead = AeadBlob(r.key, pt, r.aad, s.n, FreshNonce)
  BY FreshFacts, AeadMakes
<1>3. Len(FreshNonce) >= NonceLen
  BY FreshFacts, ConstantsKnown
<1>4. OpenAead(r.key, aead, r.aad, s.n) = Ok(pt)
  BY <1>1, <1>2, <1>3, FreshFacts, AeadOpens DEF AeadAsked
<1>5. OpenSiv(r.key, siv, r.aad, s.n) = Ok(pt)
  BY <1>1, SivOpens DEF AeadAsked
<1>6. \A other \in Keys \ {r.key} : Rejected(OpenAead(other, aead, r.aad, s.n))
  <2> SUFFICES ASSUME NEW other \in Keys \ {r.key}
               PROVE  OpenAead(other, aead, r.aad, s.n) = Refused
    BY RefusedIsRejected
  <2> QED
    BY <1>1, <1>2, FreshFacts, AeadElsewhere DEF AeadAsked
<1>7. \A other \in Keys \ {r.key} : Rejected(OpenSiv(other, siv, r.aad, s.n))
  <2> SUFFICES ASSUME NEW other \in Keys \ {r.key}
               PROVE  OpenSiv(other, siv, r.aad, s.n) = Refused
    BY RefusedIsRejected
  <2> QED
    BY <1>1, SivElsewhere DEF AeadAsked
<1> QED
  BY <1>4, <1>5, <1>6, <1>7 DEF CommitmentFunctional
-----------------------------------------------------------------------------
(* The demonstration of siv.py.                                            *)
SivKeystream(r, n, m) ==
  LET blob == SealSiv(r.key, m, r.aad, n).out
      ct   == SubSeq(blob, 2 * TagLen + 1, Len(blob))
  IN  [j \in DOMAIN ct |-> Xor(ct[j], m[j])]

LEMMA XorCancels ==
  ASSUME NEW a, NEW b
  PROVE  Xor(Xor(a, b), a) = b
  BY DEF Xor

LEMMA SivKeystreamIs ==
  ASSUME NEW r, NEW n, NEW c
  PROVE  SivKeystream(r, n, <<c>>)[1] = KsCell(r.key, SynthesiseIv(r.key, r.aad, <<c>>), n, 1)
<1> DEFINE m == <<c>>
           b == SealSiv(r.key, m, r.aad, n).out
           siv == SynthesiseIv(r.key, r.aad, m)
           ct == Encrypt(r.key, siv, n, m)
<1>1. IsSequence(m) /\ Len(m) = 1 /\ m[1] = c
  BY One
<1>2. SubSeq(b, 5, Len(b)) = ct
  <2> HIDE DEF m
  <2> QED
    BY <1>1, SivBlobFacts
<1>3. IsSequence(ct) /\ Len(ct) = 1 /\ ct[1] = Xor(c, KsCell(r.key, siv, n, 1))
  <2>1. 1 \in 1..Len(m)
    BY <1>1
  <2> HIDE DEF m
  <2> QED
    BY <1>1, <2>1, EncryptFacts
<1>4. DOMAIN ct = 1..1
  BY <1>3, SequenceFacts
<1>5. SubSeq(b, 2 * TagLen + 1, Len(b)) = ct
  BY <1>2, ConstantsKnown
<1> HIDE DEF b, siv, ct
<1>6. SivKeystream(r, n, m) = [j \in DOMAIN ct |-> Xor(ct[j], m[j])]
  BY <1>5 DEF SivKeystream, b
<1>7. 1 \in DOMAIN ct
  BY <1>4
<1> HIDE DEF m
<1>8. SivKeystream(r, n, m)[1] = Xor(ct[1], m[1])
  BY <1>6, <1>7
<1>9. SivKeystream(r, n, m)[1] = KsCell(r.key, siv, n, 1)
  BY <1>8, <1>1, <1>3, XorCancels
<1> QED
  BY <1>9 DEF siv, m

LEMMA KeystreamsDiffer ==
  ASSUME NEW r, IsSequence(r.aad), NEW n \in Nat \ {0}, NEW c, NEW d, c # d
  PROVE  SivKeystream(r, n, <<c>>) # SivKeystream(r, n, <<d>>)
<1> DEFINE h == SynthesiseIv(r.key, r.aad, <<c>>)
           g == SynthesiseIv(r.key, r.aad, <<d>>)
<1>1. h # g
  <2>1. IsSequence(<<c>>) /\ IsSequence(<<d>>) /\ <<c>> # <<d>>
    BY One
  <2> QED
    BY <2>1, SynthesiseSame
<1> HIDE DEF h, g
<1>2. 1 \in 1..n
  OBVIOUS
<1>3. KsAtom(r.key, h, 1, 1) \in KsCell(r.key, h, n, 1)
  BY <1>2, KsMember
<1>4. KsAtom(r.key, h, 1, 1) \notin KsCell(r.key, g, n, 1)
  BY <1>1 DEF KsAtom, KsCell
<1> QED
  BY <1>3, <1>4, SivKeystreamIs DEF h, g

LEMMA FirstOfPart ==
  ASSUME NEW x, IsSequence(x), NEW m \in Nat \ {0}, NEW n \in Int, m <= n, n <= Len(x)
  PROVE  SubSeq(x, m, n)[1] = x[m] /\ IsSequence(SubSeq(x, m, n))
<1>1. 1 \in 1..n - m + 1
  OBVIOUS
<1>2. SubSeq(x, m, n)[1] = x[m + 1 - 1] /\ IsSequence(SubSeq(x, m, n))
  BY <1>1, Part
<1>3. m + 1 - 1 = m
  OBVIOUS
<1> QED
  BY <1>2, <1>3

(* A flipped cell of the ciphertext changes the message that the synthetic *)
(* IV is recomputed from.                                                  *)
LEMMA SivAltered ==
  ASSUME NEW key, NEW pt, NEW aad, NEW n, IsSequence(pt), IsSequence(aad), pt # <<>>,
         NEW b, b = SealSiv(key, pt, aad, n).out
  PROVE  OpenSiv(key, FlipAt(b, 5), aad, n) = Refused
<1> DEFINE w == FlipAt(b, 5)
           siv == SynthesiseIv(key, aad, pt)
           ct == Encrypt(key, siv, n, pt)
           got_ct == SubSeq(w, 5, Len(w))
           out == Encrypt(key, SubSeq(w, 3, 4), n, got_ct)
<1>1. /\ IsSequence(b) /\ Len(b) = 4 + Len(pt)
      /\ SubSeq(b, 1, 2) = KeyCommitment(key, siv, aad)
      /\ SubSeq(b, 3, 4) = siv /\ SubSeq(b, 5, Len(b)) = ct
  BY SivBlobFacts
<1>2. Len(pt) \in Nat /\ Len(pt) >= 1
  <2>1. Len(pt) \in Nat
    BY SequenceFacts
  <2>2. Len(pt) # 0
    <3> SUFFICES ASSUME Len(pt) = 0 PROVE FALSE
      OBVIOUS
    <3>1. IsSequence(<<>>) /\ Len(<<>>) = 0
      BY EmptyFacts
    <3>2. \A i \in 1..Len(pt) : pt[i] = << >>[i]
      OBVIOUS
    <3>3. pt = <<>>
      BY <3>1, <3>2, SameSequence
    <3> QED
      BY <3>3
  <2> QED
    BY <2>1, <2>2
<1>3. Len(b) \in Nat /\ 5 \in 1..Len(b) /\ Len(b) >= 5
  BY <1>1, <1>2
<1>4. Altered(w, b, 5)
  BY <1>1, <1>3, FlippedAt
<1>5. IsSequence(w) /\ Len(w) = Len(b) /\ w[5] # b[5]
  BY <1>4 DEF Altered
<1>13. w = FlipAt(b, 5)
  OBVIOUS
<1> HIDE DEF w
<1>6. SubSeq(w, 1, 2) = SubSeq(b, 1, 2) /\ SubSeq(w, 3, 4) = SubSeq(b, 3, 4)
  <2>1. 1 \in Nat \ {0} /\ 2 \in Int /\ 2 <= Len(b) /\ 2 < 5
    BY <1>3
  <2>2. 3 \in Nat \ {0} /\ 4 \in Int /\ 4 <= Len(b) /\ 4 < 5
    BY <1>3
  <2>3. SubSeq(w, 1, 2) = SubSeq(b, 1, 2)
    BY <2>1, <1>1, <1>3, <1>4, AlteredPart
  <2>4. SubSeq(w, 3, 4) = SubSeq(b, 3, 4)
    BY <2>2, <1>1, <1>3, <1>4, AlteredPart
  <2> QED
    BY <2>3, <2>4
<1>7. got_ct[1] = w[5] /\ ct[1] = b[5] /\ IsSequence(got_ct)
  <2>1. 5 \in Nat \ {0} /\ Len(b) \in Int /\ 5 <= Len(b)
    BY <1>3
  <2>2. SubSeq(b, 5, Len(b))[1] = b[5]
    BY <2>1, <1>1, FirstOfPart
  <2>3. IsSequence(got_ct) /\ got_ct[1] = w[5]
    BY <2>1, <1>5, FirstOfPart
  <2> QED
    BY <2>2, <2>3, <1>1
<1>8. got_ct # ct
  BY <1>5, <1>7
<1>9. IsSequence(out) /\ out = Encrypt(key, siv, n, got_ct)
  BY <1>1, <1>6, <1>7, EncryptFacts
<1>10. out # pt
  <2> SUFFICES ASSUME out = pt PROVE FALSE
    OBVIOUS
  <2>1. Encrypt(key, siv, n, Encrypt(key, siv, n, got_ct)) = got_ct
    BY <1>7, EncryptTwice
  <2> HIDE DEF got_ct, out
  <2>2. ct = got_ct
    BY <2>1, <1>9
  <2> QED
    BY <2>2, <1>8
<1>11. SynthesiseIv(key, aad, out) # SubSeq(w, 3, 4)
  BY <1>1, <1>6, <1>9, <1>10, SynthesiseSame
<1>12. Len(w) \in Nat
  BY <1>3, <1>5
<1>14. OpenSiv(key, w, aad, n) = Refused
  BY <1>11, <1>12, OpenSivMeans
<1> QED
  BY <1>13, <1>14

LEMMA SivDemoPasses ==
  ASSUME NEW s, Genuine(s), s.r.fmt = "siv", NEW wrong, wrong # s.r.key
  PROVE  SivDemo(s, wrong)
<1> DEFINE r == s.r
           pt == r.chunks[1]
           b == s.blob
<1>1. /\ r \in Requests /\ IsSequence(pt) /\ IsSequence(r.aad)
      /\ s.n \in Nat \ {0} /\ b = SealSiv(r.key, pt, r.aad, s.n).out
  <2>1. r \in Requests /\ s.n \in MapCounts /\ b = SealSiv(r.key, pt, r.aad, s.n).out
    BY DEF Genuine
  <2>2. r.fmt # "stream"
    OBVIOUS
  <2> HIDE DEF r
  <2>3. IsSequence(r.chunks[1]) /\ IsSequence(r.aad)
    BY <2>1, <2>2, RequestFacts
  <2>4. s.n \in Nat \ {0}
    BY <2>1, BlobsAssumption
  <2> QED
    BY <2>1, <2>3, <2>4
<1>2. OpenSiv(r.key, b, r.aad, s.n) = Ok(pt)
  BY <1>1, SivOpens
<1>3. SealSiv(r.key, pt, r.aad, s.n).out = b
  BY <1>1
<1>4. SivKeystream(r, s.n, <<{}>>) # SivKeystream(r, s.n, <<Flip({})>>)
  BY <1>1, FlipDiffers, KeystreamsDiffer
<1>5. pt # <<>> => Rejected(OpenSiv(r.key, FlipAt(b, 2 * TagLen + 1), r.aad, s.n))
  <2>1. 2 * TagLen + 1 = 5
    BY ConstantsKnown
  <2> QED
    BY <1>1, <2>1, SivAltered, RefusedIsRejected
<1>6. Rejected(OpenSiv(wrong, b, r.aad, s.n))
  BY <1>1, SivElsewhere, RefusedIsRejected
<1> QED
  BY <1>2, <1>3, <1>4, <1>5, <1>6 DEF SivDemo, SivKeystream

-----------------------------------------------------------------------------
(* The demonstration of twolock.py and the parts of twolock_attack.py.     *)
TwolockAsked(q) ==
  VaultParts(q) /\ q.alg \in Algs /\ Len(q.inonce) = InnerLen /\ Len(q.nonce) = NonceLen

LEMMA TwolockMakes ==
  ASSUME NEW q, TwolockAsked(q)
  PROVE  SealTwolock(q).out = AeadBlob(DeriveKeys(q.key).outer, Vault(q), q.aad, DefaultMaps, q.nonce)
<1>1. SealTwolock(q).ok
  BY DEF SealTwolock, SealAead, Ok, TwolockAsked
<1>2. IsSequence(q.nonce) /\ IsSequence(q.inonce)
  BY DEF TwolockAsked, VaultParts
<1> QED
  BY <1>1, <1>2, TwolockSealed

LEMMA VaultIsSequence ==
  ASSUME NEW q, VaultParts(q)
  PROVE  IsSequence(Vault(q)) /\ Len(Vault(q)) \in Nat
<1>1. IsSequence(Vault(q))
  BY VaultFacts DEF VaultCells
<1> QED
  BY <1>1, SequenceFacts

LEMMA OuterRefuses ==
  ASSUME NEW k, NEW b, NEW a, NEW n, OpenAead(DeriveKeys(k).outer, b, a, n) = Refused
  PROVE  OpenTwolock(k, b, a, n) = Refused
<1>1. ~OpenAead(DeriveKeys(k).outer, b, a, n).ok
  BY DEF Refused
<1> QED
  BY <1>1 DEF OpenTwolock

(* What both scripts ask of a blob of seal_twolock.                        *)
TwolockHolds(q, wrong) ==
  LET blob == SealTwolock(q).out
  IN  /\ OpenTwolock(q.key, blob, q.aad, DefaultMaps) = Ok(q.chunks[1])
      /\ IsSequence(blob) /\ Len(blob) \in Nat /\ Len(blob) >= 5
      /\ \A p \in 1..Len(blob) : OpenTwolock(q.key, FlipAt(blob, p), q.aad, DefaultMaps) = Refused
      /\ OpenTwolock(wrong, blob, q.aad, DefaultMaps) = Refused
      /\ \A a : IsSequence(a) /\ a # q.aad => OpenTwolock(q.key, blob, a, DefaultMaps) = Refused

LEMMA TwolockHeld ==
  ASSUME NEW q, TwolockAsked(q), NEW wrong, wrong # q.key
  PROVE  TwolockHolds(q, wrong)
<1> DEFINE blob == SealTwolock(q).out
           k == DeriveKeys(q.key).outer
           v == Vault(q)
<1>1. blob = AeadBlob(k, v, q.aad, DefaultMaps, q.nonce)
  BY TwolockMakes
<1>2. VaultParts(q) /\ IsSequence(q.aad) /\ IsSequence(q.nonce) /\ Len(q.nonce) = NonceLen
      /\ Len(q.nonce) >= NonceLen /\ q.alg \in Algs
  BY ConstantsKnown DEF TwolockAsked, VaultParts
<1>3. IsSequence(v) /\ Len(v) \in Nat
  BY <1>2, VaultIsSequence
<1> HIDE DEF blob, v
<1>4. OpenTwolock(q.key, blob, q.aad, DefaultMaps) = Ok(q.chunks[1])
  BY <1>1, <1>2, TwolockOpens DEF v
<1>5. IsSequence(blob) /\ Len(blob) = 5 + Len(v)
  BY <1>1, <1>2, <1>3, AeadBlobFacts
<1>6. Len(blob) \in Nat /\ Len(blob) >= 5
  BY <1>5, <1>3
<1>7. ASSUME NEW p \in 1..Len(blob)
      PROVE  OpenTwolock(q.key, FlipAt(blob, p), q.aad, DefaultMaps) = Refused
  <2>1. OpenAead(k, FlipAt(blob, p), q.aad, DefaultMaps) = Refused
    BY <1>1, <1>2, <1>3, AeadAltered
  <2> QED
    BY <2>1, OuterRefuses
<1>8. OpenTwolock(wrong, blob, q.aad, DefaultMaps) = Refused
  <2>1. DeriveKeys(wrong).outer # k
    BY OuterSame
  <2> DEFINE j == DeriveKeys(wrong).outer
  <2> HIDE DEF j, k
  <2>2. OpenAead(j, blob, q.aad, DefaultMaps) = Refused
    BY <2>1, <1>1, <1>2, <1>3, AeadElsewhere DEF j
  <2> QED
    BY <2>2, OuterRefuses DEF j
<1>9. ASSUME NEW a, IsSequence(a), a # q.aad
      PROVE  OpenTwolock(q.key, blob, a, DefaultMaps) = Refused
  <2>1. OpenAead(k, blob, a, DefaultMaps) = Refused
    BY <1>1, <1>2, <1>3, <1>9, AeadElsewhere
  <2> QED
    BY <2>1, OuterRefuses
<1> QED
  BY <1>4, <1>5, <1>6, <1>7, <1>8, <1>9 DEF TwolockHolds, blob

Mine(r, alg) == [r EXCEPT !.alg = alg, !.inonce = FreshNonce]

LEMMA MineAsked ==
  ASSUME NEW r \in Requests, r.fmt = "twolock", Len(r.nonce) = NonceLen, NEW alg \in Algs
  PROVE  /\ TwolockAsked(Mine(r, alg))
         /\ Mine(r, alg).key = r.key /\ Mine(r, alg).aad = r.aad
         /\ Mine(r, alg).nonce = r.nonce /\ Mine(r, alg).chunks = r.chunks
         /\ Mine(r, alg) = [Mine(r, alg) EXCEPT !.nonce = r.nonce]
<1>1. r \in Request
  BY RequestsAssumption
<1> DEFINE q == Mine(r, alg)
<1>2. /\ q.key = r.key /\ q.aad = r.aad /\ q.nonce = r.nonce /\ q.chunks = r.chunks
      /\ q.alg = alg /\ q.inonce = FreshNonce
      /\ q = [q EXCEPT !.nonce = r.nonce]
  BY <1>1 DEF Mine, Request
<1>3. IsSequence(r.chunks[1]) /\ IsSequence(r.aad) /\ IsSequence(r.nonce)
  BY RequestFacts
<1>4. Len(FreshNonce) = InnerLen /\ Len(FreshNonce) >= InnerLen /\ IsSequence(FreshNonce)
  BY FreshFacts, ConstantsKnown
<1> HIDE DEF q
<1>5. TwolockAsked(q)
  BY <1>2, <1>3, <1>4 DEF TwolockAsked, VaultParts
<1> QED
  BY <1>2, <1>5 DEF q

LEMMA TwolockDemoPasses ==
  ASSUME NEW s, Genuine(s), s.r.fmt = "twolock", WellFormed(s.r), NEW wrong, wrong # s.r.key
  PROVE  TwolockDemo(s, wrong)
<1> DEFINE r == s.r
<1>1. r \in Requests /\ Len(r.nonce) = NonceLen /\ r.fmt = "twolock"
  BY DEF Genuine, WellFormed
<1>2. wrong # r.key
  OBVIOUS
<1> HIDE DEF r
<1>3. ASSUME NEW alg \in Algs
      PROVE  LET mine == Mine(r, alg)
                 blob == SealTwolock(mine).out
             IN  /\ OpenTwolock(r.key, blob, r.aad, DefaultMaps) = Ok(r.chunks[1])
                 /\ blob # SealTwolock([mine EXCEPT !.nonce = FreshNonce]).out
                 /\ Rejected(OpenTwolock(r.key, FlipAt(blob, Len(blob)), r.aad, DefaultMaps))
                 /\ Rejected(OpenTwolock(wrong, blob, r.aad, DefaultMaps))
  <2> DEFINE mine == Mine(r, alg)
             other == [mine EXCEPT !.nonce = FreshNonce]
             blob == SealTwolock(mine).out
  <2>1. /\ TwolockAsked(mine) /\ mine.key = r.key /\ mine.aad = r.aad
        /\ mine.nonce = r.nonce /\ mine.chunks = r.chunks
    BY <1>1, MineAsked
  <2>2. TwolockHolds(mine, wrong)
    BY <1>2, <2>1, TwolockHeld
  <2>3. Len(blob) \in 1..Len(blob)
    BY <2>2 DEF TwolockHolds
  <2>4. /\ OpenTwolock(r.key, blob, r.aad, DefaultMaps) = Ok(r.chunks[1])
        /\ OpenTwolock(r.key, FlipAt(blob, Len(blob)), r.aad, DefaultMaps) = Refused
        /\ OpenTwolock(wrong, blob, r.aad, DefaultMaps) = Refused
    <3> HIDE DEF mine
    <3> QED
      BY <2>1, <2>2, <2>3 DEF TwolockHolds
  <2>5. blob # SealTwolock(other).out
    <3>1. /\ other.key = mine.key /\ other.aad = mine.aad /\ other.nonce = FreshNonce
          /\ other.chunks = mine.chunks /\ other.alg = mine.alg /\ other.inonce = mine.inonce
      <4>1. r \in Request
        BY <1>1, RequestsAssumption
      <4> QED
        BY <4>1 DEF Mine, Request
    <3> HIDE DEF other, mine
    <3>2. TwolockAsked(other)
      BY <2>1, <3>1, FreshFacts DEF TwolockAsked, VaultParts
    <3>3. Vault(other) = Vault(mine)
      BY <3>1 DEF Vault, InnerBlob
    <3> DEFINE k == DeriveKeys(r.key).outer
               v == Vault(mine)
    <3> HIDE DEF k, v
    <3>4. blob = AeadBlob(k, v, r.aad, DefaultMaps, r.nonce)
      BY <2>1, TwolockMakes DEF k, v
    <3>5. SealTwolock(other).out = AeadBlob(k, v, r.aad, DefaultMaps, FreshNonce)
      BY <2>1, <3>1, <3>2, <3>3, TwolockMakes DEF k, v
    <3>6. IsSequence(v) /\ IsSequence(r.nonce) /\ r.nonce # FreshNonce
      <4>1. VaultParts(mine)
        BY <2>1 DEF TwolockAsked
      <4>2. IsSequence(v)
        BY <4>1, VaultIsSequence DEF v
      <4> QED
        BY <1>1, <4>2, FreshFacts, RequestFacts
    <3> QED
      BY <1>1, <3>4, <3>5, <3>6, FreshBlobDiffers
  <2> QED
    BY <2>4, <2>5, RefusedIsRejected
<1> QED
  BY <1>3 DEF TwolockDemo, Mine, r

LEMMA OrdinaryPasses ==
  ASSUME NEW s, Genuine(s), s.r.fmt = "twolock", WellFormed(s.r), NEW wrong, wrong # s.r.key
  PROVE  OrdinaryAttacker(s, wrong)
<1> DEFINE r == s.r
<1>1. r \in Requests /\ Len(r.nonce) = NonceLen /\ r.fmt = "twolock"
  BY DEF Genuine, WellFormed
<1>2. wrong # r.key
  OBVIOUS
<1> HIDE DEF r
<1>3. ASSUME NEW alg \in Algs
      PROVE  LET blob == SealTwolock(Mine(r, alg)).out
             IN  /\ OpenTwolock(r.key, blob, r.aad, DefaultMaps) = Ok(r.chunks[1])
                 /\ \A pos \in {1, (Len(blob) \div 2) + 1, Len(blob)} :
                      Rejected(OpenTwolock(r.key, FlipAt(blob, pos), r.aad, DefaultMaps))
                 /\ Rejected(OpenTwolock(wrong, blob, r.aad, DefaultMaps))
                 /\ \A aad \in Aads \ {r.aad} :
                      Rejected(OpenTwolock(r.key, blob, aad, DefaultMaps))
  <2> DEFINE mine == Mine(r, alg)
             blob == SealTwolock(mine).out
  <2>1. /\ TwolockAsked(mine) /\ mine.key = r.key /\ mine.aad = r.aad
        /\ mine.chunks = r.chunks
    BY <1>1, MineAsked
  <2>2. TwolockHolds(mine, wrong)
    BY <1>2, <2>1, TwolockHeld
  <2> HIDE DEF mine
  <2>3. /\ OpenTwolock(r.key, blob, r.aad, DefaultMaps) = Ok(r.chunks[1])
        /\ OpenTwolock(wrong, blob, r.aad, DefaultMaps) = Refused
        /\ Len(blob) \in Nat /\ Len(blob) >= 5
    BY <2>1, <2>2 DEF TwolockHolds
  <2>4. ASSUME NEW pos \in 1..Len(blob)
        PROVE  OpenTwolock(r.key, FlipAt(blob, pos), r.aad, DefaultMaps) = Refused
    BY <2>1, <2>2 DEF TwolockHolds
  <2>5. ASSUME NEW aad \in Aads \ {r.aad}
        PROVE  OpenTwolock(r.key, blob, aad, DefaultMaps) = Refused
    <3>1. IsSequence(aad)
      BY RequestsAssumption, InSeq
    <3> QED
      BY <2>1, <2>2, <3>1 DEF TwolockHolds
  <2>6. {1, (Len(blob) \div 2) + 1, Len(blob)} \subseteq 1..Len(blob)
    <3>1. \A l \in Nat : l >= 5 => {1, (l \div 2) + 1, l} \subseteq 1..l
      OBVIOUS
    <3> QED
      BY <2>3, <3>1
  <2> HIDE DEF blob
  <2> QED
    BY <2>3, <2>4, <2>5, <2>6, RefusedIsRejected DEF blob, mine
<1> QED
  BY <1>3 DEF OrdinaryAttacker, Mine, r

(* The outer wall is peeled off.                                           *)
Peeled(s, inner) ==
  LET r == s.r
  IN  /\ r \in Requests /\ VaultParts(r) /\ inner = Vault(r)
      /\ OpenAead(DeriveKeys(r.key).outer, s.blob, r.aad, DefaultMaps).out = inner

LEMMA WallPeeled ==
  ASSUME NEW s, Genuine(s), s.r.fmt = "twolock", WellFormed(s.r), s.n = DefaultMaps
  PROVE  Peeled(s, Vault(s.r))
<1> DEFINE r == s.r
           k == DeriveKeys(r.key).outer
           v == Vault(r)
<1>1. /\ r \in Requests /\ Len(r.nonce) = NonceLen /\ r.fmt # "stream"
      /\ Len(r.inonce) >= InnerLen
      /\ s.blob = AeadBlob(k, v, r.aad, DefaultMaps, r.nonce)
  BY DEF Genuine, WellFormed
<1> HIDE DEF r
<1>2. VaultParts(r)
  BY <1>1, RequestParts
<1>3. IsSequence(v) /\ IsSequence(r.aad) /\ IsSequence(r.nonce) /\ Len(r.nonce) >= NonceLen
  BY <1>1, <1>2, VaultIsSequence, ConstantsKnown DEF VaultParts
<1> HIDE DEF k, v
<1>4. OpenAead(k, s.blob, r.aad, DefaultMaps) = Ok(v)
  BY <1>1, <1>3, AeadOpens
<1> QED
  BY <1>1, <1>2, <1>4 DEF Peeled, Ok, k, v, r

(* A vault under another key has another tag.                              *)
LEMMA VaultElsewhere ==
  ASSUME NEW r, VaultParts(r), NEW v, v = Vault(r), NEW g, g # DeriveKeys(r.key).inner
  PROVE  VaultOpen(r.alg, g, SubSeq(v, 2, 2), SubSeq(v, 3, Len(v)), r.aad) = Refused
<1> DEFINE data == SubSeq(v, 3, Len(v))
<1>1. data = Append(VaultCt(r), {VaultMark(r)}) /\ IsSequence(VaultCt(r))
  BY VaultFacts DEF VaultCells
<1>2. Last(data) = {VaultMark(r)}
  BY <1>1, Appended
<1> HIDE DEF data
<1>3. Last(data) # VaultTag(r.alg, g, SubSeq(v, 2, 2), Front(data), r.aad)
  <2> DEFINE e == VaultMark(r)
             f == <<"vault tag", r.alg, g, SubSeq(v, 2, 2), Front(data), r.aad>>
  <2>1. e[3] = DeriveKeys(r.key).inner /\ f[3] = g
    BY DEF VaultMark
  <2>2. VaultTag(r.alg, g, SubSeq(v, 2, 2), Front(data), r.aad) = {f}
    BY DEF VaultTag
  <2> HIDE DEF e, f
  <2>3. {e} # {f}
    BY <2>1
  <2>4. Last(data) = {e}
    BY <1>2 DEF e
  <2> QED
    BY <2>2, <2>3, <2>4
<1> QED
  BY <1>3 DEF VaultOpen, data

(* No cell of the vault but those of its header is a cell of a caller's.   *)
LEMMA VaultHides ==
  ASSUME NEW r \in Requests, r.fmt # "stream", VaultParts(r),
         NEW c \in Range(Vault(r)), c \in Cells
  PROVE  c \in {r.alg} \cup Range(r.inonce)
<1>1. /\ VaultCells(r, Vault(r)) /\ IsSequence(VaultCt(r)) /\ Len(VaultCt(r)) = Len(r.chunks[1])
      /\ IsSequence(InnerNonce(r))
  BY VaultFacts
<1>2. c \in {r.alg} \cup Range(InnerNonce(r)) \cup Range(VaultCt(r)) \cup {{VaultMark(r)}}
  BY <1>1 DEF VaultCells
<1>3. Range(InnerNonce(r)) \subseteq Range(r.inonce)
  <2>1. 1 \in Nat \ {0} /\ InnerLen \in Int /\ InnerLen <= Len(r.inonce) /\ IsSequence(r.inonce)
    BY ConstantsKnown DEF VaultParts
  <2> QED
    BY <2>1, Part DEF InnerNonce
<1>4. \A a \in c : a[1] \notin Reserved
  BY CallersCell
<1>5. c # {VaultMark(r)}
  <2> SUFFICES ASSUME c = {VaultMark(r)} PROVE FALSE
    OBVIOUS
  <2>1. VaultMark(r)[1] = "vault tag"
    BY DEF VaultMark
  <2> HIDE DEF VaultMark
  <2>2. VaultMark(r) \in c
    OBVIOUS
  <2> QED
    BY <2>1, <2>2, <1>4 DEF Reserved
<1>6. c \notin Range(VaultCt(r))
  <2> SUFFICES ASSUME c \in Range(VaultCt(r)) PROVE FALSE
    OBVIOUS
  <2> DEFINE alg == r.alg
             key == DeriveKeys(r.key).inner
             h == InnerNonce(r)
             pt == r.chunks[1]
  <2>1. PICK j \in 1..Len(VaultCt(r)) : c = VaultCt(r)[j]
    BY <1>1, SequenceFacts
  <2>2. IsSequence(pt) /\ pt \in Seq(Cells)
    BY RequestFacts DEF VaultParts
  <2>3. j \in 1..Len(pt)
    BY <1>1, <2>1
  <2> DEFINE e == <<"vault", alg, key, h, j>>
  <2>4. c = Xor(pt[j], {e})
    <3>1. c = Xor(pt[j], VaultCell(alg, key, h, j))
      BY <2>1, <2>2, <2>3, VaultXorFacts DEF VaultCt
    <3> QED
      BY <3>1 DEF VaultCell
  <2>5. pt[j] \in Cells
    <3>1. pt[j] \in Range(pt)
      BY <2>2, <2>3, SequenceFacts
    <3> QED
      BY <3>1, <2>2, CallersSeq
  <2>6. \A a \in pt[j] : a[1] \notin Reserved
    BY <2>5, CallersCell
  <2>7. e[1] = "vault"
    OBVIOUS
  <2> HIDE DEF e
  <2>8. e \notin pt[j]
    BY <2>6, <2>7 DEF Reserved
  <2>9. e \in c
    BY <2>4, <2>8 DEF Xor
  <2> QED
    BY <2>7, <2>9, <1>4 DEF Reserved
<1> QED
  BY <1>2, <1>3, <1>5, <1>6

LEMMA ChaosPasses ==
  ASSUME NEW s, Genuine(s), s.r.fmt = "twolock", WellFormed(s.r), s.n = DefaultMaps
  PROVE  ChaosFullyBroken(s)
<1> DEFINE r == s.r
           keys == DeriveKeys(r.key)
           inner == OpenAead(keys.outer, s.blob, r.aad, s.n).out
           nonce == SubSeq(inner, 2, 1 + InnerLen)
           ct == SubSeq(inner, 2 + InnerLen, Len(inner))
           pt == r.chunks[1]
           guesses == {keys.outer} \cup {DeriveKeys(k).inner : k \in Keys \ {r.key}}
<1>1. r \in Requests /\ VaultParts(r) /\ inner = Vault(r) /\ r.fmt # "stream"
  BY WallPeeled DEF Peeled
<1> HIDE DEF r, inner
<1>2. nonce = SubSeq(inner, 2, 2) /\ ct = SubSeq(inner, 3, Len(inner))
  BY ConstantsKnown
<1>3. inner[1] = r.alg /\ VaultOpen(r.alg, keys.inner, nonce, ct, r.aad) = Ok(pt)
  BY <1>1, <1>2, VaultOpens
<1>4. \A g \in guesses : Rejected(VaultOpen(r.alg, g, nonce, ct, r.aad))
  <2> SUFFICES ASSUME NEW g \in guesses PROVE Rejected(VaultOpen(r.alg, g, nonce, ct, r.aad))
    OBVIOUS
  <2>1. keys.outer # keys.inner
    BY DEF DeriveKeys
  <2>2. \A k : k # r.key => DeriveKeys(k).inner # keys.inner
    BY InnerSame
  <2>3. g # keys.inner
    BY <2>1, <2>2
  <2>4. VaultOpen(r.alg, g, nonce, ct, r.aad) = Refused
    BY <1>1, <1>2, <2>3, VaultElsewhere
  <2> QED
    BY <2>4, RefusedIsRejected
<1>5. ASSUME pt # <<>>, pt[1] \notin {r.alg} \cup Range(r.inonce),
             NEW i \in 0..Len(inner) - Len(pt), SubSeq(inner, i + 1, i + Len(pt)) = pt
      PROVE  FALSE
  <2>1. IsSequence(pt) /\ pt \in Seq(Cells) /\ IsSequence(inner) /\ Len(inner) \in Nat
    BY <1>1, RequestFacts, VaultIsSequence DEF VaultParts
  <2>2. Len(pt) \in Nat /\ Len(pt) >= 1
    BY <1>5, <2>1
  <2>3. i + 1 \in Nat \ {0} /\ i + Len(pt) \in Int /\ i + 1 <= i + Len(pt) /\ i + Len(pt) <= Len(inner)
    BY <2>1, <2>2
  <2>4. SubSeq(inner, i + 1, i + Len(pt))[1] = inner[i + 1]
    BY <2>1, <2>3, FirstOfPart
  <2>5. pt[1] = inner[i + 1]
    BY <2>4, <1>5
  <2>6. i + 1 \in 1..Len(inner)
    BY <2>1, <2>2, <2>3
  <2>7. inner[i + 1] \in Range(Vault(r))
    BY <1>1, <2>1, <2>6, SequenceFacts
  <2>8. pt[1] \in Cells
    BY <2>1, <2>2
  <2> QED
    BY <1>1, <1>5, <2>5, <2>7, <2>8, VaultHides
<1> QED
  BY <1>3, <1>4, <1>5 DEF ChaosFullyBroken, r, inner

LEMMA InnerLockPasses ==
  ASSUME NEW s, Genuine(s), s.r.fmt = "twolock", WellFormed(s.r), s.n = DefaultMaps
  PROVE  InnerLockIsReal(s)
<1> DEFINE r == s.r
           k == DeriveKeys(r.key).outer
           inner == OpenAead(k, s.blob, r.aad, DefaultMaps).out
           bad == FlipAt(inner, Len(inner))
           forged == SealAead(k, bad, r.aad, DefaultMaps, FreshNonce).out
<1>1. r \in Requests /\ VaultParts(r) /\ inner = Vault(r)
  BY WallPeeled DEF Peeled
<1> HIDE DEF r, inner
<1>2. IsSequence(inner) /\ Len(inner) \in Nat /\ Len(inner) >= 3
  BY <1>1, VaultIsSequence, VaultOpens
<1>3. Altered(bad, inner, Len(inner))
  <2>1. Len(inner) \in 1..Len(inner)
    BY <1>2
  <2> QED
    BY <1>2, <2>1, FlippedAt
<1>4. IsSequence(bad) /\ Len(bad) = Len(inner)
  BY <1>3 DEF Altered
<1>5. inner[Len(inner)] = {VaultMark(r)}
  <2> DEFINE data == SubSeq(inner, 3, Len(inner))
             L == Len(inner)
  <2>1. data = Append(VaultCt(r), {VaultMark(r)}) /\ IsSequence(VaultCt(r))
    BY <1>1, VaultFacts DEF VaultCells
  <2>2. data[Len(data)] = {VaultMark(r)}
    BY <2>1, Appended DEF Last
  <2>3. L \in Nat /\ L >= 3
    BY <1>2
  <2> HIDE DEF L
  <2>4. 3 \in Nat \ {0} /\ L \in Int /\ L <= L /\ L - 3 + 1 \in 1..L - 3 + 1
    BY <2>3
  <2>5. Len(data) = L - 3 + 1 /\ data[L - 3 + 1] = inner[3 + (L - 3 + 1) - 1]
    <3>1. /\ Len(data) = IF 3 <= L THEN L - 3 + 1 ELSE 0
          /\ \A i \in 1..L - 3 + 1 : data[i] = inner[3 + i - 1]
      BY <1>2, <2>4, Part DEF L
    <3> HIDE DEF data
    <3> QED
      BY <3>1, <2>3, <2>4
  <2>6. 3 + (L - 3 + 1) - 1 = L
    BY <2>3
  <2> QED
    BY <2>2, <2>5, <2>6 DEF L
<1>6. bad[Len(bad)] = Flip({VaultMark(r)})
  <2>1. DOMAIN inner = 1..Len(inner) /\ Len(inner) \in DOMAIN inner
    BY <1>2, SequenceFacts
  <2>2. bad[Len(inner)] = Flip(inner[Len(inner)])
    BY <2>1 DEF FlipAt
  <2> QED
    BY <1>4, <1>5, <2>2
<1>7. OpenAead(k, forged, r.aad, DefaultMaps) = Ok(bad)
  <2>1. forged = AeadBlob(k, bad, r.aad, DefaultMaps, FreshNonce)
    BY FreshFacts, AeadMakes
  <2>2. Len(FreshNonce) >= NonceLen /\ IsSequence(r.aad)
    BY <1>1, FreshFacts, ConstantsKnown DEF VaultParts
  <2> HIDE DEF bad, forged, k
  <2> QED
    BY <1>4, <2>1, <2>2, FreshFacts, AeadOpens
<1>8. OpenTwolock(r.key, forged, r.aad, DefaultMaps) = Refused
  <2> DEFINE data == SubSeq(bad, 3, Len(bad))
  <2>1. Len(bad) \in Nat /\ Len(bad) >= 3
    BY <1>2, <1>4
  <2>2. Last(data) = bad[Len(bad)]
    <3> DEFINE L == Len(bad)
    <3>1. L \in Nat /\ L >= 3
      BY <2>1
    <3>2. L = Len(bad)
      OBVIOUS
    <3> HIDE DEF L, bad
    <3>3. 3 \in Nat \ {0} /\ L \in Int /\ L <= L /\ L - 3 + 1 \in 1..L - 3 + 1
      BY <3>1
    <3>4. /\ Len(data) = IF 3 <= L THEN L - 3 + 1 ELSE 0
          /\ \A i \in 1..L - 3 + 1 : data[i] = bad[3 + i - 1]
      BY <1>4, <3>2, <3>3, Part
    <3> HIDE DEF data
    <3>5. Len(data) = L - 3 + 1 /\ data[L - 3 + 1] = bad[3 + (L - 3 + 1) - 1]
      BY <3>1, <3>3, <3>4
    <3>6. 3 + (L - 3 + 1) - 1 = L
      BY <3>1
    <3> QED
      BY <3>2, <3>5, <3>6 DEF Last
  <2> HIDE DEF data
  <2>3. \A alg, g, h, ct, a : Last(data) # VaultTag(alg, g, h, ct, a)
    <3> SUFFICES ASSUME NEW alg, NEW g, NEW h, NEW ct, NEW a,
                        Last(data) = VaultTag(alg, g, h, ct, a)
                 PROVE  FALSE
      OBVIOUS
    <3> DEFINE e == VaultMark(r)
               f == <<"vault tag", alg, g, h, ct, a>>
    <3>1. e[1] = "vault tag" /\ f[1] = "vault tag" /\ <<"flipped bit">>[1] = "flipped bit"
      BY DEF VaultMark
    <3>2. Flip({e}) = {f}
      BY <1>6, <2>2 DEF VaultTag
    <3> HIDE DEF e, f
    <3>3. e # <<"flipped bit">> /\ f # <<"flipped bit">>
      BY <3>1
    <3>4. <<"flipped bit">> \in Flip({e})
      BY <3>3 DEF Flip, Xor
    <3> QED
      BY <3>2, <3>3, <3>4
  <2>4. \A alg, g, h, a : VaultOpen(alg, g, h, data, a) = Refused
    BY <2>3 DEF VaultOpen
  <2> DEFINE out == OpenAead(k, forged, r.aad, DefaultMaps).out
  <2>5. out = bad
    BY <1>7 DEF Ok
  <2>6. OpenTwolock(r.key, forged, r.aad, DefaultMaps) = Refused
    <3>1. Len(out) \in Nat
      BY <2>1, <2>5
    <3> HIDE DEF bad, forged
    <3> QED
      BY <3>1, <2>4, <2>5, OpenTwolockMeans DEF data, k
  <2> QED
    BY <2>6
<1> QED
  BY <1>7, <1>8, RefusedIsRejected DEF InnerLockIsReal, r, inner, k

-----------------------------------------------------------------------------
(* The scripts on streams: frames taken from a sealed stream and laid in   *)
(* another order or number.                                                *)
(* The frames of a stream as a sequence of its own. *)
LEMMA FramesSequence ==
  ASSUME NEW r \in Requests
  PROVE  /\ IsSequence(Frames(r)) /\ Len(Frames(r)) = Len(Chunks(r))
         /\ Len(Chunks(r)) \in Nat \ {0}
         /\ \A i \in 1..Len(Chunks(r)) : IsSequence(Frames(r)[i]) /\ Len(Frames(r)[i]) \in Nat
<1> DEFINE m == Len(Chunks(r))
           f == Frames(r)
<1>1. m \in Nat \ {0}
  BY ChunksFacts
<1>2. f = [i \in 1..m |-> f[i]]
  <2>1. f = [i \in 1..m |-> SealChunk(r, i - 1, IF i = m THEN FINAL ELSE MORE, Chunks(r)[i])]
    BY Zenon DEF Frames, Chunks
  <2> HIDE DEF f, m
  <2> QED
    BY <2>1
<1>3. IsSequence(f) /\ Len(f) = m
  <2> HIDE DEF f, m
  <2> QED
    BY <1>1, <1>2, FunctionIsSequence
<1>4. \A i \in 1..m : IsSequence(f[i]) /\ Len(f[i]) \in Nat
  BY FrameFacts, SequenceFacts
<1> QED
  BY <1>1, <1>3, <1>4

(* Frames, each of them sealed for some place, laid one behind the other.  *)
Laid(r, fs, sigma, w, Q) ==
  /\ Q[0] = 3 /\ Q[Len(fs)] = Len(w)
  /\ \A j \in 1..Len(fs) :
       /\ Q[j - 1] \in Nat /\ Q[j] = Q[j - 1] + 1 + Len(Frames(r)[sigma[j]])
       /\ Q[j - 1] < Q[j] /\ Q[j] <= Len(w)
       /\ FrameAt(r, Q[j - 1], sigma[j], w)

FramesOf(r, fs, sigma) ==
  /\ IsSequence(fs)
  /\ \A j \in 1..Len(fs) : sigma[j] \in 1..Len(Chunks(r)) /\ fs[j] = Frames(r)[sigma[j]]

ShortFrames(r) == \A i \in 1..Len(Chunks(r)) : Len(Frames(r)[i]) < LenLimit

LEMMA JoinLays ==
  ASSUME NEW r \in Requests, ShortFrames(r), NEW fs, NEW sigma, FramesOf(r, fs, sigma),
         NEW h, IsSequence(h), Len(h) = 3, NEW w, w = Join(h, fs)
  PROVE  /\ IsSequence(w) /\ Len(w) >= 3 /\ SubSeq(w, 1, HeaderLen) = h
         /\ \E Q : Laid(r, fs, sigma, w, Q)
<1> DEFINE ss == [i \in DOMAIN fs |-> Prefixed(fs[i])]
           x == FlattenSeq(ss)
           N == Len(fs)
           F(j) == Frames(r)[sigma[j]]
<1>1. N \in Nat /\ DOMAIN fs = 1..N /\ LenLimit \in Nat \ {0}
  BY SequenceFacts, BlobsAssumption DEF FramesOf
<1>2. \A j \in 1..N : /\ sigma[j] \in 1..Len(Chunks(r)) /\ fs[j] = F(j)
                      /\ IsSequence(F(j)) /\ Len(F(j)) \in Nat /\ Len(F(j)) < LenLimit
  BY FramesSequence DEF FramesOf, ShortFrames
<1>3. \A j \in 1..N : ss[j] = Prefixed(F(j))
  BY <1>1, <1>2
<1>4. IsSequence(ss) /\ Len(ss) = N
  <2>1. ss = [i \in 1..N |-> ss[i]]
    BY <1>1
  <2> HIDE DEF ss, N
  <2> QED
    BY <1>1, <2>1, FunctionIsSequence
<1>5. \A j \in 1..N : /\ IsSequence(ss[j]) /\ Len(ss[j]) = 1 + Len(F(j))
                      /\ ss[j][1] = Len4(Len(F(j)))
                      /\ \A k \in 1..Len(F(j)) : ss[j][1 + k] = F(j)[k]
  <2> SUFFICES ASSUME NEW j \in 1..N
               PROVE  /\ IsSequence(ss[j]) /\ Len(ss[j]) = 1 + Len(F(j))
                      /\ ss[j][1] = Len4(Len(F(j)))
                      /\ \A k \in 1..Len(F(j)) : ss[j][1 + k] = F(j)[k]
    OBVIOUS
  <2> DEFINE f == F(j)
  <2>1. IsSequence(f) /\ Len(f) \in Nat /\ Len(f) < LenLimit /\ ss[j] = Prefixed(f)
    BY <1>2, <1>3
  <2> HIDE DEF f, ss
  <2>2. Len(f) % LenLimit = Len(f)
    <3>1. \A l \in Nat : l < LenLimit => l % LenLimit = l
      BY <1>1
    <3> QED
      BY <2>1, <3>1
  <2>3. /\ IsSequence(ss[j]) /\ Len(ss[j]) = 1 + Len(f)
        /\ ss[j][1] = Len4(Len(f))
        /\ \A k \in 1..Len(f) : ss[j][1 + k] = f[k]
    BY <2>1, <2>2, PrefixedFacts
  <2> QED
    BY <2>3 DEF f
<1> HIDE DEF ss
<1>6. PICK e : IsSequence(x) /\ Flattened(ss, e, x)
  BY <1>4, <1>5, FlattenFacts
<1>7. w = h \o x
  BY DEF Join, ss
<1> HIDE DEF x
<1>h. IsSequence(h) /\ Len(h) = 3
  OBVIOUS
<1>8. /\ IsSequence(w) /\ Len(w) = 3 + Len(x)
      /\ \A i \in 1..Len(x) : w[3 + i] = x[i]
  <2> DEFINE z == h \o x
  <2>1. /\ IsSequence(z) /\ Len(z) = Len(h) + Len(x)
        /\ \A i \in 1..Len(x) : z[Len(h) + i] = x[i]
    <3>1. IsSequence(h) /\ IsSequence(x)
      BY <1>h, <1>6
    <3> QED
      BY ONLY <3>1, Joined
  <2>2. w = z
    BY <1>7
  <2> HIDE DEF z
  <2> QED
    BY <1>h, <2>1, <2>2
<1>9. Len(x) \in Nat
  BY <1>6, SequenceFacts
<1>10. /\ e[0] = 0 /\ Len(x) = e[N]
       /\ \A j \in 1..N : /\ e[j - 1] \in Nat /\ e[j] = e[j - 1] + 1 + Len(F(j)) /\ e[j] <= Len(x)
                          /\ \A k \in 1..1 + Len(F(j)) : x[e[j - 1] + k] = ss[j][k]
  <2>1. \A j \in 1..N : Len(ss[j]) = 1 + Len(F(j)) /\ Len(F(j)) \in Nat
    BY <1>2, <1>5
  <2>2. /\ e[0] = 0 /\ Len(x) = e[N]
        /\ \A j \in 1..N : /\ e[j - 1] \in Nat /\ e[j] = e[j - 1] + Len(ss[j]) /\ e[j] <= Len(x)
                           /\ \A k \in 1..Len(ss[j]) : x[e[j - 1] + k] = ss[j][k]
    BY <1>4, <1>6 DEF Flattened
  <2>3. ASSUME NEW j \in 1..N
        PROVE  /\ e[j - 1] \in Nat /\ e[j] = e[j - 1] + 1 + Len(F(j)) /\ e[j] <= Len(x)
               /\ \A k \in 1..1 + Len(F(j)) : x[e[j - 1] + k] = ss[j][k]
    <3> DEFINE l == Len(F(j))
    <3>1. l \in Nat /\ Len(ss[j]) = 1 + l
      BY <2>1
    <3>2. /\ e[j - 1] \in Nat /\ e[j] = e[j - 1] + Len(ss[j]) /\ e[j] <= Len(x)
          /\ \A k \in 1..Len(ss[j]) : x[e[j - 1] + k] = ss[j][k]
      BY <2>2
    <3> DEFINE a == e[j - 1]
    <3> HIDE DEF l, N, a
    <3>3. a \in Nat /\ e[j] = a + (1 + l) /\ e[j] <= Len(x)
      BY <3>1, <3>2 DEF a
    <3>4. \A k \in 1..1 + l : x[a + k] = ss[j][k]
      BY <3>1, <3>2 DEF a
    <3>5. e[j] = a + 1 + l
      BY <3>1, <3>3
    <3> QED
      BY <3>3, <3>4, <3>5 DEF l, a
  <2> QED
    BY <2>2, <2>3
<1> DEFINE Q == [j \in 0..N |-> 3 + e[j]]
<1>11. /\ Q[0] = 3 /\ Q[N] = Len(w)
       /\ \A j \in 1..N : Q[j - 1] = 3 + e[j - 1] /\ Q[j] = 3 + e[j]
  <2> HIDE DEF N
  <2> QED
    BY <1>1, <1>8, <1>10
<1> HIDE DEF Q
<1>12. ASSUME NEW j \in 1..N
       PROVE  /\ Q[j - 1] \in Nat /\ Q[j] = Q[j - 1] + 1 + Len(F(j))
              /\ Q[j - 1] < Q[j] /\ Q[j] <= Len(w)
              /\ FrameAt(r, Q[j - 1], sigma[j], w)
  <2> DEFINE f == F(j)
             a == e[j - 1]
             q == Q[j - 1]
             L == Len(x)
             l == Len(f)
  <2>1. /\ a \in Nat /\ e[j] = a + 1 + l /\ e[j] <= L /\ l \in Nat /\ L \in Nat
        /\ q = 3 + a /\ Q[j] = 3 + e[j] /\ Len(w) = 3 + L /\ l < LenLimit
    BY <1>2, <1>8, <1>9, <1>10, <1>11
  <2>2. \A k \in 1..1 + l : x[a + k] = ss[j][k]
    BY <1>10
  <2>3. ss[j][1] = Len4(l) /\ \A k \in 1..l : ss[j][1 + k] = f[k]
    BY <1>5
  <2>4. \A i \in 1..L : w[3 + i] = x[i]
    BY <1>8
  <2>8. f = Frames(r)[sigma[j]] /\ l = Len(f)
    OBVIOUS
  <2> HIDE DEF f, a, q, L, l
  <2>5. q \in Nat /\ Q[j] = q + 1 + l /\ q < Q[j] /\ Q[j] <= Len(w)
    BY <2>1
  <2>6. \A k \in 1..1 + l : w[q + k] = ss[j][k]
    <3> SUFFICES ASSUME NEW k \in 1..1 + l PROVE w[q + k] = ss[j][k]
      OBVIOUS
    <3>1. a + k \in 1..L /\ 3 + (a + k) = q + k
      BY <2>1
    <3> QED
      BY <2>2, <2>4, <3>1
  <2>7. FrameAt(r, q, sigma[j], w)
    <3>1. 1 \in 1..1 + l
      BY <2>1
    <3>2. w[q + 1] = Len4(l)
      BY <2>3, <2>6, <3>1
    <3>3. \A k \in 1..l : w[q + 1 + k] = f[k]
      <4> SUFFICES ASSUME NEW k \in 1..l PROVE w[q + 1 + k] = f[k]
        OBVIOUS
      <4>1. 1 + k \in 1..1 + l /\ q + (1 + k) = q + 1 + k
        BY <2>1
      <4> QED
        BY <2>3, <2>6, <4>1
    <3>4. l < LenLimit /\ q + 1 + l <= Len(w)
      BY <2>1
    <3> QED
      BY <2>8, <3>2, <3>3, <3>4 DEF FrameAt
  <2> QED
    BY <2>5, <2>7 DEF f, q, l
<1>13. Laid(r, fs, sigma, w, Q)
  BY <1>11, <1>12 DEF Laid
<1>14. SubSeq(w, 1, HeaderLen) = h
  <2>1. IsSequence(h) /\ IsSequence(x)
    BY <1>h, <1>6
  <2>2. SubSeq(h \o x, 1, Len(h)) = h
    BY ONLY <2>1, CutJoined
  <2> QED
    BY <1>7, <1>h, <2>2, ConstantsKnown
<1> QED
  BY <1>8, <1>9, <1>13, <1>14

(* A frame in its place is cut out whole. *)
LEMMA FrameCut ==
  ASSUME NEW r \in Requests, NEW i \in 1..Len(Chunks(r)), NEW p \in Nat, NEW w, IsSequence(w),
         FrameAt(r, p, i, w)
  PROVE  SubSeq(w, p + 2, p + 1 + Len(Frames(r)[i])) = Frames(r)[i]
<1> DEFINE f == Frames(r)[i]
           l == Len(f)
           m == p + 2
           n == p + 1 + l
           x == SubSeq(w, m, n)
<1>1. IsSequence(f) /\ l \in Nat /\ l = Len(f)
  BY FramesSequence
<1>2. n <= Len(w) /\ \A k \in 1..l : w[p + 1 + k] = f[k]
  BY DEF FrameAt
<1> HIDE DEF f, l
<1>3. m \in Nat \ {0} /\ n \in Int /\ n - m + 1 = l
  BY <1>1
<1>4. \A k \in 1..l : m + k - 1 = p + 1 + k
  BY <1>1
<1>5. l > 0 <=> m <= n
  BY <1>1
<1> HIDE DEF m, n
<1>6. /\ IsSequence(x) /\ Len(x) = IF m <= n THEN n - m + 1 ELSE 0
      /\ \A k \in 1..n - m + 1 : x[k] = w[m + k - 1]
  BY <1>2, <1>3, Part
<1> HIDE DEF x
<1>7. Len(x) = l
  BY <1>1, <1>3, <1>5, <1>6
<1>8. \A k \in 1..Len(x) : x[k] = f[k]
  BY <1>2, <1>3, <1>4, <1>6, <1>7
<1>9. x = f
  BY <1>1, <1>6, <1>7, <1>8, SameSequence
<1> QED
  BY <1>9 DEF x, l, f, m, n

(* A sealed stream is its frames, laid behind its header. *)
Header(r) == SubSeq(r.nonce, 1, NonceLen) \o KeyCommitment(r.key, r.nonce, r.aad)

LEMMA StreamIsLaid ==
  ASSUME NEW r \in Requests, ShortFrames(r), Len(r.nonce) >= NonceLen,
         NEW w, w = StreamBlob(r)
  PROVE  /\ IsSequence(Header(r)) /\ Len(Header(r)) = 3 /\ SubSeq(w, 1, HeaderLen) = Header(r)
         /\ IsSequence(w) /\ Len(w) >= 3
         /\ \E Q : Laid(r, Frames(r), [j \in 1..Len(Frames(r)) |-> j], w, Q)
<1> DEFINE a == SubSeq(r.nonce, 1, NonceLen)
           b == KeyCommitment(r.key, r.nonce, r.aad)
           h == Header(r)
           x == FlattenSeq([i \in DOMAIN Frames(r) |-> Prefixed(Frames(r)[i])])
           sigma == [j \in 1..Len(Frames(r)) |-> j]
<1>1. IsSequence(a) /\ Len(a) = 1
  <2>1. IsSequence(r.nonce)
    BY RequestFacts
  <2> QED
    BY <2>1, NonceCell
<1>2. IsSequence(b) /\ Len(b) = 2
  BY PrfInputs, PrfFacts
<1>3. h = a \o b
  BY DEF Header
<1> HIDE DEF a, b, h
<1>4. IsSequence(h) /\ Len(h) = 3
  <2> DEFINE z == a \o b
  <2>1. IsSequence(z) /\ Len(z) = Len(a) + Len(b)
    BY ONLY <1>1, <1>2, Joined
  <2> HIDE DEF z
  <2>2. h = z
    BY <1>3 DEF z
  <2> QED
    BY <1>1, <1>2, <2>1, <2>2
<1>5. w = Join(h, Frames(r))
  BY <1>3 DEF StreamBlob, Join, a, b
<1>6. FramesOf(r, Frames(r), sigma)
  BY FramesSequence DEF FramesOf
<1> HIDE DEF sigma
<1>7. /\ IsSequence(w) /\ Len(w) >= 3 /\ SubSeq(w, 1, HeaderLen) = h
      /\ \E Q : Laid(r, Frames(r), sigma, w, Q)
  BY <1>4, <1>5, <1>6, JoinLays
<1> QED
  BY <1>4, <1>7 DEF h, sigma

(* _split finds the frames of a sealed stream. *)
LEMMA SplitFrames ==
  ASSUME NEW r \in Requests, ShortFrames(r), Len(r.nonce) >= NonceLen, garble \in Misreads,
         NEW w, w = StreamBlob(r)
  PROVE  Split(w) = Frames(r)
<1> DEFINE fs == Frames(r)
           m == Len(fs)
           sigma == [j \in 1..m |-> j]
           g == CHOOSE f : SplitLoop(w, f)
<1>1. /\ IsSequence(w) /\ Len(w) \in Nat
      /\ \E Q : Laid(r, fs, sigma, w, Q)
  BY StreamIsLaid, SequenceFacts
<1>2. PICK Q : Laid(r, fs, sigma, w, Q)
  BY <1>1
<1>3. SplitLoop(w, g)
  BY <1>1, SplitLoopExists
<1>4. Split(w) = g[HeaderLen]
  BY Zenon DEF Split, SplitLoop, SplitStep
<1> HIDE DEF g
<1>5. IsSequence(fs) /\ m \in Nat \ {0} /\ m = Len(Chunks(r)) /\ \A i \in 1..m : Len(fs[i]) \in Nat
  BY FramesSequence
<1>6. /\ Q[0] = 3 /\ Q[m] = Len(w)
      /\ \A j \in 1..m : /\ Q[j - 1] \in Nat /\ Q[j] = Q[j - 1] + 1 + Len(fs[j])
                         /\ Q[j - 1] < Q[j] /\ Q[j] <= Len(w)
                         /\ FrameAt(r, Q[j - 1], j, w)
  BY <1>2 DEF Laid
<1> HIDE DEF sigma, m
<1> DEFINE G == {j \in 1..m : g[Q[j - 1]] = SubSeq(fs, j, m)}
<1>7. ASSUME NEW j \in 1..m, \A i \in j + 1..m : i \in G PROVE j \in G
  <2> DEFINE p == Q[j - 1]
             end == p + LenBytes + NumberAt(w[p + 1])
             L == Len(w)
             x == SubSeq(w, p + LenBytes + 1, L)
             y == SubSeq(w, p + LenBytes + 1, end)
  <2>1. p \in Nat /\ Q[j] = p + 1 + Len(fs[j]) /\ p < Q[j] /\ Q[j] <= L /\ FrameAt(r, p, j, w)
        /\ L \in Nat /\ L = Len(w) /\ Len(fs[j]) \in Nat
    BY <1>1, <1>5, <1>6
  <2>n. Q[m] = L
    BY <1>6
  <2> HIDE DEF L, fs, p
  <2>2. end = Q[j]
    <3>1. NumberAt(w[p + 1]) = Len(fs[j])
      BY <1>1, <1>5, <2>1, FrameRead DEF fs
    <3> QED
      BY <2>1, <3>1, ConstantsKnown
  <2>3. SubSeq(w, p + LenBytes + 1, Q[j]) = fs[j]
    <3>1. SubSeq(w, p + 2, p + 1 + Len(fs[j])) = fs[j]
      BY <1>1, <1>5, <2>1, FrameCut DEF fs
    <3>2. p + LenBytes + 1 = p + 2
      BY <2>1, ConstantsKnown
    <3> QED
      BY <2>1, <3>1, <3>2
  <2>4. p \in 0..L /\ p # L
    <3> DEFINE l == Len(fs[j])
               e == Q[j]
    <3>1. p \in Nat /\ L \in Nat /\ l \in Nat /\ e = p + 1 + l /\ e <= L
      BY <2>1
    <3> HIDE DEF l, e
    <3> QED
      BY <3>1
  <2>5. g[p] = SplitStep(w, g, p)
    BY <1>3, <2>1, <2>4 DEF SplitLoop
  <2>6. /\ end >= L => g[p] = <<x>>
        /\ ~(end >= L) => g[p] = <<y>> \o g[end]
    BY <2>1, <2>4, <2>5, Zenon DEF SplitStep
  <2> HIDE DEF end
  <2>7. CASE j = m
    <3>1. end = L /\ end >= L
      BY <2>n, <2>1, <2>2, <2>7
    <3>2. g[p] = <<fs[m]>>
      BY <2>2, <2>3, <2>6, <2>7, <3>1
    <3>3. SubSeq(fs, m, m) = <<fs[m]>>
      <4> DEFINE z == SubSeq(fs, m, m)
                 c == fs[m]
      <4>1. m \in Nat \ {0} /\ m \in Int /\ m <= Len(fs)
        BY <1>5 DEF m, fs
      <4>2. /\ IsSequence(z) /\ Len(z) = IF m <= m THEN m - m + 1 ELSE 0
            /\ z[1] = c
        BY <1>5, <4>1, Part, FirstOfPart
      <4> HIDE DEF z, c
      <4>3. Len(z) = 1 /\ IsSequence(<<c>>) /\ Len(<<c>>) = 1 /\ <<c>>[1] = c
        BY <4>1, <4>2, One
      <4> HIDE DEF m
      <4>4. \A i \in 1..Len(z) : z[i] = <<c>>[i]
        BY <4>2, <4>3
      <4>5. z = <<c>>
        BY <4>2, <4>3, <4>4, SameSequence
      <4> QED
        BY <4>5 DEF z, c
    <3> QED
      BY <2>7, <3>2, <3>3 DEF p
  <2>8. CASE j # m
    <3> DEFINE q == j + 1
    <3>1. q \in 1..m /\ q \in j + 1..m /\ q - 1 = j
      BY <1>5, <2>8
    <3>2. q \in G
      BY <1>7, <3>1
    <3>3. g[Q[j]] = SubSeq(fs, q, m)
      BY <3>1, <3>2
    <3>4. end # L /\ ~(end >= L)
      <4> HIDE DEF q
      <4>1. Q[q - 1] < Q[q] /\ Q[q] <= L /\ Q[q - 1] \in Nat /\ Q[q] = Q[q - 1] + 1 + Len(fs[q])
            /\ Len(fs[q]) \in Nat
        BY <1>5, <1>6, <2>1, <3>1 DEF fs
      <4>2. Q[q - 1] = end
        BY <2>2, <3>1
      <4> QED
        BY <2>1, <4>1, <4>2
    <3>5. g[p] = <<fs[j]>> \o SubSeq(fs, q, m)
      BY <2>2, <2>3, <2>6, <3>3, <3>4
    <3>6. <<fs[j]>> \o SubSeq(fs, q, m) = SubSeq(fs, j, m)
      <4> DEFINE c == fs[j]
                 o == <<c>>
                 u == SubSeq(fs, q, m)
                 v == SubSeq(fs, j, m)
                 z == o \o u
      <4>m. m = Len(fs)
        BY DEF m
      <4>1. j \in Nat \ {0} /\ q \in Nat \ {0} /\ m \in Int /\ m <= Len(fs) /\ q <= m /\ j <= m
            /\ q = j + 1
        BY <1>5, <3>1, <4>m
      <4> HIDE DEF q
      <4>2. /\ IsSequence(u) /\ Len(u) = IF q <= m THEN m - q + 1 ELSE 0
            /\ \A i \in 1..m - q + 1 : u[i] = fs[q + i - 1]
        BY <1>5, <4>1, Part DEF fs
      <4>3. /\ IsSequence(v) /\ Len(v) = IF j <= m THEN m - j + 1 ELSE 0
            /\ \A i \in 1..m - j + 1 : v[i] = fs[j + i - 1]
        BY <1>5, <4>1, Part DEF fs
      <4>4. IsSequence(o) /\ Len(o) = 1 /\ o[1] = c
        BY One
      <4> HIDE DEF o, u, v
      <4>5. IsSequence(z) /\ Len(z) = Len(o) + Len(u) /\ (\A i \in 1..Len(o) : z[i] = o[i])
            /\ \A i \in 1..Len(u) : z[Len(o) + i] = u[i]
        <5>1. IsSequence(o) /\ IsSequence(u)
          BY <4>2, <4>4
        <5> QED
          BY ONLY <5>1, Joined
      <4> HIDE DEF z
      <4>6. Len(u) = m - j /\ Len(v) = m - j + 1 /\ Len(z) = m - j + 1 /\ m - q + 1 = m - j
        BY <4>1, <4>2, <4>3, <4>4, <4>5
      <4>7. \A i \in 1..Len(z) : z[i] = v[i]
        <5> SUFFICES ASSUME NEW i \in 1..m - j + 1 PROVE z[i] = v[i]
          BY <4>6
        <5>1. v[i] = fs[j + i - 1]
          BY <4>3
        <5>2. CASE i = 1
          <6>1. j + i - 1 = j
            BY <4>1, <5>2
          <6>2. z[1] = o[1]
            BY <4>4, <4>5
          <6> QED
            BY <4>4, <5>1, <5>2, <6>1, <6>2
        <5>3. CASE i # 1
          <6> DEFINE k == i - 1
          <6>1. k \in 1..m - j /\ 1 + k = i /\ q + k - 1 = j + i - 1
            BY <4>1, <5>3
          <6> HIDE DEF k
          <6>2. z[1 + k] = u[k]
            BY <4>4, <4>5, <4>6, <6>1
          <6>3. u[k] = fs[q + k - 1]
            BY <4>2, <4>6, <6>1
          <6> QED
            BY <5>1, <6>1, <6>2, <6>3
        <5> QED
          BY <5>2, <5>3
      <4>8. z = v
        BY <4>3, <4>5, <4>6, <4>7, SameSequence
      <4> QED
        BY <4>8 DEF z, o, u, v, c
    <3> QED
      BY <3>5, <3>6 DEF p
  <2> QED
    BY <2>7, <2>8
<1> HIDE DEF G
<1>8. \A j \in 1..m : j \in G
  BY <1>5, <1>7, DownInduction
<1> DEFINE one == 1
<1>9. one \in 1..m /\ one - 1 = 0
  BY <1>5
<1>10. g[Q[one - 1]] = SubSeq(fs, one, m)
  BY <1>8, <1>9 DEF G
<1>11. g[3] = SubSeq(fs, 1, m)
  BY <1>6, <1>9, <1>10
<1>12. SubSeq(fs, 1, m) = fs
  BY <1>5, Whole DEF m
<1> QED
  BY <1>4, <1>11, <1>12, ConstantsKnown

(* A frame verifies at no index but the one it was sealed for. *)
LEMMA FrameIndex ==
  ASSUME NEW r \in Requests, NEW i \in 1..Len(Chunks(r)), NEW p \in Nat, NEW w, IsSequence(w),
         Len(w) >= 3, Len(r.nonce) >= NonceLen, FrameAt(r, p, i, w), NEW k \in Nat,
         ChunkVerifies(r.key, w, r.aad, p, k)
  PROVE  k = i - 1
<1> DEFINE salt == SubSeq(w, 1, NonceLen)
           fl == FlagsOf(r, i)
           ct == ChunkCt(r, i)
<1>1. /\ FrameFlags(w, p) = fl /\ FrameText(w, p) = ct
      /\ SubSeq(w, FrameEnd(w, p) - TagLen + 1, FrameEnd(w, p)) = TagOf(r, i)
  BY FrameRead
<1>2. ChunkTag(r.key, salt, k, fl, r.aad, ct) = ChunkTag(r.key, r.nonce, i - 1, fl, r.aad, ct)
  <2>1. ChunkTag(r.key, salt, k, FrameFlags(w, p), r.aad, FrameText(w, p))
          = SubSeq(w, FrameEnd(w, p) - TagLen + 1, FrameEnd(w, p))
    BY Zenon DEF ChunkVerifies
  <2> QED
    BY <1>1, <2>1, Zenon DEF TagOf
<1>3. ChunkInput(salt, k, fl, r.aad, ct) = ChunkInput(r.nonce, i - 1, fl, r.aad, ct)
  BY <1>2, PrfInputs, PrfInjective
<1>4. IsSequence(salt) /\ Len(salt) = 1
  <2>1. Len(w) \in Nat
    BY SequenceFacts
  <2>2. 1 \in Nat \ {0} /\ 1 \in Int /\ 1 <= Len(w)
    BY <2>1
  <2> DEFINE x == SubSeq(w, 1, 1)
  <2>3. IsSequence(x) /\ Len(x) = IF 1 <= 1 THEN 1 - 1 + 1 ELSE 0
    BY <2>2, Part
  <2>4. salt = x
    BY ConstantsKnown
  <2> HIDE DEF x, salt
  <2> QED
    BY <2>3, <2>4
<1>5. /\ r.nonce \in Seq(Cells) /\ IsSequence(r.nonce) /\ IsSequence(r.aad) /\ IsSequence(ct)
      /\ Len(r.nonce) >= 1
  BY RequestFacts, FrameFacts, ConstantsKnown
<1> HIDE DEF salt, fl, ct
<1> QED
  BY <1>3, <1>4, <1>5, ChunkInputSame

(* streaming.py counts the chunks and looks for the last one: of the       *)
(* frames of a stream, only all of them in their order open.               *)
LEMMA OnlyInOrder ==
  ASSUME NEW r \in Requests, ShortFrames(r), Len(r.nonce) >= NonceLen, garble \in Misreads,
         NEW fs, NEW sigma, FramesOf(r, fs, sigma), Len(fs) >= 1,
         NEW h, IsSequence(h), Len(h) = 3, NEW n,
         Len(fs) = Len(Chunks(r)) => \E j \in 1..Len(fs) : sigma[j] # j
  PROVE  OpenStream(r.key, Join(h, fs), r.aad, n) = Refused
<1> DEFINE w == Join(h, fs)
           m == Len(Chunks(r))
           N == Len(fs)
<1>1. IsSequence(w) /\ Len(w) >= 3 /\ \E Q : Laid(r, fs, sigma, w, Q)
  BY JoinLays
<1> HIDE DEF w
<1>2. PICK Q : Laid(r, fs, sigma, w, Q)
  BY <1>1
<1>3. Len(w) \in Nat /\ N \in Nat \ {0} /\ m \in Nat \ {0}
  BY <1>1, SequenceFacts, ChunksFacts DEF FramesOf
<1>4. /\ Q[0] = 3 /\ Q[N] = Len(w)
      /\ \A j \in 1..N : /\ Q[j - 1] \in Nat /\ Q[j - 1] < Q[j] /\ Q[j] <= Len(w)
                         /\ Q[j] = Q[j - 1] + 1 + Len(Frames(r)[sigma[j]])
                         /\ FrameAt(r, Q[j - 1], sigma[j], w)
                         /\ sigma[j] \in 1..m
  BY <1>2 DEF Laid, FramesOf
<1>5. PICK f : /\ PyLoop(r.key, w, r.aad, n, f)
               /\ OpenStream(r.key, w, r.aad, n) =
                    IF ~HeaderVerifies(r.key, w, r.aad) THEN Refused ELSE f[<<HeaderLen, 0>>]
  BY <1>3, PyOpens
<1> DEFINE G == {j \in 1..N : f[<<Q[j - 1], j - 1>>].ok => N = m /\ \A k \in j..N : sigma[k] = k}
<1>6. ASSUME NEW j \in 1..N, \A i \in j + 1..N : i \in G PROVE j \in G
  <2> DEFINE p == Q[j - 1]
             i == sigma[j]
             L == Len(w)
  <2> SUFFICES ASSUME f[<<p, j - 1>>].ok PROVE N = m /\ \A k \in j..N : sigma[k] = k
    OBVIOUS
  <2>1. /\ p \in Nat /\ p < Q[j] /\ Q[j] <= L /\ Q[j] = p + 1 + Len(Frames(r)[i])
        /\ FrameAt(r, p, i, w) /\ i \in 1..m /\ L \in Nat /\ L = Len(w) /\ Q[N] = L
        /\ j - 1 \in Nat /\ Len(Frames(r)[i]) \in Nat
    BY <1>3, <1>4, FramesSequence
  <2>2. p \in 0..L /\ p # L
    <3> DEFINE l == Len(Frames(r)[i])
               e == Q[j]
    <3>1. p \in Nat /\ L \in Nat /\ l \in Nat /\ e = p + 1 + l /\ e <= L
      BY <2>1
    <3> HIDE DEF l, e, p, L
    <3> QED
      BY <3>1
  <2>3. f[<<p, j - 1>>] = PyStep(r.key, w, r.aad, n, f, p, j - 1)
    <3> DEFINE at == <<p, j - 1>>
    <3>1. at \in (0..Len(w)) \X Nat /\ at[1] = p /\ at[2] = j - 1
      BY <2>1, <2>2
    <3> HIDE DEF at, p
    <3>2. f[at] = PyStep(r.key, w, r.aad, n, f, at[1], at[2])
      BY <1>5, <3>1 DEF PyLoop
    <3> QED
      BY <3>1, <3>2 DEF at
  <2>4. FrameEnd(w, p) = Q[j] /\ FrameFlags(w, p) = FlagsOf(r, i)
    <3>1. i \in 1..Len(Chunks(r)) /\ p \in Nat /\ FrameAt(r, p, i, w) /\ IsSequence(w)
      BY <1>1, <2>1
    <3>2. Q[j] = p + 1 + Len(Frames(r)[i])
      BY <2>1
    <3> HIDE DEF i, p
    <3>3. FrameEnd(w, p) = p + 1 + Len(Frames(r)[i]) /\ FrameFlags(w, p) = FlagsOf(r, i)
      BY <3>1, FrameRead
    <3> QED
      BY <3>2, <3>3
  <2>5. f[<<p, j - 1>>] =
          IF ~ChunkVerifies(r.key, w, r.aad, p, j - 1) THEN Refused
          ELSE IF FlagsOf(r, i) = FINAL
          THEN IF Q[j] # Len(w) THEN Refused ELSE Ok(ChunkPlain(r.key, w, n, p, j - 1))
          ELSE IF f[<<Q[j], j - 1 + 1>>].ok
               THEN Ok(ChunkPlain(r.key, w, n, p, j - 1) \o f[<<Q[j], j - 1 + 1>>].out)
               ELSE Refused
    BY <2>2, <2>3, <2>4, Zenon DEF PyStep
  <2>6. ~Refused.ok /\ j - 1 + 1 = j
    BY DEF Refused
  <2> HIDE DEF p, i
  <2>7. /\ ChunkVerifies(r.key, w, r.aad, p, j - 1)
        /\ FlagsOf(r, i) = FINAL => Q[j] = L
        /\ FlagsOf(r, i) # FINAL => f[<<Q[j], j>>].ok
    BY <2>5, <2>6, <2>1, Zenon
  <2>8. j = i
    <3>1. j - 1 = i - 1
      BY <1>1, <2>1, <2>7, FrameIndex
    <3> QED
      BY <2>1, <3>1
  <2>9. sigma[j] = j
    BY <2>8 DEF i
  <2>10. (FlagsOf(r, i) = FINAL) <=> j = m
    <3>1. <<"flags", 0>> # <<"flags", 1>>
      OBVIOUS
    <3>2. FINAL # MORE
      BY <3>1 DEF FINAL, MORE
    <3> QED
      BY <2>8, <3>2 DEF FlagsOf
  <2> HIDE DEF L, m
  <2>11. CASE j = N
    <3>1. FlagsOf(r, i) = FINAL
      <4> SUFFICES ASSUME FlagsOf(r, i) # FINAL PROVE FALSE
        OBVIOUS
      <4>1. f[<<L, j>>].ok
        BY <2>1, <2>7, <2>11
      <4>2. f[<<L, j>>] = PyStep(r.key, w, r.aad, n, f, L, j)
        <5> DEFINE at == <<L, j>>
        <5>1. at \in (0..Len(w)) \X Nat /\ at[1] = L /\ at[2] = j
          BY <1>3, <2>1
        <5> HIDE DEF at
        <5>2. f[at] = PyStep(r.key, w, r.aad, n, f, at[1], at[2])
          BY <1>5, <5>1 DEF PyLoop
        <5> QED
          BY <5>1, <5>2 DEF at
      <4>3. f[<<L, j>>] = Refused
        BY <2>1, <4>2, Zenon DEF PyStep
      <4> QED
        BY <2>6, <4>1, <4>3
    <3>2. j = m
      BY <2>10, <3>1
    <3>3. \A k \in j..N : k = j
      BY <1>3, <2>11
    <3> QED
      BY <2>9, <2>11, <3>2, <3>3
  <2>12. CASE j # N
    <3> DEFINE q == j + 1
    <3>1. q \in 1..N /\ q \in j + 1..N /\ q - 1 = j
      BY <1>3, <2>12
    <3> HIDE DEF q
    <3>2. Q[q - 1] < Q[q] /\ Q[q] <= L /\ Q[q - 1] \in Nat /\ Q[q] = Q[q - 1] + 1 + Len(Frames(r)[sigma[q]])
          /\ Len(Frames(r)[sigma[q]]) \in Nat
      BY <1>4, <2>1, <3>1, FramesSequence DEF m
    <3>3. Q[j] # L
      <4> DEFINE a == Q[q - 1]
                 b == Q[q]
                 l == Len(Frames(r)[sigma[q]])
      <4>1. a \in Nat /\ l \in Nat /\ b = a + 1 + l /\ b <= L /\ L \in Nat
        BY <2>1, <3>2
      <4> HIDE DEF a, b, l
      <4>2. a # L
        BY <4>1
      <4> QED
        BY <3>1, <4>2 DEF a
    <3>4. f[<<Q[q - 1], q - 1>>].ok
      BY <2>7, <3>1, <3>3
    <3>5. N = m /\ \A k \in q..N : sigma[k] = k
      <4>1. q \in G
        BY <1>6, <3>1
      <4> QED
        BY <3>4, <4>1
    <3>6. \A k \in j..N : k = j \/ k \in q..N
      BY <1>3 DEF q
    <3> QED
      BY <2>9, <3>5, <3>6
  <2> QED
    BY <2>11, <2>12
<1> HIDE DEF G, N, m
<1>7. \A j \in 1..N : j \in G
  BY <1>3, <1>6, DownInduction
<1> DEFINE one == 1
<1>8. one \in 1..N /\ one - 1 = 0
  BY <1>3
<1> HIDE DEF one
<1>9. f[<<Q[one - 1], one - 1>>].ok => N = m /\ \A k \in one..N : sigma[k] = k
  BY <1>7, <1>8 DEF G
<1>10. ~(N = m /\ \A k \in one..N : sigma[k] = k)
  BY DEF N, m, one
<1>11. ~f[<<HeaderLen, 0>>].ok
  BY <1>4, <1>8, <1>9, <1>10, ConstantsKnown
<1>12. ~OpenStream(r.key, w, r.aad, n).ok
  <2>1. ~Refused.ok
    BY DEF Refused
  <2> QED
    BY <1>5, <1>11, <2>1, Zenon
<1> QED
  BY <1>3, <1>12, AcceptedOnly DEF w

(* Frames of a stream, in whatever order and number. *)
Drawn(r, fs) == IsSequence(fs) /\ Range(fs) \subseteq Range(Frames(r))

LEMMA DrawnPart ==
  ASSUME NEW r, NEW fs, Drawn(r, fs), NEW m \in Nat \ {0}, NEW n \in Int, n <= Len(fs)
  PROVE  Drawn(r, SubSeq(fs, m, n)) /\ Len(SubSeq(fs, m, n)) = IF m <= n THEN n - m + 1 ELSE 0
<1>1. /\ IsSequence(SubSeq(fs, m, n)) /\ Range(SubSeq(fs, m, n)) \subseteq Range(fs)
      /\ Len(SubSeq(fs, m, n)) = IF m <= n THEN n - m + 1 ELSE 0
  BY Part DEF Drawn
<1> QED
  BY <1>1 DEF Drawn

LEMMA DrawnJoined ==
  ASSUME NEW r, NEW x, NEW y, Drawn(r, x), Drawn(r, y)
  PROVE  Drawn(r, x \o y) /\ Len(x \o y) = Len(x) + Len(y)
<1> DEFINE z == x \o y
<1>1. IsSequence(x) /\ IsSequence(y)
  BY DEF Drawn
<1>2. IsSequence(z) /\ Range(z) = Range(x) \cup Range(y) /\ Len(z) = Len(x) + Len(y)
  BY ONLY <1>1, Joined
<1> HIDE DEF z
<1>3. Drawn(r, z)
  BY <1>2 DEF Drawn
<1> QED
  BY <1>2, <1>3 DEF z

LEMMA DrawnOne ==
  ASSUME NEW r, NEW f \in Range(Frames(r))
  PROVE  Drawn(r, <<f>>) /\ Len(<<f>>) = 1
<1>1. IsSequence(<<f>>) /\ Len(<<f>>) = 1 /\ Range(<<f>>) = {f}
  BY One
<1> QED
  BY <1>1 DEF Drawn

(* What is drawn from the frames of a stream and has not their number, or  *)
(* begins with the second, is refused.                                     *)
LEMMA DrawnRefused ==
  ASSUME NEW r \in Requests, ShortFrames(r), Len(r.nonce) >= NonceLen, garble \in Misreads,
         NEW fs, Drawn(r, fs), Len(fs) >= 1,
         NEW h, IsSequence(h), Len(h) = 3, NEW n,
         \/ Len(fs) # Len(Chunks(r))
         \/ Len(Chunks(r)) >= 2 /\ fs[1] = Frames(r)[2]
  PROVE  OpenStream(r.key, Join(h, fs), r.aad, n) = Refused
<1> DEFINE m == Len(Chunks(r))
           N == Len(fs)
           fr == Frames(r)
           Pick(j) == CHOOSE i \in 1..m : fs[j] = fr[i]
           sigma == [j \in 1..N |-> IF j = 1 /\ m >= 2 /\ fs[1] = fr[2] THEN 2 ELSE Pick(j)]
<1>1. N \in Nat /\ m \in Nat \ {0} /\ IsSequence(fr) /\ Len(fr) = m
  BY FramesSequence, SequenceFacts DEF Drawn
<1>2. \A j \in 1..N : \E i \in 1..m : fs[j] = fr[i]
  <2> SUFFICES ASSUME NEW j \in 1..N PROVE \E i \in 1..m : fs[j] = fr[i]
    OBVIOUS
  <2>1. fs[j] \in Range(fs)
    BY SequenceFacts DEF Drawn
  <2>2. fs[j] \in Range(fr)
    BY <2>1 DEF Drawn
  <2>3. Range(fr) = {fr[i] : i \in 1..Len(fr)}
    BY <1>1, SequenceFacts
  <2> HIDE DEF fr, m
  <2> QED
    BY <1>1, <2>2, <2>3
<1> HIDE DEF fr, m, N
<1>3. \A j \in 1..N : Pick(j) \in 1..m /\ fs[j] = fr[Pick(j)]
  BY <1>2
<1> HIDE DEF Pick
<1>4. \A j \in 1..N : sigma[j] \in 1..m /\ fs[j] = fr[sigma[j]]
  BY <1>1, <1>3
<1>5. N = m => 1 \in 1..N /\ sigma[1] # 1
  BY <1>1 DEF N, m, fr
<1> HIDE DEF sigma
<1>6. FramesOf(r, fs, sigma)
  BY <1>4 DEF FramesOf, Drawn, fr, m, N
<1>7. Len(fs) = Len(Chunks(r)) => \E j \in 1..Len(fs) : sigma[j] # j
  BY <1>5 DEF N, m
<1>8. ASSUME NEW t, NEW u, FramesOf(r, t, u), Len(t) >= 1,
             Len(t) = Len(Chunks(r)) => \E j \in 1..Len(t) : u[j] # j
      PROVE  OpenStream(r.key, Join(h, t), r.aad, n) = Refused
  BY ONLY r \in Requests, ShortFrames(r), Len(r.nonce) >= NonceLen, garble \in Misreads,
          IsSequence(h), Len(h) = 3, <1>8, OnlyInOrder, Zenon
<1>9. Len(fs) >= 1
  OBVIOUS
<1> QED
  BY ONLY <1>6, <1>7, <1>8, <1>9, Zenon

LEMMA ChunkTellsText ==
  ASSUME NEW k, NEW h \in Seq(Cells), NEW i, NEW f, NEW a, NEW t, NEW u,
         IsSequence(h), Len(h) = 1, IsSequence(a), IsSequence(t), IsSequence(u),
         ChunkTag(k, h, i, f, a, t) = ChunkTag(k, h, i, f, a, u)
  PROVE  t = u
<1>1. ChunkInput(h, i, f, a, t) = ChunkInput(h, i, f, a, u)
  BY PrfInputs, PrfInjective
<1>2. Len(h) >= 1
  OBVIOUS
<1> QED
  BY <1>1, <1>2, ChunkInputSame

(* The second cell of the first frame is part of its ciphertext or, of an  *)
(* empty chunk, of its tag.                                                *)
LEMMA FirstChunkAltered ==
  ASSUME NEW r \in Requests, ShortFrames(r), Len(r.nonce) = NonceLen, garble \in Misreads,
         NEW b, b = StreamBlob(r), NEW n
  PROVE  OpenStream(r.key, FlipAt(b, HeaderLen + LenBytes + 2), r.aad, n) = Refused
<1> DEFINE L == Len(b)
           w == FlipAt(b, 6)
           pos == 3
           one == 1
           l == Len(Frames(r)[one])
           end == 4 + l
           salt == SubSeq(b, 1, 1)
           ct == ChunkCt(r, one)
           tag == TagOf(r, one)
<1>1. /\ IsSequence(b) /\ L \in Nat /\ L = Len(b)
      /\ \E Q : Laid(r, Frames(r), [j \in 1..Len(Frames(r)) |-> j], b, Q)
  <2>1. Len(r.nonce) >= NonceLen
    BY ConstantsKnown
  <2> QED
    BY <2>1, StreamIsLaid, SequenceFacts
<1>2. PICK Q : Laid(r, Frames(r), [j \in 1..Len(Frames(r)) |-> j], b, Q)
  BY <1>1
<1>3. one \in 1..Len(Chunks(r)) /\ one - 1 = 0 /\ one \in 1..Len(Frames(r))
  BY FramesSequence
<1>4. FrameAt(r, pos, one, b)
  <2> HIDE DEF one
  <2>1. Q[0] = 3 /\ FrameAt(r, Q[one - 1], one, b)
    BY <1>2, <1>3 DEF Laid
  <2> QED
    BY <1>3, <2>1
<1> HIDE DEF one
<1>5. /\ NumberAt(b[pos + 1]) = l /\ FrameEnd(b, pos) = pos + 1 + l
      /\ FrameFlags(b, pos) = FlagsOf(r, one) /\ FrameText(b, pos) = ct
      /\ SubSeq(b, FrameEnd(b, pos) - TagLen + 1, FrameEnd(b, pos)) = tag
  BY <1>1, <1>3, <1>4, FrameRead
<1>6. l \in Nat /\ l >= 3
  <2>1. l = 3 + Len(Chunks(r)[one]) /\ Len(Chunks(r)[one]) \in Nat
    BY <1>3, FrameFacts, ChunksFacts, SequenceFacts
  <2> QED
    BY <2>1
<1>7. end <= L
  BY <1>4, <1>6 DEF FrameAt
<1>8. SubSeq(b, 1, 1) = r.nonce
  <2>1. IsSequence(r.nonce) /\ Len(r.nonce) = 1 /\ Len(r.nonce) >= NonceLen
    BY RequestFacts, ConstantsKnown
  <2>2. SubSeq(b, 1, 1) = SubSeq(r.nonce, 1, 1)
    BY <2>1, StreamBlobFacts
  <2> QED
    BY <2>1, <2>2, Whole
<1>9. Altered(w, b, 6)
  <2>1. 6 \in 1..Len(b)
    BY <1>1, <1>6, <1>7
  <2> QED
    BY <1>1, <2>1, FlippedAt
<1> HIDE DEF w, L
<1>10. /\ IsSequence(w) /\ Len(w) = L /\ w[6] # b[6] /\ w[4] = b[4] /\ w[5] = b[5]
  <2>1. 4 \in 1..Len(b) /\ 5 \in 1..Len(b) /\ 4 # 6 /\ 5 # 6
    BY <1>1, <1>6, <1>7
  <2> QED
    BY <1>1, <1>9, <2>1 DEF Altered
<1> HIDE DEF l, ct, tag
<1>11. /\ FrameEnd(w, pos) = end /\ FrameFlags(w, pos) = FlagsOf(r, one)
       /\ FrameEnd(b, pos) = end /\ end - TagLen = end - 2 /\ end - TagLen + 1 = end - 1
  <2>1. pos + 1 = 4 /\ pos + LenBytes + 1 = 5 /\ pos + 1 + l = end /\ pos + LenBytes + l = end
    BY <1>6, ConstantsKnown
  <2>2. NumberAt(w[pos + 1]) = l
    BY <1>5, <1>10, <2>1
  <2>3. FrameFlags(w, pos) = FrameFlags(b, pos)
    BY <1>10, <2>1 DEF FrameFlags
  <2>4. FrameEnd(w, pos) = end
    BY <2>1, <2>2 DEF FrameEnd
  <2>5. FrameEnd(b, pos) = end
    BY <1>5, <2>1
  <2> QED
    BY <1>5, <1>6, <2>3, <2>4, <2>5, ConstantsKnown
<1> DEFINE e2 == end - 2
           e1 == end - 1
<1>e. e2 \in Int /\ e1 \in Nat \ {0} /\ end \in Int /\ e2 >= 5 /\ e1 = e2 + 1 /\ end = e1 + 1
  BY <1>6
<1>12. /\ FrameText(w, pos) = SubSeq(w, 6, e2) /\ FrameText(b, pos) = SubSeq(b, 6, e2)
       /\ SubSeq(b, e1, end) = tag
  <2>1. pos + LenBytes + 2 = 6
    BY ConstantsKnown
  <2> HIDE DEF pos
  <2> QED
    BY <1>5, <1>11, <2>1 DEF FrameText
<1>13. SubSeq(w, 1, NonceLen) = r.nonce
  <2> DEFINE a == 1
             c == 6
  <2>1. /\ a \in Nat \ {0} /\ a \in Int /\ a <= Len(b) /\ c > a /\ c \in 1..Len(b)
        /\ Altered(w, b, c)
    BY <1>1, <1>6, <1>7, <1>9
  <2> HIDE DEF a, c
  <2>4. \A u \in Nat \ {0}, v \in Int : v <= Len(b) /\ c > v => SubSeq(w, u, v) = SubSeq(b, u, v)
    BY <1>1, <2>1, AlteredPart
  <2>3. SubSeq(w, a, a) = SubSeq(b, a, a)
    BY <2>1, <2>4
  <2>2. SubSeq(w, 1, 1) = SubSeq(b, 1, 1)
    BY <2>3 DEF a
  <2> QED
    BY <1>8, <2>2, ConstantsKnown
<1> HIDE DEF end
<1>14. ~ChunkVerifies(r.key, w, r.aad, pos, 0)
  <2> SUFFICES ASSUME ChunkVerifies(r.key, w, r.aad, pos, 0) PROVE FALSE
    OBVIOUS
  <2> DEFINE text == SubSeq(w, 6, e2)
             fl == FlagsOf(r, one)
  <2> HIDE DEF pos, e1, e2
  <2>0. 6 \in 1..Len(b) /\ 6 \in Nat \ {0} /\ e2 <= Len(b) /\ end <= Len(b) /\ e2 <= Len(w) /\ end <= Len(w)
    BY <1>1, <1>e, <1>7, <1>10
  <2>1. ChunkTag(r.key, r.nonce, 0, fl, r.aad, text) = SubSeq(w, e1, end)
    <3>1. ChunkTag(r.key, SubSeq(w, 1, NonceLen), 0, FrameFlags(w, pos), r.aad, FrameText(w, pos))
            = SubSeq(w, FrameEnd(w, pos) - TagLen + 1, FrameEnd(w, pos))
      BY Zenon DEF ChunkVerifies
    <3>2. FrameEnd(w, pos) - TagLen + 1 = e1
      BY <1>11 DEF e1
    <3> QED
      BY <1>11, <1>12, <1>13, <3>1, <3>2
  <2>2. tag = ChunkTag(r.key, r.nonce, 0, fl, r.aad, ct)
    BY <1>3 DEF tag, ct, TagOf
  <2>3. IsSequence(text) /\ IsSequence(ct)
    <3>1. IsSequence(text)
      BY <1>10, <1>e, <2>0, Part
    <3>2. IsSequence(ct)
      BY <1>3, FrameFacts DEF ct
    <3> QED
      BY <3>1, <3>2
  <2>4. CASE e2 >= 6
    <3>1. SubSeq(w, e1, end) = SubSeq(b, e1, end)
      <4>1. 6 < e1
        BY <1>e, <2>4
      <4> QED
        BY <1>1, <1>9, <1>e, <2>0, <4>1, AlteredPart
    <3>2. ChunkTag(r.key, r.nonce, 0, fl, r.aad, text) = ChunkTag(r.key, r.nonce, 0, fl, r.aad, ct)
      BY <1>12, <2>1, <2>2, <3>1
    <3>4. /\ r.nonce \in Seq(Cells) /\ IsSequence(r.nonce) /\ IsSequence(r.aad)
          /\ Len(r.nonce) = 1
      BY RequestFacts, ConstantsKnown
    <3>5. text[1] = w[6] /\ SubSeq(b, 6, e2)[1] = b[6]
      BY <1>1, <1>10, <1>e, <2>0, <2>4, FirstOfPart
    <3> HIDE DEF text, fl
    <3>6. text = ct
      BY <2>3, <3>2, <3>4, ChunkTellsText
    <3> QED
      BY <1>5, <1>10, <1>12, <3>5, <3>6
  <2>5. CASE ~(e2 >= 6)
    <3>1. e2 < 6 /\ e1 = 6
      BY <1>e, <2>5
    <3>2. text = ct
      <4>1. text = SubSeq(b, 6, e2)
        BY <1>1, <1>9, <1>e, <2>0, <3>1, AlteredPart
      <4> QED
        BY <1>5, <1>12, <4>1
    <3>3. SubSeq(w, e1, end) = SubSeq(b, e1, end)
      BY <1>12, <2>1, <2>2, <3>2
    <3>4. e1 <= end
      BY <1>e
    <3>5. SubSeq(w, e1, end)[1] = w[e1] /\ SubSeq(b, e1, end)[1] = b[e1]
      BY <1>1, <1>10, <1>e, <2>0, <3>4, FirstOfPart
    <3> QED
      BY <1>10, <3>1, <3>3, <3>5
  <2> QED
    BY <2>4, <2>5
<1>15. Len(w) \in Nat
  BY <1>1, <1>10
<1>16. PICK f : /\ PyLoop(r.key, w, r.aad, n, f)
                /\ OpenStream(r.key, w, r.aad, n) =
                     IF ~HeaderVerifies(r.key, w, r.aad) THEN Refused ELSE f[<<HeaderLen, 0>>]
  BY <1>15, PyOpens
<1>17. f[<<pos, 0>>] = Refused
  <2> DEFINE at == <<pos, 0>>
  <2>1. at \in (0..Len(w)) \X Nat /\ at[1] = pos /\ at[2] = 0
    BY <1>1, <1>10, <1>e, <1>7
  <2> HIDE DEF at, pos
  <2>2. f[at] = PyStep(r.key, w, r.aad, n, f, at[1], at[2])
    BY <1>16, <2>1 DEF PyLoop
  <2>3. f[at] = Refused
    BY <1>14, <2>1, <2>2, Zenon DEF PyStep
  <2> QED
    BY <2>3 DEF at
<1>18. HeaderLen = pos /\ HeaderLen + LenBytes + 2 = 6
  BY ConstantsKnown
<1> QED
  BY <1>16, <1>17, <1>18, Zenon DEF w

(* The four re-framings of a stream of three frames or more. *)
LEMMA ReframedAre ==
  ASSUME NEW r \in Requests, NEW f, f = Frames(r), Len(f) >= 3
  PROVE  /\ Drawn(r, <<f[2], f[1]>> \o SubSeq(f, 3, Len(f)))
         /\ Len(<<f[2], f[1]>> \o SubSeq(f, 3, Len(f))) >= 1
         /\ (<<f[2], f[1]>> \o SubSeq(f, 3, Len(f)))[1] = f[2]
         /\ Drawn(r, RemoveAt(f, 2)) /\ Len(RemoveAt(f, 2)) = Len(f) - 1
         /\ Drawn(r, InsertAt(f, 3, f[2])) /\ Len(InsertAt(f, 3, f[2])) = Len(f) + 1
         /\ Drawn(r, Front(f)) /\ Len(Front(f)) = Len(f) - 1
<1> DEFINE m == Len(f)
<1>1. IsSequence(f) /\ m \in Nat /\ m >= 3 /\ m = Len(f)
  BY FramesSequence, SequenceFacts
<1>2. Drawn(r, f)
  BY <1>1 DEF Drawn
<1>3. f[1] \in Range(Frames(r)) /\ f[2] \in Range(Frames(r))
  <2>1. 1 \in 1..Len(f) /\ 2 \in 1..Len(f)
    BY <1>1
  <2> QED
    BY <1>1, <2>1, SequenceFacts
<1> HIDE DEF m
<1> DEFINE head == <<f[2], f[1]>>
           tail == SubSeq(f, 3, m)
           first == SubSeq(f, 1, 1)
           two == SubSeq(f, 1, 2)
           o == <<f[2]>>
           front == SubSeq(f, 1, m - 1)
<1>4. Drawn(r, head) /\ Len(head) = 2 /\ head[1] = f[2]
  <2> DEFINE S == Range(Frames(r))
             a == f[2]
             b == f[1]
  <2>1. a \in S /\ b \in S
    BY <1>3
  <2>2. <<a, b>> \in Seq({a, b})
    OBVIOUS
  <2>3. IsSequence(<<a, b>>) /\ Len(<<a, b>>) = 2 /\ <<a, b>>[1] = a /\ <<a, b>>[2] = b
    BY <2>2, InSeq
  <2> HIDE DEF S, a, b
  <2>4. Range(<<a, b>>) \subseteq S
    BY <2>1, <2>3, SequenceFacts
  <2> QED
    BY <2>3, <2>4 DEF Drawn, S, a, b
<1>5. Drawn(r, tail) /\ Len(tail) = m - 2
  <2>1. 3 \in Nat \ {0} /\ m \in Int /\ m <= Len(f) /\ 3 <= m /\ m - 3 + 1 = m - 2
    BY <1>1
  <2> QED
    BY <1>2, <2>1, DrawnPart
<1>6. Drawn(r, two) /\ Len(two) = 2
  <2>1. 1 \in Nat \ {0} /\ 2 \in Int /\ 2 <= Len(f)
    BY <1>1
  <2> QED
    BY <1>2, <2>1, DrawnPart
<1>7. Drawn(r, front) /\ Len(front) = m - 1
  <2>1. 1 \in Nat \ {0} /\ m - 1 \in Int /\ m - 1 <= Len(f) /\ 1 <= m - 1 /\ m - 1 - 1 + 1 = m - 1
    BY <1>1
  <2> QED
    BY <1>2, <2>1, DrawnPart
<1>8. Drawn(r, o) /\ Len(o) = 1
  BY <1>3, DrawnOne
<1>9. Drawn(r, first) /\ Len(first) = 1
  <2> DEFINE a == 1
  <2>1. a \in Nat \ {0} /\ a \in Int /\ a <= Len(f) /\ a = 1
    BY <1>1
  <2> HIDE DEF a
  <2>2. \A u \in Nat \ {0}, v \in Int :
          v <= Len(f) =>
            Drawn(r, SubSeq(f, u, v)) /\ Len(SubSeq(f, u, v)) = IF u <= v THEN v - u + 1 ELSE 0
    BY <1>2, DrawnPart
  <2> HIDE DEF first
  <2>3. Drawn(r, SubSeq(f, a, a)) /\ Len(SubSeq(f, a, a)) = IF a <= a THEN a - a + 1 ELSE 0
    BY <2>1, <2>2
  <2>4. first = SubSeq(f, a, a)
    BY <2>1 DEF first
  <2> QED
    BY <2>1, <2>3, <2>4
<1>10. RemoveAt(f, 2) = first \o tail
  <2>1. 2 - 1 = 1 /\ 2 + 1 = 3
    OBVIOUS
  <2> QED
    BY <2>1, Zenon DEF RemoveAt, m
<1>11. InsertAt(f, 3, f[2]) = two \o o \o tail
  <2>1. 3 - 1 = 2
    OBVIOUS
  <2> QED
    BY <2>1, Zenon DEF InsertAt, m
<1>12. Front(f) = front
  BY Zenon DEF Front, m
<1> HIDE DEF head, tail, first, two, o, front
<1>13. Drawn(r, first \o tail) /\ Len(first \o tail) = m - 1
  <2>1. Drawn(r, first \o tail) /\ Len(first \o tail) = Len(first) + Len(tail)
    BY ONLY <1>5, <1>9, DrawnJoined, Zenon
  <2> DEFINE z == first \o tail
  <2> HIDE DEF z
  <2> QED
    BY <1>1, <1>5, <1>9, <2>1 DEF z
<1>14. Drawn(r, two \o o \o tail) /\ Len(two \o o \o tail) = m + 1
  <2> DEFINE y == two \o o
             z == y \o tail
  <2>1. Drawn(r, y) /\ Len(y) = Len(two) + Len(o)
    BY ONLY <1>6, <1>8, DrawnJoined, Zenon
  <2> HIDE DEF y
  <2>2. Drawn(r, z) /\ Len(z) = Len(y) + Len(tail)
    BY ONLY <1>5, <2>1, DrawnJoined, Zenon
  <2> HIDE DEF z
  <2>3. Len(z) = m + 1
    BY <1>1, <1>5, <1>6, <1>8, <2>1, <2>2
  <2> QED
    BY <2>2, <2>3 DEF z, y
<1>15. Drawn(r, head \o tail) /\ Len(head \o tail) >= 1 /\ (head \o tail)[1] = f[2]
  <2> DEFINE z == head \o tail
  <2>1. IsSequence(head) /\ IsSequence(tail)
    BY <1>4, <1>5 DEF Drawn
  <2>2. Len(z) = Len(head) + Len(tail) /\ \A i \in 1..Len(head) : z[i] = head[i]
    BY ONLY <2>1, Joined
  <2>3. Drawn(r, z)
    BY ONLY <1>4, <1>5, DrawnJoined, Zenon
  <2> HIDE DEF z
  <2>4. Len(z) >= 1 /\ z[1] = f[2]
    BY <1>1, <1>4, <1>5, <2>2
  <2> QED
    BY <2>3, <2>4 DEF z
<1> QED
  BY <1>7, <1>10, <1>11, <1>12, <1>13, <1>14, <1>15 DEF head, tail, m

(* streaming_attack.py on any sealed stream. *)
LEMMA ManipulationsPass ==
  ASSUME NEW s, Genuine(s), s.r.fmt = "stream", WellFormed(s.r), garble \in Misreads
  PROVE  StreamManipulations(s)
<1> DEFINE r == s.r
           w == s.blob
           n == s.n
           f == Split(w)
           h == SubSeq(w, 1, HeaderLen)
<1>1. r \in Requests /\ n = r.n /\ w = StreamBlob(r) /\ Len(r.nonce) = NonceLen /\ r.fmt = "stream"
  BY DEF Genuine, WellFormed
<1>2. Len(r.nonce) >= NonceLen
  BY <1>1, ConstantsKnown
<1>3. ShortFrames(r)
  BY <1>1, FramesDomain DEF WellFormed, ShortFrames
<1>4. f = Frames(r) /\ Len(f) = Len(Chunks(r)) /\ Len(f) \in Nat
  BY <1>1, <1>2, <1>3, SplitFrames, FramesSequence
<1>5. IsSequence(h) /\ Len(h) = 3
  BY <1>1, <1>2, <1>3, StreamIsLaid
<1>6. OpenStream(r.key, w, r.aad, n) = Ok(FlattenSeq(r.chunks))
  <2>1. OpenStream(r.key, w, r.aad, n) = Ok(Plaintext(r))
    BY <1>1, StreamOpens
  <2> QED
    BY <1>1, <2>1 DEF Plaintext
<1>7. OpenStream(r.key, FlipAt(w, HeaderLen + LenBytes + 2), r.aad, n) = Refused
  BY <1>1, <1>3, FirstChunkAltered
<1> HIDE DEF r, w, n, f, h
<1>8. ASSUME Len(f) >= 3
      PROVE  /\ OpenStream(r.key, Join(h, <<f[2], f[1]>> \o SubSeq(f, 3, Len(f))), r.aad, n) = Refused
             /\ OpenStream(r.key, Join(h, RemoveAt(f, 2)), r.aad, n) = Refused
             /\ OpenStream(r.key, Join(h, InsertAt(f, 3, f[2])), r.aad, n) = Refused
             /\ OpenStream(r.key, Join(h, Front(f)), r.aad, n) = Refused
  <2> DEFINE swap == <<f[2], f[1]>> \o SubSeq(f, 3, Len(f))
             del  == RemoveAt(f, 2)
             dup  == InsertAt(f, 3, f[2])
             trunc == Front(f)
  <2>1. /\ Drawn(r, swap) /\ Len(swap) >= 1 /\ swap[1] = f[2]
        /\ Drawn(r, del) /\ Len(del) = Len(f) - 1
        /\ Drawn(r, dup) /\ Len(dup) = Len(f) + 1
        /\ Drawn(r, trunc) /\ Len(trunc) = Len(f) - 1
    BY <1>1, <1>4, <1>8, ReframedAre
  <2> HIDE DEF swap, del, dup, trunc
  <2>2. \A fs : /\ Drawn(r, fs) /\ Len(fs) >= 1
                /\ \/ Len(fs) # Len(Chunks(r))
                   \/ Len(Chunks(r)) >= 2 /\ fs[1] = Frames(r)[2]
                => OpenStream(r.key, Join(h, fs), r.aad, n) = Refused
    BY <1>1, <1>2, <1>3, <1>5, DrawnRefused
  <2>3. Len(Chunks(r)) \in Nat /\ Len(Chunks(r)) >= 3 /\ Len(Chunks(r)) = Len(f)
    BY <1>4, <1>8
  <2>4. OpenStream(r.key, Join(h, swap), r.aad, n) = Refused
    BY <1>4, <2>1, <2>2, <2>3
  <2>5. OpenStream(r.key, Join(h, del), r.aad, n) = Refused
    BY <2>1, <2>2, <2>3
  <2>6. OpenStream(r.key, Join(h, dup), r.aad, n) = Refused
    BY <2>1, <2>2, <2>3
  <2>7. OpenStream(r.key, Join(h, trunc), r.aad, n) = Refused
    BY <2>1, <2>2, <2>3
  <2> QED
    BY <2>4, <2>5, <2>6, <2>7 DEF swap, del, dup, trunc
<1> QED
  BY <1>6, <1>7, <1>8, RefusedIsRejected, Zenon DEF StreamManipulations, r, w, n, f, h

(***************************************************************************)
(* The scripts that exercise the one-shot shells come to their verdict on  *)
(* every well-formed blob that was sealed and with every other key, not    *)
(* only on the message, key and data each has built in: the                *)
(* demonstrations of aead.py, siv.py and twolock.py, streaming_attack.py,  *)
(* part 1 of commitment_attack.py and the parts of twolock_attack.py that  *)
(* hold an outer key or none.                                              *)
(***************************************************************************)
THEOREM ScriptsHold == Spec => []ScriptsPass
<1>1. Inv => ScriptsPass
  <2> SUFFICES ASSUME Inv, NEW s \in sealed, WellFormed(s.r), NEW wrong \in Keys, wrong # s.r.key
               PROVE  /\ s.r.fmt = "aead" => AeadDemo(s, wrong) /\ CommitmentFunctional(s.r, s.n)
                      /\ s.r.fmt = "siv"  => SivDemo(s, wrong)
                      /\ s.r.fmt = "stream" => StreamManipulations(s)
                      /\ s.r.fmt = "twolock" /\ s.n = DefaultMaps =>
                           /\ TwolockDemo(s, wrong) /\ ChaosFullyBroken(s)
                           /\ InnerLockIsReal(s) /\ OrdinaryAttacker(s, wrong)
    BY DEF ScriptsPass
  <2>1. Genuine(s) /\ garble \in Misreads
    BY DEF Inv, SealedInv, CountInv
  <2>2. s.r.fmt = "aead" => AeadDemo(s, wrong) /\ CommitmentFunctional(s.r, s.n)
    BY <2>1, AeadDemoPasses, CommitmentPasses
  <2>3. s.r.fmt = "siv"  => SivDemo(s, wrong)
    BY <2>1, SivDemoPasses
  <2>4. s.r.fmt = "stream" => StreamManipulations(s)
    BY <2>1, ManipulationsPass
  <2>5. s.r.fmt = "twolock" /\ s.n = DefaultMaps =>
          /\ TwolockDemo(s, wrong) /\ ChaosFullyBroken(s)
          /\ InnerLockIsReal(s) /\ OrdinaryAttacker(s, wrong)
    BY <2>1, TwolockDemoPasses, ChaosPasses, InnerLockPasses, OrdinaryPasses
  <2> QED
    BY <2>2, <2>3, <2>4, <2>5
<1> QED
  BY <1>1, Invariance, PTL
=============================================================================
