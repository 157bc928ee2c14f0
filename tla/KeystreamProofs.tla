-------------------------- MODULE KeystreamProofs --------------------------
(***************************************************************************)
(* Proofs about the two keystreams that stand on the engine.               *)
(*                                                                         *)
(* MultiMap and KeySchedule: for every number of maps and of bytes, of     *)
(* output bytes per step, and for all keys and nonces.                     *)
(*                                                                         *)
(* RatchetKeystream: for any number of holders of either port, every epoch *)
(* length and every number of epochs.  The inductive invariant: an engine  *)
(* is determined by the epoch it emits and the bytes used of it, and these *)
(* two say how far its output reached; a checkpoint is determined by the   *)
(* epoch it was taken in.                                                  *)
(***************************************************************************)
EXTENDS MultiMap, RatchetKeystream, SequenceTheorems, TLAPS

(* Quotient and remainder, and that nothing else is.                       *)
LEMMA DivMod ==
  ASSUME NEW a \in Int, NEW d \in Nat \ {0}
  PROVE  /\ a \div d \in Int /\ a % d \in 0 .. d - 1
         /\ a = (a \div d) * d + (a % d)
<1>1. a \div d \in Int
  OBVIOUS
<1>2. a % d \in 0 .. d - 1
  OBVIOUS
<1>3. a = (a \div d) * d + (a % d)
  OBVIOUS
<1> QED
  BY <1>1, <1>2, <1>3

LEMMA QuotientUnique ==
  ASSUME NEW d \in Nat \ {0}, NEW q \in Int, NEW e \in Int,
         NEW r \in 0 .. d - 1, NEW s \in 0 .. d - 1, q * d + r = e * d + s
  PROVE  q = e /\ r = s
<1>1. ~(q < e)
  <2> SUFFICES ASSUME q + 1 <= e PROVE FALSE
    OBVIOUS
  <2>1. (q + 1) * d <= e * d
    OBVIOUS
  <2> QED
    BY <2>1
<1>2. ~(e < q)
  <2> SUFFICES ASSUME e + 1 <= q PROVE FALSE
    OBVIOUS
  <2>1. (e + 1) * d <= q * d
    OBVIOUS
  <2> QED
    BY <2>1
<1> QED
  BY <1>1, <1>2

LEMMA DivModUnique ==
  ASSUME NEW d \in Nat \ {0}, NEW q \in Int, NEW r \in 0 .. d - 1
  PROVE  (q * d + r) \div d = q /\ (q * d + r) % d = r
<1> DEFINE a == q * d + r
           e == a \div d
           s == a % d
<1>1. a \in Int /\ a = q * d + r
  OBVIOUS
<1> HIDE DEF a
<1>2. e \in Int /\ s \in 0 .. d - 1 /\ a = e * d + s
  BY <1>1, DivMod
<1> HIDE DEF e, s
<1>3. q = e /\ r = s
  BY <1>1, <1>2, QuotientUnique
<1> QED
  BY <1>3 DEF a, e, s

B == OUTPUT_BYTES_PER_STEP

LEMMA BNat == B \in Nat \ {0} /\ B <= WORD_BYTES /\ WORD_BYTES \in Nat
BY MultiMapAssumption DEF B

-----------------------------------------------------------------------------
(* The key schedule.                                                         *)

(* Where key, separator and nonce lie.                                       *)
LaidOut(t, key, nonce) ==
  /\ Len(t) = Len(key) + 1 + Len(nonce)
  /\ \A i \in 1 .. Len(key) : t[i] = key[i]
  /\ t[Len(key) + 1] = BAR
  /\ \A i \in 1 .. Len(nonce) : t[Len(key) + 1 + i] = nonce[i]

LEMMA KeyNonceAt ==
  ASSUME NEW S, NEW key \in Seq(S), NEW nonce \in Seq(S)
  PROVE  /\ Keyed(key, nonce) \in Seq(S \cup {BAR})
         /\ LaidOut(Keyed(key, nonce), key, nonce)
<1> DEFINE U == S \cup {BAR}
<1>1. key \in Seq(U) /\ nonce \in Seq(U) /\ <<BAR>> \in Seq(U)
  BY SeqMonotonic
<1>2. Len(<<BAR>>) = 1 /\ <<BAR>>[1] = BAR
  OBVIOUS
<1> HIDE DEF U
<1>3. key \o <<BAR>> \in Seq(U) /\ Len(key \o <<BAR>>) = Len(key) + 1
  BY <1>1, <1>2, ConcatProperties
<1>4. /\ \A i \in 1 .. Len(key) : (key \o <<BAR>>)[i] = key[i]
      /\ (key \o <<BAR>>)[Len(key) + 1] = BAR
  <2>1. Len(key) \in Nat
    BY <1>1
  <2> QED
    BY <1>1, <1>2, <2>1, ConcatProperties
<1> QED
  <2> DEFINE t == Keyed(key, nonce)
             h == key \o <<BAR>>
  <2>1. t = h \o nonce
    BY DEF Keyed
  <2> HIDE DEF h, t
  <2>2. Len(key) \in Nat /\ Len(nonce) \in Nat /\ Len(h) = Len(key) + 1 /\ h \in Seq(U)
    BY <1>1, <1>3 DEF h
  <2>3. /\ t \in Seq(U) /\ Len(t) = Len(h) + Len(nonce)
        /\ \A i \in 1 .. Len(h) + Len(nonce) :
             t[i] = IF i <= Len(h) THEN h[i] ELSE nonce[i - Len(h)]
    BY <1>1, <2>1, <2>2, ConcatProperties
  <2>4. \A i \in 1 .. Len(key) : t[i] = key[i]
    BY <1>4, <2>2, <2>3 DEF h
  <2>5. t[Len(key) + 1] = BAR
    BY <1>4, <2>2, <2>3 DEF h
  <2>6. \A i \in 1 .. Len(nonce) : t[Len(key) + 1 + i] = nonce[i]
    <3> TAKE i \in 1 .. Len(nonce)
    <3>1. Len(key) + 1 + i \in 1 .. Len(h) + Len(nonce) /\ ~(Len(key) + 1 + i <= Len(h))
      BY <2>2
    <3>2. (Len(key) + 1 + i) - Len(h) = i
      BY <2>2
    <3> QED
      BY <2>3, <3>1, <3>2
  <2> QED
    BY <2>2, <2>3, <2>4, <2>5, <2>6 DEF t, U, LaidOut

(* One cell before a head.                                                   *)
LEMMA Headed ==
  ASSUME NEW S, NEW c \in S, NEW i \in Seq(S), NEW h \in Seq(S),
         Len(h) = Len(i) + 1, h[1] = c, \A j \in 1 .. Len(i) : h[j + 1] = i[j]
  PROVE  <<c>> \o i = h
<1> DEFINE one == <<c>>
<1>1. one \in Seq(S) /\ Len(one) = 1 /\ one[1] = c
  OBVIOUS
<1> HIDE DEF one
<1>2. /\ one \o i \in Seq(S) /\ Len(one \o i) = 1 + Len(i)
      /\ \A j \in 1 .. 1 + Len(i) : (one \o i)[j] = IF j <= 1 THEN one[j] ELSE i[j - 1]
  <2>1. /\ one \o i \in Seq(S) /\ Len(one \o i) = Len(one) + Len(i)
        /\ \A j \in 1 .. Len(one) + Len(i) :
             (one \o i)[j] = IF j <= Len(one) THEN one[j] ELSE i[j - Len(one)]
    BY <1>1, ConcatProperties
  <2> QED
    BY <1>1, <2>1
<1>3. \A j \in 1 .. 1 + Len(i) : (one \o i)[j] = h[j]
  <2> TAKE j \in 1 .. 1 + Len(i)
  <2>1. CASE j = 1
    BY <1>1, <1>2, <2>1
  <2>2. CASE j # 1
    <3>1. j - 1 \in 1 .. Len(i) /\ (j - 1) + 1 = j /\ ~(j <= 1)
      BY <2>2
    <3> QED
      BY <1>2, <3>1
  <2> QED
    BY <2>1, <2>2
<1>4. one \o i = h
  BY <1>2, <1>3, SeqEqual
<1> QED
  BY <1>4 DEF one

(* A string of fewer bytes whose separator falls into the other one.         *)
LEMMA ShorterContinued ==
  ASSUME NEW S, BAR \in S,
         NEW k1 \in Seq(S), NEW n1 \in Seq(S), NEW k2 \in Seq(S), NEW n2 \in Seq(S),
         Keyed(k1, n1) = Keyed(k2, n2), Len(k1) < Len(k2)
  PROVE  Continues(k2, k1)
<1> DEFINE t == Keyed(k1, n1)
           m == Len(k1) + 1
<1>1. Len(k1) \in Nat /\ Len(k2) \in Nat /\ m \in 1 .. Len(k2)
  OBVIOUS
<1>0. LaidOut(t, k1, n1) /\ LaidOut(t, k2, n2)
  BY KeyNonceAt
<1> HIDE DEF t
<1>2. /\ \A i \in 1 .. Len(k1) : t[i] = k1[i]
      /\ t[m] = BAR
  BY <1>0 DEF LaidOut
<1>3. \A i \in 1 .. Len(k2) : t[i] = k2[i]
  BY <1>0 DEF LaidOut
<1>4. \A i \in 1 .. Len(k1) : k2[i] = k1[i]
  BY <1>1, <1>2, <1>3
<1>5. k2[m] = BAR
  BY <1>1, <1>2, <1>3
<1>6. /\ SubSeq(k2, 1, m) \in Seq(S) /\ Len(SubSeq(k2, 1, m)) = m
      /\ \A i \in 1 .. m : SubSeq(k2, 1, m)[i] = k2[i]
  BY <1>1, SubSeqProperties
<1>7. /\ Append(k1, BAR) \in Seq(S) /\ Len(Append(k1, BAR)) = m
      /\ \A i \in 1 .. m : Append(k1, BAR)[i] = IF i <= Len(k1) THEN k1[i] ELSE BAR
  BY <1>1, AppendProperties
<1>8. SubSeq(k2, 1, m) = Append(k1, BAR)
  <2>1. \A i \in 1 .. m : SubSeq(k2, 1, m)[i] = Append(k1, BAR)[i]
    BY <1>1, <1>4, <1>5, <1>6, <1>7
  <2> QED
    BY <1>6, <1>7, <2>1, SeqEqual
<1> QED
  BY <1>1, <1>8 DEF Continues

(* Keys of one length are cut off at one place.                              *)
LEMMA SameLengthApart ==
  ASSUME NEW S,
         NEW k1 \in Seq(S), NEW n1 \in Seq(S), NEW k2 \in Seq(S), NEW n2 \in Seq(S),
         Keyed(k1, n1) = Keyed(k2, n2), Len(k1) = Len(k2)
  PROVE  k1 = k2 /\ n1 = n2
<1> DEFINE t == Keyed(k1, n1)
<1>0. LaidOut(t, k1, n1) /\ LaidOut(t, k2, n2)
  BY KeyNonceAt
<1> HIDE DEF t
<1>1. /\ Len(t) = Len(k1) + 1 + Len(n1)
      /\ \A i \in 1 .. Len(k1) : t[i] = k1[i]
      /\ \A i \in 1 .. Len(n1) : t[Len(k1) + 1 + i] = n1[i]
  BY <1>0 DEF LaidOut
<1>2. /\ Len(t) = Len(k2) + 1 + Len(n2)
      /\ \A i \in 1 .. Len(k2) : t[i] = k2[i]
      /\ \A i \in 1 .. Len(n2) : t[Len(k2) + 1 + i] = n2[i]
  BY <1>0 DEF LaidOut
<1>3. Len(k1) \in Nat /\ Len(n1) \in Nat /\ Len(n2) \in Nat
  OBVIOUS
<1>4. Len(n1) = Len(n2)
  BY <1>1, <1>2, <1>3
<1>5. k1 = k2
  <2>1. \A i \in 1 .. Len(k1) : k1[i] = k2[i]
    BY <1>1, <1>2
  <2> QED
    BY <2>1, SeqEqual
<1>6. n1 = n2
  <2>1. \A i \in 1 .. Len(n1) : n1[i] = n2[i]
    BY <1>1, <1>2, <1>4
  <2> QED
    BY <1>4, <2>1, SeqEqual
<1> QED
  BY <1>5, <1>6

LEMMA FirstOfConcat ==
  ASSUME NEW S, NEW h \in Seq(S), NEW t \in Seq(S), Len(h) \in 1 .. 5
  PROVE  (h \o t)[1] = h[1]
<1>1. Len(h) \in Nat /\ Len(t) \in Nat /\ 1 <= Len(h)
  OBVIOUS
<1>2. 1 \in 1 .. Len(h) + Len(t)
  BY <1>1
<1> QED
  BY <1>1, <1>2, ConcatProperties

(* Two inputs with heads of one length.                                      *)
LEMMA HeadsAndTails ==
  ASSUME NEW S,
         NEW h1 \in Seq(S), NEW t1 \in Seq(S), NEW h2 \in Seq(S), NEW t2 \in Seq(S),
         h1 \o t1 = h2 \o t2, Len(h1) = Len(h2)
  PROVE  h1 = h2 /\ t1 = t2
<1> DEFINE s == h1 \o t1
<1>1. /\ Len(s) = Len(h1) + Len(t1)
      /\ \A i \in 1 .. Len(h1) + Len(t1) :
           s[i] = IF i <= Len(h1) THEN h1[i] ELSE t1[i - Len(h1)]
  BY ConcatProperties
<1>2. /\ Len(s) = Len(h2) + Len(t2)
      /\ \A i \in 1 .. Len(h2) + Len(t2) :
           s[i] = IF i <= Len(h2) THEN h2[i] ELSE t2[i - Len(h2)]
  BY ConcatProperties
<1> HIDE DEF s
<1>3. Len(h1) \in Nat /\ Len(t1) \in Nat /\ Len(t2) \in Nat
  OBVIOUS
<1>4. Len(t1) = Len(t2)
  BY <1>1, <1>2, <1>3
<1>5. h1 = h2
  <2>1. \A i \in 1 .. Len(h1) : h1[i] = h2[i]
    BY <1>1, <1>2, <1>3, <1>4
  <2> QED
    BY <2>1, SeqEqual
<1>6. t1 = t2
  <2>1. \A i \in 1 .. Len(t1) : t1[i] = t2[i]
    <3> TAKE i \in 1 .. Len(t1)
    <3>1. /\ Len(h1) + i \in 1 .. Len(h1) + Len(t1)
          /\ ~(Len(h1) + i <= Len(h1)) /\ (Len(h1) + i) - Len(h1) = i
      BY <1>3
    <3> QED
      BY <1>1, <1>2, <1>4, <3>1
  <2> QED
    BY <1>4, <2>1, SeqEqual
<1> QED
  BY <1>5, <1>6

Cells ==
  Bytes \cup {BAR, <<"seed|">>, <<"multimap|">>, <<"ctr|">>}
    \cup {Index2(i) : i \in Int} \cup {Index8(b) : b \in Int}

HeadOf(u) ==
  CASE u.use = "ctr"  -> <<<<"ctr|">>, Index8(u.block), BAR, Index2(u.map), BAR>>
    [] u.use = "bare" -> <<<<"seed|">>>>
    [] OTHER          -> <<<<"multimap|">>, Index2(u.map), BAR>>

(* What a use is, for the proofs.                                            *)
LEMMA UseShape ==
  ASSUME NEW u \in Uses
  PROVE  /\ u.key \in Seq(Bytes) /\ u.nonce \in Seq(Bytes)
         /\ u.map \in Int /\ u.block \in Int
         /\ u = [use |-> u.use, key |-> u.key, nonce |-> u.nonce,
                 block |-> u.block, map |-> u.map]
         /\ u.use \in {"aead", "chunk", "siv", "ctr", "bare"}
         /\ u.use = "aead" => Len(u.nonce) = 2
         /\ u.use = "chunk" => Len(u.nonce) = 3
         /\ u.use = "siv" => Len(u.nonce) = 4
         /\ u.use # "ctr" => u.block = 0
         /\ u.use = "bare" => u.map = 0
<1>1. \A lens \in SUBSET Nat : \A s \in Strings(lens) : s \in Seq(Bytes) /\ Len(s) \in lens
  <2> SUFFICES ASSUME NEW lens \in SUBSET Nat, NEW l \in lens, NEW s \in [1 .. l -> Bytes]
               PROVE  s \in Seq(Bytes) /\ Len(s) = l
    BY DEF Strings
  <2>1. l \in Nat
    OBVIOUS
  <2> QED
    BY <2>1
<1>2. 1 .. MaxKeyLen \in SUBSET Nat /\ {2} \in SUBSET Nat /\ 0 .. IndexValues - 1 \subseteq Int
  BY ScheduleAssumption
<1>3. CASE u \in [use : {"ctr"}, key : Strings(1 .. MaxKeyLen), nonce : Strings({2}),
                  block : {0, 1}, map : 0 .. IndexValues - 1]
  <2>1. /\ u.use = "ctr" /\ u.key \in Strings(1 .. MaxKeyLen) /\ u.nonce \in Strings({2})
        /\ u.block \in {0, 1} /\ u.map \in 0 .. IndexValues - 1
        /\ u = [use |-> u.use, key |-> u.key, nonce |-> u.nonce,
                block |-> u.block, map |-> u.map]
    BY <1>3
  <2>3. u.key \in Seq(Bytes)
    BY <1>1, <1>2, <2>1, Zenon
  <2>4. u.nonce \in Seq(Bytes)
    BY <1>1, <1>2, <2>1, Zenon
  <2>5. u.map \in Int /\ u.block \in Int
    BY ONLY <2>1, ScheduleAssumption
  <2>2. /\ u.key \in Seq(Bytes) /\ u.nonce \in Seq(Bytes) /\ u.map \in Int /\ u.block \in Int
    BY <2>3, <2>4, <2>5
  <2> QED
    BY <2>1, <2>2, Zenon
<1>4. CASE u \in [use : {"bare"}, key : Strings(1 .. MaxKeyLen), nonce : Strings({2}),
                  block : {0}, map : {0}]
  <2>1. /\ u.use = "bare" /\ u.key \in Strings(1 .. MaxKeyLen) /\ u.nonce \in Strings({2})
        /\ u.block = 0 /\ u.map = 0
        /\ u = [use |-> u.use, key |-> u.key, nonce |-> u.nonce,
                block |-> u.block, map |-> u.map]
    BY <1>4
  <2>3. u.key \in Seq(Bytes)
    BY <1>1, <1>2, <2>1, Zenon
  <2>4. u.nonce \in Seq(Bytes)
    BY <1>1, <1>2, <2>1, Zenon
  <2>5. u.map \in Int /\ u.block \in Int
    BY ONLY <2>1, ScheduleAssumption
  <2>2. /\ u.key \in Seq(Bytes) /\ u.nonce \in Seq(Bytes) /\ u.map \in Int /\ u.block \in Int
    BY <2>3, <2>4, <2>5
  <2> QED
    BY <2>1, <2>2, Zenon
<1>5. ASSUME NEW k \in DOMAIN NonceLen,
             u \in [use : {k}, key : Strings(1 .. MaxKeyLen), nonce : Strings({NonceLen[k]}),
                    block : {0}, map : 0 .. IndexValues - 1]
      PROVE  /\ u.key \in Seq(Bytes) /\ u.nonce \in Seq(Bytes) /\ Len(u.nonce) = NonceLen[k]
             /\ u.map \in Int /\ u.block = 0 /\ u.use = k
             /\ u = [use |-> u.use, key |-> u.key, nonce |-> u.nonce,
                     block |-> u.block, map |-> u.map]
  <2>1. /\ u.use = k /\ u.key \in Strings(1 .. MaxKeyLen) /\ u.nonce \in Strings({NonceLen[k]})
        /\ u.block = 0 /\ u.map \in 0 .. IndexValues - 1
        /\ u = [use |-> u.use, key |-> u.key, nonce |-> u.nonce,
                block |-> u.block, map |-> u.map]
    BY <1>5
  <2>2. {NonceLen[k]} \in SUBSET Nat
    BY DEF NonceLen
  <2> QED
    BY <1>1, <1>2, <2>1, <2>2
<1>6. /\ DOMAIN NonceLen = {"aead", "chunk", "siv"}
      /\ NonceLen["aead"] = 2 /\ NonceLen["chunk"] = 3 /\ NonceLen["siv"] = 4
  BY DEF NonceLen
<1>7. CASE \E k \in DOMAIN NonceLen :
             u \in [use : {k}, key : Strings(1 .. MaxKeyLen), nonce : Strings({NonceLen[k]}),
                    block : {0}, map : 0 .. IndexValues - 1]
  <2> PICK k \in DOMAIN NonceLen :
             u \in [use : {k}, key : Strings(1 .. MaxKeyLen), nonce : Strings({NonceLen[k]}),
                    block : {0}, map : 0 .. IndexValues - 1]
    BY <1>7
  <2>1. /\ u.key \in Seq(Bytes) /\ u.nonce \in Seq(Bytes) /\ Len(u.nonce) = NonceLen[k]
        /\ u.map \in Int /\ u.block = 0 /\ u.use = k
        /\ u = [use |-> u.use, key |-> u.key, nonce |-> u.nonce,
                block |-> u.block, map |-> u.map]
    BY <1>5
  <2> QED
    BY <1>6, <2>1
<1> QED
  <2> HIDE DEF Strings, NonceLen
  <2> QED
    BY <1>3, <1>4, <1>7, Zenon DEF Uses

(* The input of a use is its head, and its tail.                             *)
LEMMA SeedParts ==
  ASSUME NEW u \in Uses
  PROVE  /\ HeadOf(u) \in Seq(Cells) /\ Len(HeadOf(u)) \in 1 .. 5
         /\ Keyed(u.key, u.nonce) \in Seq(Cells)
         /\ SeedOf(u) = HeadOf(u) \o Keyed(u.key, u.nonce)
<1>1. /\ u.key \in Seq(Cells) /\ u.nonce \in Seq(Cells) /\ <<BAR>> \in Seq(Cells)
      /\ u.map \in Int /\ u.block \in Int
  <2>1. Bytes \subseteq Cells /\ BAR \in Cells
    BY DEF Cells
  <2>2. u.key \in Seq(Bytes) /\ u.nonce \in Seq(Bytes) /\ u.map \in Int /\ u.block \in Int
    BY UseShape
  <2> QED
    BY <2>1, <2>2, SeqMonotonic
<1>3. Keyed(u.key, u.nonce) \in Seq(Cells)
  <2>1. Cells \cup {BAR} = Cells
    BY DEF Cells
  <2> QED
    BY <1>1, <2>1, KeyNonceAt
<1>4. /\ Index2(u.map) \in Cells /\ Index8(u.block) \in Cells /\ BAR \in Cells
      /\ <<"seed|">> \in Cells /\ <<"multimap|">> \in Cells /\ <<"ctr|">> \in Cells
  BY <1>1 DEF Cells
<1>5. CASE u.use = "ctr"
  <2> DEFINE i == <<Index8(u.block), BAR, Index2(u.map), BAR>>
             h == <<<<"ctr|">>, Index8(u.block), BAR, Index2(u.map), BAR>>
  <2>1. HeadOf(u) = h
    BY <1>5 DEF HeadOf
  <2>2. SeedOf(u) = (<<<<"ctr|">>>> \o i) \o Keyed(u.key, u.nonce)
    BY <1>5 DEF SeedOf, BlockEngine, KdfInput
  <2>3. <<<<"ctr|">>>> \o i = h
    <3>1. i \in Seq(Cells) /\ h \in Seq(Cells) /\ Len(i) = 4 /\ Len(h) = 5
      BY <1>4
    <3>2. h[1] = <<"ctr|">> /\ h[2] = i[1] /\ h[3] = i[2] /\ h[4] = i[3] /\ h[5] = i[4]
      OBVIOUS
    <3> HIDE DEF i, h
    <3>3. \A j \in 1 .. Len(i) : h[j + 1] = i[j]
      BY <3>1, <3>2
    <3>4. Len(h) = Len(i) + 1
      BY <3>1
    <3> QED
      BY <1>4, <3>1, <3>2, <3>3, <3>4, Headed, Zenon
  <2>4. h \in Seq(Cells) /\ Len(h) = 5
    BY <1>4
  <2> HIDE DEF i, h
  <2>5. Len(h) \in 1 .. 5
    BY <2>4
  <2> QED
    BY <1>3, <2>1, <2>2, <2>3, <2>4, <2>5
<1>6. CASE u.use = "bare"
  <2> DEFINE h == <<<<"seed|">>>>
  <2>1. HeadOf(u) = h
    BY <1>6 DEF HeadOf
  <2>2. SeedOf(u) = (h \o <<>>) \o Keyed(u.key, u.nonce)
    BY <1>6 DEF SeedOf, FromMaster, KdfInput
  <2>3. h \o <<>> = h
    OBVIOUS
  <2>4. h \in Seq(Cells) /\ Len(h) = 1
    BY <1>4
  <2> HIDE DEF h
  <2>5. Len(h) \in 1 .. 5
    BY <2>4
  <2> QED
    BY <1>3, <2>1, <2>2, <2>3, <2>4, <2>5
<1>7. CASE u.use # "ctr" /\ u.use # "bare"
  <2> DEFINE i == <<Index2(u.map), BAR>>
             h == <<<<"multimap|">>, Index2(u.map), BAR>>
  <2>1. HeadOf(u) = h
    BY <1>7 DEF HeadOf
  <2>2. SeedOf(u) = (<<<<"multimap|">>>> \o i) \o Keyed(u.key, u.nonce)
    BY <1>7 DEF SeedOf, DeriveEngine, KdfInput
  <2>3. <<<<"multimap|">>>> \o i = h
    <3>1. i \in Seq(Cells) /\ h \in Seq(Cells) /\ Len(i) = 2 /\ Len(h) = 3
      BY <1>4
    <3>2. h[1] = <<"multimap|">> /\ h[2] = i[1] /\ h[3] = i[2]
      OBVIOUS
    <3> HIDE DEF i, h
    <3>3. \A j \in 1 .. Len(i) : h[j + 1] = i[j]
      BY <3>1, <3>2
    <3>4. Len(h) = Len(i) + 1
      BY <3>1
    <3> QED
      BY <1>4, <3>1, <3>2, <3>3, <3>4, Headed, Zenon
  <2>4. h \in Seq(Cells) /\ Len(h) = 3
    BY <1>4
  <2> HIDE DEF i, h
  <2>5. Len(h) \in 1 .. 5
    BY <2>4
  <2> QED
    BY <1>3, <2>1, <2>2, <2>3, <2>4, <2>5
<1> QED
  BY <1>5, <1>6, <1>7

(* The separation of seeds, for keys of every length and any bytes.          *)
THEOREM SeparateSeeds == SeedsApart
<1> SUFFICES ASSUME NEW u \in Uses, NEW v \in Uses, SeedOf(u) = SeedOf(v)
             PROVE  u = v \/ Continues(u.key, v.key) \/ Continues(v.key, u.key)
  BY DEF SeedsApart
<1> DEFINE tu == Keyed(u.key, u.nonce)
           tv == Keyed(v.key, v.nonce)
<1>1. /\ HeadOf(u) \in Seq(Cells) /\ Len(HeadOf(u)) \in 1 .. 5 /\ tu \in Seq(Cells)
      /\ HeadOf(v) \in Seq(Cells) /\ Len(HeadOf(v)) \in 1 .. 5 /\ tv \in Seq(Cells)
      /\ HeadOf(u) \o tu = HeadOf(v) \o tv
  BY SeedParts
<1>2. HeadOf(u)[1] = HeadOf(v)[1]
  <2> HIDE DEF tu, tv
  <2>1. (HeadOf(u) \o tu)[1] = HeadOf(u)[1] /\ (HeadOf(v) \o tv)[1] = HeadOf(v)[1]
    BY <1>1, FirstOfConcat
  <2> QED
    BY <1>1, <2>1
<1>0. \A w \in Uses :
        /\ w.key \in Seq(Bytes) /\ w.nonce \in Seq(Bytes)
        /\ w.use \in {"aead", "chunk", "siv", "ctr", "bare"}
        /\ w.use = "aead" => Len(w.nonce) = 2
        /\ w.use = "chunk" => Len(w.nonce) = 3
        /\ w.use = "siv" => Len(w.nonce) = 4
        /\ w.use # "ctr" => w.block = 0
        /\ w.use = "bare" => w.map = 0
  BY UseShape
<1>3. \/ u.use = "ctr" /\ v.use = "ctr"
      \/ u.use = "bare" /\ v.use = "bare"
      \/ {u.use, v.use} \cap {"ctr", "bare"} = {}
  <2>1. \A w \in Uses : HeadOf(w)[1] = IF w.use = "ctr" THEN <<"ctr|">>
                                       ELSE IF w.use = "bare" THEN <<"seed|">>
                                       ELSE <<"multimap|">>
    BY DEF HeadOf
  <2> QED
    BY <1>2, <2>1
<1>4. Len(HeadOf(u)) = Len(HeadOf(v))
  BY <1>3 DEF HeadOf
<1>5. HeadOf(u) = HeadOf(v) /\ tu = tv
  <2> HIDE DEF tu, tv
  <2> QED
    BY <1>1, <1>4, HeadsAndTails
<1>6. u.map = v.map /\ u.block = v.block
  <2>1. CASE u.use = "ctr" /\ v.use = "ctr"
    <3>1. /\ HeadOf(u)[2] = Index8(u.block) /\ HeadOf(u)[4] = Index2(u.map)
          /\ HeadOf(v)[2] = Index8(v.block) /\ HeadOf(v)[4] = Index2(v.map)
      BY <2>1 DEF HeadOf
    <3>2. Index8(u.block)[2] = u.block /\ Index8(v.block)[2] = v.block
      BY DEF Index8
    <3>3. Index2(u.map)[2] = u.map /\ Index2(v.map)[2] = v.map
      BY DEF Index2
    <3> QED
      BY <1>5, <3>1, <3>2, <3>3, Zenon
  <2>2. CASE u.use = "bare" /\ v.use = "bare"
    BY <1>0, <2>2
  <2>3. CASE {u.use, v.use} \cap {"ctr", "bare"} = {}
    <3>1. HeadOf(u)[2] = Index2(u.map) /\ HeadOf(v)[2] = Index2(v.map)
      BY <2>3 DEF HeadOf
    <3>2. Index2(u.map)[2] = u.map /\ Index2(v.map)[2] = v.map
      BY DEF Index2
    <3>3. u.block = 0 /\ v.block = 0
      BY <1>0, <2>3
    <3> QED
      BY <1>5, <3>1, <3>2, <3>3
  <2> QED
    BY <1>3, <2>1, <2>2, <2>3
<1> DEFINE S == Bytes \cup {BAR}
<1>7. /\ BAR \in S /\ u.key \in Seq(S) /\ u.nonce \in Seq(S)
      /\ v.key \in Seq(S) /\ v.nonce \in Seq(S)
  BY <1>0, SeqMonotonic
<1> HIDE DEF S
<1>8. CASE Len(u.key) < Len(v.key)
  BY <1>5, <1>7, <1>8, ShorterContinued
<1>9. CASE Len(v.key) < Len(u.key)
  BY <1>5, <1>7, <1>9, ShorterContinued
<1>10. CASE Len(u.key) = Len(v.key)
  <2>1. u.key = v.key /\ u.nonce = v.nonce
    BY <1>5, <1>7, <1>10, SameLengthApart
  <2>2. u.use = v.use
    <3>1. Len(u.nonce) = Len(v.nonce)
      BY <2>1
    <3>2. CASE {u.use, v.use} \cap {"ctr", "bare"} = {}
      <4>1. u.use \in {"aead", "chunk", "siv"} /\ v.use \in {"aead", "chunk", "siv"}
        BY <1>0, <3>2
      <4>2. /\ u.use = "aead" => Len(u.nonce) = 2
            /\ u.use = "chunk" => Len(u.nonce) = 3
            /\ u.use = "siv" => Len(u.nonce) = 4
            /\ v.use = "aead" => Len(v.nonce) = 2
            /\ v.use = "chunk" => Len(v.nonce) = 3
            /\ v.use = "siv" => Len(v.nonce) = 4
        BY <1>0
      <4> DEFINE lu == Len(u.nonce)
                 lv == Len(v.nonce)
      <4>3. lu = lv
        BY <3>1
      <4> HIDE DEF lu, lv
      <4>4. /\ u.use = "aead" => lu = 2
            /\ u.use = "chunk" => lu = 3
            /\ u.use = "siv" => lu = 4
            /\ v.use = "aead" => lv = 2
            /\ v.use = "chunk" => lv = 3
            /\ v.use = "siv" => lv = 4
        BY <4>2 DEF lu, lv
      <4> QED
        BY <4>1, <4>3, <4>4
    <3> QED
      BY <1>3, <3>2
  <2>3. /\ u = [use |-> u.use, key |-> u.key, nonce |-> u.nonce,
                block |-> u.block, map |-> u.map]
        /\ v = [use |-> v.use, key |-> v.key, nonce |-> v.nonce,
                block |-> v.block, map |-> v.map]
    BY UseShape, Zenon
  <2> QED
    BY <1>6, <2>1, <2>2, <2>3, Zenon
<1> QED
  <2>1. Len(u.key) \in Nat /\ Len(v.key) \in Nat
    BY <1>0
  <2> QED
    BY <1>8, <1>9, <1>10, <2>1

-----------------------------------------------------------------------------
(* Where byte k lies: s steps have filled s * B bytes, `left` of them are    *)
(* not yet read.                                                             *)
LEMMA Place ==
  ASSUME NEW s \in Nat, NEW left \in 0 .. B - 1, NEW k \in Nat, s * B = k + left
  PROVE  IF left = 0 THEN k \div B = s /\ k % B = 0
         ELSE k \div B = s - 1 /\ k % B = B - left
<1>1. B \in Nat \ {0}
  BY BNat
<1> HIDE DEF B
<1>2. CASE left = 0
  <2>1. k = s * B + 0 /\ 0 \in 0 .. B - 1
    BY <1>1, <1>2
  <2> QED
    BY <1>1, <1>2, <2>1, DivModUnique
<1>3. CASE left # 0
  <2>1. k = (s - 1) * B + (B - left) /\ B - left \in 0 .. B - 1 /\ s - 1 \in Int
    BY <1>1, <1>3
  <2> QED
    BY <1>1, <1>3, <2>1, DivModUnique
<1> QED
  BY <1>2, <1>3

LEMMA StepsUnique ==
  ASSUME NEW s \in Nat, NEW t \in Nat, NEW a \in 0 .. B - 1, NEW c \in 0 .. B - 1,
         s * B - a = t * B - c
  PROVE  s = t
<1>1. B \in Nat \ {0}
  BY BNat
<1> HIDE DEF B
<1>2. s * B + (B - 1 - a) = t * B + (B - 1 - c)
  BY <1>1
<1>3. B - 1 - a \in 0 .. B - 1 /\ B - 1 - c \in 0 .. B - 1
  BY <1>1
<1> QED
  BY <1>1, <1>2, <1>3, QuotientUnique

(* A block shows the first B bytes of its word.                              *)
LEMMA BlockAt ==
  ASSUME NEW seed, NEW step
  PROVE  /\ Len(Block(seed, step)) = B
         /\ \A j \in 1 .. B : Block(seed, step)[j] = {<<seed, step, j>>}
<1> DEFINE w == Finalized(seed, step)
           S == {{<<seed, step, j>>} : j \in 1 .. WORD_BYTES}
<1>1. \A j \in 1 .. WORD_BYTES : w[j] = {<<seed, step, j>>}
  BY DEF Finalized
<1>2. B \in Nat \ {0} /\ B <= WORD_BYTES /\ WORD_BYTES \in Nat
  BY BNat
<1>3. \A j \in 1 .. B : w[j] \in S
  BY <1>1, <1>2
<1> HIDE DEF w, S
<1>4. /\ Len(SubSeq(w, 1, B)) = IF 1 <= B THEN B - 1 + 1 ELSE 0
      /\ \A j \in 1 .. B - 1 + 1 : SubSeq(w, 1, B)[j] = w[1 + j - 1]
  <2>1. B \in Int /\ 1 \in Int
    BY <1>2
  <2> QED
    BY <1>3, <2>1, SubSeqProperties
<1>5. Len(SubSeq(w, 1, B)) = B /\ \A j \in 1 .. B : SubSeq(w, 1, B)[j] = w[j]
  <2>1. \A j \in 1 .. B : 1 + j - 1 = j
    BY <1>2
  <2> QED
    BY <1>2, <1>4, <2>1
<1>6. Block(seed, step) = SubSeq(w, 1, B)
  BY DEF Block, w, B
<1>7. \A j \in 1 .. B : j \in 1 .. WORD_BYTES
  BY <1>2
<1> QED
  BY <1>1, <1>5, <1>6, <1>7

(* The XOR of the same byte of every map is what the tape says of it.        *)
Survivors == {m \in Maps : Cardinality({o \in Maps : AsU16(o) = AsU16(m)}) % 2 = 1}
TapeAt(step, j) == {<<RsSeed(m), step, j>> : m \in Survivors}

LEMMA SeedsOfMaps ==
  ASSUME NEW i \in Nat, NEW j \in Nat
  PROVE  RsSeed(i) = RsSeed(j) <=> AsU16(i) = AsU16(j)
<1> DEFINE kn == Keyed(MasterKey, Nonce)
           H(m) == <<<<"multimap|">>, Index2(AsU16(m)), BAR>>
<1>1. kn \in Seq(Cells)
  <2>1. MasterKey \in Seq(Bytes) /\ Nonce \in Seq(Bytes)
    BY MultiMapAssumption
  <2>2. Bytes \cup {BAR} \subseteq Cells
    BY DEF Cells
  <2> QED
    BY <2>1, <2>2, KeyNonceAt, SeqMonotonic
<1>2. \A m \in Nat : /\ H(m) \in Seq(Cells) /\ Len(H(m)) = 3 /\ H(m)[2] = Index2(AsU16(m))
                     /\ RsSeed(m) = H(m) \o kn
  <2> TAKE m \in Nat
  <2> DEFINE x == <<Index2(AsU16(m)), BAR>>
             h == <<<<"multimap|">>, Index2(AsU16(m)), BAR>>
  <2>1. AsU16(m) \in Int
    BY ScheduleAssumption DEF AsU16
  <2>2. Index2(AsU16(m)) \in Cells /\ BAR \in Cells /\ <<"multimap|">> \in Cells
    BY <2>1 DEF Cells
  <2>3. /\ x \in Seq(Cells) /\ h \in Seq(Cells) /\ Len(x) = 2 /\ Len(h) = 3
        /\ h[1] = <<"multimap|">> /\ h[2] = x[1] /\ h[3] = x[2] /\ h[2] = Index2(AsU16(m))
    BY <2>2
  <2>4. RsSeed(m) = (<<<<"multimap|">>>> \o x) \o kn
    BY DEF RsSeed, DeriveEngine, KdfInput
  <2>5. h = H(m)
    OBVIOUS
  <2> HIDE DEF x, h, kn, H
  <2>6. (\A l \in 1 .. Len(x) : h[l + 1] = x[l]) /\ Len(h) = Len(x) + 1
    <3>1. Len(x) = 2 /\ Len(h) = 3 /\ h[2] = x[1] /\ h[3] = x[2]
      BY <2>3
    <3>2. \A l \in 1 .. Len(x) : h[l + 1] = x[l]
      BY ONLY <3>1
    <3> QED
      BY <3>1, <3>2
  <2>7. <<<<"multimap|">>>> \o x = h
    BY <2>2, <2>3, <2>6, Headed, Zenon
  <2> QED
    BY <2>3, <2>4, <2>5, <2>7
<1> HIDE DEF kn, H
<1>3. ASSUME RsSeed(i) = RsSeed(j) PROVE AsU16(i) = AsU16(j)
  <2>1. H(i) \o kn = H(j) \o kn /\ H(i) \in Seq(Cells) /\ H(j) \in Seq(Cells)
        /\ Len(H(i)) = Len(H(j))
    BY <1>2, <1>3
  <2>2. H(i) = H(j)
    BY <1>1, <2>1, HeadsAndTails
  <2>3. Index2(AsU16(i)) = Index2(AsU16(j))
    BY <1>2, <2>2
  <2>4. Index2(AsU16(i))[2] = AsU16(i) /\ Index2(AsU16(j))[2] = AsU16(j)
    BY DEF Index2
  <2> QED
    BY <2>3, <2>4
<1>4. ASSUME AsU16(i) = AsU16(j) PROVE RsSeed(i) = RsSeed(j)
  BY <1>4 DEF RsSeed
<1> QED
  BY <1>3, <1>4

LEMMA XorOfMaps ==
  ASSUME n_maps \in Nat, NEW step, NEW j
  PROVE  XorOver([m \in Maps |-> {<<RsSeed(m), step, j>>}]) = TapeAt(step, j)
<1> DEFINE byte == [m \in Maps |-> {<<RsSeed(m), step, j>>}]
           atom(m) == <<RsSeed(m), step, j>>
<1>1. \A m \in Maps : m \in Nat
  BY DEF Maps
<1>2. ASSUME NEW m \in Maps
      PROVE  {o \in Maps : atom(m) \in byte[o]} = {o \in Maps : AsU16(o) = AsU16(m)}
  <2>1. \A o \in Maps : atom(m) \in byte[o] <=> AsU16(o) = AsU16(m)
    <3> TAKE o \in Maps
    <3>1. atom(m) \in byte[o] <=> RsSeed(m) = RsSeed(o)
      OBVIOUS
    <3>2. RsSeed(m) = RsSeed(o) <=> AsU16(m) = AsU16(o)
      BY <1>1, SeedsOfMaps
    <3> QED
      BY <3>1, <3>2
  <2> QED
    BY <2>1
<1>3. \A a : a \in UNION {byte[m] : m \in Maps} <=> \E m \in Maps : a = atom(m)
  OBVIOUS
<1> HIDE DEF byte, atom
<1>4. \A a : a \in XorOver(byte)
              <=> \E m \in Maps : a = atom(m) /\ Cardinality({o \in Maps : a \in byte[o]}) % 2 = 1
  BY <1>3 DEF XorOver
<1>5. \A a : a \in XorOver(byte) <=> \E m \in Survivors : a = atom(m)
  BY <1>2, <1>4 DEF Survivors
<1> QED
  BY <1>5 DEF TapeAt, byte, atom

-----------------------------------------------------------------------------
(***************************************************************************)
(* The inductive invariant: how far each buffer has been read follows from *)
(* the bytes drawn, and what is left in it are the next bytes of the tape. *)
(***************************************************************************)
TapeBytes == {Tape[k] : k \in 0 .. MaxBytes - 1}

Drawn(drawn) == drawn \in Seq(TapeBytes) /\ Len(drawn) <= MaxBytes

EngineInv(m) ==
  LET e    == eng[m]
      left == Len(e.buf) - e.i
  IN  /\ e = [steps |-> e.steps, buf |-> e.buf, i |-> e.i]
      /\ e.steps \in Nat /\ e.steps >= WARMUP
      /\ e.i \in 0 .. Len(e.buf)
      /\ left \in 0 .. B - 1
      /\ Len(e.buf) \in {0, B}
      /\ (e.steps - WARMUP) * B = Len(pyOut) + left
      /\ left # 0 => e.buf = Block(PySeed(m), e.steps)

CombInv ==
  /\ comb = [steps |-> comb.steps, buf |-> comb.buf, i |-> comb.i]
  /\ comb.i \in 1 .. B
  /\ \E s \in Nat :
       /\ comb.steps = [m \in Maps |-> WARMUP + s]
       /\ s * B = Len(rsOut) + (B - comb.i)
       /\ comb.i # B => comb.buf = [j \in 1 .. B |-> TapeAt(WARMUP + s, j)]

Inv ==
  /\ n_maps \in MapCounts
  /\ eng = [m \in Maps |-> eng[m]]
  /\ Drawn(pyOut) /\ Drawn(rsOut)
  /\ \A m \in Maps : EngineInv(m)
  /\ CombInv

(* The tape at byte k, when s steps have been made and `left` bytes remain.  *)
LEMMA TapeAtPlace ==
  ASSUME NEW s \in Nat, NEW left \in 0 .. B - 1, NEW k \in 0 .. MaxBytes - 1, s * B = k + left
  PROVE  Tape[k] = IF left = 0 THEN TapeAt(WARMUP + (s + 1), 1)
                   ELSE TapeAt(WARMUP + s, (B - left) + 1)
<1>1. Tape[k] = TapeAt(WARMUP + 1 + (k \div B), 1 + (k % B))
  BY DEF Tape, TapeAt, Survivors, B
<1>2. WARMUP \in Nat /\ B \in Nat \ {0}
  BY MultiMapAssumption, BNat
<1>3. IF left = 0 THEN k \div B = s /\ k % B = 0
      ELSE k \div B = s - 1 /\ k % B = B - left
  <2>1. k \in Nat
    OBVIOUS
  <2> QED
    BY <2>1, Place
<1> HIDE DEF B
<1>4. CASE left = 0
  <2>1. WARMUP + 1 + s = WARMUP + (s + 1) /\ 1 + 0 = 1
    BY <1>2
  <2> QED
    BY <1>1, <1>3, <1>4, <2>1
<1>5. CASE left # 0
  <2>1. WARMUP + 1 + (s - 1) = WARMUP + s /\ 1 + (B - left) = (B - left) + 1
    BY <1>2
  <2> QED
    BY <1>1, <1>3, <1>5, <2>1
<1> QED
  BY <1>4, <1>5

(* The byte at place i of the buffer that step s filled.                     *)
LEMMA NextOnTape ==
  ASSUME NEW s \in Nat, NEW i \in 0 .. B - 1, NEW k \in 0 .. MaxBytes - 1,
         s * B = k + 1 + (B - (i + 1))
  PROVE  Tape[k] = TapeAt(WARMUP + s, i + 1)
<1>1. B \in Nat \ {0} /\ k \in Nat
  BY BNat
<1> HIDE DEF B
<1>2. CASE i = 0
  <2>1. s * B = k + B
    BY <1>1, <1>2
  <2>2. s # 0
    BY <1>1, <2>1
  <2> DEFINE t == s - 1
  <2>3. t \in Nat /\ s = t + 1 /\ t * B = k + 0 /\ 0 \in 0 .. B - 1
    BY <1>1, <2>1, <2>2
  <2> HIDE DEF t
  <2>4. Tape[k] = TapeAt(WARMUP + (t + 1), 1)
    BY <2>3, TapeAtPlace
  <2> QED
    BY <1>2, <2>3, <2>4
<1>3. CASE i # 0
  <2> DEFINE left == B - i
  <2>1. left \in 0 .. B - 1 /\ left # 0 /\ s * B = k + left /\ (B - left) + 1 = i + 1
    BY <1>1, <1>3
  <2> HIDE DEF left
  <2>2. Tape[k] = TapeAt(WARMUP + s, (B - left) + 1)
    BY <2>1, TapeAtPlace
  <2> QED
    BY <2>1, <2>2
<1> QED
  BY <1>2, <1>3

LEMMA InitInv == Init => Inv
<1> SUFFICES ASSUME Init PROVE Inv
  OBVIOUS
<1>1. B \in Nat \ {0} /\ WARMUP \in Nat /\ MaxBytes \in Nat
  BY BNat, MultiMapAssumption
<1>2. Drawn(pyOut) /\ Drawn(rsOut) /\ Len(pyOut) = 0 /\ Len(rsOut) = 0
  BY <1>1 DEF Init, Drawn
<1>3. eng = [m \in Maps |-> eng[m]] /\ \A m \in Maps : eng[m] = NewEngine
  BY DEF Init
<1>4. ASSUME NEW m \in Maps PROVE EngineInv(m)
  <2>1. /\ eng[m].steps = WARMUP /\ eng[m].buf = <<>> /\ eng[m].i = 0 /\ Len(<<>>) = 0
        /\ eng[m] = [steps |-> eng[m].steps, buf |-> eng[m].buf, i |-> eng[m].i]
    BY <1>3 DEF NewEngine
  <2>2. (WARMUP - WARMUP) * B = 0
    BY <1>1
  <2> HIDE DEF B
  <2> QED
    BY <1>1, <1>2, <2>1, <2>2 DEF EngineInv
<1>5. CombInv
  <2>1. /\ comb.steps = [m \in Maps |-> WARMUP] /\ comb.i = B
        /\ comb = [steps |-> comb.steps, buf |-> comb.buf, i |-> comb.i]
    BY DEF Init, NewCombined, B
  <2>2. 0 * B = Len(rsOut) + (B - comb.i) /\ comb.steps = [m \in Maps |-> WARMUP + 0]
    BY <1>1, <1>2, <2>1
  <2> HIDE DEF B
  <2> QED
    BY <1>1, <2>1, <2>2 DEF CombInv
<1> QED
  BY <1>2, <1>3, <1>4, <1>5 DEF Inv, Init

(* An engine that has a byte to give.                                        *)
Ready(m, r) ==
  /\ r = [steps |-> r.steps, buf |-> r.buf, i |-> r.i]
  /\ r.steps \in Nat /\ r.steps - WARMUP \in Nat
  /\ r.i \in 0 .. B - 1 /\ Len(r.buf) = B
  /\ (r.steps - WARMUP) * B = Len(pyOut) + 1 + (B - (r.i + 1))
  /\ r.buf = Block(PySeed(m), r.steps)

LEMMA EngineReads ==
  ASSUME Inv, NEW m \in Maps
  PROVE  Ready(m, Refilled(m, eng[m]))
<1>1. B \in Nat \ {0} /\ WARMUP \in Nat /\ Len(pyOut) \in Nat
  BY BNat, MultiMapAssumption DEF Inv, Drawn
<1> DEFINE e == eng[m]
           r == Refilled(m, e)
<1>2. /\ e = [steps |-> e.steps, buf |-> e.buf, i |-> e.i]
      /\ e.steps \in Nat /\ e.steps >= WARMUP
      /\ e.i \in 0 .. Len(e.buf)
      /\ Len(e.buf) - e.i \in 0 .. B - 1
      /\ Len(e.buf) \in {0, B}
      /\ (e.steps - WARMUP) * B = Len(pyOut) + (Len(e.buf) - e.i)
      /\ Len(e.buf) - e.i # 0 => e.buf = Block(PySeed(m), e.steps)
  BY DEF Inv, EngineInv
<1> SUFFICES Ready(m, r)
  OBVIOUS
<1> HIDE DEF e, B
<1>3. CASE e.i >= Len(e.buf)
  <2>1. r = [steps |-> e.steps + 1, buf |-> Block(PySeed(m), e.steps + 1), i |-> 0]
    BY <1>3 DEF Refilled, r
  <2> HIDE DEF r
  <2>2. /\ r.steps = e.steps + 1 /\ r.buf = Block(PySeed(m), r.steps) /\ r.i = 0
        /\ r = [steps |-> r.steps, buf |-> r.buf, i |-> r.i]
    BY <2>1
  <2>3. Len(r.buf) = B
    BY <2>2, BlockAt
  <2>4. Len(e.buf) - e.i = 0
    BY <1>1, <1>2, <1>3
  <2>5. (r.steps - WARMUP) * B = Len(pyOut) + 1 + (B - 1)
    <3>1. (e.steps - WARMUP) * B = Len(pyOut)
      BY <1>1, <1>2, <2>4
    <3>2. (e.steps + 1 - WARMUP) * B = (e.steps - WARMUP) * B + B
      BY <1>1, <1>2
    <3>3. r.steps - WARMUP = e.steps + 1 - WARMUP
      BY <1>1, <1>2, <2>2
    <3> QED
      BY <1>1, <3>1, <3>2, <3>3
  <2>6. r.steps \in Nat /\ r.steps - WARMUP \in Nat /\ r.i \in 0 .. B - 1
    BY <1>1, <1>2, <2>2
  <2>7. (r.steps - WARMUP) * B = Len(pyOut) + 1 + (B - (r.i + 1))
    <3>1. B - (r.i + 1) = B - 1
      BY <1>1, <2>2
    <3> QED
      BY <2>5, <3>1
  <2> QED
    BY <2>2, <2>3, <2>6, <2>7 DEF Ready
<1>4. CASE ~(e.i >= Len(e.buf))
  <2>1. r = e
    BY <1>4 DEF Refilled, r
  <2> HIDE DEF r
  <2>2. Len(e.buf) = B /\ e.i \in 0 .. B - 1 /\ e.buf = Block(PySeed(m), e.steps)
    BY <1>1, <1>2, <1>4
  <2>3. /\ (e.steps - WARMUP) * B = Len(pyOut) + 1 + (B - (e.i + 1))
        /\ e.steps - WARMUP \in Nat
    BY <1>1, <1>2, <2>2
  <2> QED
    BY <1>2, <2>1, <2>2, <2>3 DEF Ready
<1> QED
  BY <1>3, <1>4

(* Every port reads the next byte of the tape.                               *)
LEMMA PythonReads ==
  ASSUME Inv, GenerateByte
  PROVE  /\ Len(pyOut) \in 0 .. MaxBytes - 1
         /\ pyOut' = Append(pyOut, Tape[Len(pyOut)])
         /\ \A m \in Maps : EngineInv(m)'
         /\ n_maps' = n_maps /\ comb' = comb /\ rsOut' = rsOut
         /\ eng' = [m \in Maps |-> eng'[m]]
<1>1. B \in Nat \ {0} /\ WARMUP \in Nat /\ n_maps \in Nat /\ MaxBytes \in Nat
  BY BNat, MultiMapAssumption DEF Inv
<1> DEFINE ready == [m \in Maps |-> Refilled(m, eng[m])]
           k == Len(pyOut)
<1>2. /\ PyConstructs /\ k < MaxBytes
      /\ eng' = [m \in Maps |-> [ready[m] EXCEPT !.i = @ + 1]]
      /\ pyOut' = Append(pyOut, XorOver([m \in Maps |-> ready[m].buf[ready[m].i + 1]]))
      /\ n_maps' = n_maps /\ comb' = comb /\ rsOut' = rsOut
  BY DEF GenerateByte
<1>3. \A m \in Maps : Ready(m, ready[m])
  BY EngineReads
<1>4. pyOut \in Seq(TapeBytes) /\ k \in Nat /\ k \in 0 .. MaxBytes - 1
  BY <1>1, <1>2 DEF Inv, Drawn
<1>5. Maps' = Maps
  BY <1>2 DEF Maps
<1> HIDE DEF ready, B
<1>6. ASSUME NEW m \in Maps, NEW o \in Maps
      PROVE  ready[m].steps = ready[o].steps /\ ready[m].i = ready[o].i
  <2> DEFINE s == ready[m].steps - WARMUP
             t == ready[o].steps - WARMUP
             a == B - (ready[m].i + 1)
             c == B - (ready[o].i + 1)
  <2>1. /\ s \in Nat /\ a \in 0 .. B - 1 /\ s * B = k + 1 + a
        /\ ready[m].steps \in Nat /\ ready[m].i \in 0 .. B - 1
    <3>1. Ready(m, ready[m])
      BY <1>3
    <3> QED
      BY <1>1, <3>1 DEF Ready
  <2>2. /\ t \in Nat /\ c \in 0 .. B - 1 /\ t * B = k + 1 + c
        /\ ready[o].steps \in Nat /\ ready[o].i \in 0 .. B - 1
    <3>1. Ready(o, ready[o])
      BY <1>3
    <3> QED
      BY <1>1, <3>1 DEF Ready
  <2>4. /\ ready[m].steps \in Nat /\ ready[m].i \in 0 .. B - 1
        /\ ready[o].steps \in Nat /\ ready[o].i \in 0 .. B - 1
    BY <2>1, <2>2
  <2>3. s = t /\ a = c
    <3> HIDE DEF s, t, a, c, k
    <3>1. s * B \in Int /\ t * B \in Int
      BY <1>1, <2>1, <2>2
    <3>2. s * B - a = t * B - c
      BY <1>4, <2>1, <2>2, <3>1
    <3>3. s = t
      BY <2>1, <2>2, <3>2, StepsUnique
    <3> QED
      BY <1>4, <2>1, <2>2, <3>1, <3>3
  <2> QED
    BY ONLY <1>1, <2>3, <2>4
<1>7. 0 \in Maps /\ \A m \in Maps : m \in Nat /\ PySeed(m) = RsSeed(m)
  <2>1. 0 \in Maps
    BY <1>1, <1>2 DEF Maps, PyConstructs
  <2>2. ASSUME NEW m \in Maps PROVE m \in Nat /\ AsU16(m) = m
    <3>1. m \in 0 .. IndexValues - 1 /\ IndexValues \in Nat \ {0}
      BY <1>1, <1>2, ScheduleAssumption DEF Maps, PyConstructs, Fits
    <3>2. 0 * IndexValues + m = m
      BY <3>1
    <3>3. (0 * IndexValues + m) % IndexValues = m
      BY <3>1, DivModUnique
    <3> QED
      BY <3>1, <3>2, <3>3 DEF AsU16
  <2> QED
    BY <2>1, <2>2 DEF PySeed, RsSeed
<1> DEFINE s == ready[0].steps - WARMUP
           i == ready[0].i
<1>8. /\ s \in Nat /\ i \in 0 .. B - 1 /\ s * B = k + 1 + (B - (i + 1))
      /\ ready[0].steps = WARMUP + s
  <2>1. Ready(0, ready[0])
    BY <1>3, <1>7
  <2>2. /\ ready[0].steps \in Nat /\ ready[0].steps - WARMUP \in Nat
        /\ ready[0].i \in 0 .. B - 1
        /\ (ready[0].steps - WARMUP) * B = k + 1 + (B - (ready[0].i + 1))
    BY <2>1 DEF Ready
  <2>3. ready[0].steps = WARMUP + (ready[0].steps - WARMUP)
    BY ONLY <1>1, <2>2
  <2> QED
    BY <2>2, <2>3
<1>9. ASSUME NEW m \in Maps
      PROVE  ready[m].buf[ready[m].i + 1] = {<<RsSeed(m), WARMUP + s, i + 1>>}
  <2>1. ready[m].steps = WARMUP + s /\ ready[m].i = i
    BY <1>6, <1>7, <1>8
  <2>2. ready[m].buf = Block(RsSeed(m), WARMUP + s)
    BY <1>3, <1>7, <2>1 DEF Ready
  <2>3. i + 1 \in 1 .. B
    BY <1>1, <1>8
  <2> HIDE DEF s, i
  <2> QED
    BY <2>1, <2>2, <2>3, BlockAt
<1> HIDE DEF s, i, k
<1>10. XorOver([m \in Maps |-> ready[m].buf[ready[m].i + 1]]) = TapeAt(WARMUP + s, i + 1)
  <2>1. [m \in Maps |-> ready[m].buf[ready[m].i + 1]]
          = [m \in Maps |-> {<<RsSeed(m), WARMUP + s, i + 1>>}]
    BY <1>9
  <2> QED
    BY <1>1, <2>1, XorOfMaps
<1>11. Tape[k] = TapeAt(WARMUP + s, i + 1)
  BY <1>4, <1>8, NextOnTape
<1>12. pyOut' = Append(pyOut, Tape[k])
  BY <1>2, <1>10, <1>11
<1>13. Len(pyOut') = k + 1
  <2>1. Tape[k] \in TapeBytes
    BY <1>4 DEF TapeBytes
  <2> QED
    BY <1>4, <1>12, <2>1, AppendProperties DEF k
<1>14. ASSUME NEW m \in Maps PROVE EngineInv(m)'
  <2> DEFINE r == ready[m]
             e == eng'[m]
  <2>1. /\ r = [steps |-> r.steps, buf |-> r.buf, i |-> r.i]
        /\ r.steps \in Nat /\ r.steps >= WARMUP
        /\ r.i \in 0 .. B - 1 /\ Len(r.buf) = B
        /\ (r.steps - WARMUP) * B = k + 1 + (B - (r.i + 1))
        /\ r.buf = Block(PySeed(m), r.steps)
    <3>1. r.steps \in Nat /\ r.steps - WARMUP \in Nat => r.steps >= WARMUP
      BY <1>1
    <3> QED
      BY <1>3, <3>1 DEF Ready, k
  <2>2. e = [r EXCEPT !.i = @ + 1]
    BY <1>2
  <2> HIDE DEF r, e
  <2>3. e.steps = r.steps /\ e.buf = r.buf /\ e.i = r.i + 1
        /\ e = [steps |-> e.steps, buf |-> e.buf, i |-> e.i]
    BY <2>1, <2>2
  <2>4. e.i \in 0 .. Len(e.buf) /\ Len(e.buf) \in {0, B} /\ Len(e.buf) - e.i \in 0 .. B - 1
    BY <1>1, <2>1, <2>3
  <2>5. (e.steps - WARMUP) * B = Len(pyOut') + (Len(e.buf) - e.i)
    BY <1>4, <1>13, <2>1, <2>3
  <2>6. e.buf = Block(PySeed(m), e.steps)
    BY <2>1, <2>3
  <2> QED
    BY <2>1, <2>3, <2>4, <2>5, <2>6 DEF EngineInv, e, B
<1>15. eng' = [m \in Maps |-> eng'[m]]
  BY <1>2
<1> QED
  BY <1>2, <1>4, <1>12, <1>14, <1>15 DEF k

(* The combined buffer of Rust, when it has a byte to give.                  *)
CombReady(r, s) ==
  /\ r = [steps |-> r.steps, buf |-> r.buf, i |-> r.i]
  /\ r.steps = [m \in Maps |-> WARMUP + s]
  /\ r.i \in 0 .. B - 1
  /\ s * B = Len(rsOut) + 1 + (B - (r.i + 1))
  /\ r.buf = [j \in 1 .. B |-> TapeAt(WARMUP + s, j)]

LEMMA CombReads ==
  ASSUME Inv
  PROVE  \E s \in Nat : CombReady(RefilledCombined(comb), s)
<1>1. B \in Nat \ {0} /\ WARMUP \in Nat /\ n_maps \in Nat /\ Len(rsOut) \in Nat
  BY BNat, MultiMapAssumption DEF Inv, Drawn
<1>2. /\ comb = [steps |-> comb.steps, buf |-> comb.buf, i |-> comb.i]
      /\ comb.i \in 1 .. B
  BY DEF Inv, CombInv
<1>3. PICK s \in Nat :
        /\ comb.steps = [m \in Maps |-> WARMUP + s]
        /\ s * B = Len(rsOut) + (B - comb.i)
        /\ comb.i # B => comb.buf = [j \in 1 .. B |-> TapeAt(WARMUP + s, j)]
  BY DEF Inv, CombInv
<1> DEFINE r == RefilledCombined(comb)
<1>4. CASE comb.i >= B
  <2> DEFINE t == s + 1
  <2>1. r = [steps |-> [m \in Maps |-> comb.steps[m] + 1],
             buf |-> [j \in 1 .. B |->
                       XorOver([m \in Maps |-> Block(RsSeed(m), comb.steps[m] + 1)[j]])],
             i |-> 0]
    BY <1>4 DEF RefilledCombined, B
  <2>2. \A m \in Maps : comb.steps[m] + 1 = WARMUP + t
    BY <1>1, <1>3
  <2> HIDE DEF r, t, B
  <2>3. r.steps = [m \in Maps |-> WARMUP + t]
    BY <2>1, <2>2
  <2>4. ASSUME NEW j \in 1 .. B
        PROVE  XorOver([m \in Maps |-> Block(RsSeed(m), comb.steps[m] + 1)[j]]) = TapeAt(WARMUP + t, j)
    <3>1. \A m \in Maps : Block(RsSeed(m), comb.steps[m] + 1)[j] = {<<RsSeed(m), WARMUP + t, j>>}
      BY <2>2, BlockAt
    <3>2. [m \in Maps |-> Block(RsSeed(m), comb.steps[m] + 1)[j]]
            = [m \in Maps |-> {<<RsSeed(m), WARMUP + t, j>>}]
      BY <3>1
    <3> QED
      BY <1>1, <3>2, XorOfMaps
  <2>5. r.buf = [j \in 1 .. B |-> TapeAt(WARMUP + t, j)]
    BY <2>1, <2>4
  <2>6. /\ r.i = 0 /\ r = [steps |-> r.steps, buf |-> r.buf, i |-> r.i]
    BY <2>1
  <2>7. t \in Nat /\ t * B = Len(rsOut) + 1 + (B - (0 + 1))
    <3>1. s * B = Len(rsOut)
      BY <1>1, <1>2, <1>3, <1>4
    <3>2. (s + 1) * B = s * B + B
      BY <1>1
    <3> QED
      BY <1>1, <3>1, <3>2 DEF t
  <2>8. r.i \in 0 .. B - 1
    BY <1>1, <2>6
  <2>9. CombReady(r, t)
    BY <2>3, <2>5, <2>6, <2>7, <2>8 DEF CombReady
  <2> QED
    BY <2>7, <2>9 DEF r
<1>5. CASE ~(comb.i >= B)
  <2>1. r = comb
    BY <1>5 DEF RefilledCombined, B
  <2> HIDE DEF B
  <2>2. comb.i # B /\ comb.i \in 0 .. B - 1
    BY <1>1, <1>2, <1>5
  <2>3. s * B = Len(rsOut) + 1 + (B - (comb.i + 1))
    BY <1>1, <1>3, <2>2
  <2>4. CombReady(comb, s)
    BY <1>2, <1>3, <2>2, <2>3 DEF CombReady
  <2> QED
    BY <2>1, <2>4
<1> QED
  BY <1>4, <1>5

LEMMA RustReads ==
  ASSUME Inv, NextByte
  PROVE  /\ Len(rsOut) \in 0 .. MaxBytes - 1
         /\ rsOut' = Append(rsOut, Tape[Len(rsOut)])
         /\ CombInv'
         /\ n_maps' = n_maps /\ eng' = eng /\ pyOut' = pyOut
<1>1. B \in Nat \ {0} /\ MaxBytes \in Nat /\ rsOut \in Seq(TapeBytes)
  BY BNat, MultiMapAssumption DEF Inv, Drawn
<1> DEFINE r == RefilledCombined(comb)
           k == Len(rsOut)
<1>2. /\ k < MaxBytes
      /\ comb' = [r EXCEPT !.i = @ + 1]
      /\ rsOut' = Append(rsOut, r.buf[r.i + 1])
      /\ n_maps' = n_maps /\ eng' = eng /\ pyOut' = pyOut
  BY DEF NextByte
<1>3. PICK s \in Nat : CombReady(r, s)
  BY CombReads
<1> HIDE DEF r
<1>4. /\ r = [steps |-> r.steps, buf |-> r.buf, i |-> r.i]
      /\ r.steps = [m \in Maps |-> WARMUP + s]
      /\ r.i \in 0 .. B - 1
      /\ s * B = k + 1 + (B - (r.i + 1))
      /\ r.buf = [j \in 1 .. B |-> TapeAt(WARMUP + s, j)]
  BY <1>3 DEF CombReady
<1>5. k \in 0 .. MaxBytes - 1
  BY <1>1, <1>2
<1> HIDE DEF k, B
<1>6. Tape[k] = TapeAt(WARMUP + s, r.i + 1)
  BY <1>4, <1>5, NextOnTape
<1>7. r.i + 1 \in 1 .. B
  BY <1>1, <1>4
<1>8. rsOut' = Append(rsOut, Tape[k])
  BY <1>2, <1>4, <1>6, <1>7
<1>9. Len(rsOut') = k + 1
  <2>1. Tape[k] \in TapeBytes
    BY <1>5 DEF TapeBytes
  <2> QED
    BY <1>1, <1>8, <2>1, AppendProperties DEF k
<1>10. /\ comb'.steps = r.steps /\ comb'.buf = r.buf /\ comb'.i = r.i + 1
       /\ comb' = [steps |-> comb'.steps, buf |-> comb'.buf, i |-> comb'.i]
  BY <1>2, <1>4
<1>11. Maps' = Maps /\ \A st, j : TapeAt(st, j)' = TapeAt(st, j)
  BY <1>2 DEF Maps, TapeAt, Survivors
<1>12. CombInv'
  <2>1. comb'.i \in 1 .. B
    BY <1>7, <1>10
  <2>2. comb'.steps = [m \in Maps' |-> WARMUP + s]
    BY <1>4, <1>10, <1>11
  <2>3. s * B = Len(rsOut') + (B - comb'.i)
    BY <1>4, <1>9, <1>10
  <2>4. comb'.buf = [j \in 1 .. B |-> TapeAt(WARMUP + s, j)']
    BY <1>4, <1>10, <1>11
  <2> QED
    BY <1>10, <2>1, <2>2, <2>3, <2>4 DEF CombInv, B
<1> QED
  BY <1>2, <1>5, <1>8, <1>12 DEF k

LEMMA TapeKept ==
  ASSUME n_maps' = n_maps
  PROVE  Tape' = Tape /\ TapeBytes' = TapeBytes /\ Maps' = Maps
<1>1. Maps' = Maps
  BY DEF Maps
<1>2. Tape' = Tape
  BY <1>1 DEF Tape
<1> QED
  BY <1>1, <1>2 DEF TapeBytes

LEMMA CombKept ==
  ASSUME CombInv, n_maps' = n_maps, comb' = comb, rsOut' = rsOut
  PROVE  CombInv'
<1>1. comb' = comb /\ rsOut' = rsOut /\ n_maps' = n_maps
  OBVIOUS
<1>2. Maps' = Maps /\ \A st, j : TapeAt(st, j)' = TapeAt(st, j)
  BY <1>1 DEF Maps, TapeAt, Survivors
<1>3. PICK s \in Nat :
        /\ comb.steps = [m \in Maps |-> WARMUP + s]
        /\ s * B = Len(rsOut) + (B - comb.i)
        /\ comb.i # B => comb.buf = [j \in 1 .. B |-> TapeAt(WARMUP + s, j)]
  BY DEF CombInv
<1>4. comb'.steps = [m \in Maps' |-> WARMUP + s]
  BY <1>1, <1>2, <1>3, Zenon
<1>5. s * B = Len(rsOut') + (B - comb'.i)
  BY <1>1, <1>3, Zenon
<1>6. comb'.i # B => comb'.buf = [j \in 1 .. B |-> TapeAt(WARMUP + s, j)']
  <2>1. [j \in 1 .. B |-> TapeAt(WARMUP + s, j)'] = [j \in 1 .. B |-> TapeAt(WARMUP + s, j)]
    BY <1>2
  <2> QED
    BY <1>1, <1>3, <2>1, Zenon
<1>7. comb' = [steps |-> comb'.steps, buf |-> comb'.buf, i |-> comb'.i] /\ comb'.i \in 1 .. B
  BY <1>1 DEF CombInv
<1> QED
  BY <1>4, <1>5, <1>6, <1>7 DEF CombInv, B

LEMMA OneMoreDrawn ==
  ASSUME NEW drawn, Drawn(drawn), Len(drawn) \in 0 .. MaxBytes - 1
  PROVE  LET more == Append(drawn, Tape[Len(drawn)])
         IN  more \in Seq(TapeBytes) /\ Len(more) <= MaxBytes
<1>1. drawn \in Seq(TapeBytes) /\ MaxBytes \in Nat /\ Tape[Len(drawn)] \in TapeBytes
  BY MultiMapAssumption DEF Drawn, TapeBytes
<1>2. Append(drawn, Tape[Len(drawn)]) \in Seq(TapeBytes) /\ Len(Append(drawn, Tape[Len(drawn)])) = Len(drawn) + 1
  BY <1>1, AppendProperties
<1> QED
  BY <1>1, <1>2

LEMMA StepInv == Inv /\ [Next]_vars => Inv'
<1> SUFFICES ASSUME Inv, [Next]_vars PROVE Inv'
  OBVIOUS
<1>1. CASE GenerateByte
  <2>1. /\ Len(pyOut) \in 0 .. MaxBytes - 1
        /\ pyOut' = Append(pyOut, Tape[Len(pyOut)])
        /\ \A m \in Maps : EngineInv(m)'
        /\ n_maps' = n_maps /\ comb' = comb /\ rsOut' = rsOut
        /\ eng' = [m \in Maps |-> eng'[m]]
    BY <1>1, PythonReads
  <2>2. Tape' = Tape /\ TapeBytes' = TapeBytes /\ Maps' = Maps
    BY <2>1, TapeKept
  <2>3. Drawn(pyOut)'
    BY <2>1, <2>2, OneMoreDrawn DEF Drawn, Inv
  <2>4. Drawn(rsOut)'
    BY <2>1, <2>2 DEF Drawn, Inv
  <2>5. CombInv'
    BY <2>1, CombKept DEF Inv
  <2> QED
    BY <2>1, <2>2, <2>3, <2>4, <2>5 DEF Inv
<1>2. CASE NextByte
  <2>1. /\ Len(rsOut) \in 0 .. MaxBytes - 1
        /\ rsOut' = Append(rsOut, Tape[Len(rsOut)])
        /\ CombInv'
        /\ n_maps' = n_maps /\ eng' = eng /\ pyOut' = pyOut
    BY <1>2, RustReads
  <2>2. Tape' = Tape /\ TapeBytes' = TapeBytes /\ Maps' = Maps
    BY <2>1, TapeKept
  <2>3. Drawn(rsOut)'
    BY <2>1, <2>2, OneMoreDrawn DEF Drawn, Inv
  <2>4. Drawn(pyOut)'
    BY <2>1, <2>2 DEF Drawn, Inv
  <2>5. \A m \in Maps : EngineInv(m)'
    BY <2>1 DEF EngineInv, Inv
  <2> QED
    BY <2>1, <2>2, <2>3, <2>4, <2>5 DEF Inv
<1>3. CASE UNCHANGED vars
  <2>1. n_maps' = n_maps /\ eng' = eng /\ comb' = comb /\ pyOut' = pyOut /\ rsOut' = rsOut
    BY <1>3 DEF vars
  <2>2. Tape' = Tape /\ TapeBytes' = TapeBytes /\ Maps' = Maps
    BY <2>1, TapeKept
  <2>3. CombInv'
    BY <2>1, CombKept DEF Inv
  <2>4. \A m \in Maps : EngineInv(m)'
    BY <2>1 DEF EngineInv, Inv
  <2> QED
    BY <2>1, <2>2, <2>3, <2>4 DEF Inv, Drawn
<1> QED
  BY <1>1, <1>2, <1>3 DEF Next

LEMMA Invariance == Spec => []Inv
<1> QED
  BY InitInv, StepInv, PTL DEF Spec

(***************************************************************************)
(* Types, and the limits of both buffers.                                  *)
(***************************************************************************)
THEOREM TypeCorrect == Spec => []TypeOK
<1>1. Inv => TypeOK
  <2> SUFFICES ASSUME Inv PROVE TypeOK
    OBVIOUS
  <2>1. \A m \in Maps : /\ eng[m].steps >= WARMUP
                        /\ eng[m].i \in 0 .. Len(eng[m].buf)
                        /\ Len(eng[m].buf) \in {0, OUTPUT_BYTES_PER_STEP}
    BY DEF Inv, EngineInv, B
  <2>2. comb.i \in 0 .. OUTPUT_BYTES_PER_STEP
    BY BNat DEF Inv, CombInv, B
  <2> QED
    BY <2>1, <2>2 DEF TypeOK, Inv, Drawn
<1> QED
  BY <1>1, Invariance, PTL

(***************************************************************************)
(* The engines of every number of maps, and all other engines.             *)
(***************************************************************************)
THEOREM SeparateEngines == Spec => []EnginesApart
<1>1. Inv => EnginesApart
  <2> SUFFICES ASSUME NEW m \in Maps, NEW o \in Maps, Inv
               PROVE  RsSeed(m) = RsSeed(o) <=> AsU16(m) = AsU16(o)
    BY SeparateSeeds DEF EnginesApart
  <2>1. m \in Nat /\ o \in Nat
    BY MultiMapAssumption DEF Inv, Maps
  <2> QED
    BY <2>1, SeedsOfMaps
<1> QED
  BY <1>1, Invariance, PTL

(* The invariant leaves one number of steps for a number of bytes.           *)
LEMMA StepsFollow == Inv => SameSteps
<1> SUFFICES ASSUME Inv, Len(pyOut) = Len(rsOut), NEW m \in Maps
             PROVE  eng[m].steps = comb.steps[m]
  BY DEF SameSteps
<1>1. B \in Nat \ {0} /\ WARMUP \in Nat /\ Len(pyOut) \in Nat
  BY BNat, MultiMapAssumption DEF Inv, Drawn
<1> DEFINE s == eng[m].steps - WARMUP
           a == Len(eng[m].buf) - eng[m].i
<1>2. s \in Nat /\ a \in 0 .. B - 1 /\ s * B = Len(pyOut) + a /\ eng[m].steps = WARMUP + s
  <2>1. eng[m].steps \in Nat /\ eng[m].steps >= WARMUP
    BY DEF Inv, EngineInv
  <2>2. a \in 0 .. B - 1 /\ s * B = Len(pyOut) + a
    BY DEF Inv, EngineInv
  <2> QED
    BY <1>1, <2>1, <2>2
<1>3. PICK t \in Nat : /\ comb.steps = [o \in Maps |-> WARMUP + t]
                       /\ t * B = Len(rsOut) + (B - comb.i)
  BY DEF Inv, CombInv
<1>4. B - comb.i \in 0 .. B - 1
  BY <1>1 DEF Inv, CombInv
<1> HIDE DEF s, a, B
<1>5. s * B - a = t * B - (B - comb.i)
  <2> DEFINE c == B - comb.i
  <2>1. c \in 0 .. B - 1 /\ t * B = Len(pyOut) + c
    BY <1>3, <1>4
  <2> HIDE DEF c
  <2>2. s * B - a = t * B - c
    BY <1>1, <1>2, <2>1
  <2> QED
    BY <2>2 DEF c
<1>6. s = t
  BY <1>2, <1>3, <1>4, <1>5, StepsUnique
<1> QED
  BY <1>2, <1>3, <1>6

(***************************************************************************)
(* Both buffering schemes implement the abstract keystream, for every      *)
(* number of maps, and step their maps alike.                              *)
(***************************************************************************)
THEOREM OneTape == Spec => ReadsTheTape
<1> DEFINE Readers == {"python", "rust"}
           Out == [r \in Readers |-> IF r = "python" THEN pyOut ELSE rsOut]
<1>1. Init => Keystream!Init
  BY DEF Init, Keystream!Init
<1>2. Inv /\ [Next]_vars => [Keystream!Next]_<<Tape, Out>>
  <2> SUFFICES ASSUME Inv, [Next]_vars PROVE [Keystream!Next]_<<Tape, Out>>
    OBVIOUS
  <2>1. Out["python"] = pyOut /\ Out["rust"] = rsOut
    OBVIOUS
  <2>2. CASE GenerateByte
    <3>1. /\ Len(pyOut) \in 0 .. MaxBytes - 1
          /\ pyOut' = Append(pyOut, Tape[Len(pyOut)])
          /\ n_maps' = n_maps /\ rsOut' = rsOut
      BY <2>2, PythonReads
    <3>2. Tape' = Tape
      BY <3>1, TapeKept
    <3>3. Len(Out["python"]) \in DOMAIN Tape
      BY <2>1, <3>1 DEF Tape
    <3>4. Out' = [Out EXCEPT !["python"] = Append(@, Tape[Len(@)])]
      BY <3>1
    <3> QED
      BY <3>2, <3>3, <3>4 DEF Keystream!Next, Keystream!Read
  <2>3. CASE NextByte
    <3>1. /\ Len(rsOut) \in 0 .. MaxBytes - 1
          /\ rsOut' = Append(rsOut, Tape[Len(rsOut)])
          /\ n_maps' = n_maps /\ pyOut' = pyOut
      BY <2>3, RustReads
    <3>2. Tape' = Tape
      BY <3>1, TapeKept
    <3>3. Len(Out["rust"]) \in DOMAIN Tape
      BY <2>1, <3>1 DEF Tape
    <3>4. Out' = [Out EXCEPT !["rust"] = Append(@, Tape[Len(@)])]
      BY <3>1
    <3> QED
      BY <3>2, <3>3, <3>4 DEF Keystream!Next, Keystream!Read
  <2>4. CASE UNCHANGED vars
    <3>1. n_maps' = n_maps /\ pyOut' = pyOut /\ rsOut' = rsOut
      BY <2>4 DEF vars
    <3>2. Tape' = Tape
      BY <3>1, TapeKept
    <3> QED
      BY <3>1, <3>2
  <2> QED
    BY <2>2, <2>3, <2>4 DEF Next
<1>3. Spec => Keystream!Spec
  BY <1>1, <1>2, Invariance, PTL DEF Spec, Keystream!Spec
<1>4. Spec => []SameSteps
  BY StepsFollow, Invariance, PTL
<1> QED
  BY <1>3, <1>4 DEF ReadsTheTape

-----------------------------------------------------------------------------
(* RatchetKeystream. *)
RatchetBytes == {TapeByte(n) : n \in Nat}

EngineAt(h, ep, used) ==
  [chain |-> ChainAt(ep + 1), epoch_index |-> IF h \in PyHolders THEN ep ELSE ep + 1,
   key |-> EpochKey(ChainAt(ep), ep), nonce |-> ep, used |-> used,
   remaining |-> EpochBytes - used]

CheckpointAt(ep) == [chain |-> ChainAt(ep + 1), next |-> ep + 1, taken |-> ep]

OutputUpTo(h, ep, used) == from[h] * EpochBytes + Len(out[h]) = ep * EpochBytes + used

Runs(h) ==
  \E ep \in 0 .. MaxEpoch, used \in 0 .. EpochBytes :
    held[h] = EngineAt(h, ep, used) /\ OutputUpTo(h, ep, used)

RatchetInv ==
  /\ held = [h \in Holders |-> held[h]]
  /\ out \in [Holders -> Seq(RatchetBytes)]
  /\ from \in [Holders -> Nat]
  /\ \A h \in Holders : held[h] # Nobody => Runs(h)
  /\ \A cp \in checkpoints : \E ep \in 0 .. MaxEpoch : cp = CheckpointAt(ep)
  /\ OnOneTape

-----------------------------------------------------------------------------
LEMMA ChainStep ==
  ASSUME NEW i \in Nat
  PROVE  /\ NextChain(ChainAt(i), i) = ChainAt(i + 1)
         /\ Len(ChainAt(i)) = i
<1>1. ChainAt(i) \in Seq(Nat) /\ Len(ChainAt(i)) = i
  BY DEF ChainAt
<1>2. ChainAt(i + 1) \in Seq(Nat) /\ Len(ChainAt(i + 1)) = i + 1
  BY DEF ChainAt
<1> DEFINE s == Append(ChainAt(i), i)
<1>3. s \in Seq(Nat) /\ Len(s) = i + 1
  BY <1>1, AppendProperties
<1>4. ASSUME NEW j \in 1 .. i + 1 PROVE s[j] = ChainAt(i + 1)[j]
  <2>1. CASE j = i + 1
    BY <1>1, <2>1, AppendProperties DEF ChainAt
  <2>2. CASE j \in 1 .. i
    BY <1>1, <2>2, AppendProperties DEF ChainAt
  <2>3. j = i + 1 \/ j \in 1 .. i
    OBVIOUS
  <2> QED
    BY <2>1, <2>2, <2>3
<1>5. s = ChainAt(i + 1)
  BY <1>2, <1>3, <1>4, SeqEqual
<1> QED
  BY <1>1, <1>5 DEF NextChain

(* Both ports enter the next epoch with the same key, nonce and chain.      *)
LEMMA Enters ==
  ASSUME NEW h \in Holders, NEW e, NEW i \in Nat, e.chain = ChainAt(i),
         e.epoch_index = IF h \in PyHolders THEN i - 1 ELSE i
  PROVE  Advance(h, e) = EngineAt(h, i, 0)
<1>1. NextChain(ChainAt(i), i) = ChainAt(i + 1) /\ EpochBytes \in Nat
  BY ChainStep, RatchetAssumption
<1>2. CASE h \in PyHolders
  BY <1>1, <1>2 DEF Advance, PyAdvance, EngineAt
<1>3. CASE h \notin PyHolders
  BY <1>1, <1>3 DEF Advance, RsAdvance, EngineAt
<1> QED
  BY <1>2, <1>3

LEMMA Starts ==
  /\ \A h \in Holders : Fresh(h) = EngineAt(h, 0, 0)
  /\ \A h \in PyHolders, ep \in Nat :
       FromChainKey(CheckpointAt(ep)) = EngineAt(h, ep + 1, 0)
<1>0. InitChain = ChainAt(0)
  BY DEF InitChain, ChainAt
<1>1. ASSUME NEW h \in Holders PROVE Fresh(h) = EngineAt(h, 0, 0)
  <2>1. CASE h \in PyHolders
    <3> DEFINE e == Unset(InitChain, -1)
    <3>1. e.chain = ChainAt(0) /\ e.epoch_index = -1
      BY <1>0 DEF Unset
    <3> HIDE DEF e
    <3>2. Advance(h, e) = EngineAt(h, 0, 0)
      BY <2>1, <3>1, Enters
    <3> QED
      BY <2>1, <3>2 DEF Advance, Fresh, NewPy, e
  <2>2. CASE h \notin PyHolders
    <3> DEFINE e == Unset(InitChain, 0)
    <3>1. e.chain = ChainAt(0) /\ e.epoch_index = 0
      BY <1>0 DEF Unset
    <3> HIDE DEF e
    <3>2. Advance(h, e) = EngineAt(h, 0, 0)
      BY <2>2, <3>1, Enters
    <3> QED
      BY <2>2, <3>2 DEF Advance, Fresh, NewRs, e
  <2> QED
    BY <2>1, <2>2
<1>2. ASSUME NEW h \in PyHolders, NEW ep \in Nat
      PROVE  FromChainKey(CheckpointAt(ep)) = EngineAt(h, ep + 1, 0)
  <2> DEFINE e == Unset(ChainAt(ep + 1), (ep + 1) - 1)
  <2>1. e.chain = ChainAt(ep + 1) /\ e.epoch_index = (ep + 1) - 1 /\ h \in Holders
    BY DEF Unset, Holders
  <2>2. FromChainKey(CheckpointAt(ep)) = PyAdvance(e)
    BY DEF FromChainKey, CheckpointAt
  <2> HIDE DEF e
  <2>3. Advance(h, e) = EngineAt(h, ep + 1, 0)
    BY <2>1, Enters
  <2> QED
    BY <2>2, <2>3 DEF Advance
<1> QED
  BY <1>1, <1>2

LEMMA EngineFields ==
  ASSUME NEW h \in Holders, NEW ep \in Nat, NEW used \in 0 .. EpochBytes
  PROVE  LET e == EngineAt(h, ep, used)
         IN  /\ Emitting(h, e) = ep /\ e.chain = ChainAt(ep + 1)
             /\ e.key = EpochKey(ChainAt(ep), ep) /\ e.nonce = ep
             /\ e.used = used /\ e.remaining = EpochBytes - used
             /\ h \in PyHolders => e.epoch_index = ep
             /\ h \notin PyHolders => e.epoch_index = ep + 1
  BY DEF EngineAt, Emitting

LEMMA OneUsed ==
  ASSUME NEW h, NEW i, NEW u \in Nat, NEW r, r = EngineAt(h, i, u), NEW s,
         s = [r EXCEPT !.remaining = @ - 1, !.used = @ + 1]
  PROVE  s = EngineAt(h, i, u + 1)
<1> DEFINE m == r.remaining - 1
           n == r.used + 1
           x == IF h \in PyHolders THEN i ELSE i + 1
<1>1. r = [chain |-> ChainAt(i + 1), epoch_index |-> x, key |-> EpochKey(ChainAt(i), i),
           nonce |-> i, used |-> u, remaining |-> EpochBytes - u]
  BY DEF EngineAt
<1> HIDE DEF x
<1>2. n = u + 1 /\ m = EpochBytes - (u + 1)
  BY <1>1, RatchetAssumption
<1>3. s = [r EXCEPT !.remaining = m, !.used = n]
  OBVIOUS
<1> HIDE DEF m, n
<1>4. /\ s.chain = ChainAt(i + 1) /\ s.epoch_index = x /\ s.key = EpochKey(ChainAt(i), i)
      /\ s.nonce = i /\ s.used = n /\ s.remaining = m
  BY ONLY <1>1, <1>3
<1>5. s = [chain |-> s.chain, epoch_index |-> s.epoch_index, key |-> s.key,
           nonce |-> s.nonce, used |-> s.used, remaining |-> s.remaining]
  BY ONLY <1>1, <1>3
<1> QED
  BY <1>2, <1>4, <1>5, Zenon DEF x, EngineAt

LEMMA ByteOfTape ==
  ASSUME NEW ep \in Nat, NEW used \in 0 .. EpochBytes - 1
  PROVE  TapeByte(ep * EpochBytes + used) = EpochByte(EpochKey(ChainAt(ep), ep), ep, used)
<1>1. (ep * EpochBytes + used) \div EpochBytes = ep /\ (ep * EpochBytes + used) % EpochBytes = used
  BY DivModUnique, RatchetAssumption
<1> QED
  BY <1>1 DEF TapeByte

-----------------------------------------------------------------------------
LEMMA RatchetInitInv == RatchetInit => RatchetInv
  BY DEF RatchetInit, RatchetInv, OnOneTape

(* A holder that is set up, or resumes, at the start of epoch ep.           *)
LEMMA Begins ==
  ASSUME RatchetInv, NEW h \in Holders, NEW ep \in 0 .. MaxEpoch,
         held' = [held EXCEPT ![h] = EngineAt(h, ep, 0)],
         out' = [out EXCEPT ![h] = <<>>],
         from' = [from EXCEPT ![h] = ep],
         checkpoints' = checkpoints
  PROVE  RatchetInv'
<1>0. EpochBytes \in Nat /\ <<>> \in Seq(RatchetBytes) /\ Len(<<>>) = 0
  BY RatchetAssumption
<1>1. held' = [g \in Holders |-> held'[g]]
  BY DEF RatchetInv
<1>2. out' \in [Holders -> Seq(RatchetBytes)] /\ from' \in [Holders -> Nat]
  BY <1>0 DEF RatchetInv
<1>3. ASSUME NEW g \in Holders, held'[g] # Nobody PROVE Runs(g)'
  <2>1. CASE g = h
    <3>1. held'[g] = EngineAt(g, ep, 0) /\ out'[g] = <<>> /\ from'[g] = ep
      BY <2>1 DEF RatchetInv
    <3>2. OutputUpTo(g, ep, 0)'
      BY <1>0, <3>1 DEF OutputUpTo
    <3> QED
      BY <1>0, <3>1, <3>2 DEF Runs
  <2>2. CASE g # h
    <3>1. held'[g] = held[g] /\ out'[g] = out[g] /\ from'[g] = from[g]
      BY <2>2 DEF RatchetInv
    <3>2. Runs(g)
      BY <1>3, <3>1 DEF RatchetInv
    <3> QED
      BY <3>1, <3>2 DEF Runs, OutputUpTo
  <2> QED
    BY <2>1, <2>2
<1>4. OnOneTape'
  <2> SUFFICES ASSUME NEW g \in Holders, NEW k \in 1 .. Len(out'[g])
               PROVE  out'[g][k] = TapeByte(from'[g] * EpochBytes + k - 1)
    BY DEF OnOneTape
  <2>1. g # h
    BY <1>0 DEF RatchetInv
  <2> QED
    BY <2>1 DEF RatchetInv, OnOneTape
<1> QED
  BY <1>1, <1>2, <1>3, <1>4 DEF RatchetInv

LEMMA GenerateKeeps ==
  ASSUME RatchetInv, NEW h \in Holders, RatchetGenerateByte(h)
  PROVE  RatchetInv'
<1> DEFINE e == held[h]
           r == IF e.remaining = 0 THEN Advance(h, e) ELSE e
           b == EpochByte(r.key, r.nonce, r.used)
           n == from[h] * EpochBytes + Len(out[h])
<1>1. /\ e # Nobody /\ Emitting(h, r) <= MaxEpoch
      /\ held' = [held EXCEPT ![h] = [r EXCEPT !.remaining = @ - 1, !.used = @ + 1]]
      /\ out' = [out EXCEPT ![h] = Append(@, b)]
      /\ from' = from /\ checkpoints' = checkpoints
  BY DEF RatchetGenerateByte
<1>2. /\ EpochBytes \in Nat \ {0} /\ MaxEpoch \in Nat
      /\ out[h] \in Seq(RatchetBytes) /\ Len(out[h]) \in Nat /\ from[h] \in Nat
  BY RatchetAssumption DEF RatchetInv
<1>3. PICK ep \in 0 .. MaxEpoch, used \in 0 .. EpochBytes :
        e = EngineAt(h, ep, used) /\ OutputUpTo(h, ep, used)
  BY <1>1 DEF RatchetInv, Runs
<1>4. \E i \in Nat, u \in 0 .. EpochBytes - 1 :
        r = EngineAt(h, i, u) /\ n = i * EpochBytes + u
  <2>0. n = ep * EpochBytes + used /\ ep \in Nat /\ e.remaining = EpochBytes - used
    <3>1. ep \in Nat
      BY <1>2
    <3>2. EngineAt(h, ep, used).remaining = EpochBytes - used
      BY <3>1, EngineFields
    <3>3. n = ep * EpochBytes + used
      BY <1>3 DEF OutputUpTo
    <3> QED
      BY <1>3, <3>1, <3>2, <3>3
  <2>1. CASE used = EpochBytes
    <3>1. e.remaining = 0
      BY <1>2, <2>0, <2>1
    <3>2. e.chain = ChainAt(ep + 1) /\ e.epoch_index = IF h \in PyHolders THEN (ep + 1) - 1 ELSE ep + 1
      <4>1. (ep + 1) - 1 = ep
        BY <2>0
      <4>2. /\ e.chain = ChainAt(ep + 1)
            /\ h \in PyHolders => e.epoch_index = ep
            /\ h \notin PyHolders => e.epoch_index = ep + 1
        BY <1>3, <2>0, EngineFields
      <4> HIDE DEF e
      <4> QED
        BY <4>1, <4>2
    <3> HIDE DEF e
    <3>3. r = EngineAt(h, ep + 1, 0)
      <4>1. ep + 1 \in Nat
        BY <2>0
      <4> QED
        BY <3>1, <3>2, <4>1, Enters
    <3> HIDE DEF r, n
    <3>4. n = (ep + 1) * EpochBytes + 0
      BY <1>2, <2>0, <2>1
    <3> QED
      <4>1. ep + 1 \in Nat /\ 0 \in 0 .. EpochBytes - 1
        BY <1>2, <2>0
      <4> QED
        BY <3>3, <3>4, <4>1
  <2>2. CASE used # EpochBytes
    <3>1. e.remaining # 0 /\ used \in 0 .. EpochBytes - 1
      BY <1>2, <2>0, <2>2
    <3> QED
      BY <1>3, <2>0, <3>1
  <2> QED
    BY <2>1, <2>2
<1>5. PICK i \in Nat, u \in 0 .. EpochBytes - 1 :
        r = EngineAt(h, i, u) /\ n = i * EpochBytes + u
  BY <1>4
<1>6. u \in 0 .. EpochBytes /\ u + 1 \in 0 .. EpochBytes
  BY <1>2
<1>7. Emitting(h, r) = i /\ b = EpochByte(EpochKey(ChainAt(i), i), i, u)
  <2>1. /\ Emitting(h, EngineAt(h, i, u)) = i /\ EngineAt(h, i, u).key = EpochKey(ChainAt(i), i)
        /\ EngineAt(h, i, u).nonce = i /\ EngineAt(h, i, u).used = u
    BY <1>6, EngineFields
  <2> HIDE DEF r
  <2> QED
    BY <1>5, <2>1
<1>8. i \in 0 .. MaxEpoch
  BY <1>1, <1>2, <1>5, <1>7
<1>9. b = TapeByte(n) /\ n \in Nat /\ b \in RatchetBytes
  <2>1. b = TapeByte(n)
    BY <1>5, <1>7, ByteOfTape
  <2>2. n \in Nat
    BY <1>2
  <2> QED
    BY <2>1, <2>2 DEF RatchetBytes
<1>10. [r EXCEPT !.remaining = @ - 1, !.used = @ + 1] = EngineAt(h, i, u + 1)
  <2>1. u \in Nat
    OBVIOUS
  <2> HIDE DEF r
  <2> QED
    BY <1>5, <2>1, OneUsed
<1> HIDE DEF r, b, e
<1>11. held' = [held EXCEPT ![h] = EngineAt(h, i, u + 1)]
  BY <1>1, <1>10
<1>12. /\ Append(out[h], b) \in Seq(RatchetBytes) /\ Len(Append(out[h], b)) = Len(out[h]) + 1
       /\ Append(out[h], b)[Len(out[h]) + 1] = b
       /\ \A k \in 1 .. Len(out[h]) : Append(out[h], b)[k] = out[h][k]
  BY <1>2, <1>9, AppendProperties
<1>13. out'[h] = Append(out[h], b) /\ \A g \in Holders \ {h} : out'[g] = out[g]
  BY <1>1 DEF RatchetInv
<1>14. ASSUME NEW g \in Holders, held'[g] # Nobody PROVE Runs(g)'
  <2>1. CASE g = h
    <3>1. held'[g] = EngineAt(g, i, u + 1)
      BY <1>11, <2>1 DEF RatchetInv
    <3>2. Len(out'[g]) = Len(out[h]) + 1 /\ from'[g] = from[h]
      BY <1>1, <1>12, <1>13, <2>1
    <3>3. from[h] * EpochBytes + (Len(out[h]) + 1) = i * EpochBytes + (u + 1)
      <4> DEFINE x == from[h] * EpochBytes
                 y == i * EpochBytes
      <4>1. x \in Int /\ y \in Int /\ x + Len(out[h]) = y + u
        BY <1>2, <1>5
      <4> HIDE DEF x, y
      <4>2. x + (Len(out[h]) + 1) = y + (u + 1)
        BY <1>2, <4>1
      <4> QED
        BY <4>2 DEF x, y
    <3>4. OutputUpTo(g, i, u + 1)'
      BY <3>2, <3>3 DEF OutputUpTo
    <3> QED
      BY <1>6, <1>8, <3>1, <3>4 DEF Runs
  <2>2. CASE g # h
    <3>1. held'[g] = held[g] /\ out'[g] = out[g] /\ from'[g] = from[g]
      BY <1>1, <1>11, <1>13, <2>2 DEF RatchetInv
    <3>2. Runs(g)
      BY <1>14, <3>1 DEF RatchetInv
    <3> QED
      BY <3>1, <3>2 DEF Runs, OutputUpTo
  <2> QED
    BY <2>1, <2>2
<1>15. OnOneTape'
  <2> SUFFICES ASSUME NEW g \in Holders, NEW k \in 1 .. Len(out'[g])
               PROVE  out'[g][k] = TapeByte(from'[g] * EpochBytes + k - 1)
    BY DEF OnOneTape
  <2>1. CASE g # h
    BY <1>1, <1>13, <2>1 DEF RatchetInv, OnOneTape
  <2>2. CASE g = h /\ k = Len(out[h]) + 1
    <3>1. out'[g][k] = b
      BY <1>12, <1>13, <2>2
    <3>2. from'[g] * EpochBytes + k - 1 = n
      BY <1>1, <1>2, <2>2
    <3> QED
      BY <1>9, <3>1, <3>2
  <2>3. CASE g = h /\ k \in 1 .. Len(out[h])
    BY <1>1, <1>12, <1>13, <2>3 DEF RatchetInv, OnOneTape
  <2>4. k \in 1 .. Len(out[h]) \/ k = Len(out[h]) + 1 \/ g # h
    BY <1>2, <1>12, <1>13
  <2> QED
    BY <2>1, <2>2, <2>3, <2>4
<1>16. held' = [g \in Holders |-> held'[g]] /\ out' \in [Holders -> Seq(RatchetBytes)]
       /\ from' \in [Holders -> Nat]
  BY <1>1, <1>11, <1>12 DEF RatchetInv
<1> QED
  BY <1>1, <1>14, <1>15, <1>16 DEF RatchetInv

LEMMA CheckpointKeeps ==
  ASSUME RatchetInv, NEW h \in Holders, Checkpoint(h)
  PROVE  RatchetInv'
<1>1. PICK ep \in 0 .. MaxEpoch, used \in 0 .. EpochBytes : held[h] = EngineAt(h, ep, used)
  BY DEF Checkpoint, RatchetInv, Runs
<1>2. held[h].chain = ChainAt(ep + 1) /\ held[h].epoch_index = ep
  BY <1>1, EngineFields, RatchetAssumption DEF Checkpoint
<1>3. /\ checkpoints' = checkpoints \cup {CheckpointAt(ep)}
      /\ held' = held /\ out' = out /\ from' = from
  BY <1>2 DEF Checkpoint, CheckpointAt
<1>4. \A cp \in checkpoints' : \E i \in 0 .. MaxEpoch : cp = CheckpointAt(i)
  BY <1>3 DEF RatchetInv
<1>5. \A g \in Holders : Runs(g)' <=> Runs(g)
  BY <1>3 DEF Runs, OutputUpTo
<1> QED
  BY <1>3, <1>4, <1>5 DEF RatchetInv, OnOneTape

LEMMA RatchetStepInv == RatchetInv /\ [RatchetNext]_ratchetVars => RatchetInv'
<1> SUFFICES ASSUME RatchetInv, [RatchetNext]_ratchetVars PROVE RatchetInv'
  OBVIOUS
<1>1. ASSUME NEW h \in Holders, Construct(h) PROVE RatchetInv'
  <2>1. /\ held' = [held EXCEPT ![h] = EngineAt(h, 0, 0)]
        /\ out' = [out EXCEPT ![h] = <<>>]
        /\ from' = [from EXCEPT ![h] = 0]
        /\ checkpoints' = checkpoints
    BY <1>1, Starts DEF Construct
  <2>2. 0 \in 0 .. MaxEpoch
    BY RatchetAssumption
  <2> QED
    BY <2>1, <2>2, Begins
<1>2. ASSUME NEW h \in Holders, RatchetGenerateByte(h) PROVE RatchetInv'
  BY <1>2, GenerateKeeps
<1>3. ASSUME NEW h \in Holders, Checkpoint(h) PROVE RatchetInv'
  BY <1>3, CheckpointKeeps
<1>4. ASSUME NEW h \in Holders, Stop(h) PROVE RatchetInv'
  <2>1. /\ held' = [held EXCEPT ![h] = Nobody]
        /\ out' = out /\ from' = from /\ checkpoints' = checkpoints
    BY <1>4 DEF Stop
  <2>2. held' = [g \in Holders |-> held'[g]]
    BY <2>1 DEF RatchetInv
  <2>3. ASSUME NEW g \in Holders, held'[g] # Nobody PROVE Runs(g)'
    <3>1. held'[g] = held[g]
      BY <2>1, <2>3 DEF RatchetInv
    <3>2. Runs(g)
      BY <2>3, <3>1 DEF RatchetInv
    <3> QED
      BY <2>1, <3>1, <3>2 DEF Runs, OutputUpTo
  <2> QED
    BY <2>1, <2>2, <2>3 DEF RatchetInv, OnOneTape
<1>5. ASSUME NEW h \in Holders, NEW cp \in checkpoints, Resume(h, cp) PROVE RatchetInv'
  <2>1. PICK ep \in 0 .. MaxEpoch : cp = CheckpointAt(ep)
    BY DEF RatchetInv
  <2>2. cp.next = ep + 1 /\ cp.taken = ep /\ ep \in Nat /\ ep + 1 \in 0 .. MaxEpoch
    BY <1>5, <2>1, RatchetAssumption DEF CheckpointAt, Resume
  <2>3. /\ h \in PyHolders
        /\ held' = [held EXCEPT ![h] = FromChainKey(cp)]
        /\ out' = [out EXCEPT ![h] = <<>>]
        /\ from' = [from EXCEPT ![h] = ep + 1]
        /\ checkpoints' = checkpoints
    BY <1>5, <2>2 DEF Resume
  <2>4. FromChainKey(cp) = EngineAt(h, ep + 1, 0)
    BY <2>1, <2>2, <2>3, Starts
  <2> QED
    BY <2>2, <2>3, <2>4, Begins
<1>6. CASE UNCHANGED ratchetVars
  BY <1>6 DEF ratchetVars, RatchetInv, Runs, OutputUpTo, OnOneTape
<1> QED
  BY <1>1, <1>2, <1>3, <1>4, <1>5, <1>6 DEF RatchetNext

LEMMA RatchetInvariance == RatchetSpec => []RatchetInv
<1> QED
  BY RatchetInitInv, RatchetStepInv, PTL DEF RatchetSpec

-----------------------------------------------------------------------------
(***************************************************************************)
(* Epochs, counters and the length of the chain keep together.             *)
(***************************************************************************)
THEOREM RatchetTypeCorrect == RatchetSpec => []RatchetTypeOK
<1>1. RatchetInv => RatchetTypeOK
  <2> SUFFICES ASSUME RatchetInv PROVE RatchetTypeOK
    OBVIOUS
  <2>1. ASSUME NEW h \in Holders, held[h] # Nobody
        PROVE  /\ Emitting(h, held[h]) \in 0 .. MaxEpoch
               /\ held[h].remaining \in 0 .. EpochBytes
               /\ held[h].used + held[h].remaining = EpochBytes
               /\ Len(held[h].chain) = Emitting(h, held[h]) + 1
    <3>1. PICK ep \in 0 .. MaxEpoch, used \in 0 .. EpochBytes : held[h] = EngineAt(h, ep, used)
      BY <2>1 DEF RatchetInv, Runs
    <3>2. ep \in Nat /\ ep + 1 \in Nat /\ EpochBytes \in Nat
      BY RatchetAssumption
    <3>3. Len(ChainAt(ep + 1)) = ep + 1
      BY <3>2, ChainStep
    <3>4. /\ Emitting(h, held[h]) = ep /\ held[h].chain = ChainAt(ep + 1)
          /\ held[h].used = used /\ held[h].remaining = EpochBytes - used
      BY <3>1, <3>2, EngineFields
    <3> QED
      BY <3>2, <3>3, <3>4
  <2>2. \A cp \in checkpoints : cp.next \in 1 .. MaxEpoch + 1
    BY RatchetAssumption DEF RatchetInv, CheckpointAt
  <2> QED
    BY <2>1, <2>2 DEF RatchetTypeOK
<1> QED
  BY <1>1, RatchetInvariance, PTL

(***************************************************************************)
(* Every holder of either port, constructed or resumed, reads one tape.    *)
(***************************************************************************)
THEOREM OneRatchetTape == RatchetSpec => []OnOneTape
<1>1. RatchetInv => OnOneTape
  BY DEF RatchetInv
<1> QED
  BY <1>1, RatchetInvariance, PTL

(* A chain key is too long to lead to the key of an epoch before its own.   *)
LEMMA TooLong ==
  ASSUME NEW i \in Nat, NEW j \in Nat, j < i
  PROVE  ~Derives(ChainAt(i), EpochKey(ChainAt(j), j))
<1>1. Len(ChainAt(i)) = i /\ Len(ChainAt(j)) = j
  BY ChainStep
<1> QED
  BY <1>1 DEF Derives, IsPrefixOf, EpochKey

(***************************************************************************)
(* Forward secrecy, for captures of the live state and of checkpoints.     *)
(***************************************************************************)
THEOREM ForwardSecrecy == RatchetSpec => []ForwardOnly
<1>1. RatchetInv => PastEpochsBurned
  <2> SUFFICES ASSUME RatchetInv, NEW h \in Holders, held[h] # Nobody
               PROVE  /\ ~Derives(held[h].chain, held[h].key)
                      /\ \A k \in 1 .. Len(out[h]) : ~Derives(held[h].chain, out[h][k].key)
    BY DEF PastEpochsBurned
  <2>1. PICK ep \in 0 .. MaxEpoch, used \in 0 .. EpochBytes :
          held[h] = EngineAt(h, ep, used) /\ OutputUpTo(h, ep, used)
    BY DEF RatchetInv, Runs
  <2>2. /\ ep \in Nat /\ ep + 1 \in Nat /\ EpochBytes \in Nat \ {0}
        /\ from[h] \in Nat /\ Len(out[h]) \in Nat
    BY RatchetAssumption DEF RatchetInv
  <2>3. held[h].chain = ChainAt(ep + 1) /\ held[h].key = EpochKey(ChainAt(ep), ep)
    BY <2>1, <2>2, EngineFields
  <2>4. ASSUME NEW k \in 1 .. Len(out[h])
        PROVE  ~Derives(held[h].chain, out[h][k].key)
    <3> DEFINE n == from[h] * EpochBytes + k - 1
               i == n \div EpochBytes
    <3>1. n \in Nat /\ n < (ep + 1) * EpochBytes
      <4>1. from[h] * EpochBytes + Len(out[h]) = ep * EpochBytes + used
        BY <2>1 DEF OutputUpTo
      <4> DEFINE x == from[h] * EpochBytes
                 y == ep * EpochBytes
                 z == (ep + 1) * EpochBytes
      <4>2. x \in Nat /\ y \in Int /\ z = y + EpochBytes
        BY <2>2
      <4>3. x + Len(out[h]) = y + used
        BY <4>1
      <4> HIDE DEF x, y, z
      <4>4. x + k - 1 \in Nat /\ x + k - 1 < z
        BY <2>2, <4>2, <4>3
      <4> QED
        BY <4>4 DEF x, z
    <3>2. out[h][k].key = EpochKey(ChainAt(i), i)
      <4>1. out[h][k] = TapeByte(n)
        BY DEF RatchetInv, OnOneTape
      <4> QED
        BY <4>1 DEF TapeByte, EpochByte
    <3> HIDE DEF n
    <3>3. i \in Nat /\ i < ep + 1
      <4>1. i \in Int /\ n = i * EpochBytes + (n % EpochBytes) /\ n % EpochBytes \in 0 .. EpochBytes - 1
        <5>1. n \in Int
          BY <3>1
        <5> QED
          BY <2>2, <5>1, DivMod
      <4> DEFINE m == n % EpochBytes
      <4> HIDE DEF i, m
      <4>2. n = i * EpochBytes + m /\ m \in 0 .. EpochBytes - 1
        BY <4>1 DEF m
      <4>3. ~(i < 0)
        <5> SUFFICES ASSUME i + 1 <= 0 PROVE FALSE
          BY <4>1
        <5>1. (i + 1) * EpochBytes <= 0
          BY <2>2, <4>1
        <5> QED
          BY <2>2, <3>1, <4>1, <4>2, <5>1
      <4>4. ~(i >= ep + 1)
        <5> SUFFICES ASSUME i >= ep + 1 PROVE FALSE
          OBVIOUS
        <5>1. i * EpochBytes >= (ep + 1) * EpochBytes
          BY <2>2, <4>1
        <5> QED
          BY <2>2, <3>1, <4>1, <4>2, <5>1
      <4>5. i \in Int
        BY <4>1
      <4> QED
        BY <2>2, <4>3, <4>4, <4>5
    <3> HIDE DEF i
    <3> QED
      BY <2>2, <2>3, <3>2, <3>3, TooLong
  <2> QED
    BY <2>2, <2>3, <2>4, TooLong
<1>2. RatchetInv => CheckpointOnlyForward
  <2> SUFFICES ASSUME RatchetInv, NEW cp \in checkpoints, NEW i \in 0 .. cp.taken
               PROVE  ~Derives(cp.chain, EpochKey(ChainAt(i), i))
    BY DEF CheckpointOnlyForward
  <2>1. PICK ep \in 0 .. MaxEpoch : cp = CheckpointAt(ep)
    BY DEF RatchetInv
  <2>2. cp.chain = ChainAt(ep + 1) /\ cp.taken = ep /\ ep + 1 \in Nat
    BY <2>1, RatchetAssumption DEF CheckpointAt
  <2> QED
    BY <2>2, TooLong
<1> QED
  BY <1>1, <1>2, RatchetInvariance, PTL DEF ForwardOnly
=============================================================================
