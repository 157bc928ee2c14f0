------------------------- MODULE SeekableCtrProofs -------------------------
(***************************************************************************)
(* Proofs about SeekableCtr, for every block size, every number of blocks  *)
(* and every sequence of calls, of either port.                            *)
(***************************************************************************)
EXTENDS SeekableCtr, SequenceTheorems, TLAPS

(* Quotient and remainder, and that nothing else is.                       *)
LEMMA DivMod ==
  ASSUME NEW a \in Int, NEW d \in Nat \ {0}
  PROVE  /\ a \div d \in Int /\ a % d \in 0 .. d - 1
         /\ a = (a \div d) * d + (a % d)
<1>1. a \div d \in Int
  OBVIOUS
<1>2. a % d \in 0 .. d - 1
  OBVIOUS
<1>3. a = (a \div d) * d + (a % d)
  OBVIOUS
<1> QED
  BY <1>1, <1>2, <1>3

LEMMA QuotientUnique ==
  ASSUME NEW d \in Nat \ {0}, NEW q \in Int, NEW e \in Int,
         NEW r \in 0 .. d - 1, NEW s \in 0 .. d - 1, q * d + r = e * d + s
  PROVE  q = e /\ r = s
<1>1. ~(q < e)
  <2> SUFFICES ASSUME q + 1 <= e PROVE FALSE
    OBVIOUS
  <2>1. (q + 1) * d <= e * d
    OBVIOUS
  <2> QED
    BY <2>1
<1>2. ~(e < q)
  <2> SUFFICES ASSUME e + 1 <= q PROVE FALSE
    OBVIOUS
  <2>1. (e + 1) * d <= q * d
    OBVIOUS
  <2> QED
    BY <2>1
<1> QED
  BY <1>1, <1>2

LEMMA DivModUnique ==
  ASSUME NEW d \in Nat \ {0}, NEW q \in Int, NEW r \in 0 .. d - 1
  PROVE  (q * d + r) \div d = q /\ (q * d + r) % d = r
<1> DEFINE a == q * d + r
           e == a \div d
           s == a % d
<1>1. a \in Int /\ a = q * d + r
  OBVIOUS
<1> HIDE DEF a
<1>2. e \in Int /\ s \in 0 .. d - 1 /\ a = e * d + s
  BY <1>1, DivMod
<1> HIDE DEF e, s
<1>3. q = e /\ r = s
  BY <1>1, <1>2, QuotientUnique
<1> QED
  BY <1>3 DEF a, e, s

(* Adding within, and up to the end of, a period.                          *)
LEMMA ModAdd ==
  ASSUME NEW a \in Int, NEW d \in Nat \ {0}, NEW j \in Nat
  PROVE  /\ ((a % d) + j) % d = (a + j) % d
         /\ (a % d) + j < d => (a + j) % d = (a % d) + j
<1>1. a \div d \in Int /\ a % d \in 0 .. d - 1 /\ a = (a \div d) * d + (a % d)
  BY DivMod
<1> DEFINE q == a \div d
           r == a % d
           e == (r + j) \div d
           s == (r + j) % d
<1>2. q \in Int /\ r \in 0 .. d - 1 /\ a = q * d + r
  BY <1>1
<1> HIDE DEF q, r
<1>3. r + j \in Int
  BY <1>2
<1>4. e \in Int /\ s \in 0 .. d - 1 /\ r + j = e * d + s
  BY <1>3, DivMod
<1> HIDE DEF e, s
<1>5. a + j = (q + e) * d + s
  BY <1>2, <1>4
<1>6. (a + j) % d = s
  <2>1. q + e \in Int
    BY <1>2, <1>4
  <2> QED
    BY <1>4, <1>5, <2>1, DivModUnique
<1>7. ASSUME r + j < d PROVE s = r + j
  <2>1. ~(e >= 1)
    <3> SUFFICES ASSUME e >= 1 PROVE FALSE
      OBVIOUS
    <3>1. d <= e * d
      BY <1>4
    <3> QED
      BY <1>2, <1>4, <1>7, <3>1
  <2>2. ~(e <= -1)
    <3> SUFFICES ASSUME e <= -1 PROVE FALSE
      OBVIOUS
    <3>1. e * d <= -d
      BY <1>4
    <3> QED
      BY <1>2, <1>4, <3>1
  <2>3. e = 0
    BY <1>4, <2>1, <2>2
  <2> QED
    BY <1>2, <1>4, <2>3
<1> QED
  BY <1>6, <1>7 DEF r, s

-----------------------------------------------------------------------------
LEMMA SpanFacts ==
  /\ BLOCK_SIZE \in Nat \ {0} /\ Blocks \in Nat \ {0}
  /\ Span \in Nat \ {0} /\ Span = Blocks * BLOCK_SIZE
  BY CtrAssumption DEF Span

(* The rest of a block, from a position in it.                             *)
LEMMA ChunkFacts ==
  ASSUME NEW q \in Int
  PROVE  LET c == Chunk(BlockKeystream(q \div BLOCK_SIZE), q % BLOCK_SIZE)
             m == BLOCK_SIZE - (q % BLOCK_SIZE)
         IN  /\ m \in Nat \ {0}
             /\ c \in Seq(Int \X (0 .. BLOCK_SIZE - 1)) /\ Len(c) = m
             /\ \A j \in 1 .. m : c[j] = ByteAt(q + j - 1)
<1> DEFINE i == q \div BLOCK_SIZE
           w == q % BLOCK_SIZE
           b == BlockKeystream(i)
           c == Chunk(b, w)
           m == BLOCK_SIZE - w
<1>1. BLOCK_SIZE \in Nat \ {0}
  BY SpanFacts
<1>2. i \in Int /\ w \in 0 .. BLOCK_SIZE - 1 /\ q = i * BLOCK_SIZE + w
  BY <1>1, DivMod
<1> HIDE DEF i, w
<1>3. b \in Seq(Int \X (0 .. BLOCK_SIZE - 1)) /\ Len(b) = BLOCK_SIZE
  <2>1. b \in [1 .. BLOCK_SIZE -> Int \X (0 .. BLOCK_SIZE - 1)]
    BY <1>1, <1>2 DEF BlockKeystream
  <2> QED
    BY <1>1, <2>1
<1>4. \A k \in 1 .. BLOCK_SIZE : b[k] = <<i, k - 1>>
  BY DEF BlockKeystream
<1> HIDE DEF b
<1>5. /\ m \in Nat \ {0}
      /\ c \in Seq(Int \X (0 .. BLOCK_SIZE - 1)) /\ Len(c) = m
      /\ \A j \in 1 .. m : c[j] = b[w + j]
  BY <1>1, <1>2, <1>3 DEF Chunk
<1> HIDE DEF c
<1>6. ASSUME NEW j \in 1 .. m PROVE c[j] = ByteAt(q + j - 1)
  <2> DEFINE r == w + j - 1
  <2>1. r \in 0 .. BLOCK_SIZE - 1 /\ q + j - 1 = i * BLOCK_SIZE + r
    BY <1>1, <1>2, <1>6
  <2>2. c[j] = <<i, r>>
    <3> DEFINE k == w + j
    <3>1. k \in 1 .. BLOCK_SIZE /\ r = k - 1
      BY <1>1, <1>2, <1>6
    <3>2. c[j] = b[k]
      BY <1>5, <1>6
    <3> HIDE DEF k, r
    <3>3. b[k] = <<i, k - 1>>
      BY <1>4, <3>1
    <3> QED
      BY <3>1, <3>2, <3>3
  <2> HIDE DEF r
  <2>3. (q + j - 1) \div BLOCK_SIZE = i /\ (q + j - 1) % BLOCK_SIZE = r
    BY <1>1, <1>2, <2>1, DivModUnique
  <2> QED
    BY <2>2, <2>3 DEF ByteAt
<1> QED
  BY <1>5, <1>6 DEF i, w, b, c, m

-----------------------------------------------------------------------------
(***************************************************************************)
(* The loop invariant: what has been collected is the keystream from       *)
(* offset on, pos is where it goes on, and the blocks derived are those of *)
(* the bytes collected.  Only the last chunk passes n, and only within its *)
(* block.                                                                  *)
(***************************************************************************)
Wanted(len) == IF len <= n THEN len ELSE n

BlockOf(k) == Position(k) \div BLOCK_SIZE

Collected ==
  pc = "loop" =>
    /\ pos = Position(Len(out))
    /\ \A k \in 1 .. Len(out) : out[k] = ByteAt(Position(k - 1))
    /\ derived = {BlockOf(k) : k \in 0 .. Wanted(Len(out)) - 1}

Returned ==
  pc = "returned" => derived = {BlockOf(k) : k \in 0 .. n - 1}

OffsetInSpan == wraps => offset \in 0 .. Span - 1

IInv ==
  /\ TypeOK
  /\ OffsetInSpan
  /\ Collected
  /\ Returned
  /\ ReturnsSlice
  /\ RaisesOnlyOutOfRange

(* Positions advance with the bytes, until the block ends.                 *)
LEMMA PositionType ==
  ASSUME TypeOK, NEW k \in Int
  PROVE  Position(k) \in Int /\ (wraps => Position(k) \in 0 .. Span - 1)
<1>1. Span \in Nat \ {0} /\ offset + k \in Int
  BY SpanFacts DEF TypeOK
<1> QED
  BY <1>1, DivMod DEF Position

LEMMA PositionStart ==
  ASSUME NEW port \in BOOLEAN, NEW o \in Int, port => o \in 0 .. Span - 1
  PROVE  (IF port THEN (o + 0) % Span ELSE o + 0) = o
<1>1. CASE port
  <2>1. Span \in Nat \ {0} /\ o \in 0 .. Span - 1
    BY <1>1, SpanFacts
  <2>2. 0 * Span + o = o + 0
    BY <2>1
  <2>3. (o + 0) % Span = o
    BY <2>1, <2>2, DivModUnique
  <2> QED
    BY <1>1, <2>3
<1>2. CASE ~port
  BY <1>2
<1> QED
  BY <1>1, <1>2

LEMMA PositionAdvances ==
  ASSUME TypeOK, NEW l \in Nat, NEW j \in Nat
  PROVE  Advanced(Position(l), j) = Position(l + j)
<1>1. offset + l \in Int /\ Span \in Nat \ {0}
  BY SpanFacts DEF TypeOK
<1>2. CASE wraps
  <2>1. (((offset + l) % Span) + j) % Span = ((offset + l) + j) % Span
    BY <1>1, ModAdd
  <2> QED
    BY <1>1, <1>2, <2>1 DEF Advanced, Position, TypeOK
<1>3. CASE ~wraps
  BY <1>3 DEF Advanced, Position, TypeOK
<1> QED
  BY <1>2, <1>3

LEMMA PositionWithinBlock ==
  ASSUME TypeOK, NEW l \in Nat, NEW j \in Nat,
         j < BLOCK_SIZE - (Position(l) % BLOCK_SIZE)
  PROVE  Position(l + j) = Position(l) + j
<1>1. offset + l \in Int /\ Span \in Nat \ {0}
  BY SpanFacts DEF TypeOK
<1>2. CASE wraps
  <2> DEFINE q == Position(l)
             i == q \div BLOCK_SIZE
             w == q % BLOCK_SIZE
  <2>1. q \in 0 .. Span - 1 /\ BLOCK_SIZE \in Nat \ {0} /\ Blocks \in Nat
        /\ Span = Blocks * BLOCK_SIZE
    BY <1>2, PositionType, SpanFacts
  <2> HIDE DEF q
  <2>2. i \in Int /\ w \in 0 .. BLOCK_SIZE - 1 /\ q = i * BLOCK_SIZE + w
    <3>1. q \in Int /\ BLOCK_SIZE \in Nat \ {0}
      BY <2>1, SpanFacts
    <3> QED
      BY ONLY <3>1, DivMod
  <2>3. j < BLOCK_SIZE - w
    BY DEF q, w
  <2> HIDE DEF i, w
  <2>4. i < Blocks
    <3> SUFFICES ASSUME Blocks <= i PROVE FALSE
      BY <2>1, <2>2
    <3>1. Blocks * BLOCK_SIZE <= i * BLOCK_SIZE
      BY <2>1, <2>2
    <3> QED
      BY <2>1, <2>2, <3>1
  <2>5. q + j < Span
    <3>1. (i + 1) * BLOCK_SIZE <= Blocks * BLOCK_SIZE
      BY <2>1, <2>2, <2>4
    <3> QED
      BY <2>1, <2>2, <2>3, <3>1
  <2>6. q = (offset + l) % Span
    BY <1>2 DEF q, Position
  <2>7. ((offset + l) + j) % Span = ((offset + l) % Span) + j
    BY <1>1, <2>5, <2>6, ModAdd
  <2> QED
    BY <1>1, <1>2, <2>6, <2>7 DEF q, Position, TypeOK
<1>3. CASE ~wraps
  BY <1>3 DEF Position, TypeOK
<1> QED
  BY <1>2, <1>3

-----------------------------------------------------------------------------
LEMMA InitIInv == Init => IInv
<1> SUFFICES ASSUME Init PROVE IInv
  OBVIOUS
<1>1. TypeOK
  <2>1. wraps \in BOOLEAN
    BY DEF Init
  <2> QED
    BY <2>1 DEF Init, TypeOK
<1>2. OffsetInSpan
  BY SpanFacts DEF Init, OffsetInSpan
<1> QED
  BY <1>1, <1>2 DEF IInv, Init, Collected, Returned, ReturnsSlice, RaisesOnlyOutOfRange

LEMMA CallIInv ==
  ASSUME IInv, NEW port \in BOOLEAN, NEW k \in Counts, NEW o \in Offsets,
         Call(port, k, o)
  PROVE  IInv'
<1>1. k \in Int /\ o \in Int /\ (port => k >= 0 /\ o \in 0 .. Span - 1) /\ wraps' = port
  BY CtrAssumption DEF Call
<1>2. TypeOK'
  BY <1>1 DEF Call, TypeOK, IInv
<1>3. OffsetInSpan'
  BY <1>1 DEF Call, OffsetInSpan
<1>4. Collected'
  <2> SUFFICES ASSUME pc' = "loop" PROVE Collected'
    BY DEF Collected
  <2>1. out' = <<>> /\ Len(out') = 0 /\ derived' = {} /\ pos' = offset'
    BY DEF Call
  <2>2. pos' = Position(0)'
    <3>1. offset' \in Int /\ (port => offset' \in 0 .. Span - 1)
      BY <1>1 DEF Call
    <3>2. (IF port THEN (offset' + 0) % Span ELSE offset' + 0) = offset'
      BY <3>1, PositionStart
    <3> QED
      BY <1>1, <2>1, <3>2 DEF Position
  <2>3. Wanted(0)' = 0
    BY <1>2 DEF Wanted, TypeOK
  <2>4. {BlockOf(j) : j \in 0 .. Wanted(0) - 1}' = {}
    BY <2>3
  <2> QED
    BY <2>1, <2>2, <2>4 DEF Collected
<1>5. Returned' /\ ReturnsSlice' /\ RaisesOnlyOutOfRange'
  BY <1>1 DEF Call, Returned, ReturnsSlice, RaisesOnlyOutOfRange
<1> QED
  BY <1>2, <1>3, <1>4, <1>5 DEF IInv

LEMMA IterateIInv ==
  ASSUME IInv, Iterate
  PROVE  IInv'
<1> DEFINE c == Chunk(BlockKeystream(pos \div BLOCK_SIZE), pos % BLOCK_SIZE)
           m == BLOCK_SIZE - (pos % BLOCK_SIZE)
           len == Len(out)
<1>1. /\ TypeOK /\ OffsetInSpan
      /\ pc = "loop" /\ len < n /\ n \in Nat /\ offset \in Nat
      /\ pos = Position(len)
      /\ \A k \in 1 .. len : out[k] = ByteAt(Position(k - 1))
      /\ derived = {BlockOf(k) : k \in 0 .. Wanted(len) - 1}
      /\ out \in Seq(Int \X (0 .. BLOCK_SIZE - 1)) /\ len \in Nat
      /\ pos \in Int
  BY DEF IInv, Iterate, Collected, TypeOK
<1>2. /\ m \in Nat \ {0}
      /\ c \in Seq(Int \X (0 .. BLOCK_SIZE - 1)) /\ Len(c) = m
      /\ \A j \in 1 .. m : c[j] = ByteAt(pos + j - 1)
  BY <1>1, ChunkFacts
<1>3. /\ out' = out \o c
      /\ pos' = Advanced(pos, m)
      /\ derived' = derived \cup {pos \div BLOCK_SIZE}
      /\ pc' = pc /\ n' = n /\ offset' = offset /\ wraps' = wraps
      /\ wraps \/ pos \div BLOCK_SIZE < Blocks
  BY <1>2 DEF Iterate
<1>4. \A j \in 0 .. m - 1 : Position(len + j) = pos + j
  <2> TAKE j \in 0 .. m - 1
  <2>1. j \in Nat /\ j < BLOCK_SIZE - (Position(len) % BLOCK_SIZE)
    BY <1>1, <1>2
  <2> QED
    BY <1>1, <2>1, PositionWithinBlock
<1> HIDE DEF c, m
<1>5. /\ out' \in Seq(Int \X (0 .. BLOCK_SIZE - 1)) /\ Len(out') = len + m
      /\ \A k \in 1 .. len : out'[k] = out[k]
      /\ \A k \in len + 1 .. len + m : out'[k] = c[k - len]
  <2> DEFINE S == Int \X (0 .. BLOCK_SIZE - 1)
  <2>1. out \in Seq(S) /\ c \in Seq(S) /\ out' = out \o c /\ Len(c) = m
    BY <1>1, <1>2, <1>3
  <2> HIDE DEF S
  <2>2. out' \in Seq(S) /\ Len(out') = len + m
    BY <2>1, ConcatProperties, Zenon
  <2>3. \A k \in 1 .. len + m : out'[k] = IF k <= len THEN out[k] ELSE c[k - len]
    BY <2>1, ConcatProperties, Zenon
  <2>4. len \in Nat /\ m \in Nat
    BY <1>1, <1>2
  <2>5. \A k \in 1 .. len : out'[k] = out[k]
    BY <2>3, <2>4
  <2>6. \A k \in len + 1 .. len + m : out'[k] = c[k - len]
    BY <2>3, <2>4
  <2> QED
    BY <2>2, <2>5, <2>6 DEF S
<1>6. \A k \in Int : Position(k)' = Position(k)
  BY <1>3 DEF Position
<1>7. \A k \in 1 .. len + m : out'[k] = ByteAt(Position(k - 1))
  <2> TAKE k \in 1 .. len + m
  <2>1. CASE k <= len
    BY <1>1, <1>5, <2>1
  <2>2. CASE k > len
    <3> DEFINE j == k - len
    <3>1. j \in 1 .. m /\ j - 1 \in 0 .. m - 1 /\ k \in len + 1 .. len + m
          /\ len + (j - 1) = k - 1 /\ pos + j - 1 = pos + (j - 1)
      BY <1>1, <1>2, <2>2
    <3>2. Position(k - 1) = pos + j - 1
      BY <1>4, <3>1
    <3>3. out'[k] = c[j] /\ c[j] = ByteAt(pos + j - 1)
      BY <1>2, <1>5, <3>1
    <3> QED
      BY <3>2, <3>3
  <2> QED
    BY <1>1, <1>2, <2>1, <2>2
<1>8. pos' = Position(len + m)
  BY <1>1, <1>2, <1>3, PositionAdvances
<1>9. derived' = {BlockOf(k) : k \in 0 .. Wanted(len + m) - 1}
  <2>1. Wanted(len) = len /\ Wanted(len + m) \in len + 1 .. len + m
    <3>1. len \in Nat /\ n \in Nat /\ len < n /\ m \in Nat \ {0}
      BY <1>1, <1>2
    <3> HIDE DEF len
    <3> QED
      BY <3>1 DEF Wanted
  <2>2. \A k \in len .. Wanted(len + m) - 1 : BlockOf(k) = pos \div BLOCK_SIZE
    <3> TAKE k \in len .. Wanted(len + m) - 1
    <3> DEFINE j == k - len
    <3>1. j \in 0 .. m - 1 /\ len + j = k /\ j + 1 \in 1 .. m /\ pos + (j + 1) - 1 = pos + j
      <4>1. /\ len \in Nat /\ m \in Nat /\ pos \in Int
            /\ Wanted(len + m) \in len + 1 .. len + m
        BY <1>1, <1>2, <2>1
      <4> HIDE DEF len
      <4> QED
        BY <4>1
    <3>2. Position(k) = pos + j
      BY <1>4, <3>1
    <3>3. (pos + j) \div BLOCK_SIZE = pos \div BLOCK_SIZE
      <4> DEFINE i == pos \div BLOCK_SIZE
                 w == pos % BLOCK_SIZE
      <4>1. i \in Int /\ w \in 0 .. BLOCK_SIZE - 1 /\ pos = i * BLOCK_SIZE + w
        BY <1>1, SpanFacts, DivMod
      <4> HIDE DEF j
      <4>2. w + j \in 0 .. BLOCK_SIZE - 1
        <5>1. m = BLOCK_SIZE - w
          BY DEF m
        <5> HIDE DEF w
        <5> QED
          BY <3>1, <4>1, <5>1, SpanFacts
      <4> HIDE DEF i, w
      <4>3. pos + j = i * BLOCK_SIZE + (w + j)
        BY <3>1, <4>1, SpanFacts
      <4>4. (i * BLOCK_SIZE + (w + j)) \div BLOCK_SIZE = i
        BY <4>1, <4>2, SpanFacts, DivModUnique
      <4> QED
        BY <4>3, <4>4 DEF i
    <3> QED
      BY <3>2, <3>3 DEF BlockOf
  <2>3. 0 .. Wanted(len + m) - 1 = (0 .. len - 1) \cup (len .. Wanted(len + m) - 1)
    BY <1>1, <2>1
  <2>4. len \in len .. Wanted(len + m) - 1
    BY <1>1, <2>1
  <2> QED
    BY <1>1, <1>3, <2>1, <2>2, <2>3, <2>4
<1>10. TypeOK'
  <2>1. pos' \in Int
    BY <1>1, <1>2, <1>8, PositionType
  <2>2. pos \div BLOCK_SIZE \in 0 .. Blocks - 1
    <3> DEFINE i == pos \div BLOCK_SIZE
               w == pos % BLOCK_SIZE
    <3>1. i \in Int /\ w \in 0 .. BLOCK_SIZE - 1 /\ pos = i * BLOCK_SIZE + w
          /\ BLOCK_SIZE \in Nat \ {0} /\ Blocks \in Nat
      BY <1>1, SpanFacts, DivMod
    <3>2. pos >= 0 /\ (wraps => pos < Blocks * BLOCK_SIZE)
      BY <1>1, SpanFacts, PositionType DEF Position
    <3>3. wraps \/ i < Blocks
      BY <1>3
    <3> HIDE DEF i, w
    <3>4. i >= 0
      <4> SUFFICES ASSUME i + 1 <= 0 PROVE FALSE
        BY <3>1
      <4>1. (i + 1) * BLOCK_SIZE <= 0
        BY <3>1
      <4> QED
        BY <3>1, <3>2, <4>1
    <3>5. i < Blocks
      <4> SUFFICES ASSUME wraps, Blocks <= i PROVE FALSE
        BY <3>1, <3>3
      <4>1. Blocks * BLOCK_SIZE <= i * BLOCK_SIZE
        BY <3>1
      <4> QED
        BY <3>1, <3>2, <4>1
    <3> QED
      BY <3>1, <3>4, <3>5 DEF i
  <2> QED
    BY <1>1, <1>3, <1>5, <2>1, <2>2 DEF TypeOK
<1>11. OffsetInSpan'
  BY <1>1, <1>3 DEF OffsetInSpan
<1>12. Collected'
  <2>1. \A l \in Int : Wanted(l)' = Wanted(l)
    BY <1>3 DEF Wanted
  <2>2. \A k \in Int : BlockOf(k)' = BlockOf(k)
    BY <1>6 DEF BlockOf
  <2>3. Wanted(len + m) \in Int
    BY <1>1, <1>2 DEF Wanted
  <2>4. {BlockOf(k) : k \in 0 .. Wanted(Len(out)) - 1}' = derived'
    <3>1. Len(out') = len + m /\ len + m \in Int
      BY <1>1, <1>2, <1>5
    <3>2. Wanted(Len(out))' = Wanted(len + m)
      BY <2>1, <3>1
    <3>3. {BlockOf(k) : k \in 0 .. Wanted(Len(out)) - 1}'
            = {BlockOf(k) : k \in 0 .. Wanted(len + m) - 1}
      BY <2>2, <2>3, <3>2
    <3> QED
      BY <1>9, <3>3
  <2>5. \A k \in 1 .. Len(out') : out'[k] = ByteAt(Position(k - 1)')
    BY <1>1, <1>2, <1>5, <1>6, <1>7
  <2>6. pos' = Position(Len(out))'
    BY <1>1, <1>2, <1>5, <1>6, <1>8
  <2> QED
    BY <2>4, <2>5, <2>6 DEF Collected, ByteAt
<1> QED
  BY <1>1, <1>3, <1>10, <1>11, <1>12 DEF IInv, Returned, ReturnsSlice, RaisesOnlyOutOfRange

LEMMA ReturnIInv ==
  ASSUME IInv, Return
  PROVE  IInv'
<1>1. /\ TypeOK /\ OffsetInSpan
      /\ pc = "loop" /\ Len(out) >= n /\ n \in Nat /\ Len(out) \in Nat
      /\ \A k \in 1 .. Len(out) : out[k] = ByteAt(Position(k - 1))
      /\ derived = {BlockOf(k) : k \in 0 .. Wanted(Len(out)) - 1}
      /\ out \in Seq(Int \X (0 .. BLOCK_SIZE - 1))
  BY DEF IInv, Return, Collected, TypeOK
<1>2. /\ out' = SubSeq(out, 1, n) /\ pc' = "returned" /\ wraps' = wraps
      /\ n' = n /\ offset' = offset /\ pos' = pos /\ derived' = derived
  BY DEF Return
<1>3. /\ out' \in Seq(Int \X (0 .. BLOCK_SIZE - 1)) /\ Len(out') = n
      /\ \A k \in 1 .. n : out'[k] = out[k]
  BY <1>1, <1>2
<1>4. TypeOK' /\ OffsetInSpan'
  BY <1>1, <1>2, <1>3 DEF TypeOK, OffsetInSpan
<1>5. Wanted(Len(out)) = n
  BY <1>1 DEF Wanted
<1>6. \A k \in Int : Position(k)' = Position(k) /\ BlockOf(k)' = BlockOf(k)
  BY <1>2 DEF Position, BlockOf
<1>7. Returned'
  BY <1>1, <1>2, <1>5, <1>6 DEF Returned
<1>8. ReturnsSlice'
  <2>1. \A k \in 1 .. n : out'[k] = ByteAt(Position(k - 1)')
    <3> TAKE k \in 1 .. n
    <3>1. k \in 1 .. Len(out) /\ k - 1 \in Int
      BY <1>1
    <3>2. out'[k] = ByteAt(Position(k - 1))
      BY <1>1, <1>3, <3>1
    <3>3. Position(k - 1)' = Position(k - 1)
      BY <1>6, <3>1
    <3> QED
      BY <3>2, <3>3
  <2> QED
    BY <1>2, <1>3, <2>1 DEF ReturnsSlice, ByteAt
<1> QED
  BY <1>2, <1>4, <1>7, <1>8 DEF IInv, Collected, RaisesOnlyOutOfRange

(* A block index is out of range only if the byte wanted next is.          *)
LEMMA IterateRaisesIInv ==
  ASSUME IInv, IterateRaises
  PROVE  IInv'
<1>1. /\ TypeOK /\ OffsetInSpan /\ ~wraps
      /\ pc = "loop" /\ Len(out) < n /\ n \in Int /\ Len(out) \in Nat
      /\ pos = Position(Len(out)) /\ pos \in Int /\ offset \in Int
      /\ pos \div BLOCK_SIZE >= Blocks
  BY DEF IInv, IterateRaises, Collected, TypeOK
<1>2. pos = offset + Len(out)
  BY <1>1 DEF Position
<1>3. pos >= Span
  <2> DEFINE i == pos \div BLOCK_SIZE
             w == pos % BLOCK_SIZE
  <2>1. i \in Int /\ w \in 0 .. BLOCK_SIZE - 1 /\ pos = i * BLOCK_SIZE + w
    BY <1>1, SpanFacts, DivMod
  <2>2. i >= Blocks
    BY <1>1
  <2> HIDE DEF i, w
  <2>3. Blocks * BLOCK_SIZE <= i * BLOCK_SIZE
    BY <2>1, <2>2, SpanFacts
  <2> QED
    BY <2>1, <2>3, SpanFacts
<1>4. offset + n > Span
  BY <1>1, <1>2, <1>3, SpanFacts
<1> QED
  BY <1>1, <1>4 DEF IInv, IterateRaises, TypeOK, OffsetInSpan, Collected, Returned,
                    ReturnsSlice, RaisesOnlyOutOfRange

LEMMA StutterIInv ==
  ASSUME IInv, UNCHANGED vars
  PROVE  IInv'
  BY DEF vars, IInv, TypeOK, OffsetInSpan, Collected, Returned, ReturnsSlice,
         RaisesOnlyOutOfRange, Position, BlockOf, Wanted

THEOREM Invariance == Spec => []IInv
<1>1. IInv /\ [Next]_vars => IInv'
  BY CallIInv, IterateIInv, IterateRaisesIInv, ReturnIInv, StutterIInv DEF Next
<1> QED
  BY InitIInv, <1>1, PTL DEF Spec

(* Every call keeps the shape of its state, up to an 8-byte block index.   *)
THEOREM TypeCorrect == Spec => []TypeOK
<1>1. IInv => TypeOK
  BY DEF IInv
<1> QED
  BY <1>1, Invariance, PTL

(* keystream(n, offset) is the slice offset .. offset+n-1 of one keystream.*)
THEOREM SliceOfKeystream == Spec => []ReturnsSlice
<1>1. IInv => ReturnsSlice
  BY DEF IInv
<1> QED
  BY <1>1, Invariance, PTL

(* No call within range raises, at whichever block it ends.                *)
THEOREM RaisesOutOfRange == Spec => []RaisesOnlyOutOfRange
<1>1. IInv => RaisesOnlyOutOfRange
  BY DEF IInv
<1> QED
  BY <1>1, Invariance, PTL

-----------------------------------------------------------------------------
(* The blocks of consecutive positions are consecutive blocks.             *)
LEMMA BlocksOfRun ==
  ASSUME NEW o \in Nat, NEW m \in Nat \ {0}
  PROVE  {(o + k) \div BLOCK_SIZE : k \in 0 .. m - 1}
           = o \div BLOCK_SIZE .. (o + m - 1) \div BLOCK_SIZE
<1> DEFINE B == BLOCK_SIZE
           lo == o \div B
           hi == (o + m - 1) \div B
<1>1. B \in Nat \ {0}
  BY SpanFacts
<1> HIDE DEF B
<1>2. ASSUME NEW a \in Int
      PROVE  /\ a \div B \in Int /\ (a \div B) * B <= a
             /\ a < (a \div B) * B + B
  <2>1. a \div B \in Int /\ a % B \in 0 .. B - 1 /\ a = (a \div B) * B + (a % B)
    BY <1>1, DivMod
  <2> DEFINE q == a \div B
             r == a % B
  <2>2. q \in Int /\ r \in 0 .. B - 1 /\ a = q * B + r
    BY <2>1
  <2> HIDE DEF q, r
  <2>3. q \in Int /\ q * B <= a /\ a < q * B + B
    BY <1>1, <2>2
  <2> QED
    BY <2>3 DEF q
<1>3. ASSUME NEW a \in Int, NEW b \in Int, a <= b
      PROVE  a \div B <= b \div B
  <2> DEFINE q == a \div B
             e == b \div B
  <2>1. q \in Int /\ q * B <= a
    BY <1>2
  <2>2. e \in Int /\ b < e * B + B
    BY <1>2
  <2> HIDE DEF q, e
  <2>3. ~(e + 1 <= q)
    <3> SUFFICES ASSUME e + 1 <= q PROVE FALSE
      OBVIOUS
    <3>1. (e + 1) * B <= q * B
      BY <1>1, <2>1, <2>2
    <3> QED
      BY <1>1, <1>3, <2>1, <2>2, <3>1
  <2>4. q <= e
    BY <2>1, <2>2, <2>3
  <2> QED
    BY <2>4 DEF q, e
<1>4. ASSUME NEW k \in 0 .. m - 1
      PROVE  (o + k) \div B \in lo .. hi
  <2>1. o + k \in Int /\ o + m - 1 \in Int /\ o \in Int /\ o <= o + k /\ o + k <= o + m - 1
    OBVIOUS
  <2>2. lo <= (o + k) \div B /\ (o + k) \div B <= hi
    BY <1>3, <2>1
  <2>3. (o + k) \div B \in Int /\ lo \in Int /\ hi \in Int
    BY <1>2, <2>1
  <2> HIDE DEF lo, hi
  <2> QED
    BY <2>2, <2>3
<1>5. ASSUME NEW i \in lo .. hi
      PROVE  \E k \in 0 .. m - 1 : i = (o + k) \div B
  <2>1. o \in Int /\ o + m - 1 \in Int
    OBVIOUS
  <2>2. /\ lo \in Int /\ lo * B <= o /\ o < lo * B + B
        /\ hi \in Int /\ hi * B <= o + m - 1
    BY <1>2, <2>1
  <2>3. i \in Int /\ lo <= i /\ i <= hi
    BY <1>5, <2>2
  <2>4. lo = o \div B
    OBVIOUS
  <2> HIDE DEF lo, hi
  <2>5. CASE i = lo
    <3>1. 0 \in 0 .. m - 1 /\ o + 0 = o
      OBVIOUS
    <3> QED
      BY <2>4, <2>5, <3>1
  <2>6. CASE lo < i
    <3> DEFINE k == i * B - o
    <3>1. (lo + 1) * B <= i * B /\ i * B <= hi * B
      BY <1>1, <2>2, <2>3, <2>6
    <3>2. k \in 0 .. m - 1
      BY <1>1, <2>2, <2>3, <3>1
    <3>3. o + k = i * B + 0
      BY <1>1, <2>3
    <3>4. (i * B + 0) \div B = i
      BY <1>1, <2>3, DivModUnique
    <3> HIDE DEF k
    <3> QED
      BY <3>2, <3>3, <3>4
  <2> QED
    BY <2>2, <2>3, <2>5, <2>6
<1>6. {(o + k) \div B : k \in 0 .. m - 1} = lo .. hi
  <2> HIDE DEF lo, hi
  <2> QED
    BY <1>4, <1>5
<1> QED
  BY <1>6 DEF B

(* Where positions wrap, block indices wrap with them.                     *)
LEMMA WrappedBlock ==
  ASSUME NEW a \in Nat
  PROVE  (a % Span) \div BLOCK_SIZE = (a \div BLOCK_SIZE) % Blocks
<1> DEFINE B == BLOCK_SIZE
           N == Blocks
           q == a \div B
           r == a % B
           e == q \div N
           s == q % N
<1>1. B \in Nat \ {0} /\ N \in Nat \ {0} /\ Span \in Nat \ {0} /\ Span = N * B
  BY SpanFacts
<1> HIDE DEF B, N
<1>2. q \in Int /\ r \in 0 .. B - 1 /\ a = q * B + r
  BY <1>1, DivMod
<1> HIDE DEF q, r
<1>3. e \in Int /\ s \in 0 .. N - 1 /\ q = e * N + s
  BY <1>1, <1>2, DivMod
<1> HIDE DEF e, s
<1> DEFINE w == s * B + r
<1>4. w \in 0 .. Span - 1
  <2>1. (s + 1) * B <= N * B /\ 0 <= s * B
    BY <1>1, <1>3
  <2> QED
    BY <1>1, <1>2, <1>3, <2>1
<1>5. a = e * Span + w
  <2>1. q * B = (e * N) * B + s * B
    BY <1>1, <1>3
  <2>2. (e * N) * B = e * Span
    BY <1>1, <1>3
  <2> QED
    BY <1>1, <1>2, <1>3, <2>1, <2>2
<1>6. w \div B = s
  BY <1>1, <1>2, <1>3, DivModUnique
<1> HIDE DEF w
<1>7. a % Span = w
  BY <1>1, <1>3, <1>4, <1>5, DivModUnique
<1> QED
  BY <1>6, <1>7 DEF s, q, B, N

(* The blocks covering the slice are derived and no other.                 *)
THEOREM CoveringBlocksOnly == Spec => []DerivesCoveringBlocks
<1>1. IInv => DerivesCoveringBlocks
  <2> SUFFICES ASSUME IInv, pc = "returned"
               PROVE  derived = Covering
    BY DEF DerivesCoveringBlocks
  <2>1. n \in Nat /\ offset \in Nat /\ derived = {BlockOf(k) : k \in 0 .. n - 1}
    BY DEF IInv, TypeOK, Returned
  <2>2. CASE n = 0
    BY <2>1, <2>2 DEF Covering
  <2>3. CASE n # 0
    <3> DEFINE run == offset \div BLOCK_SIZE .. (offset + n - 1) \div BLOCK_SIZE
    <3>1. {(offset + k) \div BLOCK_SIZE : k \in 0 .. n - 1} = run
      BY <2>1, <2>3, BlocksOfRun
    <3> HIDE DEF run
    <3>2. CASE wraps
      <4>1. ASSUME NEW k \in 0 .. n - 1
            PROVE  BlockOf(k) = ((offset + k) \div BLOCK_SIZE) % Blocks
        <5>1. offset + k \in Nat
          BY <2>1
        <5> QED
          BY <3>2, <5>1, WrappedBlock DEF BlockOf, Position
      <4>2. derived = {((offset + k) \div BLOCK_SIZE) % Blocks : k \in 0 .. n - 1}
        BY <2>1, <4>1
      <4>3. {((offset + k) \div BLOCK_SIZE) % Blocks : k \in 0 .. n - 1}
              = {i % Blocks : i \in run}
        BY <3>1
      <4> QED
        BY <2>3, <3>2, <4>2, <4>3 DEF Covering, run
    <3>3. CASE ~wraps
      <4>1. derived = {(offset + k) \div BLOCK_SIZE : k \in 0 .. n - 1}
        BY <2>1, <3>3 DEF BlockOf, Position
      <4> QED
        BY <2>3, <3>1, <3>3, <4>1 DEF Covering, run
    <3> QED
      BY <3>2, <3>3
  <2> QED
    BY <2>2, <2>3
<1> QED
  BY <1>1, Invariance, PTL

(* All that a call comes to, for every block size, last index and slice.     *)
THEOREM ContractKept == Spec => []CallContract
<1>1. ReturnsSlice /\ DerivesCoveringBlocks /\ RaisesOnlyOutOfRange => CallContract
  BY DEF CallContract
<1> QED
  BY <1>1, SliceOfKeystream, CoveringBlocksOnly, RaisesOutOfRange, PTL
=============================================================================
