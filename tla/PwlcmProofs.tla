---------------------------- MODULE PwlcmProofs ----------------------------
(***************************************************************************)
(* Proofs about PwlcmEngine, for every odd modulus, break-point and state. *)
(***************************************************************************)
EXTENDS PwlcmEngine, TLAPS

(* What integer division computes, with its remainder.                     *)
LEMMA DivBounds ==
  ASSUME NEW a \in Int, NEW d \in Nat \ {0}
  PROVE  /\ a \div d \in Int
         /\ (a \div d) * d <= a
         /\ a < (a \div d) * d + d
  OBVIOUS

(* The quotient is the only number between those bounds.                   *)
LEMMA DivUnique ==
  ASSUME NEW a \in Int, NEW d \in Nat \ {0}, NEW q \in Int,
         q * d <= a, a < q * d + d
  PROVE  a \div d = q
<1> DEFINE e == a \div d
<1>1. e \in Int /\ e * d <= a /\ a < e * d + d
  BY DivBounds
<1> HIDE DEF e
<1>2. ~(e < q)
  <2> SUFFICES ASSUME e < q PROVE FALSE
    OBVIOUS
  <2>1. e + 1 <= q
    BY <1>1
  <2>2. (e + 1) * d <= q * d
    BY <1>1, <2>1
  <2> QED
    BY <1>1, <2>2
<1>3. ~(q < e)
  <2> SUFFICES ASSUME q < e PROVE FALSE
    OBVIOUS
  <2>1. q + 1 <= e
    BY <1>1
  <2>2. (q + 1) * d <= e * d
    BY <1>1, <2>1
  <2> QED
    BY <1>1, <2>2
<1> QED
  BY <1>1, <1>2, <1>3 DEF e

-----------------------------------------------------------------------------
(***************************************************************************)
(* The comment of div_step: the multiply-and-shift undershoots the true    *)
(* quotient by at most one, and the one correction makes it exact          *)
(* (engine.rs:72-84).  A numerator passes its divisor by at most one, so   *)
(* the product fits its 256 bits.                                          *)
(***************************************************************************)
LEMMA ReciprocalBounds ==
  ASSUME NEW den \in Nat \ {0}
  PROVE  /\ Reciprocal(den) \in Nat
         /\ Reciprocal(den) * den <= M * (M + 1)
         /\ M * (M + 1) < Reciprocal(den) * den + den
<1> DEFINE a == M * (M + 1)
           v == a \div den
<1>1. a \in Nat
  BY GridAssumption
<1> HIDE DEF a
<1>2. v \in Int /\ v * den <= a /\ a < v * den + den
  BY <1>1, DivBounds
<1> HIDE DEF v
<1>3. ~(v < 0)
  <2> SUFFICES ASSUME v < 0 PROVE FALSE
    OBVIOUS
  <2>1. (v + 1) * den <= 0
    BY <1>2
  <2> QED
    BY <1>1, <1>2, <2>1
<1> QED
  BY <1>2, <1>3 DEF v, a, Reciprocal

THEOREM DivStepExact ==
  ASSUME NEW den \in Nat \ {0}, NEW num \in Nat, num <= den + 1, num <= M
  PROVE  DivStep(num, den, Reciprocal(den)) = (M * num) \div den
<1> DEFINE G  == M + 1
           V  == Reciprocal(den)
           NV == num * V
           A  == NV \div G
           Rem == num * M - A * den
<1>1. M \in Nat /\ G \in Nat \ {0} /\ G = M + 1
  BY GridAssumption
<1>2. V \in Nat /\ V * den <= M * G /\ M * G < V * den + den
  BY ReciprocalBounds
<1> HIDE DEF G, V
<1>3. NV \in Nat
  BY <1>2
<1>4. NV < Wide
  <2>1. V <= V * den
    BY <1>2
  <2>2. NV <= V * den + V
    <3>1. num * V <= (den + 1) * V
      BY <1>2
    <3> QED
      BY <3>1, <1>2
  <2>3. NV <= M * G + M * G
    BY <1>1, <1>2, <1>3, <2>1, <2>2
  <2>4. M * G + M * G < 4 * (G * G)
    BY <1>1
  <2> QED
    BY <1>1, <1>3, <2>3, <2>4 DEF Wide, Word
<1>5. (num * V) % Wide = NV
  BY <1>1, <1>3, <1>4 DEF Wide, Word
<1> HIDE DEF NV
<1>6. A \in Int /\ A * G <= NV /\ NV < A * G + G
  <2>1. G \in Nat \ {0} /\ NV \in Int
    BY <1>1, <1>3
  <2> QED
    BY ONLY <2>1, DivBounds
<1> HIDE DEF A
<1>7. 0 <= Rem
  <2>1. (A * G) * den <= NV * den
    BY <1>1, <1>3, <1>6
  <2>2. NV * den = num * (V * den)
    BY <1>2 DEF NV
  <2>3. num * (V * den) <= num * (M * G)
    BY <1>1, <1>2
  <2>4. (A * den) * G <= (num * M) * G
    BY <1>1, <1>3, <1>6, <2>1, <2>2, <2>3
  <2>5. A * den <= num * M
    BY <1>1, <1>6, <2>4
  <2> QED
    BY <1>1, <1>6, <2>5
<1>8. Rem < 2 * den
  <2>1. num * (M * G) <= num * (V * den) + num * den
    BY <1>1, <1>2
  <2>2. num * (V * den) = NV * den
    BY <1>2 DEF NV
  <2>3. NV * den <= (A * G + G - 1) * den
    BY <1>1, <1>3, <1>6
  <2>4. num * den <= G * den
    BY <1>1
  <2>5. (num * M) * G < (A * den + 2 * den) * G
    BY <1>1, <1>2, <1>3, <1>6, <2>1, <2>2, <2>3, <2>4
  <2>6. num * M < A * den + 2 * den
    BY <1>1, <1>6, <2>5
  <2> QED
    BY <1>1, <1>6, <2>6
<1>9. DivStep(num, den, V) = A + Mask(Rem >= den)
  BY <1>1, <1>5, <1>6 DEF DivStep, A, G, Rem, V
<1>10. CASE Rem >= den
  <2>1. (A + 1) * den <= M * num /\ M * num < (A + 1) * den + den
    BY <1>1, <1>6, <1>8, <1>10
  <2>2. M * num \in Int /\ A + 1 \in Int
    BY <1>1, <1>6
  <2>3. (M * num) \div den = A + 1
    BY ONLY <2>1, <2>2, den \in Nat \ {0}, DivUnique
  <2>4. A + Mask(Rem >= den) = A + 1
    BY <1>6, <1>10 DEF Mask
  <2> QED
    BY <1>9, <2>3, <2>4 DEF V
<1>11. CASE ~(Rem >= den)
  <2>1. A * den <= M * num /\ M * num < A * den + den
    BY <1>1, <1>6, <1>7, <1>11
  <2>2. M * num \in Int /\ A \in Int
    BY <1>1, <1>6
  <2>3. (M * num) \div den = A
    BY ONLY <2>1, <2>2, den \in Nat \ {0}, DivUnique
  <2>4. A + Mask(Rem >= den) = A
    BY <1>6, <1>11 DEF Mask
  <2> QED
    BY <1>9, <2>3, <2>4 DEF V
<1> QED
  BY <1>10, <1>11

-----------------------------------------------------------------------------
(* Where a branch of slope M/d lands, for a numerator up to d + 1.          *)
LEMMA BranchRange ==
  ASSUME NEW d \in 1 .. HALF, NEW n \in Nat, n <= d + 1
  PROVE  /\ (M * n) \div d \in 0 .. M + M \div d
         /\ n < d => (M * n) \div d < M
         /\ n <= d => (M * n) \div d <= M
         /\ n >= 1 => (M * n) \div d >= 1
<1> DEFINE a == M * n
           e == a \div d
           t == M \div d
<1>1. /\ M \in Nat /\ HALF \in Nat /\ M = 2 * HALF + 1
      /\ d \in Nat \ {0} /\ d <= HALF
  BY GridAssumption
<1>2. a \in Nat
  BY <1>1
<1>3. t \in Int /\ t * d <= M /\ M < t * d + d
  BY <1>1, DivBounds
<1> HIDE DEF a, t
<1>4. e \in Int /\ e * d <= a /\ a < e * d + d
  BY <1>1, <1>2, DivBounds
<1> HIDE DEF e
<1>5. e >= 0
  <2> SUFFICES ASSUME e < 0 PROVE FALSE
    BY <1>4
  <2>1. (e + 1) * d <= 0
    BY <1>1, <1>4
  <2> QED
    BY <1>1, <1>2, <1>4, <2>1
<1>6. e <= M + t
  <2> SUFFICES ASSUME M + t + 1 <= e PROVE FALSE
    BY <1>1, <1>3, <1>4
  <2>1. (M + t + 1) * d <= e * d
    BY <1>1, <1>3, <1>4
  <2>2. a <= M * (d + 1)
    BY <1>1 DEF a
  <2> QED
    BY <1>1, <1>2, <1>3, <1>4, <2>1, <2>2
<1>7. n < d => e < M
  <2> SUFFICES ASSUME n < d, M <= e PROVE FALSE
    BY <1>1, <1>4
  <2>1. M * d <= e * d
    BY <1>1, <1>4
  <2>2. a <= M * (d - 1)
    BY <1>1 DEF a
  <2> QED
    BY <1>1, <1>2, <1>4, <2>1, <2>2
<1>8. n <= d => e <= M
  <2> SUFFICES ASSUME n <= d, M + 1 <= e PROVE FALSE
    BY <1>1, <1>4
  <2>1. (M + 1) * d <= e * d
    BY <1>1, <1>4
  <2>2. a <= M * d
    BY <1>1 DEF a
  <2> QED
    BY <1>1, <1>2, <1>4, <2>1, <2>2
<1>9. n >= 1 => e >= 1
  <2> SUFFICES ASSUME n >= 1, e <= 0 PROVE FALSE
    BY <1>1, <1>4
  <2>1. M <= a
    BY <1>1 DEF a
  <2>2. e * d <= 0
    BY <1>1, <1>4
  <2> QED
    BY <1>1, <1>2, <1>4, <2>1, <2>2
<1> QED
  BY <1>1, <1>3, <1>4, <1>5, <1>6, <1>7, <1>8, <1>9 DEF e, a, t

LEMMA BandFacts ==
  ASSUME NEW q \in BreakPoints
  PROVE  /\ M \in Nat /\ HALF \in Nat /\ M = 2 * HALF + 1
         /\ q \in 1 .. HALF /\ HALF - q \in 1 .. HALF
         /\ DEAD_STATE_FIX \in 1 .. M - 1
  BY GridAssumption DEF BreakPoints

(* The band keeps every break-point inside the grid, whatever the key.     *)
LEMMA BreakPointInBand ==
  ASSUME NEW control \in Nat
  PROVE  BreakPoint(control) \in BreakPoints
<1> DEFINE q == control % HALF
           w == HALF - 2 * MIN_P
           f == q % w
<1>1. HALF \in Nat \ {0} /\ MIN_P \in Nat /\ w \in Nat \ {0}
  BY GridAssumption
<1>2. q \in 0 .. HALF - 1
  BY <1>1
<1> HIDE DEF q
<1>3. f \in 0 .. w - 1
  BY <1>1, <1>2
<1> HIDE DEF f
<1>4. BreakPoint(control) = IF InBand(q) THEN q ELSE MIN_P + f
  BY DEF BreakPoint, q, f, w
<1> QED
  BY <1>1, <1>2, <1>3, <1>4 DEF InBand, BreakPoints

(***************************************************************************)
(* The four regions and the dead states, told apart once for every proof.  *)
(* n and d are numerator and denominator of the branch taken.              *)
(***************************************************************************)
Branch(s, q, n, d) ==
  \/ In1(s, q) /\ n = s /\ d = q
  \/ In2(s, q) /\ n = s - q /\ d = HALF - q
  \/ In3(s, q) /\ n = M - q - s /\ d = HALF - q
  \/ In4(s, q) /\ n = M - s /\ d = q

LEMMA BranchTaken ==
  ASSUME NEW s \in Nat, NEW q \in BreakPoints, ~Dead(s, q)
  PROVE  \E n \in Nat, d \in 1 .. HALF :
           Branch(s, q, n, d) /\ n <= d + 1 /\ n <= M
<1>1. /\ M \in Nat /\ HALF \in Nat /\ M = 2 * HALF + 1
      /\ q \in 1 .. HALF /\ HALF - q \in 1 .. HALF
  BY BandFacts
<1>2. CASE In1(s, q)
  <2>1. Branch(s, q, s, q) /\ s <= q + 1 /\ s <= M
    BY <1>1, <1>2 DEF Branch, In1
  <2> QED
    BY <1>1, <2>1
<1>3. CASE In2(s, q)
  <2>1. /\ s - q \in Nat /\ s - q <= HALF - q + 1 /\ s - q <= M
        /\ Branch(s, q, s - q, HALF - q)
    BY <1>1, <1>3 DEF Branch, In2
  <2> QED
    BY <1>1, <2>1
<1>4. CASE In3(s, q)
  <2>1. /\ M - q - s \in Nat /\ M - q - s <= HALF - q + 1 /\ M - q - s <= M
        /\ Branch(s, q, M - q - s, HALF - q)
    BY <1>1, <1>4 DEF Branch, In3
  <2> QED
    BY <1>1, <2>1
<1>5. CASE In4(s, q)
  <2>1. /\ M - s \in Nat /\ M - s <= q + 1 /\ M - s <= M
        /\ Branch(s, q, M - s, q)
    BY <1>1, <1>5 DEF Branch, In4
  <2> QED
    BY <1>1, <2>1
<1> QED
  BY <1>2, <1>3, <1>4, <1>5 DEF Dead

LEMMA CensusBranch ==
  ASSUME NEW s \in Nat, NEW q \in BreakPoints, NEW n \in Nat, NEW d \in 1 .. HALF,
         Branch(s, q, n, d)
  PROVE  CensusStep(s, q) = (M * n) \div d
  BY BandFacts DEF CensusStep, Branch, In1, In2, In3, In4

LEMMA CensusDead ==
  ASSUME NEW s \in Nat, NEW q \in BreakPoints, Dead(s, q)
  PROVE  CensusStep(s, q) = DEAD_STATE_FIX
  BY BandFacts DEF CensusStep, Dead, In1, In2, In3, In4

-----------------------------------------------------------------------------
(***************************************************************************)
(* The masked sum of the Python step is the branching map, in every state  *)
(* (engine.py:187-190).                                                    *)
(***************************************************************************)
THEOREM MaskedIsBranching ==
  ASSUME NEW s \in Nat, NEW q \in BreakPoints
  PROVE  NextState(s, q) = CensusStep(s, q)
<1>1. /\ M \in Nat /\ HALF \in Nat /\ M = 2 * HALF + 1
      /\ q \in 1 .. HALF /\ HALF - q \in 1 .. HALF
      /\ DEAD_STATE_FIX \in 1 .. M - 1
  BY BandFacts
<1>2. R1(s, q) \in Int /\ R4(s, q) \in Int
  <2>1. q \in Nat \ {0} /\ M * s \in Int /\ M * (M - s) \in Int
    BY <1>1
  <2> QED
    BY <2>1, DivBounds DEF R1, R4
<1>3. R2(s, q) \in Int /\ R3(s, q) \in Int
  <2>1. HALF - q \in Nat \ {0} /\ M * (s - q) \in Int /\ M * (M - q - s) \in Int
    BY <1>1
  <2> QED
    BY <2>1, DivBounds DEF R2, R3
<1>4. CASE In1(s, q)
  <2>1. ~In2(s, q) /\ ~In3(s, q) /\ ~In4(s, q) /\ ~Dead(s, q)
    BY <1>1, <1>4 DEF In1, In2, In3, In4, Dead
  <2>2. NextState(s, q) = R1(s, q)
    BY <1>1, <1>2, <1>3, <1>4, <2>1 DEF NextState, Mask
  <2> QED
    BY <1>4, <2>2 DEF CensusStep, R1, In1
<1>5. CASE In2(s, q)
  <2>1. ~In1(s, q) /\ ~In3(s, q) /\ ~In4(s, q) /\ ~Dead(s, q)
    BY <1>1, <1>5 DEF In1, In2, In3, In4, Dead
  <2>2. NextState(s, q) = R2(s, q)
    BY <1>1, <1>2, <1>3, <1>5, <2>1 DEF NextState, Mask
  <2> QED
    BY <1>5, <2>1, <2>2 DEF CensusStep, R2, In1, In2
<1>6. CASE In3(s, q)
  <2>1. ~In1(s, q) /\ ~In2(s, q) /\ ~In4(s, q) /\ ~Dead(s, q)
    BY <1>1, <1>6 DEF In1, In2, In3, In4, Dead
  <2>2. NextState(s, q) = R3(s, q)
    BY <1>1, <1>2, <1>3, <1>6, <2>1 DEF NextState, Mask
  <2> QED
    BY <1>6, <2>1, <2>2 DEF CensusStep, R3, In1, In2, In3
<1>7. CASE In4(s, q)
  <2>1. ~In1(s, q) /\ ~In2(s, q) /\ ~In3(s, q) /\ ~Dead(s, q)
    BY <1>1, <1>7 DEF In1, In2, In3, In4, Dead
  <2>2. NextState(s, q) = R4(s, q)
    BY <1>1, <1>2, <1>3, <1>7, <2>1 DEF NextState, Mask
  <2> QED
    BY <1>7, <2>1, <2>2 DEF CensusStep, R4, In1, In2, In3, In4
<1>8. CASE Dead(s, q)
  <2>1. ~In1(s, q) /\ ~In2(s, q) /\ ~In3(s, q) /\ ~In4(s, q)
    BY <1>8 DEF Dead
  <2>2. NextState(s, q) = DEAD_STATE_FIX
    BY <1>1, <1>2, <1>3, <1>8, <2>1 DEF NextState, Mask
  <2> QED
    BY <1>8, <2>2, CensusDead
<1> QED
  BY <1>4, <1>5, <1>6, <1>7, <1>8 DEF Dead

(***************************************************************************)
(* The Rust step is the branching map too: wrapping words, reciprocal and  *)
(* correction change nothing.                                              *)
(***************************************************************************)
THEOREM RustIsBranching ==
  ASSUME NEW s \in Nat, s < Word, NEW q \in BreakPoints, NEW e, e.x = s,
         e.recip_p = Reciprocal(q), e.recip_hp = Reciprocal(HALF - q)
  PROVE  NextStateRs(e, q) = CensusStep(s, q)
<1>1. /\ M \in Nat /\ HALF \in Nat /\ M = 2 * HALF + 1
      /\ q \in 1 .. HALF /\ HALF - q \in 1 .. HALF
      /\ DEAD_STATE_FIX \in 1 .. M - 1
  BY BandFacts
<1>2. Word = 2 * M + 2
  BY <1>1 DEF Word
<1>3. ASSUME NEW a \in 0 .. Word - 1 PROVE a % Word = a
  BY <1>1, <1>2, <1>3
<1>4. /\ WrapSub(s, q) \in Nat
      /\ WrapSub(WrapSub(M, q), s) \in Nat
      /\ WrapSub(M, s) \in Nat
  BY <1>1, <1>2 DEF WrapSub
<1>5. CASE ~Dead(s, q)
  <2>1. PICK n \in Nat, d \in 1 .. HALF :
          Branch(s, q, n, d) /\ n <= d + 1 /\ n <= M
    BY <1>5, BranchTaken
  <2>2. Numerator(s, q) = n
    <3>1. n % Word = n
      BY <1>1, <1>2, <1>3, <2>1
    <3>2. CASE In1(s, q)
      BY <1>1, <1>4, <2>1, <3>1, <3>2 DEF Numerator, Branch, Mask, In1, In2, In3, In4
    <3>3. CASE In2(s, q)
      <4>1. WrapSub(s, q) = s - q
        BY <1>1, <1>2, <1>3, <3>3 DEF WrapSub, In2
      <4> QED
        BY <1>1, <1>4, <2>1, <3>1, <3>3, <4>1
           DEF Numerator, Branch, Mask, In1, In2, In3, In4
    <3>4. CASE In3(s, q)
      <4>1. WrapSub(M, q) = M - q
        <5>1. M - q \in 0 .. Word - 1
          BY <1>1, <1>2
        <5> QED
          BY <1>3, <5>1 DEF WrapSub
      <4>2. WrapSub(WrapSub(M, q), s) = M - q - s
        BY <1>1, <1>2, <1>3, <3>4, <4>1 DEF WrapSub, In3
      <4> QED
        BY <1>1, <1>4, <2>1, <3>1, <3>4, <4>2
           DEF Numerator, Branch, Mask, In1, In2, In3, In4
    <3>5. CASE In4(s, q)
      <4>1. WrapSub(M, s) = M - s
        BY <1>1, <1>2, <1>3, <3>5 DEF WrapSub, In4
      <4> QED
        BY <1>1, <1>4, <2>1, <3>1, <3>5, <4>1
           DEF Numerator, Branch, Mask, In1, In2, In3, In4
    <3> QED
      BY <1>5, <3>2, <3>3, <3>4, <3>5 DEF Dead
  <2>3. /\ Denominator(s, q) = d
        /\ SelectRecip(s, q, e) = Reciprocal(d)
    BY <1>1, <1>5, <2>1
       DEF Denominator, SelectRecip, SelP, SelHp, Branch, Mask, In1, In2, In3, In4
  <2>4. DivStep(n, d, Reciprocal(d)) = (M * n) \div d
    <3>1. d \in Nat \ {0}
      BY <1>1
    <3> QED
      BY <2>1, <3>1, DivStepExact
  <2>5. (M * n) \div d \in 0 .. Word - 1
    <3>1. (M * n) \div d \in 0 .. M + M \div d
      BY <2>1, BranchRange
    <3>2. M \div d \in Int /\ (M \div d) * d <= M
      BY <1>1, DivBounds
    <3>3. M \div d <= M
      <4> DEFINE t == M \div d
      <4>1. t \in Int /\ t * d <= M
        BY <3>2
      <4> HIDE DEF t
      <4>2. t <= M
        <5> SUFFICES ASSUME t >= M + 1 PROVE FALSE
          BY <1>1, <4>1
        <5>1. t <= t * d
          BY <1>1, <4>1
        <5> QED
          BY <1>1, <4>1, <5>1
      <4> QED
        BY <4>2 DEF t
    <3> QED
      BY <1>1, <1>2, <3>1, <3>2, <3>3
  <2>6. NextStateRs(e, q) = (M * n) \div d
    <3> DEFINE quo == (M * n) \div d
    <3>1. quo \in 0 .. Word - 1
      BY <2>5
    <3> HIDE DEF quo
    <3>2. NextStateRs(e, q) = (quo * (1 - Mask(Dead(s, q)))
                               + DEAD_STATE_FIX * Mask(Dead(s, q))) % Word
      BY <2>2, <2>3, <2>4 DEF NextStateRs, quo
    <3>3. quo * (1 - Mask(Dead(s, q))) + DEAD_STATE_FIX * Mask(Dead(s, q)) = quo
      BY <1>1, <1>2, <1>5, <3>1 DEF Mask
    <3> QED
      BY <1>3, <3>1, <3>2, <3>3 DEF quo
  <2> QED
    BY <2>1, <2>6, CensusBranch
<1>6. CASE Dead(s, q)
  <2>1. ~In1(s, q) /\ ~In2(s, q) /\ ~In3(s, q) /\ ~In4(s, q)
    BY <1>6 DEF Dead
  <2>2. Numerator(s, q) = 0 /\ Denominator(s, q) = 1 /\ SelectRecip(s, q, e) = 0
    <3>1. 0 % Word = 0
      BY <1>1, <1>2, <1>3
    <3> QED
      BY <1>1, <1>4, <1>6, <2>1, <3>1
         DEF Numerator, Denominator, SelectRecip, SelP, SelHp, Mask
  <2>3. DivStep(0, 1, 0) = 0
    <3>1. 0 % Wide = 0 /\ 0 \div (M + 1) = 0
      <4>1. Wide \in Nat \ {0} /\ M + 1 \in Nat \ {0}
        BY <1>1 DEF Wide, Word
      <4> QED
        BY <4>1
    <3> QED
      BY <1>1, <3>1 DEF DivStep, Mask
  <2>4. NextStateRs(e, q) = DEAD_STATE_FIX
    BY <1>1, <1>2, <1>3, <1>6, <2>2, <2>3 DEF NextStateRs, Mask
  <2> QED
    BY <1>6, <2>4, CensusDead
<1> QED
  BY <1>5, <1>6

-----------------------------------------------------------------------------
(* A step stays within the range of the type invariant, far below a word.  *)
LEMMA StepRange ==
  ASSUME NEW s \in Nat, NEW q \in BreakPoints
  PROVE  CensusStep(s, q) \in 0 .. M + M \div (HALF - q)
<1>1. /\ M \in Nat /\ HALF \in Nat /\ M = 2 * HALF + 1
      /\ q \in 1 .. HALF /\ HALF - q \in 1 .. HALF
      /\ DEAD_STATE_FIX \in 1 .. M - 1
  BY BandFacts
<1>2. M \div (HALF - q) \in Nat
  <2>1. (M * 1) \div (HALF - q) \in 0 .. M + M \div (HALF - q)
        /\ (M * 1) \div (HALF - q) >= 1
    BY <1>1, BranchRange
  <2> QED
    BY <1>1, <2>1
<1>3. CASE Dead(s, q)
  BY <1>1, <1>2, <1>3, CensusDead
<1>4. CASE In1(s, q) \/ In4(s, q)
  <2>1. PICK n \in Nat : Branch(s, q, n, q) /\ n <= q
    <3>1. CASE In1(s, q)
      BY <1>1, <3>1 DEF Branch, In1
    <3>2. CASE In4(s, q)
      <4>1. M - s \in Nat /\ M - s <= q
        BY <1>1, <3>2 DEF In4
      <4> QED
        BY <3>2, <4>1 DEF Branch
    <3> QED
      BY <1>4, <3>1, <3>2
  <2>2. (M * n) \div q \in 0 .. M + M \div q /\ (M * n) \div q <= M
    BY <1>1, <2>1, BranchRange
  <2>3. CensusStep(s, q) = (M * n) \div q
    BY <1>1, <2>1, CensusBranch
  <2> QED
    BY <1>1, <1>2, <2>2, <2>3
<1>5. CASE In2(s, q) \/ In3(s, q)
  <2> DEFINE d == HALF - q
  <2>1. PICK n \in Nat : Branch(s, q, n, d) /\ n <= d + 1
    <3>1. CASE In2(s, q)
      <4>1. s - q \in Nat /\ s - q <= d + 1
        BY <1>1, <3>1 DEF In2
      <4> QED
        BY <3>1, <4>1 DEF Branch
    <3>2. CASE In3(s, q)
      <4>1. M - q - s \in Nat /\ M - q - s <= d + 1
        BY <1>1, <3>2 DEF In3
      <4> QED
        BY <3>2, <4>1 DEF Branch
    <3> QED
      BY <1>5, <3>1, <3>2
  <2>2. (M * n) \div d \in 0 .. M + M \div d
    BY <1>1, <2>1, BranchRange
  <2>3. CensusStep(s, q) = (M * n) \div d
    BY <1>1, <2>1, CensusBranch
  <2> QED
    BY <2>2, <2>3
<1> QED
  BY <1>3, <1>4, <1>5 DEF Dead

LEMMA RangeFitsWord ==
  ASSUME NEW q \in BreakPoints
  PROVE  /\ M + M \div (HALF - q) \in Nat
         /\ M <= M + M \div (HALF - q)
         /\ M + M \div (HALF - q) < Word
<1> DEFINE d == HALF - q
           t == M \div d
<1>1. M \in Nat /\ d \in Nat \ {0}
  BY BandFacts
<1> HIDE DEF d
<1>2. t \in Int /\ t * d <= M /\ M < t * d + d
  BY <1>1, DivBounds
<1> HIDE DEF t
<1>3. t >= 0
  <2> SUFFICES ASSUME t + 1 <= 0 PROVE FALSE
    BY <1>2
  <2>1. (t + 1) * d <= 0
    BY <1>1, <1>2
  <2> QED
    BY <1>1, <1>2, <2>1
<1>4. t <= M
  <2> SUFFICES ASSUME t >= M + 1 PROVE FALSE
    BY <1>1, <1>2
  <2>1. t <= t * d
    BY <1>1, <1>2
  <2> QED
    BY <1>1, <1>2, <2>1
<1> QED
  BY <1>1, <1>2, <1>3, <1>4 DEF Word, t, d

(***************************************************************************)
(* Break-point, state and word stay in range, and the Rust engine holds    *)
(* the Python state.  One invariant, since the port follows its own state: *)
(* that is in range because it is the Python one.                          *)
(***************************************************************************)
IInv ==
  /\ TypeOK
  /\ PortsAgree
  /\ MasksAreBranches

LEMMA InitIInv == Init => IInv
<1> SUFFICES ASSUME Init PROVE IInv
  OBVIOUS
<1>1. PICK control \in Controls, mixed \in 0 .. M - 1 :
        /\ p = BreakPoint(control)
        /\ x = FirstState(mixed)
        /\ rs = [x |-> x, recip_p |-> Reciprocal(p), recip_hp |-> Reciprocal(HALF - p)]
  BY DEF Init
<1>2. p \in BreakPoints
  BY <1>1, BreakPointInBand, GridAssumption
<1>3. x \in 0 .. M
  BY <1>1, GridAssumption DEF FirstState
<1>4. /\ M + M \div (HALF - p) \in Nat
      /\ M <= M + M \div (HALF - p)
      /\ M + M \div (HALF - p) < Word
      /\ M \in Nat
  BY <1>2, RangeFitsWord, GridAssumption
<1>5. TypeOK /\ PortsAgree
  BY <1>1, <1>2, <1>3, <1>4 DEF TypeOK, PortsAgree, Word
<1>6. MasksAreBranches
  BY <1>2, <1>3, MaskedIsBranching DEF MasksAreBranches
<1> QED
  BY <1>5, <1>6 DEF IInv

LEMMA StepIInv == IInv /\ [Next]_vars => IInv'
<1> SUFFICES ASSUME IInv, [Next]_vars PROVE IInv'
  OBVIOUS
<1>1. CASE Step
  <2>1. /\ p \in BreakPoints /\ p' = p
        /\ x \in 0 .. M + M \div (HALF - p)
        /\ rs.x = x /\ rs.recip_p = Reciprocal(p) /\ rs.recip_hp = Reciprocal(HALF - p)
    BY <1>1 DEF IInv, TypeOK, PortsAgree, Step
  <2>2. x \in Nat /\ x < Word
    BY <2>1, RangeFitsWord, GridAssumption DEF Word
  <2>3. x' = CensusStep(x, p)
    BY <1>1, <2>1, <2>2, MaskedIsBranching DEF Step
  <2>4. NextStateRs(rs, p) = CensusStep(x, p)
    BY <2>1, <2>2, RustIsBranching
  <2>5. x' \in 0 .. M + M \div (HALF - p)
    BY <2>1, <2>2, <2>3, StepRange
  <2>6. PortsAgree' /\ (rs.recip_p)' = Reciprocal(p) /\ (rs.recip_hp)' = Reciprocal(HALF - p)
    BY <1>1, <2>1, <2>3, <2>4 DEF Step, PortsAgree
  <2>7. TypeOK'
    BY <2>1, <2>5, <2>6, RangeFitsWord, GridAssumption DEF TypeOK, PortsAgree, Word
  <2>8. MasksAreBranches'
    <3>1. x' \in Nat
      BY <2>1, <2>5, RangeFitsWord
    <3> QED
      BY <2>1, <3>1, MaskedIsBranching DEF MasksAreBranches
  <2> QED
    BY <2>6, <2>7, <2>8 DEF IInv
<1>2. CASE UNCHANGED vars
  BY <1>2 DEF vars, IInv, TypeOK, PortsAgree, MasksAreBranches
<1> QED
  BY <1>1, <1>2 DEF Next

THEOREM Invariance == Spec => []IInv
  BY InitIInv, StepIInv, PTL DEF Spec

(* The state stays in range, for every modulus and break-point.            *)
THEOREM TypeCorrect == Spec => []TypeOK
<1>1. IInv => TypeOK
  BY DEF IInv
<1> QED
  BY <1>1, Invariance, PTL

(* The two ports walk the same orbit, from every key and nonce.            *)
THEOREM SameOrbit == Spec => []PortsAgree
<1>1. IInv => PortsAgree
  BY DEF IInv
<1> QED
  BY <1>1, Invariance, PTL

(* The masks select the branch of the original map throughout the orbit.   *)
THEOREM SameMap == Spec => []MasksAreBranches
<1>1. IInv => MasksAreBranches
  BY DEF IInv
<1> QED
  BY <1>1, Invariance, PTL

(***************************************************************************)
(* An orbit dies only in four states: the quotient of a branch is zero or  *)
(* reaches M only where the numerator is zero or reaches the divisor.      *)
(***************************************************************************)
LEMMA DeathAtCorner ==
  ASSUME NEW s \in Nat, NEW q \in BreakPoints, Alive(s), ~Alive(CensusStep(s, q))
  PROVE  s \in {q, HALF, HALF + 1, M - q}
<1>1. /\ M \in Nat /\ HALF \in Nat /\ M = 2 * HALF + 1
      /\ q \in 1 .. HALF /\ HALF - q \in 1 .. HALF
  BY BandFacts
<1>2. ~Dead(s, q)
  BY <1>1 DEF Alive, Dead, In1, In2, In3, In4
<1>3. PICK n \in Nat, d \in 1 .. HALF :
        Branch(s, q, n, d) /\ n <= d + 1 /\ n <= M
  BY <1>2, BranchTaken
<1> DEFINE e == (M * n) \div d
<1>4. /\ e \in Int
      /\ n < d => e < M
      /\ n >= 1 => e >= 1
  <2>1. M * n \in Int /\ d \in Nat \ {0}
    BY <1>1
  <2>2. e \in Int
    BY <2>1, DivBounds
  <2> QED
    BY <1>3, <2>2, BranchRange
<1>5. CensusStep(s, q) = e
  BY <1>3, CensusBranch
<1> HIDE DEF e
<1>6. ~(1 <= n /\ n < d)
  BY <1>1, <1>4, <1>5 DEF Alive
<1> QED
  BY <1>1, <1>3, <1>6 DEF Branch, Alive, In1, In2, In3, In4

THEOREM DeathOnlyAtCorners == Spec => DiesOnlyAtCorners
<1>1. IInv /\ [Next]_vars =>
        [Alive(x) /\ ~Alive(x') => x \in {p, HALF, HALF + 1, M - p}]_vars
  <2> SUFFICES ASSUME IInv, Step, Alive(x), ~Alive(x')
               PROVE  x \in {p, HALF, HALF + 1, M - p}
    BY DEF Next
  <2>1. p \in BreakPoints /\ x \in Nat
    BY RangeFitsWord DEF IInv, TypeOK
  <2>2. x' = CensusStep(x, p)
    BY <2>1, MaskedIsBranching DEF Step
  <2> QED
    BY <2>1, <2>2, DeathAtCorner
<1> QED
  BY <1>1, Invariance, PTL DEF Spec, DiesOnlyAtCorners
=============================================================================
