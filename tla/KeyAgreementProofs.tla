------------------------- MODULE KeyAgreementProofs -------------------------
(***************************************************************************)
(* Proofs about the plain, authenticated and hybrid exchanges, for a group *)
(* of any size and any network: that they agree is the arithmetic of       *)
(* pow(g, x, p), which square-and-multiply is shown to compute (the laws   *)
(* of powers), and that no shared element degenerates is the order of the  *)
(* group of a safe prime (NoSmallOrder).                                   *)
(*                                                                         *)
(* The inductive invariant: an exponent lies in its range, and what a call *)
(* came to is the function of the exponent and of what the party was given *)
(* last (Computed).                                                        *)
(***************************************************************************)
EXTENDS KeyAgreement, WellFoundedInduction, TLAPS

(* A set of numbers that is not empty has a least element.                 *)
LEMMA LeastNumber ==
  ASSUME NEW T, T \subseteq Nat, T # {}
  PROVE  \E n \in T : \A m \in T : n <= m
<1> DEFINE R == {p \in Nat \X Nat : p[1] < p[2]}
<1>1. IsWellFoundedOn(R, Nat)
  <2>1. R = OpToRel(<, Nat)
    BY DEF OpToRel
  <2> QED
    BY <2>1, NatLessThanWellFounded
<1>2. \E x \in T : \A y \in T : ~ (<<y, x>> \in R)
  <2> HIDE DEF R
  <2> QED BY <1>1, WFMin
<1>3. PICK n \in T : \A y \in T : ~ (<<y, n>> \in R)
  BY <1>2
<1>4. \A y \in T : ~ (y < n)
  BY <1>3
<1> QED
  BY <1>4

(* Induction over the numbers, with all smaller ones at hand.              *)
LEMMA AllBelow ==
  ASSUME NEW S, \A n \in Nat : (\A k \in 0..n - 1 : k \in S) => n \in S
  PROVE  \A n \in Nat : n \in S
<1> SUFFICES ASSUME NEW x \in Nat, x \notin S PROVE FALSE
  OBVIOUS
<1> DEFINE T == {n \in Nat : n \notin S}
<1>1. PICK n \in T : \A m \in T : n <= m
  <2>1. T \subseteq Nat /\ T # {}
    OBVIOUS
  <2> HIDE DEF T
  <2> QED
    BY <2>1, LeastNumber
<1>2. \A k \in 0..n - 1 : k \in S
  BY <1>1
<1> QED
  BY <1>1, <1>2

(* The remainder differs from the dividend by a multiple of the divisor.   *)
LEMMA RemainderFacts ==
  ASSUME NEW a \in Int, NEW m \in Nat \ {0}
  PROVE  a % m \in 0..m - 1 /\ \E q \in Int : a = q * m + (a % m)
<1>1. a % m \in 0..m - 1
  OBVIOUS
<1>2. a \div m \in Int
  OBVIOUS
<1>3. a = (a \div m) * m + (a % m)
  OBVIOUS
<1> QED
  BY <1>1, <1>2, <1>3

(* No multiple of m but 0 lies between -m and m.                           *)
LEMMA MultipleBetween ==
  ASSUME NEW m \in Nat \ {0}, NEW k \in Int, -m < k * m, k * m < m
  PROVE  k = 0
<1>1. ~(k >= 1)
  <2> SUFFICES ASSUME k >= 1 PROVE FALSE
    OBVIOUS
  <2>1. k * m >= 1 * m
    OBVIOUS
  <2> QED
    BY <2>1
<1>2. ~(k <= -1)
  <2> SUFFICES ASSUME k <= -1 PROVE FALSE
    OBVIOUS
  <2>1. k * m <= (-1) * m
    OBVIOUS
  <2> QED
    BY <2>1
<1> QED
  BY <1>1, <1>2

(* The remainder is the only number below the divisor that differs from    *)
(* the dividend by a multiple.                                             *)
LEMMA RemainderUnique ==
  ASSUME NEW m \in Nat \ {0}, NEW q \in Int, NEW r \in 0..m - 1, NEW a \in Int,
         a = q * m + r
  PROVE  a % m = r
<1> DEFINE s == a % m
<1>1. s \in 0..m - 1 /\ \E p \in Int : a = p * m + s
  BY RemainderFacts
<1> HIDE DEF s
<1>2. PICK p \in Int : a = p * m + s
  BY <1>1
<1> DEFINE k == p - q
<1>3. k \in Int /\ k * m = r - s
  BY <1>1, <1>2
<1> HIDE DEF k
<1>4. -m < k * m /\ k * m < m
  BY <1>1, <1>3
<1>5. k = 0
  BY <1>3, <1>4, MultipleBetween
<1> QED
  BY <1>1, <1>3, <1>5 DEF s

(* Multiplication modulo m.                                                *)
Times(m, a, b) == (a * b) % m

LEMMA TimesReduces ==
  ASSUME NEW m \in Nat \ {0}, NEW a \in Int, NEW b \in Int
  PROVE  ((a % m) * b) % m = (a * b) % m
<1> DEFINE s == a % m
           t == (s * b) % m
<1>1. s \in 0..m - 1 /\ \E q \in Int : a = q * m + s
  BY RemainderFacts
<1>2. PICK q \in Int : a = q * m + s
  BY <1>1
<1> HIDE DEF s
<1>3. s * b \in Int
  BY <1>1
<1>4. t \in 0..m - 1 /\ \E u \in Int : s * b = u * m + t
  BY <1>3, RemainderFacts
<1>5. PICK u \in Int : s * b = u * m + t
  BY <1>4
<1> HIDE DEF t
<1> DEFINE c == q * b + u
           e == a * b
<1>6. e = c * m + t
  <2>1. a * b = (q * m + s) * b
    BY <1>2
  <2>2. (q * m + s) * b = (q * b) * m + s * b
    BY <1>1
  <2> QED
    BY <1>1, <1>4, <1>5, <2>1, <2>2
<1>7. c \in Int /\ e \in Int
  OBVIOUS
<1> HIDE DEF c, e
<1>8. e % m = t
  BY ONLY <1>4, <1>6, <1>7, m \in Nat \ {0}, RemainderUnique
<1> QED
  BY <1>8 DEF e, s, t

LEMMA TimesFacts ==
  ASSUME NEW m \in Nat, m > 1
  PROVE  /\ \A a, b \in 0..m - 1 : Times(m, a, b) \in 0..m - 1
         /\ \A a, b \in 0..m - 1 : Times(m, a, b) = Times(m, b, a)
         /\ \A a \in 0..m - 1 : Times(m, 1, a) = a /\ Times(m, a, 1) = a
         /\ \A a, b, c \in 0..m - 1 : Times(m, Times(m, a, b), c) = Times(m, a, Times(m, b, c))
<1>0. m \in Nat \ {0}
  OBVIOUS
<1>1. ASSUME NEW a \in 0..m - 1, NEW b \in 0..m - 1 PROVE Times(m, a, b) \in 0..m - 1
  <2>1. a * b \in Int
    OBVIOUS
  <2> QED
    BY <1>0, <2>1, RemainderFacts DEF Times
<1>2. ASSUME NEW a \in 0..m - 1, NEW b \in 0..m - 1 PROVE Times(m, a, b) = Times(m, b, a)
  <2>1. a * b = b * a
    OBVIOUS
  <2> QED
    BY <2>1 DEF Times
<1>3. ASSUME NEW a \in 0..m - 1 PROVE Times(m, 1, a) = a /\ Times(m, a, 1) = a
  <2>1. 1 * a = a /\ a * 1 = a /\ a = 0 * m + a /\ a \in Int
    OBVIOUS
  <2>2. a % m = a
    BY <1>0, <2>1, RemainderUnique
  <2> QED
    BY <2>1, <2>2 DEF Times
<1>4. ASSUME NEW a \in 0..m - 1, NEW b \in 0..m - 1, NEW c \in 0..m - 1
      PROVE  Times(m, Times(m, a, b), c) = Times(m, a, Times(m, b, c))
  <2>1. a * b \in Int /\ b * c \in Int /\ a \in Int /\ c \in Int /\ m \in Nat \ {0}
    OBVIOUS
  <2>2. (((a * b) % m) * c) % m = ((a * b) * c) % m
    BY ONLY <2>1, TimesReduces
  <2>3. (((b * c) % m) * a) % m = ((b * c) * a) % m
    BY ONLY <2>1, TimesReduces
  <2>4. (a * b) * c = (b * c) * a
    OBVIOUS
  <2>5. ((b * c) % m) * a = a * ((b * c) % m)
    <3> DEFINE d == (b * c) % m
    <3>1. d \in Int /\ a \in Int
      BY <2>1
    <3> HIDE DEF d
    <3>2. d * a = a * d
      BY <3>1
    <3> QED
      BY <3>2 DEF d
  <2> QED
    BY <2>2, <2>3, <2>4, <2>5 DEF Times
<1> QED
  BY <1>1, <1>2, <1>3, <1>4

-----------------------------------------------------------------------------
(* Square and multiply is a recursive function of the exponent.            *)
PowStep(m, y, f, e) ==
  IF e = 0 THEN 1
  ELSE LET half == f[e \div 2]
           square == (half * half) % m
       IN  IF e % 2 = 0 THEN square ELSE (square * y) % m

PowFunction(m, y, x, f) == f = [e \in 0..x |-> PowStep(m, y, f, e)]

Power(m, y, x) == (CHOOSE f : PowFunction(m, y, x, f))[x]

LEMMA HalfBelow ==
  ASSUME NEW e \in Nat, e # 0
  PROVE  e \div 2 \in 0..e - 1
  OBVIOUS

LEMMA PowStepLocal ==
  ASSUME NEW m, NEW y, NEW f, NEW g, NEW e \in Nat,
         \A k \in 0..e - 1 : f[k] = g[k]
  PROVE  PowStep(m, y, f, e) = PowStep(m, y, g, e)
<1>1. CASE e = 0
  BY <1>1 DEF PowStep
<1>2. CASE e # 0
  <2>1. e \div 2 \in 0..e - 1
    BY <1>2, HalfBelow
  <2>2. f[e \div 2] = g[e \div 2]
    BY <2>1
  <2> QED
    BY <2>2, Zenon DEF PowStep
<1> QED
  BY <1>1, <1>2

LEMMA PowFunctionAt ==
  ASSUME NEW m, NEW y, NEW x \in Nat, NEW f, PowFunction(m, y, x, f), NEW e \in 0..x
  PROVE  f[e] = PowStep(m, y, f, e)
<1> DEFINE g == [k \in 0..x |-> PowStep(m, y, f, k)]
<1>1. f = g
  BY Zenon DEF PowFunction
<1>2. g[e] = PowStep(m, y, f, e)
  OBVIOUS
<1> HIDE DEF g
<1> QED
  BY <1>1, <1>2

LEMMA PowFunctionExists ==
  ASSUME NEW m, NEW y
  PROVE  \A x \in Nat : \E f : PowFunction(m, y, x, f)
<1> DEFINE S == {x \in Nat : \E f : PowFunction(m, y, x, f)}
<1>1. ASSUME NEW x \in Nat, \A k \in 0..x - 1 : k \in S PROVE x \in S
  <2> SUFFICES \E f : PowFunction(m, y, x, f)
    OBVIOUS
  <2>1. PICK g : x # 0 => PowFunction(m, y, x - 1, g)
    BY <1>1
  <2> DEFINE f == [e \in 0..x |-> PowStep(m, y, g, e)]
             h == [e \in 0..x |-> PowStep(m, y, f, e)]
  <2>2. \A e \in 0..x - 1 : f[e] = g[e]
    <3> SUFFICES ASSUME NEW e \in 0..x - 1 PROVE f[e] = g[e]
      OBVIOUS
    <3>1. f[e] = PowStep(m, y, g, e)
      OBVIOUS
    <3>2. x # 0 /\ x - 1 \in Nat
      OBVIOUS
    <3>3. g[e] = PowStep(m, y, g, e)
      BY <2>1, <3>2, PowFunctionAt
    <3> QED
      BY <3>1, <3>3
  <2>3. \A e \in 0..x : f[e] = PowStep(m, y, g, e) /\ h[e] = PowStep(m, y, f, e)
    OBVIOUS
  <2>4. DOMAIN f = 0..x /\ DOMAIN h = 0..x /\ f = [e \in 0..x |-> f[e]] /\ h = [e \in 0..x |-> h[e]]
    OBVIOUS
  <2>5. h = [e \in 0..x |-> PowStep(m, y, f, e)]
    OBVIOUS
  <2> HIDE DEF f, h
  <2>6. \A e \in 0..x : f[e] = h[e]
    <3> SUFFICES ASSUME NEW e \in 0..x PROVE f[e] = h[e]
      OBVIOUS
    <3>1. e \in Nat /\ \A k \in 0..e - 1 : f[k] = g[k]
      BY <2>2
    <3>2. PowStep(m, y, f, e) = PowStep(m, y, g, e)
      BY <3>1, PowStepLocal
    <3> QED
      BY <2>3, <3>2
  <2>7. f = h
    BY <2>4, <2>6
  <2>8. PowFunction(m, y, x, f)
    BY <2>5, <2>7, Zenon DEF PowFunction
  <2> QED
    BY <2>8
<1> HIDE DEF S
<1>2. \A x \in Nat : x \in S
  BY <1>1, AllBelow
<1> QED
  BY <1>2 DEF S

LEMMA PowFunctionsAgree ==
  ASSUME NEW m, NEW y, NEW x \in Nat, NEW z \in Nat, NEW f, NEW g,
         PowFunction(m, y, x, f), PowFunction(m, y, z, g)
  PROVE  \A e \in Nat : e <= x /\ e <= z => f[e] = g[e]
<1> DEFINE S == {e \in Nat : e <= x /\ e <= z => f[e] = g[e]}
<1>1. ASSUME NEW e \in Nat, \A k \in 0..e - 1 : k \in S PROVE e \in S
  <2> SUFFICES ASSUME e <= x, e <= z PROVE f[e] = g[e]
    OBVIOUS
  <2>1. \A k \in 0..e - 1 : f[k] = g[k]
    BY <1>1
  <2>2. PowStep(m, y, f, e) = PowStep(m, y, g, e)
    BY <2>1, PowStepLocal
  <2>3. e \in 0..x /\ e \in 0..z
    OBVIOUS
  <2>4. f[e] = PowStep(m, y, f, e)
    BY <2>3, PowFunctionAt
  <2>5. g[e] = PowStep(m, y, g, e)
    BY <2>3, PowFunctionAt
  <2> QED
    BY <2>2, <2>4, <2>5
<1> HIDE DEF S
<1>2. \A e \in Nat : e \in S
  BY <1>1, AllBelow
<1> QED
  BY <1>2 DEF S

LEMMA PowerStep ==
  ASSUME NEW m, NEW y, NEW e \in Nat
  PROVE  /\ e = 0 => Power(m, y, e) = 1
         /\ e # 0 => LET square == Times(m, Power(m, y, e \div 2), Power(m, y, e \div 2))
                     IN  Power(m, y, e) = IF e % 2 = 0 THEN square ELSE Times(m, square, y)
<1> DEFINE f == CHOOSE h : PowFunction(m, y, e, h)
           d == e \div 2
           g == CHOOSE h : PowFunction(m, y, d, h)
<1>1. d \in Nat /\ d <= e
  OBVIOUS
<1>2. Power(m, y, e) = f[e] /\ Power(m, y, d) = g[d]
  BY Zenon DEF Power
<1>3. PowFunction(m, y, e, f)
  BY PowFunctionExists, Zenon
<1>4. PowFunction(m, y, d, g)
  <2> HIDE DEF d
  <2> QED
    BY <1>1, PowFunctionExists, Zenon
<1> HIDE DEF f, g
<1>5. f[d] = g[d]
  <2>1. d <= d
    BY <1>1
  <2> HIDE DEF d
  <2> QED
    BY <1>1, <1>3, <1>4, <2>1, PowFunctionsAgree
<1>6. e \in 0..e
  OBVIOUS
<1>7. f[e] = PowStep(m, y, f, e)
  BY <1>3, <1>6, PowFunctionAt
<1>8. CASE e = 0
  <2>1. PowStep(m, y, f, e) = 1
    BY <1>8, Zenon DEF PowStep
  <2> QED
    BY <1>2, <1>7, <1>8, <2>1
<1>9. CASE e # 0
  <2>1. PowStep(m, y, f, e) = LET square == Times(m, f[d], f[d])
                              IN  IF e % 2 = 0 THEN square ELSE Times(m, square, y)
    BY <1>9, Zenon DEF PowStep, Times
  <2> QED
    BY <1>2, <1>5, <1>7, <1>9, <2>1, Zenon
<1> QED
  BY <1>8, <1>9

LEMMA PowerRange ==
  ASSUME NEW m \in Nat, m > 1, NEW y \in 0..m - 1
  PROVE  \A e \in Nat : Power(m, y, e) \in 0..m - 1
<1> DEFINE S == {e \in Nat : Power(m, y, e) \in 0..m - 1}
<1>1. ASSUME NEW e \in Nat, \A k \in 0..e - 1 : k \in S PROVE e \in S
  <2>1. CASE e = 0
    <3>1. Power(m, y, e) = 1
      BY <2>1, PowerStep
    <3> QED
      BY <3>1
  <2>2. CASE e # 0
    <3> DEFINE h == Power(m, y, e \div 2)
               s == Times(m, h, h)
    <3>1. h \in 0..m - 1
      BY <1>1, <2>2, HalfBelow
    <3>2. Power(m, y, e) = IF e % 2 = 0 THEN s ELSE Times(m, s, y)
      BY <2>2, PowerStep
    <3> HIDE DEF h
    <3>3. s \in 0..m - 1
      BY <3>1, TimesFacts
    <3> HIDE DEF s
    <3>4. Times(m, s, y) \in 0..m - 1
      BY <3>3, TimesFacts
    <3> QED
      BY <3>2, <3>3, <3>4
  <2> QED
    BY <2>1, <2>2
<1> HIDE DEF S
<1>2. \A e \in Nat : e \in S
  BY <1>1, AllBelow
<1> QED
  BY <1>2 DEF S

LEMMA SquareOfProduct ==
  ASSUME NEW m \in Nat, m > 1, NEW p \in 0..m - 1, NEW y \in 0..m - 1
  PROVE  Times(m, Times(m, p, y), Times(m, p, y)) = Times(m, Times(m, Times(m, p, p), y), y)
<1> DEFINE D == 0..m - 1
           t(a, b) == Times(m, a, b)
<1>1. /\ \A a, b \in D : t(a, b) \in D
      /\ \A a, b \in D : t(a, b) = t(b, a)
      /\ \A a, b, c \in D : t(t(a, b), c) = t(a, t(b, c))
      /\ p \in D /\ y \in D
  BY TimesFacts
<1> HIDE DEF D, t
<1>2. t(p, y) \in D /\ t(p, p) \in D
  BY <1>1
<1>3. t(t(p, y), t(p, y)) = t(t(t(p, y), p), y)
  <2>1. \A x \in D : t(x, t(p, y)) = t(t(x, p), y)
    BY <1>1
  <2> QED
    BY <1>2, <2>1
<1>4. t(t(p, y), p) = t(t(p, p), y)
  <2>1. t(t(p, y), p) = t(p, t(p, y))
    BY <1>1, <1>2
  <2>2. t(p, t(p, y)) = t(t(p, p), y)
    BY <1>1
  <2> QED
    BY <2>1, <2>2
<1>5. t(t(p, y), t(p, y)) = t(t(t(p, p), y), y)
  BY <1>3, <1>4
<1> QED
  BY <1>5 DEF t

(* The laws of powers.                                                     *)
LEMMA PowerSuccessor ==
  ASSUME NEW m \in Nat, m > 1, NEW y \in 0..m - 1
  PROVE  \A e \in Nat : Power(m, y, e + 1) = Times(m, Power(m, y, e), y)
<1> DEFINE S == {e \in Nat : Power(m, y, e + 1) = Times(m, Power(m, y, e), y)}
<1>0. 1 \in 0..m - 1 /\ Times(m, 1, 1) = 1 /\ Times(m, 1, y) = y
  BY TimesFacts
<1>1. ASSUME NEW e \in Nat, \A k \in 0..e - 1 : k \in S PROVE e \in S
  <2> SUFFICES Power(m, y, e + 1) = Times(m, Power(m, y, e), y)
    OBVIOUS
  <2>1. e + 1 # 0 /\ e + 1 \in Nat
    OBVIOUS
  <2>2. CASE e = 0
    <3>1. (e + 1) \div 2 = 0 /\ (e + 1) % 2 = 1
      BY <2>2
    <3>2. Power(m, y, 0) = 1
      BY PowerStep
    <3>3. Power(m, y, e + 1) = Times(m, Times(m, 1, 1), y)
      BY <2>1, <3>1, <3>2, PowerStep
    <3> QED
      BY <1>0, <2>2, <3>2, <3>3
  <2>3. CASE e # 0 /\ e % 2 = 0
    <3> DEFINE h == e \div 2
    <3>1. (e + 1) \div 2 = h /\ (e + 1) % 2 = 1
      BY <2>3
    <3> HIDE DEF h
    <3>2. Power(m, y, e + 1) = Times(m, Times(m, Power(m, y, h), Power(m, y, h)), y)
      BY <2>1, <3>1, PowerStep
    <3>3. Power(m, y, e) = Times(m, Power(m, y, h), Power(m, y, h))
      BY <2>3, PowerStep DEF h
    <3> QED
      BY <3>2, <3>3
  <2>4. CASE e % 2 = 1
    <3> DEFINE h == e \div 2
               p == Power(m, y, h)
               q == Power(m, y, h + 1)
    <3>1. (e + 1) \div 2 = h + 1 /\ (e + 1) % 2 = 0 /\ h \in 0..e - 1 /\ h \in Nat /\ e # 0
      BY <2>4
    <3>2. h \in S
      BY <1>1, <3>1
    <3>3. q = Times(m, p, y)
      BY <3>2
    <3>4. Power(m, y, e + 1) = Times(m, q, q)
      <4> HIDE DEF h
      <4> QED
        BY <2>1, <3>1, PowerStep
    <3>5. Power(m, y, e) = Times(m, Times(m, p, p), y)
      BY <2>4, <3>1, PowerStep
    <3>6. p \in 0..m - 1
      BY <3>1, PowerRange
    <3> HIDE DEF p, q
    <3>7. Times(m, q, q) = Times(m, Times(m, Times(m, p, p), y), y)
      BY <3>3, <3>6, SquareOfProduct
    <3> QED
      BY <3>4, <3>5, <3>7
  <2> QED
    BY <2>2, <2>3, <2>4
<1> HIDE DEF S
<1>2. \A e \in Nat : e \in S
  BY <1>1, AllBelow
<1> QED
  BY <1>2 DEF S

LEMMA PowerSum ==
  ASSUME NEW m \in Nat, m > 1, NEW y \in 0..m - 1, NEW a \in Nat
  PROVE  \A b \in Nat : Power(m, y, a + b) = Times(m, Power(m, y, a), Power(m, y, b))
<1> DEFINE S == {b \in Nat : Power(m, y, a + b) = Times(m, Power(m, y, a), Power(m, y, b))}
<1>1. ASSUME NEW b \in Nat, \A k \in 0..b - 1 : k \in S PROVE b \in S
  <2> SUFFICES Power(m, y, a + b) = Times(m, Power(m, y, a), Power(m, y, b))
    OBVIOUS
  <2>1. CASE b = 0
    <3>1. Power(m, y, b) = 1 /\ a + b = a
      BY <2>1, PowerStep
    <3>2. Power(m, y, a) \in 0..m - 1
      BY PowerRange
    <3> QED
      BY <3>1, <3>2, TimesFacts
  <2>2. CASE b # 0
    <3> DEFINE c == b - 1
    <3>1. c \in Nat /\ c \in 0..b - 1 /\ b = c + 1 /\ a + b = (a + c) + 1 /\ a + c \in Nat
      BY <2>2
    <3>2. c \in S
      BY <1>1, <3>1
    <3>3. Power(m, y, a + c) = Times(m, Power(m, y, a), Power(m, y, c))
      BY <3>2
    <3> HIDE DEF c, S
    <3>4. Power(m, y, a + b) = Times(m, Power(m, y, a + c), y)
      BY <3>1, PowerSuccessor
    <3>5. Power(m, y, b) = Times(m, Power(m, y, c), y)
      BY <3>1, PowerSuccessor
    <3>6. Power(m, y, a) \in 0..m - 1 /\ Power(m, y, c) \in 0..m - 1
      BY <3>1, PowerRange
    <3>7. Times(m, Times(m, Power(m, y, a), Power(m, y, c)), y)
            = Times(m, Power(m, y, a), Times(m, Power(m, y, c), y))
      BY <3>6, TimesFacts
    <3> QED
      BY <3>3, <3>4, <3>5, <3>7
  <2> QED
    BY <2>1, <2>2
<1> HIDE DEF S
<1>2. \A b \in Nat : b \in S
  BY <1>1, AllBelow
<1> QED
  BY <1>2 DEF S

LEMMA PowerProduct ==
  ASSUME NEW m \in Nat, m > 1, NEW y \in 0..m - 1, NEW a \in Nat
  PROVE  \A b \in Nat : Power(m, Power(m, y, a), b) = Power(m, y, a * b)
<1> DEFINE z == Power(m, y, a)
           S == {b \in Nat : Power(m, z, b) = Power(m, y, a * b)}
<1>0. z \in 0..m - 1
  BY PowerRange
<1> HIDE DEF z
<1>1. ASSUME NEW b \in Nat, \A k \in 0..b - 1 : k \in S PROVE b \in S
  <2> SUFFICES Power(m, z, b) = Power(m, y, a * b)
    OBVIOUS
  <2>1. CASE b = 0
    <3>1. a * b = 0
      BY <2>1
    <3>2. Power(m, z, 0) = 1 /\ Power(m, y, 0) = 1
      BY PowerStep
    <3> QED
      BY <2>1, <3>1, <3>2
  <2>2. CASE b # 0
    <3> DEFINE c == b - 1
               d == a * c
    <3>1. c \in Nat /\ c \in 0..b - 1 /\ b = c + 1
      BY <2>2
    <3>2. a * b = d + a /\ d \in Nat
      BY <3>1
    <3>3. c \in S
      BY <1>1, <3>1
    <3>4. Power(m, z, c) = Power(m, y, d)
      BY <3>3
    <3> HIDE DEF c, d, S
    <3>5. Power(m, z, b) = Times(m, Power(m, z, c), z)
      BY <1>0, <3>1, PowerSuccessor
    <3>6. Power(m, y, d + a) = Times(m, Power(m, y, d), Power(m, y, a))
      BY <3>2, PowerSum
    <3> QED
      BY <3>2, <3>4, <3>5, <3>6 DEF z
  <2> QED
    BY <2>1, <2>2
<1> HIDE DEF S
<1>2. \A b \in Nat : b \in S
  BY <1>1, AllBelow
<1> QED
  BY <1>2 DEF S, z

LEMMA PowersCommute ==
  ASSUME NEW m \in Nat, m > 1, NEW y \in 0..m - 1, NEW a \in Nat, NEW b \in Nat
  PROVE  Power(m, Power(m, y, a), b) = Power(m, Power(m, y, b), a)
<1>1. a * b = b * a
  OBVIOUS
<1>2. Power(m, Power(m, y, a), b) = Power(m, y, a * b)
  BY PowerProduct
<1>3. Power(m, Power(m, y, b), a) = Power(m, y, b * a)
  BY PowerProduct
<1> QED
  BY <1>1, <1>2, <1>3

-----------------------------------------------------------------------------
(* A divisor of both is the least number they combine to.                  *)
LEMMA LeastCombination ==
  ASSUME NEW x \in Nat, NEW p \in Nat, NEW d \in Nat \ {0}, NEW u \in Int, NEW v \in Int,
         d = x * u + p * v,
         \A a, b \in Int : x * a + p * b > 0 => d <= x * a + p * b
  PROVE  x % d = 0 /\ p % d = 0
<1> DEFINE Combines(n) == \E i, j \in Int : n = x * i + p * j
<1>1. ASSUME NEW n \in Nat, Combines(n) PROVE n % d = 0
  <2>0. PICK i \in Int, j \in Int : n = x * i + p * j
    BY <1>1
  <2> DEFINE r == n % d
  <2>1. r \in 0..d - 1 /\ \E q \in Int : n = q * d + r
    <3>1. n \in Int
      OBVIOUS
    <3> QED
      BY ONLY <3>1, d \in Nat \ {0}, RemainderFacts
  <2> HIDE DEF r
  <2>2. PICK q \in Int : n = q * d + r
    BY <2>1
  <2> DEFINE a == i - q * u
             b == j - q * v
  <2>3. a \in Int /\ b \in Int
    OBVIOUS
  <2>4. r = x * a + p * b
    <3>1. x * a = x * i - q * (x * u) /\ p * b = p * j - q * (p * v)
      OBVIOUS
    <3>2. q * d = q * (x * u) + q * (p * v)
      OBVIOUS
    <3> HIDE DEF a, b
    <3> QED
      BY <2>0, <2>1, <2>2, <2>3, <3>1, <3>2
  <2> HIDE DEF a, b
  <2>5. ~(r > 0)
    <3> SUFFICES ASSUME r > 0 PROVE FALSE
      OBVIOUS
    <3>1. d <= x * a + p * b
      BY <2>3, <2>4
    <3> QED
      BY <2>1, <2>4, <3>1
  <2> QED
    BY <2>1, <2>5 DEF r
<1>2. Combines(x) /\ Combines(p)
  <2>1. x * 1 = x /\ x * 0 = 0 /\ p * 1 = p /\ p * 0 = 0
    OBVIOUS
  <2>2. x = x * 1 + p * 0 /\ p = x * 0 + p * 1
    BY <2>1
  <2>3. 0 \in Int /\ 1 \in Int
    OBVIOUS
  <2>4. Combines(x)
    BY <2>2, <2>3, Zenon
  <2>5. Combines(p)
    BY <2>2, <2>3, Zenon
  <2> QED
    BY <2>4, <2>5
<1> HIDE DEF Combines
<1> QED
  BY <1>1, <1>2

LEMMA Bezout ==
  ASSUME NEW p \in Nat, IsPrime(p), NEW x \in 1..p - 1
  PROVE  \E u \in Nat, w \in Nat : x * u = p * w + 1
<1> DEFINE T == {d \in Nat \ {0} : \E a, b \in Int : d = x * a + p * b}
<1>1. T \subseteq Nat /\ T # {}
  <2>1. x = x * 1 + p * 0 /\ x \in Nat \ {0}
    OBVIOUS
  <2>2. x \in T
    BY <2>1
  <2> QED
    BY <2>2
<1>2. PICK d \in T : \A e \in T : d <= e
  <2> HIDE DEF T
  <2> QED
    BY <1>1, LeastNumber
<1>3. PICK u \in Int, v \in Int : d = x * u + p * v
  OBVIOUS
<1>4. d \in Nat \ {0}
  OBVIOUS
<1>5. \A a, b \in Int : x * a + p * b > 0 => d <= x * a + p * b
  <2> SUFFICES ASSUME NEW a \in Int, NEW b \in Int, x * a + p * b > 0
               PROVE  d <= x * a + p * b
    OBVIOUS
  <2> DEFINE e == x * a + p * b
  <2>1. e \in Nat \ {0}
    OBVIOUS
  <2>2. e \in T
    BY <2>1
  <2> QED
    BY <1>2, <2>2
<1> HIDE DEF T
<1>6. x \in Nat
  OBVIOUS
<1>7. x % d = 0 /\ p % d = 0
  BY ONLY <1>3, <1>4, <1>5, <1>6, p \in Nat, LeastCombination
<1>8. d <= x
  <2>1. PICK q \in Int : x = q * d + (x % d)
    <3>1. x \in Int
      BY <1>6
    <3> QED
      BY ONLY <1>4, <3>1, RemainderFacts
  <2>2. x = q * d
    BY <1>4, <1>7, <2>1
  <2>3. ~(q <= 0)
    <3> SUFFICES ASSUME q <= 0 PROVE FALSE
      OBVIOUS
    <3>1. q * d <= 0 * d
      BY <1>4
    <3> QED
      BY <1>4, <2>2, <3>1
  <2>4. q * d >= 1 * d
    BY <1>4, <2>3
  <2> QED
    BY <1>4, <2>2, <2>4
<1>9. d = 1
  BY <1>4, <1>7, <1>8 DEF IsPrime
<1> DEFINE r == u % p
<1>10. p \in Nat \ {0} /\ p > 1
  BY DEF IsPrime
<1>11. r \in 0..p - 1 /\ \E q \in Int : u = q * p + r
  BY <1>10, RemainderFacts
<1> HIDE DEF r
<1>12. PICK q \in Int : u = q * p + r
  BY <1>11
<1> DEFINE w == -(v + x * q)
<1>13. w \in Int /\ r \in Nat
  BY <1>11
<1>14. x * r = p * w + 1
  <2>1. x * u = (x * q) * p + x * r
    BY <1>11, <1>12
  <2>2. p * w = -(p * v) - (x * q) * p
    OBVIOUS
  <2> HIDE DEF w
  <2> QED
    BY <1>3, <1>9, <1>11, <1>13, <2>1, <2>2
<1> HIDE DEF w
<1>15. ~(w < 0)
  <2> SUFFICES ASSUME w < 0 PROVE FALSE
    OBVIOUS
  <2>1. x * r >= 0
    BY <1>11
  <2>2. p * w <= p * (-1)
    BY <1>13
  <2> QED
    BY <1>10, <1>13, <1>14, <2>1, <2>2
<1> QED
  BY <1>13, <1>14, <1>15

(* Modulo a prime only 1 and -1 are roots of 1.                            *)
LEMMA RootsOfOne ==
  ASSUME NEW p \in Nat, IsPrime(p), NEW y \in 2..p - 2
  PROVE  Times(p, y, y) # 1
<1> SUFFICES ASSUME (y * y) % p = 1 PROVE FALSE
  BY DEF Times
<1>1. p \in Nat \ {0} /\ y * y \in Int
  BY DEF IsPrime
<1>2. PICK k \in Int : y * y = k * p + 1
  BY <1>1, RemainderFacts
<1>3. y - 1 \in 1..p - 1
  OBVIOUS
<1>4. PICK u \in Nat, w \in Nat : (y - 1) * u = p * w + 1
  BY <1>3, Bezout
<1> DEFINE c == u * k - w * (y + 1)
<1>5. c \in Int
  OBVIOUS
<1>6. y + 1 = c * p
  <2>1. ((y - 1) * u) * (y + 1) = (p * w + 1) * (y + 1)
    BY <1>4
  <2>2. ((y - 1) * u) * (y + 1) = u * (y * y - 1)
    OBVIOUS
  <2>3. u * (y * y - 1) = u * (k * p)
    BY <1>1, <1>2
  <2>4. (p * w + 1) * (y + 1) = p * (w * (y + 1)) + (y + 1)
    OBVIOUS
  <2>5. c * p = u * (k * p) - p * (w * (y + 1))
    OBVIOUS
  <2> HIDE DEF c
  <2> QED
    BY <1>5, <2>1, <2>2, <2>3, <2>4, <2>5
<1> HIDE DEF c
<1>7. c = 0
  <2>1. -p < c * p /\ c * p < p
    BY <1>5, <1>6
  <2> QED
    BY <1>1, <1>5, <2>1, MultipleBetween
<1> QED
  BY <1>6, <1>7

LEMMA PowersOfOne ==
  ASSUME NEW m \in Nat, m > 1
  PROVE  \A e \in Nat : Power(m, 1, e) = 1
<1> DEFINE S == {e \in Nat : Power(m, 1, e) = 1}
<1>0. 1 \in 0..m - 1 /\ Times(m, 1, 1) = 1
  BY TimesFacts
<1>1. ASSUME NEW e \in Nat, \A k \in 0..e - 1 : k \in S PROVE e \in S
  <2>1. CASE e = 0
    BY <2>1, PowerStep
  <2>2. CASE e # 0
    <3> DEFINE c == e - 1
    <3>1. c \in Nat /\ e = c + 1 /\ c \in 0..e - 1
      BY <2>2
    <3>2. Power(m, 1, c) = 1
      BY <1>1, <3>1
    <3> HIDE DEF c
    <3>3. Power(m, 1, e) = Times(m, Power(m, 1, c), 1)
      BY <1>0, <3>1, PowerSuccessor
    <3> QED
      BY <1>0, <3>2, <3>3
  <2> QED
    BY <2>1, <2>2
<1> HIDE DEF S
<1>2. \A e \in Nat : e \in S
  BY <1>1, AllBelow
<1> QED
  BY <1>2 DEF S

(* In the group of a safe prime no element but 1 and -1 has an order below *)
(* that of the large subgroup.                                             *)
LEMMA NoSmallOrder ==
  ASSUME NEW p \in Nat, NEW q \in Nat, p = 2 * q + 1, IsPrime(p), IsPrime(q),
         \A a \in 1..p - 1 : Power(p, a, p - 1) = 1,
         NEW y \in 2..p - 2, NEW x \in 2..q - 1
  PROVE  Power(p, y, x) \notin {0, 1, p - 1}
<1> DEFINE z == Power(p, y, x)
<1>1. /\ p > 1 /\ p \in Nat /\ p \in Nat \ {0} /\ y \in 0..p - 1 /\ y \in 1..p - 1
      /\ x \in Nat /\ x \in 1..q - 1
      /\ p - 1 \in Nat /\ p - 1 = q + q
  OBVIOUS
<1>2. Power(p, y, p - 1) = 1
  BY <1>1
<1>3. z \in 0..p - 1
  BY <1>1, PowerRange
<1>4. z # 0
  <2> SUFFICES ASSUME z = 0 PROVE FALSE
    OBVIOUS
  <2> DEFINE c == (p - 1) - x
  <2>1. c \in Nat /\ x + c = p - 1
    OBVIOUS
  <2> HIDE DEF c
  <2>2. Power(p, y, x + c) = Times(p, z, Power(p, y, c))
    BY <1>1, <2>1, PowerSum
  <2>3. Power(p, y, c) \in 0..p - 1
    BY <1>1, <2>1, PowerRange
  <2> DEFINE g == Power(p, y, c)
  <2> HIDE DEF g
  <2>4. 0 * g = 0 /\ 0 = 0 * p + 0 /\ 0 \in 0..p - 1
    BY <1>1, <2>3 DEF g
  <2>5. 0 % p = 0
    BY <1>1, <2>4, RemainderUnique
  <2>6. Times(p, 0, g) = 0
    BY <2>4, <2>5 DEF Times
  <2> QED
    BY <1>2, <2>1, <2>2, <2>6 DEF g
<1>5. ~(Times(p, z, z) = 1)
  <2> SUFFICES ASSUME Times(p, z, z) = 1 PROVE FALSE
    OBVIOUS
  <2>1. Power(p, y, x + x) = 1
    BY <1>1, PowerSum
  <2>2. PICK u \in Nat, w \in Nat : x * u = q * w + 1
    BY <1>1, Bezout
  <2>3. Power(p, y, (x + x) * u) = 1
    <3>1. x + x \in Nat
      BY <1>1
    <3>2. Power(p, Power(p, y, x + x), u) = Power(p, y, (x + x) * u)
      BY <1>1, <3>1, PowerProduct
    <3>3. Power(p, 1, u) = 1
      BY <1>1, PowersOfOne
    <3> QED
      BY <2>1, <3>2, <3>3
  <2>4. Power(p, y, (p - 1) * w) = 1
    <3>1. Power(p, Power(p, y, p - 1), w) = Power(p, y, (p - 1) * w)
      BY <1>1, PowerProduct
    <3>2. Power(p, 1, w) = 1
      BY <1>1, PowersOfOne
    <3> QED
      BY <1>2, <3>1, <3>2
  <2>5. Power(p, y, 2) = Times(p, y, y)
    <3>1. Power(p, y, 0) = 1
      BY PowerStep
    <3>2. Power(p, y, 0 + 1) = Times(p, Power(p, y, 0), y)
      BY <1>1, PowerSuccessor
    <3>3. Power(p, y, 1 + 1) = Times(p, Power(p, y, 1), y)
      BY <1>1, PowerSuccessor
    <3>4. Times(p, 1, y) = y
      BY <1>1, TimesFacts
    <3> QED
      BY <3>1, <3>2, <3>3, <3>4
  <2>6. (x + x) * u = (p - 1) * w + 2 /\ (p - 1) * w \in Nat
    <3>1. (x + x) * u = 2 * (x * u) /\ (q + q) * w = 2 * (q * w) /\ x * u \in Nat /\ q * w \in Nat
      BY <1>1
    <3> QED
      BY <1>1, <2>2, <3>1
  <2> DEFINE e == (p - 1) * w
  <2> HIDE DEF e
  <2>7. Power(p, y, e + 2) = Times(p, Power(p, y, e), Power(p, y, 2))
    <3>1. e \in Nat /\ 2 \in Nat
      BY <2>6 DEF e
    <3> QED
      BY <1>1, <3>1, PowerSum
  <2>8. Power(p, y, e + 2) = 1 /\ Power(p, y, e) = 1
    BY <2>3, <2>4, <2>6 DEF e
  <2>9. Times(p, y, y) \in 0..p - 1
    BY <1>1, TimesFacts
  <2>10. Times(p, 1, Times(p, y, y)) = Times(p, y, y)
    BY <1>1, <2>9, TimesFacts
  <2>11. Times(p, y, y) = 1
    BY <2>5, <2>7, <2>8, <2>10
  <2> QED
    BY <2>11, RootsOfOne
<1>6. z # 1
  BY <1>1, <1>5, TimesFacts
<1>7. z # p - 1
  <2>1. (p - 1) * (p - 1) = (p - 2) * p + 1 /\ 1 \in 0..p - 1 /\ p - 2 \in Int
    BY <1>1
  <2> DEFINE a == (p - 1) * (p - 1)
             k == p - 2
  <2>2. a \in Int /\ k \in Int /\ a = k * p + 1
    BY <2>1
  <2> HIDE DEF a, k
  <2>3. a % p = 1
    BY <1>1, <2>1, <2>2, RemainderUnique
  <2> QED
    BY <1>5, <2>3 DEF a, Times
<1> QED
  BY <1>4, <1>6, <1>7

-----------------------------------------------------------------------------
(* The exchanges: what the objects hold, in any run.                       *)
Ran(p) == HasKey(p) \/ heard[p] # None

Result(p) ==
  LET h == heard[p]
      raw == RawShared(dh[p], h.y)
  IN  IF mode = "dh" THEN SharedKey(dh[p], h.y, h.info)
      ELSE IF mode = "auth" THEN SessionKey(dh[p], Statics[p], peer[p], h.y, h.info)
      ELSE IF p = "bob" THEN ResponderKey(raw, dh[p], h.y, h.pk, h.ct, h.info)
      ELSE InitiatorKey(raw, dh[p], h.y, h.ct, h.info)

Computed(p) ==
  /\ dh[p] # None /\ heard[p].y \in Int
  /\ heard[p] = [y |-> heard[p].y, pk |-> heard[p].pk, ct |-> heard[p].ct, info |-> heard[p].info]
  /\ out[p] = Result(p)
  /\ mode = "hybrid" /\ p = "bob" => heard[p].ct = Encapsulate(heard[p].pk, "bob")

Shapes ==
  /\ mode \in Modes
  /\ DOMAIN dh = Parties /\ DOMAIN generated = Parties
  /\ DOMAIN heard = Parties /\ DOMAIN out = Parties
  /\ mode = "auth" => \A p \in Parties : peer[p] \in Int

ExponentsInRange ==
  \A p \in Parties :
    /\ dh[p] # None => dh[p] \in 2..P - 2
    /\ generated[p] => dh[p] # None /\ dh[p] \in 2..Q - 1

ExchangeInv == Shapes /\ ExponentsInRange /\ \A p \in Parties : Ran(p) => Computed(p)

LEMMA GroupFacts ==
  /\ P \in Nat /\ P > 4 /\ Q \in Nat /\ P = 2 * Q + 1
  /\ G \in 2..P - 2 /\ G \in 0..P - 1
  /\ Width \in Nat /\ Width > P
  /\ Draws \subseteq 0..Q - 3 /\ Supplied \subseteq Nat
  /\ \A p \in Parties : Statics[p] \in 2..Q - 1
  /\ Mallory \subseteq 2..Q - 1
  BY KeyAssumption DEF Q

LEMMA PowIsPower ==
  ASSUME NEW y, NEW x
  PROVE  Pow(y, x) = Power(P, y, x)
  BY Zenon DEF Pow, Power, PowFunction, PowStep

LEMMA PublicFacts ==
  ASSUME NEW x \in Nat
  PROVE  Public(x) = Power(P, G, x) /\ Public(x) \in 0..P - 1
<1>1. Public(x) = Power(P, G, x)
  BY PowIsPower DEF Public
<1>2. P \in Nat /\ P > 1 /\ G \in 0..P - 1
  BY GroupFacts
<1> QED
  BY <1>1, <1>2, PowerRange

(* Either party's power of the other's public value is the shared element. *)
LEMMA SharedCommutes ==
  ASSUME NEW x \in Nat, NEW y \in Nat
  PROVE  Pow(Public(x), y) = Pow(Public(y), x)
<1>1. P \in Nat /\ P > 1 /\ G \in 0..P - 1
  BY GroupFacts
<1>2. Public(x) = Power(P, G, x) /\ Public(y) = Power(P, G, y)
  BY PublicFacts
<1>3. Power(P, Power(P, G, x), y) = Power(P, Power(P, G, y), x)
  BY <1>1, PowersCommute
<1> QED
  BY <1>2, <1>3, PowIsPower

LEMMA RawFacts ==
  ASSUME NEW x, NEW y
  PROVE  /\ ValidatePeer(y) => RawShared(x, y) = Pow(y, x)
         /\ ~ValidatePeer(y) => RawShared(x, y) = Raised
  BY DEF RawShared

LEMMA GenerateRange ==
  ASSUME NEW r \in Draws
  PROVE  Generate(r) \in 2..Q - 1 /\ Generate(r) \in 2..P - 2
<1>1. r \in 0..Q - 3 /\ P = 2 * Q + 1 /\ Q \in Nat /\ P > 4
  BY GroupFacts
<1> DEFINE n == P - 3
           q == Q
<1>2. n \in Nat \ {0} /\ r \in 0..n - 1 /\ r \in Int /\ r = 0 * n + r
  BY <1>1
<1> HIDE DEF n
<1>3. r % n = r
  BY <1>2, RemainderUnique
<1>4. Generate(r) = 2 + r
  BY <1>3 DEF Generate, n
<1> HIDE DEF q
<1> QED
  BY <1>1, <1>4 DEF q

LEMMA ArrivalsAreNumbers ==
  ASSUME Shapes, ExponentsInRange
  PROVE  Arrivals \subseteq Int
<1>1. P \in Nat /\ Width \in Nat
  BY GroupFacts
<1>2. Publics \subseteq Int
  <2>1. \A p \in Parties : dh[p] # None => Public(dh[p]) \in Int
    <3> SUFFICES ASSUME NEW p \in Parties, dh[p] # None PROVE Public(dh[p]) \in Int
      OBVIOUS
    <3>1. dh[p] \in Nat
      BY <1>1 DEF ExponentsInRange
    <3> QED
      BY <1>1, <3>1, PublicFacts
  <2>2. \A p \in Parties : Public(Statics[p]) \in Int
    <3> SUFFICES ASSUME NEW p \in Parties PROVE Public(Statics[p]) \in Int
      OBVIOUS
    <3>1. Statics[p] \in Nat
      BY GroupFacts
    <3> QED
      BY <1>1, <3>1, PublicFacts
  <2>3. \A m \in Mallory : Public(m) \in Int
    <3> SUFFICES ASSUME NEW m \in Mallory PROVE Public(m) \in Int
      OBVIOUS
    <3>1. m \in Nat
      BY GroupFacts
    <3> QED
      BY <1>1, <3>1, PublicFacts
  <2> QED
    BY <2>1, <2>2, <2>3 DEF Publics
<1>3. Edges \subseteq Int
  BY <1>1 DEF Edges
<1>4. \A y \in Publics : P - y \in Int
  BY <1>1, <1>2
<1> QED
  BY <1>2, <1>3, <1>4 DEF Arrivals

LEMMA ExchangeInit ==
  ASSUME Init
  PROVE  ExchangeInv
<1>1. Shapes
  <2>1. ASSUME mode = "auth", NEW p \in Parties PROVE peer[p] \in Int
    <3>1. peer[p] \in Identities
      BY <2>1 DEF Init
    <3>2. P \in Nat
      BY GroupFacts
    <3>3. \A q \in Parties : Statics[q] \in Nat
      BY GroupFacts
    <3>4. \A q \in Parties : Public(Statics[q]) \in Int
      BY <3>2, <3>3, PublicFacts
    <3>5. \A m \in Mallory : m \in Nat
      BY GroupFacts
    <3>6. \A m \in Mallory : Public(m) \in Int
      BY <3>2, <3>5, PublicFacts
    <3> QED
      BY <3>1, <3>2, <3>4, <3>6 DEF Identities
  <2> QED
    BY <2>1 DEF Shapes, Init
<1>2. ExponentsInRange
  BY DEF ExponentsInRange, Init
<1>3. \A p \in Parties : ~Ran(p)
  BY DEF Ran, HasKey, Init
<1> QED
  BY <1>1, <1>2, <1>3 DEF ExchangeInv

LEMMA CreateKeeps ==
  ASSUME ExchangeInv, NEW p \in Parties, NEW r \in Draws, Create(p, r)
  PROVE  ExchangeInv'
<1>1. /\ dh[p] = None /\ out[p] = None /\ dh[p] # Generate(r)
      /\ UNCHANGED <<mode, peer, heard>>
      /\ \/ out' = [out EXCEPT ![p] = Raised] /\ UNCHANGED <<dh, generated>>
         \/ /\ dh' = [dh EXCEPT ![p] = Generate(r)]
            /\ generated' = [generated EXCEPT ![p] = TRUE]
            /\ UNCHANGED out
  BY DEF Create
<1>2. Generate(r) \in 2..Q - 1 /\ Generate(r) \in 2..P - 2
  BY GenerateRange
<1>3. Shapes'
  BY <1>1 DEF ExchangeInv, Shapes
<1>4. ExponentsInRange'
  BY <1>1, <1>2 DEF ExchangeInv, Shapes, ExponentsInRange
<1>5. ASSUME NEW q \in Parties, Ran(q)' PROVE Computed(q)'
  <2>1. q # p
    <3>1. ~Ran(p)
      BY <1>1 DEF ExchangeInv, Computed
    <3>2. ~Ran(p)'
      BY <1>1, <3>1 DEF Ran, HasKey, ExchangeInv, Shapes
    <3> QED
      BY <1>5, <3>2
  <2>2. dh'[q] = dh[q] /\ out'[q] = out[q] /\ heard' = heard /\ mode' = mode /\ peer' = peer
    BY <1>1, <2>1 DEF ExchangeInv, Shapes
  <2>3. Ran(q)
    BY <1>5, <2>2 DEF Ran, HasKey
  <2>4. Computed(q)
    BY <2>3 DEF ExchangeInv
  <2> QED
    BY <2>2, <2>4 DEF Computed, Result
<1> QED
  BY <1>3, <1>4, <1>5 DEF ExchangeInv

LEMMA CreateSuppliedKeeps ==
  ASSUME ExchangeInv, NEW p \in Parties, NEW x \in Supplied,
         CreateSupplied(p, x)
  PROVE  ExchangeInv'
<1>1. /\ dh[p] = None /\ out[p] = None
      /\ UNCHANGED <<mode, peer, generated, heard>>
      /\ \/ out' = [out EXCEPT ![p] = Raised] /\ UNCHANGED dh
         \/ InRange(x) /\ dh' = [dh EXCEPT ![p] = x] /\ UNCHANGED out
  BY DEF CreateSupplied
<1>2. x \in Nat /\ (InRange(x) => x \in 2..P - 2)
  BY GroupFacts DEF InRange
<1>3. Shapes'
  BY <1>1 DEF ExchangeInv, Shapes
<1>4. ExponentsInRange'
  <2>1. ASSUME NEW q \in Parties, dh'[q] # None PROVE dh'[q] \in 2..P - 2
    BY <1>1, <1>2, <2>1 DEF ExchangeInv, Shapes, ExponentsInRange
  <2>2. ASSUME NEW q \in Parties, generated'[q] 
               PROVE  dh'[q] # None /\ dh'[q] \in 2..Q - 1
    <3>1. dh[q] # None /\ dh[q] \in 2..Q - 1
      BY <1>1, <2>2 DEF ExchangeInv, ExponentsInRange
    <3>2. q # p
      BY <1>1, <3>1
    <3> QED
      BY <1>1, <3>1, <3>2 DEF ExchangeInv, Shapes
  <2> QED
    BY <2>1, <2>2 DEF ExponentsInRange
<1>5. ASSUME NEW q \in Parties, Ran(q)' PROVE Computed(q)'
  <2>1. q # p
    <3>1. ~Ran(p)
      BY <1>1 DEF ExchangeInv, Computed
    <3>2. ~Ran(p)'
      BY <1>1, <3>1 DEF Ran, HasKey, ExchangeInv, Shapes
    <3> QED
      BY <1>5, <3>2
  <2>2. dh'[q] = dh[q] /\ out'[q] = out[q] /\ heard' = heard /\ mode' = mode /\ peer' = peer
    BY <1>1, <2>1 DEF ExchangeInv, Shapes
  <2>3. Ran(q)
    BY <1>5, <2>2 DEF Ran, HasKey
  <2>4. Computed(q)
    BY <2>3 DEF ExchangeInv
  <2> QED
    BY <2>2, <2>4 DEF Computed, Result
<1> QED
  BY <1>3, <1>4, <1>5 DEF ExchangeInv

(* Any call: what it is given is recorded with what it comes to.           *)
Returned(p, y, pk, ct, info) ==
  LET raw == RawShared(dh[p], y)
  IN  IF mode = "dh" THEN SharedKey(dh[p], y, info)
      ELSE IF mode = "auth" THEN SessionKey(dh[p], Statics[p], peer[p], y, info)
      ELSE IF p = "bob" THEN ResponderKey(raw, dh[p], y, pk, ct, info)
      ELSE InitiatorKey(raw, dh[p], y, ct, info)

LEMMA CalledKeeps ==
  ASSUME ExchangeInv, NEW p \in Parties, NEW y \in Int, NEW pk, NEW ct, NEW info, NEW result,
         MayCall(p), Called(p, y, pk, ct, info, result),
         result = Returned(p, y, pk, ct, info),
         mode = "hybrid" /\ p = "bob" => ct = Encapsulate(pk, "bob")
  PROVE  ExchangeInv'
<1> DEFINE h == [y |-> y, pk |-> pk, ct |-> ct, info |-> info]
<1>1. /\ heard' = [heard EXCEPT ![p] = h] /\ out' = [out EXCEPT ![p] = result]
      /\ UNCHANGED <<mode, peer, dh, generated>>
      /\ dh[p] # None
  BY DEF Called, MayCall
<1>2. Shapes' /\ ExponentsInRange'
  BY <1>1 DEF ExchangeInv, Shapes, ExponentsInRange
<1>3. /\ h.y = y /\ h.pk = pk /\ h.ct = ct /\ h.info = info
      /\ h = [y |-> h.y, pk |-> h.pk, ct |-> h.ct, info |-> h.info]
  OBVIOUS
<1> HIDE DEF h
<1>4. ASSUME NEW q \in Parties, Ran(q)' PROVE Computed(q)'
  <2>1. CASE q = p
    <3>1. heard'[q] = h /\ out'[q] = result /\ dh' = dh /\ mode' = mode /\ peer' = peer
      BY <1>1, <2>1 DEF ExchangeInv, Shapes
    <3>2. Result(q)' = Returned(p, y, pk, ct, info)
      BY <1>3, <2>1, <3>1 DEF Result, Returned
    <3> QED
      BY <1>1, <1>3, <2>1, <3>1, <3>2 DEF Computed
  <2>2. CASE q # p
    <3>1. /\ heard'[q] = heard[q] /\ out'[q] = out[q]
          /\ dh' = dh /\ mode' = mode /\ peer' = peer
      BY <1>1, <2>2 DEF ExchangeInv, Shapes
    <3>2. Ran(q)
      BY <1>4, <3>1 DEF Ran, HasKey
    <3>3. Computed(q)
      BY <3>2 DEF ExchangeInv
    <3> QED
      BY <3>1, <3>3 DEF Computed, Result
  <2> QED
    BY <2>1, <2>2
<1> QED
  BY <1>2, <1>4 DEF ExchangeInv

LEMMA ExchangeStep ==
  ASSUME ExchangeInv, [Next]_vars
  PROVE  ExchangeInv'
<1>0. Arrivals \subseteq Int
  BY ArrivalsAreNumbers DEF ExchangeInv
<1>a. "alice" \in Parties /\ "bob" \in Parties
  BY DEF Parties
<1>1. ASSUME NEW p \in Parties, NEW r \in Draws, Create(p, r) PROVE ExchangeInv'
  BY <1>1, CreateKeeps
<1>2. ASSUME NEW p \in Parties, NEW x \in Supplied, CreateSupplied(p, x) PROVE ExchangeInv'
  BY <1>2, CreateSuppliedKeeps
<1>3. ASSUME NEW p \in Parties, NEW y \in Arrivals, NEW info \in Infos,
             CallShared(p, y, info)
      PROVE  ExchangeInv'
  <2> DEFINE result == SharedKey(dh[p], y, info)
  <2>1. mode = "dh" /\ MayCall(p) /\ Called(p, y, None, None, info, result) /\ y \in Int
    BY <1>0, <1>3 DEF CallShared
  <2>2. result = Returned(p, y, None, None, info)
    BY <2>1 DEF Returned
  <2>3. ~(mode = "hybrid")
    BY <2>1
  <2> HIDE DEF result
  <2> QED
    BY <2>1, <2>2, <2>3, CalledKeeps
<1>4. ASSUME NEW p \in Parties, NEW y \in Arrivals, NEW info \in Infos,
             CallSession(p, y, info)
      PROVE  ExchangeInv'
  <2> DEFINE result == SessionKey(dh[p], Statics[p], peer[p], y, info)
  <2>1. mode = "auth" /\ MayCall(p) /\ Called(p, y, None, None, info, result) /\ y \in Int
    BY <1>0, <1>4 DEF CallSession
  <2>2. result = Returned(p, y, None, None, info)
    BY <2>1 DEF Returned
  <2>3. ~(mode = "hybrid")
    BY <2>1
  <2> HIDE DEF result
  <2> QED
    BY <2>1, <2>2, <2>3, CalledKeeps
<1>5. ASSUME NEW y \in Arrivals, NEW pk \in KemKeys, NEW info \in Infos,
             CallRespond(y, pk, info)
      PROVE  ExchangeInv'
  <2> DEFINE ct == Encapsulate(pk, "bob")
             result == ResponderKey(RawShared(dh["bob"], y), dh["bob"], y, pk, ct, info)
  <2>1. mode = "hybrid" /\ MayCall("bob") /\ Called("bob", y, pk, ct, info, result) /\ y \in Int
    BY <1>0, <1>5 DEF CallRespond
  <2>2. result = Returned("bob", y, pk, ct, info)
    BY <2>1 DEF Returned
  <2>3. ct = Encapsulate(pk, "bob")
    OBVIOUS
  <2> HIDE DEF result, ct
  <2> QED
    BY <1>a, <2>1, <2>2, <2>3, CalledKeeps
<1>6. ASSUME NEW y \in Arrivals, NEW ct \in Ciphertexts, NEW info \in Infos,
             CallInitiator(y, ct, info)
      PROVE  ExchangeInv'
  <2> DEFINE result == InitiatorKey(RawShared(dh["alice"], y), dh["alice"], y, ct, info)
  <2>1. mode = "hybrid" /\ MayCall("alice") /\ Called("alice", y, None, ct, info, result) /\ y \in Int
    BY <1>0, <1>6 DEF CallInitiator
  <2>2. result = Returned("alice", y, None, ct, info)
    BY <2>1 DEF Returned
  <2>3. "alice" # "bob"
    OBVIOUS
  <2> HIDE DEF result
  <2> QED
    BY <1>a, <2>1, <2>2, <2>3, CalledKeeps
<1>7. CASE UNCHANGED vars
  BY <1>7 DEF vars, ExchangeInv, Shapes, ExponentsInRange, Ran, HasKey, Computed, Result
<1> QED
  BY <1>1, <1>2, <1>3, <1>4, <1>5, <1>6, <1>7 DEF Next

LEMMA ExchangeInvariant ==
  Spec => []ExchangeInv
<1>1. Init => ExchangeInv
  BY ExchangeInit
<1>2. ExchangeInv /\ [Next]_vars => ExchangeInv'
  BY ExchangeStep
<1> QED
  BY <1>1, <1>2, PTL DEF Spec

LEMMA KeyMeansComputed ==
  ASSUME ExchangeInv, NEW p \in Parties, HasKey(p)
  PROVE  Computed(p) /\ Result(p) # Raised
  BY DEF ExchangeInv, Ran, HasKey, Computed

LEMMA ExchangeModes ==
  ASSUME ExchangeInv
  PROVE  mode = "dh" \/ mode = "auth" \/ mode = "hybrid"
  BY DEF ExchangeInv, Shapes, Modes

(* A result that is not an error is a hash of what the two sides share.    *)
LEMMA DhResult ==
  ASSUME NEW p, mode = "dh", Result(p) # Raised
  PROVE  /\ ValidatePeer(heard[p].y)
         /\ Result(p) = Hash("dh", <<heard[p].info, Pow(heard[p].y, dh[p])>>)
<1> DEFINE y == heard[p].y
           info == heard[p].info
           x == dh[p]
<1>1. Result(p) = SharedKey(x, y, info)
  BY DEF Result
<1> HIDE DEF y, info, x
<1>2. RawShared(x, y) # Raised
  BY <1>1 DEF SharedKey
<1>3. ValidatePeer(y) /\ RawShared(x, y) = Pow(y, x)
  BY <1>2, RawFacts
<1>4. SharedKey(x, y, info) = Hash("dh", <<info, RawShared(x, y)>>)
  BY <1>2 DEF SharedKey
<1> QED
  BY <1>1, <1>3, <1>4 DEF y, info, x

Sorted(info, ee, es, se) ==
  IF es <= se THEN Hash("auth", <<info, ee, es, se>>) ELSE Hash("auth", <<info, ee, se, es>>)

LEMMA AuthResult ==
  ASSUME NEW p, mode = "auth", Result(p) # Raised
  PROVE  /\ ValidatePeer(heard[p].y)
         /\ Result(p) = Sorted(heard[p].info, Pow(heard[p].y, dh[p]),
                               Pow(peer[p], dh[p]), Pow(heard[p].y, Statics[p]))
<1> DEFINE y == heard[p].y
           info == heard[p].info
           x == dh[p]
           s == Statics[p]
           id == peer[p]
<1>1. Result(p) = SessionKey(x, s, id, y, info)
  BY DEF Result
<1> HIDE DEF y, info, x, s, id
<1>2. RawShared(x, y) # Raised /\ RawShared(x, id) # Raised /\ RawShared(s, y) # Raised
  BY <1>1 DEF SessionKey
<1>3. /\ ValidatePeer(y)
      /\ RawShared(x, y) = Pow(y, x) /\ RawShared(x, id) = Pow(id, x)
      /\ RawShared(s, y) = Pow(y, s)
  BY <1>2, RawFacts
<1>4. SessionKey(x, s, id, y, info)
        = Sorted(info, RawShared(x, y), RawShared(x, id), RawShared(s, y))
  BY <1>2 DEF SessionKey, Sorted
<1> QED
  BY <1>1, <1>3, <1>4 DEF y, info, x, s, id

LEMMA HybridResult ==
  ASSUME NEW p \in Parties, mode = "hybrid", Result(p) # Raised
  PROVE  /\ ValidatePeer(heard[p].y)
         /\ p = "alice" =>
              Result(p) = Combine(Pow(heard[p].y, dh[p]), Decapsulate("alice", heard[p].ct),
                                     Transcript(Public(dh[p]), heard[p].y, "alice", heard[p].ct),
                                     heard[p].info)
         /\ p = "bob" =>
              Result(p) = Combine(Pow(heard[p].y, dh[p]), Encapsulated(heard[p].ct),
                                     Transcript(heard[p].y, Public(dh[p]), heard[p].pk, heard[p].ct),
                                     heard[p].info)
<1> DEFINE y == heard[p].y
           info == heard[p].info
           x == dh[p]
           pk == heard[p].pk
           ct == heard[p].ct
           raw == RawShared(x, y)
<1>1. Result(p) = IF p = "bob" THEN ResponderKey(raw, x, y, pk, ct, info)
                  ELSE InitiatorKey(raw, x, y, ct, info)
  BY DEF Result
<1>2. p = "alice" \/ p = "bob"
  BY DEF Parties
<1> HIDE DEF y, info, x, pk, ct, raw
<1>3. raw # Raised
  BY <1>1 DEF ResponderKey, InitiatorKey
<1>4. ValidatePeer(y) /\ raw = Pow(y, x)
  BY <1>3, RawFacts DEF raw
<1>5. p = "alice" => Result(p) = Combine(raw, Decapsulate("alice", ct),
                                            Transcript(Public(x), y, "alice", ct), info)
  BY <1>1, <1>3 DEF InitiatorKey
<1>6. p = "bob" => Result(p) = Combine(raw, Encapsulated(ct),
                                          Transcript(y, Public(x), pk, ct), info)
  BY <1>1, <1>3 DEF ResponderKey
<1> QED
  BY <1>4, <1>5, <1>6 DEF y, info, x, pk, ct

(* pq_keyexchange.py:76 - equal keys mean that nothing was replaced.       *)
LEMMA HybridState ==
  ASSUME ExchangeInv
  PROVE  HybridMeansUnchanged
<1> SUFFICES ASSUME mode = "hybrid", BothHaveKeys, out["alice"] = out["bob"]
             PROVE  \A p \in Parties : Genuine(p)
  BY DEF HybridMeansUnchanged
<1>a. "alice" \in Parties /\ "bob" \in Parties /\ Parties = {"alice", "bob"}
  BY DEF Parties
<1>1. HasKey("alice") /\ HasKey("bob")
  BY <1>a DEF BothHaveKeys
<1>2. /\ Computed("alice") /\ Result("alice") # Raised
      /\ Computed("bob") /\ Result("bob") # Raised
  BY <1>1, <1>a, KeyMeansComputed
<1> DEFINE A == heard["alice"]
           B == heard["bob"]
           ta == Transcript(Public(dh["alice"]), A.y, "alice", A.ct)
           tb == Transcript(B.y, Public(dh["bob"]), B.pk, B.ct)
           ca == Pow(A.y, dh["alice"])
           cb == Pow(B.y, dh["bob"])
           qa == Decapsulate("alice", A.ct)
           qb == Encapsulated(B.ct)
<1>3. Result("alice") = Combine(ca, qa, ta, A.info)
  BY <1>2, <1>a, HybridResult
<1>4. Result("bob") = Combine(cb, qb, tb, B.info)
  BY <1>2, <1>a, HybridResult
<1>5. Result("alice") = Result("bob")
  BY <1>2 DEF Computed
<1> HIDE DEF ta, tb, ca, cb, qa, qb
<1>6. ta = tb
  BY <1>3, <1>4, <1>5 DEF Combine, Hash
<1>7. /\ Public(dh["alice"]) = B.y /\ A.y = Public(dh["bob"])
      /\ "alice" = B.pk /\ A.ct = B.ct
  BY <1>6 DEF ta, tb, Transcript
<1>8. B.ct = Encapsulate("alice", "bob")
  BY <1>2, <1>7 DEF Computed
<1>9. dh["alice"] # None /\ dh["bob"] # None
  BY <1>2 DEF Computed
<1>10. Other("alice") = "bob" /\ Other("bob") = "alice" /\ ~(mode = "auth")
  BY DEF Other
<1>11. Genuine("alice") /\ Genuine("bob")
  BY <1>7, <1>8, <1>9, <1>10 DEF Genuine
<1> QED
  BY <1>11, <1>a

(* Both ports accept the same values.                                      *)
LEMMA PortsState ==
  ASSUME ExchangeInv
  PROVE  PortsAgree
<1> SUFFICES ASSUME NEW p \in Parties, dh[p] # None, heard[p] # None, mode # "auth"
             PROVE  LET h   == heard[p]
                        raw == RsRawShared(dh[p], h.y)
                    IN  out[p] = IF mode = "dh" THEN RsSharedKey(dh[p], h.y, h.info)
                                 ELSE IF p = "bob" THEN ResponderKey(raw, dh[p], h.y, h.pk, h.ct, h.info)
                                 ELSE InitiatorKey(raw, dh[p], h.y, h.ct, h.info)
  BY DEF PortsAgree
<1>1. Computed(p)
  BY DEF ExchangeInv, Ran
<1> DEFINE x == dh[p]
           y == heard[p].y
<1>2. x \in 2..P - 2 /\ y \in Int /\ P \in Nat /\ Width \in Nat /\ Width > P /\ P > 4
  BY <1>1, GroupFacts DEF ExchangeInv, ExponentsInRange, Computed
<1> HIDE DEF x, y
<1>3. Parses(x) /\ InRange(x)
  BY <1>2 DEF Parses, InRange
<1>4. ValidatePeer(y) <=> InRange(y) /\ Parses(y)
  BY <1>2 DEF ValidatePeer, InRange, Parses
<1>5. RsRawShared(x, y) = RawShared(x, y)
  BY <1>3, <1>4 DEF RsRawShared, RawShared
<1>6. \A info : RsSharedKey(x, y, info) = SharedKey(x, y, info)
  BY <1>5 DEF RsSharedKey, SharedKey
<1>7. out[p] = Result(p)
  BY <1>1 DEF Computed
<1> QED
  BY <1>5, <1>6, <1>7, ExchangeModes DEF Result, x, y

(* Honest exchanges meet: the two powers of each element are the same.     *)
LEMMA AgreementState ==
  ASSUME ExchangeInv
  PROVE  Agreement
<1> SUFFICES ASSUME BothHaveKeys, \A p \in Parties : Genuine(p)
             PROVE  out["alice"] = out["bob"] <=> heard["alice"].info = heard["bob"].info
  BY DEF Agreement
<1>a. "alice" \in Parties /\ "bob" \in Parties /\ Parties = {"alice", "bob"}
  BY DEF Parties
<1>1. HasKey("alice") /\ HasKey("bob")
  BY <1>a DEF BothHaveKeys
<1>2. /\ Computed("alice") /\ Result("alice") # Raised
      /\ Computed("bob") /\ Result("bob") # Raised
  BY <1>1, <1>a, KeyMeansComputed
<1> DEFINE A == heard["alice"]
           B == heard["bob"]
           a == dh["alice"]
           b == dh["bob"]
           s == Statics["alice"]
           t == Statics["bob"]
<1>3. a # None /\ b # None /\ out["alice"] = Result("alice") /\ out["bob"] = Result("bob")
  BY <1>2 DEF Computed
<1>4. a \in Nat /\ b \in Nat /\ s \in Nat /\ t \in Nat
  <2>1. a \in 2..P - 2 /\ b \in 2..P - 2 /\ P \in Nat
    BY <1>3, <1>a, GroupFacts DEF ExchangeInv, ExponentsInRange
  <2>2. s \in 2..Q - 1 /\ t \in 2..Q - 1 /\ Q \in Nat
    BY <1>a, GroupFacts
  <2> QED
    BY <2>1, <2>2
<1>5. Other("alice") = "bob" /\ Other("bob") = "alice"
  BY DEF Other
<1>6. /\ A.y = Public(b) /\ B.y = Public(a)
      /\ mode = "hybrid" => A.ct = Encapsulate("alice", "bob") /\ B.ct = Encapsulate("alice", "bob")
      /\ mode = "auth" => peer["alice"] = Public(t) /\ peer["bob"] = Public(s)
  BY <1>5, <1>a DEF Genuine
<1>7. Pow(A.y, a) = Pow(B.y, b)
  <2> HIDE DEF A, B, a, b
  <2> QED
    BY <1>4, <1>6, SharedCommutes
<1>8. CASE mode = "dh"
  <2> DEFINE k == Pow(A.y, a)
             l == Pow(B.y, b)
  <2>1. Result("alice") = Hash("dh", <<A.info, k>>)
    BY <1>2, <1>8, DhResult
  <2>2. Result("bob") = Hash("dh", <<B.info, l>>)
    BY <1>2, <1>8, DhResult
  <2>3. k = l
    BY <1>7
  <2> HIDE DEF k, l
  <2> QED
    BY <1>3, <2>1, <2>2, <2>3 DEF Hash
<1>9. CASE mode = "auth"
  <2> DEFINE k == Pow(A.y, a)
             l == Pow(B.y, b)
             esA == Pow(peer["alice"], a)
             seA == Pow(A.y, s)
             esB == Pow(peer["bob"], b)
             seB == Pow(B.y, t)
  <2>1. Result("alice") = Sorted(A.info, k, esA, seA)
    BY <1>2, <1>9, AuthResult
  <2>2. Result("bob") = Sorted(B.info, l, esB, seB)
    BY <1>2, <1>9, AuthResult
  <2>3. k = l
    BY <1>7
  <2>4. esA = seB
    <3> HIDE DEF A, B, a, b, s, t
    <3> QED
      BY <1>4, <1>6, <1>9, SharedCommutes
  <2>5. seA = esB
    <3> HIDE DEF A, B, a, b, s, t
    <3> QED
      BY <1>4, <1>6, <1>9, SharedCommutes
  <2>6. esA \in Int /\ seA \in Int
    <3>1. \A x, z \in Nat : Pow(Public(x), z) \in Int
      <4> SUFFICES ASSUME NEW x \in Nat, NEW z \in Nat PROVE Pow(Public(x), z) \in Int
        OBVIOUS
      <4>1. Public(x) \in 0..P - 1 /\ P \in Nat /\ P > 1
        BY PublicFacts, GroupFacts
      <4>2. Power(P, Public(x), z) \in 0..P - 1
        BY <4>1, PowerRange
      <4> QED
        BY <4>1, <4>2, PowIsPower
    <3> HIDE DEF A, B, a, b, s, t
    <3> QED
      BY <1>4, <1>6, <1>9, <3>1
  <2> HIDE DEF k, l, esA, seA, esB, seB, A, B
  <2>7. Sorted(B.info, l, esB, seB) = Sorted(B.info, k, esA, seA)
    BY <2>3, <2>4, <2>5, <2>6 DEF Sorted
  <2>8. Sorted(A.info, k, esA, seA) = Sorted(B.info, k, esA, seA) <=> A.info = B.info
    BY DEF Sorted, Hash
  <2> QED
    BY <1>3, <2>1, <2>2, <2>7, <2>8 DEF A, B
<1>10. CASE mode = "hybrid"
  <2> DEFINE ct == Encapsulate("alice", "bob")
             k == Pow(A.y, a)
             l == Pow(B.y, b)
             ta == Transcript(Public(a), A.y, "alice", A.ct)
             tb == Transcript(B.y, Public(b), B.pk, B.ct)
  <2>1. Result("alice") = Combine(k, Decapsulate("alice", A.ct), ta, A.info)
    BY <1>2, <1>10, <1>a, HybridResult
  <2>2. Result("bob") = Combine(l, Encapsulated(B.ct), tb, B.info)
    BY <1>2, <1>10, <1>a, HybridResult
  <2>3. k = l /\ A.ct = B.ct
    BY <1>6, <1>7, <1>10
  <2>4. B.ct = Encapsulate(B.pk, "bob")
    BY <1>2, <1>10 DEF Computed
  <2>5. B.pk = "alice"
    BY <1>6, <1>10, <2>4 DEF Encapsulate
  <2>6. ta = tb
    BY <1>6, <2>3, <2>5
  <2>7. Decapsulate("alice", A.ct) = Encapsulated(B.ct)
    BY <1>6, <1>10, <2>3 DEF Decapsulate, Encapsulate
  <2> DEFINE qa == Decapsulate("alice", A.ct)
             qb == Encapsulated(B.ct)
  <2> HIDE DEF k, l, ta, tb, qa, qb
  <2>8. Result("alice") = Combine(k, qa, ta, A.info) /\ Result("bob") = Combine(k, qa, ta, B.info)
    BY <2>1, <2>2, <2>3, <2>6, <2>7 DEF qa, qb
  <2> QED
    BY <1>3, <2>8 DEF Combine, Hash
<1> QED
  BY <1>8, <1>9, <1>10, ExchangeModes

(* keyexchange.py:85 - no accepted value degenerates under a drawn exponent.*)
LEMMA NeverDegenerateState ==
  ASSUME ExchangeInv
  PROVE  NeverDegenerate
<1> SUFFICES ASSUME NEW p \in Parties, generated[p], HasKey(p)
             PROVE  RawShared(dh[p], heard[p].y) \notin {0, 1, P - 1}
  BY DEF NeverDegenerate
<1>1. Computed(p) /\ Result(p) # Raised
  BY KeyMeansComputed
<1>2. ValidatePeer(heard[p].y)
  <2>1. CASE mode = "dh"
    BY <1>1, <2>1, DhResult
  <2>2. CASE mode = "auth"
    BY <1>1, <2>2, AuthResult
  <2>3. CASE mode = "hybrid"
    BY <1>1, <2>3, HybridResult
  <2> QED
    BY <2>1, <2>2, <2>3, ExchangeModes
<1> DEFINE x == dh[p]
           y == heard[p].y
           q == Q
<1>3. x \in 2..q - 1
  BY DEF ExchangeInv, ExponentsInRange
<1>4. y \in Int
  BY <1>1 DEF Computed
<1>5. ValidatePeer(y) /\ RawShared(x, y) = Power(P, y, x)
  BY <1>2, RawFacts, PowIsPower
<1> HIDE DEF x, y
<1>6. y \in 2..P - 2
  BY <1>4, <1>5, GroupFacts DEF ValidatePeer, InRange
<1>7. P \in Nat /\ q \in Nat /\ P = 2 * q + 1
  BY GroupFacts
<1>8. IsPrime(P) /\ IsPrime(q) /\ \A a \in 1..P - 1 : Power(P, a, P - 1) = 1
  BY SafePrime, PowIsPower
<1> HIDE DEF q
<1>9. Power(P, y, x) \notin {0, 1, P - 1}
  BY <1>3, <1>6, <1>7, <1>8, NoSmallOrder
<1> QED
  BY <1>5, <1>9 DEF x, y

LEMMA TypesState ==
  ASSUME ExchangeInv
  PROVE  TypeOK
<1>1. ASSUME NEW p \in Parties, generated[p] PROVE dh[p] \in 2..Q - 1
  BY <1>1 DEF ExchangeInv, ExponentsInRange
<1>2. ASSUME NEW p \in Parties, dh[p] # None PROVE InRange(dh[p])
  <2>1. dh[p] \in 2..P - 2 /\ P \in Nat
    BY <1>2, GroupFacts DEF ExchangeInv, ExponentsInRange
  <2> QED
    BY <2>1 DEF InRange
<1>3. ASSUME NEW p \in Parties, HasKey(p) PROVE out[p].label = mode /\ DOMAIN heard[p] = {"y", "pk", "ct", "info"}
  <2>1. Computed(p) /\ Result(p) # Raised
    BY <1>3, KeyMeansComputed
  <2>2. DOMAIN heard[p] = {"y", "pk", "ct", "info"} /\ out[p] = Result(p)
    BY <2>1 DEF Computed
  <2>3. CASE mode = "dh"
    BY <2>1, <2>2, <2>3, DhResult DEF Hash
  <2>4. CASE mode = "auth"
    <3>1. Result(p) = Sorted(heard[p].info, Pow(heard[p].y, dh[p]),
                             Pow(peer[p], dh[p]), Pow(heard[p].y, Statics[p]))
      BY <2>1, <2>4, AuthResult
    <3>2. \A i, k, l, n : Sorted(i, k, l, n).label = "auth"
      BY DEF Sorted, Hash
    <3> QED
      BY <2>2, <2>4, <3>1, <3>2
  <2>5. CASE mode = "hybrid"
    <3>1. \A c, q, t, i : Combine(c, q, t, i).label = "hybrid"
      BY DEF Combine, Hash
    <3>2. p = "alice" \/ p = "bob"
      BY DEF Parties
    <3>3. \E c, q, t, i : Result(p) = Combine(c, q, t, i)
      BY <2>1, <2>5, <3>2, HybridResult
    <3> QED
      BY <2>2, <2>5, <3>1, <3>3
  <2> QED
    BY <2>3, <2>4, <2>5, ExchangeModes
<1> QED
  BY <1>1, <1>2, <1>3, NeverDegenerateState DEF TypeOK

(***************************************************************************)
(* In all three exchanges a drawn exponent lies below the order of the     *)
(* group, and whatever value a party accepts, of whatever subgroup, its    *)
(* shared element is not 0, 1 or P - 1 (keyexchange.py:85): in the group   *)
(* of every safe prime.                                                    *)
(***************************************************************************)
THEOREM TypeCorrect == Spec => []TypeOK
<1>1. ExchangeInv => TypeOK
  BY TypesState
<1>2. Spec => []ExchangeInv
  BY ExchangeInvariant
<1> QED
  BY <1>1, <1>2, PTL

(***************************************************************************)
(* In all three exchanges two parties that heard each other have the same  *)
(* key if and only if they were given the same info, in every group: also  *)
(* when the cross terms of the triple exchange compare either way          *)
(* (auth_keyexchange.py).  Equal keys of the hybrid exchange mean that     *)
(* every value, the KEM key and the ciphertext among them, arrived as it   *)
(* was sent, whatever the network sends in their place and however small   *)
(* the group (pq_keyexchange.py:76).                                       *)
(***************************************************************************)
THEOREM OneKey == Spec => []KeyMeansAgreement
<1>1. ExchangeInv => KeyMeansAgreement
  BY AgreementState, HybridState DEF KeyMeansAgreement
<1>2. Spec => []ExchangeInv
  BY ExchangeInvariant
<1> QED
  BY <1>1, <1>2, PTL

(***************************************************************************)
(* Python's plain and hybrid exchange return in every state what the Rust  *)
(* port returns for the same exponent and values, although Rust checks the *)
(* exponent on every call and Python when it is set, and only Rust bounds  *)
(* the width of a value.                                                   *)
(***************************************************************************)
THEOREM SamePorts == Spec => []PortsAgree
<1>1. ExchangeInv => PortsAgree
  BY PortsState
<1>2. Spec => []ExchangeInv
  BY ExchangeInvariant
<1> QED
  BY <1>1, <1>2, PTL
=============================================================================
