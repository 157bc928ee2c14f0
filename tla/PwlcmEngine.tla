---------------------------- MODULE PwlcmEngine ----------------------------
(***************************************************************************)
(* The integer PWLCM engine: the state step of cipher/engine.py, its Rust  *)
(* port in rust/src/engine.rs, which divides by a reciprocal computed at   *)
(* key setup, and the branching form of the same map that the period       *)
(* census uses (attacks/period_census.py).  The two engines run side by    *)
(* side from one key.                                                      *)
(*                                                                         *)
(* M is a Mersenne number; the code has M = 2^127 - 1.  A shift by 127 is  *)
(* then a division by M + 1, an unsigned 128-bit word is a number below    *)
(* 2 * (M + 1), and a 256-bit word one below its square.  Mixing of key    *)
(* and nonce into the first state is abstracted to its range.              *)
(*                                                                         *)
(* An operator X_Fault_Y is X with a plausible slip Y; no specification    *)
(* uses it.                                                                *)
(***************************************************************************)
EXTENDS Integers

CONSTANTS
  M,               (* the modulus of the grid                               *)
  MIN_P,           (* width of the rejected band of break-points            *)
  DEAD_STATE_FIX,  (* where a dead orbit restarts                           *)
  Controls         (* values of the control parameter                       *)

HALF == M \div 2

ASSUME GridAssumption ==
  /\ M \in Nat /\ HALF \in Nat /\ M = 2 * HALF + 1
  /\ MIN_P \in Nat \ {0} /\ 2 * MIN_P < HALF
  /\ DEAD_STATE_FIX \in 1 .. M - 1
  /\ Controls \subseteq Nat

VARIABLES
  p,        (* the break-point                                              *)
  x,        (* state of the Python engine                                   *)
  rs        (* state of the Rust engine and its two reciprocals             *)

vars == <<p, x, rs>>

(***************************************************************************)
(* The break-point: reduced into 0 .. HALF-1 and, when it falls into a     *)
(* weak band, folded into the middle.                                      *)
(***************************************************************************)
InBand_Fault_ZeroOnly(q) == 0 < q

InBand(q) == MIN_P <= q /\ q <= HALF - MIN_P

BreakPoint(control) ==
  LET q == control % HALF
  IN  IF InBand(q) THEN q ELSE MIN_P + (q % (HALF - 2 * MIN_P))

BreakPoints == MIN_P .. HALF - MIN_P

-----------------------------------------------------------------------------
(* One step in Python: four candidates, each multiplied by its mask. *)

In1(s, q) == 0 < s /\ s < q
In2(s, q) == q <= s /\ s < HALF
In3(s, q) == HALF <= s /\ s < M - q
In4(s, q) == M - q <= s /\ s < M

Dead(s, q) == ~(In1(s, q) \/ In2(s, q) \/ In3(s, q) \/ In4(s, q))

Mask(b) == IF b THEN 1 ELSE 0

R1(s, q) == (M * s) \div q
R2(s, q) == (M * (s - q)) \div (HALF - q)
R3(s, q) == (M * (M - q - s)) \div (HALF - q)
R4_Fault_Divisor(s, q) == (M * (M - s)) \div (HALF - q)
R4(s, q) == (M * (M - s)) \div q

NextState(s, q) ==
  R1(s, q) * Mask(In1(s, q)) + R2(s, q) * Mask(In2(s, q))
  + R3(s, q) * Mask(In3(s, q)) + R4(s, q) * Mask(In4(s, q))
  + DEAD_STATE_FIX * Mask(Dead(s, q))

(***************************************************************************)
(* The census map, with its branches.                                      *)
(***************************************************************************)
CensusStep(s, q) ==
  IF 0 < s /\ s < q THEN (M * s) \div q
  ELSE IF q <= s /\ s < HALF THEN (M * (s - q)) \div (HALF - q)
  ELSE IF HALF <= s /\ s < M - q THEN (M * (M - q - s)) \div (HALF - q)
  ELSE IF M - q <= s /\ s < M THEN (M * (M - s)) \div q
  ELSE DEAD_STATE_FIX

-----------------------------------------------------------------------------
(* One step in Rust.  State words (u128) wrap, products are U256.  *)

Word == 2 * (M + 1)
Wide == Word * Word

WrapSub(a, b) == (a - b) % Word

Reciprocal(d) == (M * (M + 1)) \div d

DivStep_Fault_NoCorrection(num, den, recip) == (num * recip) \div (M + 1)

DivStep(num, den, recip) ==
  LET approx == ((num * recip) % Wide) \div (M + 1)
      rem    == (num * (M + 1) - num) - approx * den
  IN  approx + Mask(rem >= den)

Numerator(s, q) ==
  (s * Mask(In1(s, q)) + WrapSub(s, q) * Mask(In2(s, q))
   + WrapSub(WrapSub(M, q), s) * Mask(In3(s, q))
   + WrapSub(M, s) * Mask(In4(s, q))) % Word

SelP(s, q)  == In1(s, q) \/ In4(s, q)
SelHp(s, q) == In2(s, q) \/ In3(s, q)

Denominator(s, q) ==
  q * Mask(SelP(s, q)) + (HALF - q) * Mask(SelHp(s, q)) + Mask(Dead(s, q))

SelectRecip(s, q, e) ==
  IF SelP(s, q) THEN e.recip_p ELSE IF SelHp(s, q) THEN e.recip_hp ELSE 0

NextStateRs(e, q) ==
  LET s   == e.x
      quo == DivStep(Numerator(s, q), Denominator(s, q), SelectRecip(s, q, e))
  IN  (quo * (1 - Mask(Dead(s, q))) + DEAD_STATE_FIX * Mask(Dead(s, q))) % Word

-----------------------------------------------------------------------------
(***************************************************************************)
(* Key setup: the mixed state is below M, and zero is replaced.  Both      *)
(* ports start from the same numbers.  Every key and nonce may occur.      *)
(***************************************************************************)
FirstState(mixed) == IF mixed = 0 THEN DEAD_STATE_FIX ELSE mixed

Init ==
  \E control \in Controls, mixed \in 0 .. M - 1 :
    /\ p = BreakPoint(control)
    /\ x = FirstState(mixed)
    /\ rs = [x |-> x, recip_p |-> Reciprocal(p), recip_hp |-> Reciprocal(HALF - p)]

(* _next_state and next_state, in step. *)
Step ==
  /\ x' = NextState(x, p)
  /\ rs' = [rs EXCEPT !.x = NextStateRs(rs, p)]
  /\ UNCHANGED p

Next == Step

Spec == Init /\ [][Next]_vars
-----------------------------------------------------------------------------
(***************************************************************************)
(* Type invariant.  A state may pass M: the third branch exceeds it by     *)
(* M \div (HALF - p) at its left end, which still fits the u128 of the     *)
(* port.                                                                   *)
(***************************************************************************)
TypeOK ==
  /\ p \in BreakPoints
  /\ x \in 0 .. M + M \div (HALF - p)
  /\ rs.x \in 0 .. Word - 1
  /\ rs.recip_p = Reciprocal(p)
  /\ rs.recip_hp = Reciprocal(HALF - p)

(***************************************************************************)
(* The reciprocal, its single correction and the wrapping words of the     *)
(* Rust step give the state of the Python step, on every orbit             *)
(* (engine.rs:27-29, 74-75; the parity tests sample it).                   *)
(***************************************************************************)
PortsAgree == rs.x = x

(***************************************************************************)
(* The masked sum is the branching map: the four regions are exclusive and *)
(* exhaust 0 < x < M, and every other state is dead (engine.py:187-190).   *)
(***************************************************************************)
MasksAreBranches == NextState(x, p) = CensusStep(x, p)

(***************************************************************************)
(* The step leaves 1 .. M-1 only from the corners of the map, x = p, HALF, *)
(* HALF+1 and M-p, so an orbit that avoids four states never dies.         *)
(***************************************************************************)
Alive(s) == s \in 1 .. M - 1

DiesOnlyAtCorners ==
  [][Alive(x) /\ ~Alive(x') => x \in {p, HALF, HALF + 1, M - p}]_vars
=============================================================================
