--------------------------- MODULE MCPwlcmEngine ---------------------------
(***************************************************************************)
(* The TLC instance of PwlcmEngine and its census: control parameters from *)
(* both sides of the reduction modulo HALF.                                *)
(***************************************************************************)
EXTENDS PeriodCensus

TwoRounds == 0 .. 2 * HALF
=============================================================================
