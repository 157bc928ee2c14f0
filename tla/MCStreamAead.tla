---------------------------- MODULE MCStreamAead ----------------------------
(* TLC instances of StreamAead: two sealers, one opener. *)
EXTENDS StreamAead, TLC

CONSTANTS s1, s2, k1, k2, a1, a2, n1, n2, d1, d2

MCStreams == {s1, s2}
MCKeys    == {k1, k2}
MCAads    == {a1, a2}
MCSalts   == {n1, n2}
MCData    == {d1, d2}
OneKey    == {k1}
OneAad    == {a1}
OneDatum  == {d1}
Symmetry  == Permutations(MCData)
=============================================================================
