-------------------------- MODULE MCRatchetSession --------------------------
(***************************************************************************)
(* TLC instances of RatchetSession.  The index width is cut down from 64   *)
(* bits to a handful of values, so that both ends of it are reached.       *)
(***************************************************************************)
EXTENDS RatchetSession, TLC

CONSTANTS c1, c2, a1, a2, p1, p2

MCContexts == {c1, c2}
MCAads     == {a1, a2}
MCPayloads == {p1, p2}
OneContext == {c1}
OneAad     == {a1}

=============================================================================
