----------------------------- MODULE MCMultiMap -----------------------------
(* TLC instance of MultiMap: fewer maps than indices, as many, one more, and *)
(* twice as many; bytes are the separator and one other.                     *)
EXTENDS MultiMap

MCBytes     == {BAR, <<"x">>}
MCMapCounts == {0, 1, 3, 4, 6}
MCKey       == <<BAR, <<"x">>>>
MCNonce     == <<<<"x">>, BAR>>
=============================================================================
