------------------------- MODULE MCRatchetKeystream -------------------------
(* TLC instance of RatchetKeystream. *)
EXTENDS RatchetKeystream
=============================================================================
