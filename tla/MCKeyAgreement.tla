--------------------------- MODULE MCKeyAgreement ---------------------------
(* TLC instances of KeyAgreement: the group of 2039 = 2 * 1019 + 1.  The     *)
(* exponents have no two pairs with one product, so that elements coincide   *)
(* only where the code makes them.                                           *)
EXTENDS HandshakeScripts

MCDraws    == {0, 1, 3}                     \* exponents 2, 3 and 5
MCSupplied == {0, 1, Q, P - 2, P - 1}
MCStatics  == [p \in Parties |-> IF p = "alice" THEN 14 ELSE 11]
MCMallory  == {13}
=============================================================================
