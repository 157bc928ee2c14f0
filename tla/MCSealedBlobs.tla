--------------------------- MODULE MCSealedBlobs ---------------------------
(* TLC instances of SealedBlobs. *)
EXTENDS BlobScripts

CONSTANTS k1, k2

Cell(x)  == {<<"plain", x>>}
A == Cell("a")
B == Cell("b")
Nonce(i) == {<<"nonce", i>>}
Long  == <<Nonce(10), Nonce(2)>>
Exact == <<Nonce(1)>>

AskFor(fmt, aad, n, nonce, chunks, alg, inonce, kat) ==
  [fmt |-> fmt, key |-> k1, aad |-> aad, n |-> n, nonce |-> nonce, chunks |-> chunks,
   alg |-> {<<"alg", alg>>}, inonce |-> inonce, kat |-> kat]

MCKeys == {k1, k2}
MCCells == {A, B} \cup {Nonce(i) : i \in 0..10} \cup {{<<"alg", i>>} : i \in 1..3}
MCAads == {<<>>, <<A>>}
MCMapCounts == {1, 2}
MCRequests ==
  { AskFor("aead", <<A>>, 2, <<Nonce(1)>>, << <<A, B>> >>, 1, Exact, TRUE),
    AskFor("aead", <<>>, 1, <<Nonce(2)>>, << <<A>> >>, 1, Exact, FALSE),
    AskFor("aead", <<>>, 2, Long, << <<A>> >>, 1, Exact, FALSE),
    AskFor("aead", <<>>, 2, <<>>, << <<A>> >>, 1, Exact, FALSE),
    AskFor("siv", <<A>>, 2, Exact, << <<B>> >>, 1, Exact, TRUE),
    AskFor("siv", <<>>, 2, Exact, << <<A, B>> >>, 1, Exact, FALSE),
    AskFor("siv", <<>>, 1, Exact, << <<>> >>, 1, Exact, FALSE),
    AskFor("twolock", <<A>>, 2, <<Nonce(3)>>, << <<B>> >>, 1, Exact, TRUE),
    AskFor("twolock", <<>>, 1, <<Nonce(4)>>, << <<A>> >>, 2, Long, FALSE),
    AskFor("twolock", <<>>, 1, <<Nonce(5)>>, << <<A>> >>, 3, Exact, FALSE),
    AskFor("stream", <<A>>, 2, <<Nonce(6)>>, << <<A>>, <<B>> >>, 1, Exact, TRUE),
    AskFor("stream", <<A>>, 2, <<Nonce(7)>>, << <<B>>, <<A>>, <<B>> >>, 1, Exact, FALSE),
    AskFor("stream", <<>>, 1, <<Nonce(8)>>, <<>>, 1, Exact, FALSE),
    AskFor("stream", <<>>, 2, Long, << <<A>> >>, 1, Exact, FALSE),
    AskFor("stream", <<>>, 2, <<Nonce(9)>>, << <<A, B, A>> >>, 1, Exact, FALSE) }
=============================================================================
