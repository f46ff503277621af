---------------------------- MODULE MCLogWriter ----------------------------
(* Instance of LogWriter for TLC. *)
EXTENDS LogWriter, TLC

\* A part of a line, the end of one, and a chunk over the smallest limit
\* that holds an end, a whole line and a part.
MCChunks == {<<"a">>, <<"b", LineFeed>>, <<"a", LineFeed, "b", LineFeed, "a", "b">>}

Symmetry == Permutations(Paths)
=============================================================================
