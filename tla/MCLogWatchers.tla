--------------------------- MODULE MCLogWatchers ---------------------------
(* Instance of LogWatchers for TLC. *)
EXTENDS LogWatchers

\* Chunks that end within a match, with a line, and within the next line.
MCReads == {<<"x">>, <<"y", "n">>, <<"x", "y", "n", "x">>}
=============================================================================
