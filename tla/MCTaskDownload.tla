--------------------------- MODULE MCTaskDownload ---------------------------
(* Instances of TaskDownload for TLC.                                      *)
EXTENDS TaskDownload, TLC

CONSTANTS a, b, p, q

\* One call serves a client that wants the content of the whole task from peers
\* only, or of one piece from anywhere; the other a client of one piece.
MixedRequests == [c \in Calls |->
    IF c = a
    THEN {[range |-> Pieces, opts |-> {"content", "no_source"}],
          [range |-> {p}, opts |-> {"content"}]}
    ELSE {[range |-> {p}, opts |-> {"small"}]}]

\* A small range, and the prefetch of the whole task that it starts.
PrefetchRequests == [c \in Calls |->
    IF c = a THEN {[range |-> {p}, opts |-> {"small", "prefetch", "content"}]} ELSE {}]
=============================================================================
