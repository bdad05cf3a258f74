-------------------------- MODULE MCPieceLifecycle --------------------------
(* PieceLifecycle for TLC.                                                 *)
EXTENDS PieceLifecycle, TLC

\* Calls of the same kind are interchangeable.
ThreadSymmetry == Permutations(Downloaders) \cup Permutations(Uploaders)
=============================================================================
