--------------------------- MODULE MCAioConnector ---------------------------
(* Small instances of AioConnector for TLC. *)
EXTENDS AioConnector, TLC

Symmetric == Permutations(Sessions) \cup Permutations(Threads)
=============================================================================
