--------------------------- MODULE MCAioAcceptor ---------------------------
(* Small instances of AioAcceptor for TLC. *)
EXTENDS AioAcceptor, TLC

Symmetric == Permutations(Sessions) \cup Permutations(Threads)
=============================================================================
