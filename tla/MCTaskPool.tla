---------------------------- MODULE MCTaskPool ----------------------------
(* Four threads: enough for one to be spawned, one numbered, one leaving and *)
(* one gone in the same state.                                               *)
EXTENDS TaskPool, TLC
=============================================================================
