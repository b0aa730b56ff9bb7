---------------------------- MODULE MCMpService ----------------------------
(* A small instance of MpService for TLC. *)
EXTENDS MpService
=============================================================================
