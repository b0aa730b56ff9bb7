---------------------------- MODULE MCTcpClient ----------------------------
(* A small instance of TcpClient for TLC. *)
EXTENDS TcpClient

\* The callbacks of a connection that sends and then closes.
SendCalls == {"write", "close"}
=============================================================================
