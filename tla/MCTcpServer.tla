---------------------------- MODULE MCTcpServer ----------------------------
(* Small instances of TcpServer for TLC. *)
EXTENDS TcpServer

\* The callbacks of HTTP_Server_Connection, and those of a subclass that also
\* starts and ends ssl on an open connection.
HttpCalls == {"read", "write", "close"}
StartTlsCalls == {"read", "close", "ssl_handshake", "ssl_shutdown"}
=============================================================================
