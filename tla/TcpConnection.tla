---------------------------- MODULE TcpConnection ----------------------------
(***************************************************************************)
(* One connection of the asio library: class TCP_Server_Connection         *)
(* (src/AOS/aos/TCP_Server_Connection.cpp), which TCP_Client_Connection    *)
(* repeats but for its connect().  Every method is an operator on a "work  *)
(* item" [c, r, out]: the connection's identity, its record and the        *)
(* handlers the method has posted so far to the io_service, in order.      *)
(* TcpServer and TcpClient compose these operators into their actions.     *)
(*                                                                         *)
(* The asio library is external.  What the code relies on is kept: an      *)
(* operation on a closed socket completes at once with an error; closing a *)
(* socket completes its operation with an error; expires_at and            *)
(* expires_from_now complete a pending wait with operation_aborted and     *)
(* have no effect on a wait that has expired already.                      *)
(***************************************************************************)
EXTENDS Sequences

CONSTANTS
    HasTimeout,  \* timeout_ > 0: every connect, read, write and handshake arms the timer
    UserCalls    \* the methods a subclass calls from its completion callbacks

ASSUME HasTimeoutAssumption == HasTimeout \in BOOLEAN
ASSUME UserCallsAssumption ==
    UserCalls \subseteq {"read", "write", "close", "ssl_handshake", "ssl_shutdown"}

\* Asynchronous operations on the socket.  SSL_CLOSE is the shutdown that
\* close() starts, whose handler is bound to destroy_connection = true, and
\* CONNECT_SSL the connect whose handler is bound to ssl_connect = true.
Connects == {"CONNECT", "CONNECT_SSL"}
Operations == Connects \cup {"READ", "WRITE", "SSL_HANDSHAKE", "SSL_SHUTDOWN", "SSL_CLOSE"}

\* What a wait on timer_ is for: the operation it bounds, or handle_destroy.
Waits == {"CONNECT", "READ", "WRITE", "SSL_HANDSHAKE", "SSL_SHUTDOWN", "DESTROY"}

ConnectionRecord ==
    [sock    : {"open", "closed"},
     ssl     : BOOLEAN,                     \* is_ssl_
     sslUsed : BOOLEAN,                     \* socket_->impl()->ssl->type # 0
     op      : Operations \cup {"none"},    \* the operation asio is performing
     timer   : Waits \cup {"none"}]         \* the wait asio is performing

NewConnection ==
    [sock |-> "closed", ssl |-> FALSE, sslUsed |-> FALSE, op |-> "none", timer |-> "none"]

OpHandler(c, w, err)    == [k |-> "op",    c |-> c, w |-> w, err |-> err]
TimerHandler(c, w, err) == [k |-> "timer", c |-> c, w |-> w, err |-> err]

Item(c, r) == [c |-> c, r |-> r, out |-> <<>>]

-----------------------------------------------------------------------------
(* asio, as the connection uses it *)

\* timer_.expires_at(pos_infin), and the first half of expires_from_now.
CancelTimer(s) ==
    IF s.r.timer = "none" THEN s
    ELSE [s EXCEPT !.r.timer = "none",
                   !.out = Append(@, TimerHandler(s.c, s.r.timer, TRUE))]

\* timer_.expires_from_now(...); timer_.async_wait(...)
ArmTimer(s, w) == [CancelTimer(s) EXCEPT !.r.timer = w]

ArmTimeout(s, w) == IF HasTimeout THEN ArmTimer(s, w) ELSE s

StartOp(s, w) ==
    IF s.r.sock = "open" THEN [s EXCEPT !.r.op = w]
    ELSE [s EXCEPT !.out = Append(@, OpHandler(s.c, w, TRUE))]

CloseSocket(s) ==
    IF s.r.op = "none" THEN [s EXCEPT !.r.sock = "closed"]
    ELSE [s EXCEPT !.r.sock = "closed", !.r.op = "none",
                   !.out = Append(@, OpHandler(s.c, s.r.op, TRUE))]

\* The destructors of timer_ and socket_ cancel what is pending on them.
Delete(s) == CloseSocket(CancelTimer(s))

-----------------------------------------------------------------------------
(* The connection's methods *)

\* Keeps the flag of the previous use.
BadReset(r) == IF r.sslUsed THEN [NewConnection EXCEPT !.ssl = r.ssl] ELSE r

\* A socket that was used for ssl cannot be used again: it is replaced.
reset_socket(r) == IF r.sslUsed THEN NewConnection ELSE r

read(s)  == StartOp(ArmTimeout(s, "READ"), "READ")
write(s) == StartOp(ArmTimeout(s, "WRITE"), "WRITE")

ssl_handshake(s) ==
    LET marked == [s EXCEPT !.r.ssl = TRUE, !.r.sslUsed = TRUE]
    IN  StartOp(ArmTimeout(marked, "SSL_HANDSHAKE"), "SSL_HANDSHAKE")

ssl_shutdown(s) == StartOp(ArmTimeout(s, "SSL_SHUTDOWN"), "SSL_SHUTDOWN")

\* The plain branch of close() cancels nothing and starts no wait.
NoWaitDestroy(s) == CloseSocket(s)

\* Destroys first, while the aborted operation is still to be handled.
EarlyDestroy(s) ==
    CloseSocket([s EXCEPT !.out = Append(@, TimerHandler(s.c, "DESTROY", FALSE))])

\* Close the socket and leave the destruction to a timer that expires at once.
CloseAndDestroy(s) == ArmTimer(CloseSocket(s), "DESTROY")

\* close(ssl_shutdown_timeout = 3): the shutdown is bounded whatever timeout_ is.
close(s) ==
    IF s.r.ssl THEN StartOp(ArmTimer(s, "SSL_SHUTDOWN"), "SSL_CLOSE")
    ELSE CloseAndDestroy(s)

\* The callbacks on_open, on_read_some, on_write_some, on_ssl_handshake_done
\* and on_ssl_shutdown_done belong to the subclass, which goes on with one of
\* the methods above (HTTP_Server_Connection: read, write or close).
UserStep(s) ==
    LET result == [m \in UserCalls |->
            CASE m = "read"          -> read(s)
              [] m = "write"         -> write(s)
              [] m = "close"         -> close(s)
              [] m = "ssl_handshake" -> ssl_handshake(s)
              [] m = "ssl_shutdown"  -> ssl_shutdown(s)]
    IN  { result[m] : m \in { u \in UserCalls :
                                /\ u = "ssl_handshake" => ~s.r.ssl
                                /\ u = "ssl_shutdown" => s.r.ssl } }

\* The methods that end in a callback return the set of possible results.
open(s, sslConnect) == IF sslConnect THEN {ssl_handshake(s)} ELSE UserStep(s)

\* TCP_Client_Connection::connect: async_connect opens the socket, whoever
\* may have closed it before.
connect(s, sslConnect) ==
    LET opened == [ArmTimeout(s, "CONNECT") EXCEPT !.r.sock = "open"]
    IN  StartOp(opened, IF sslConnect THEN "CONNECT_SSL" ELSE "CONNECT")

\* handle_connect goes on like open(); a plain connection may fail to get its
\* buffer, and is closed.
HandleConnect(s, w, err) ==
    LET t == CancelTimer(s)
    IN  IF err THEN {close(t)}
        ELSE open(t, w = "CONNECT_SSL") \cup (IF w = "CONNECT" THEN {close(t)} ELSE {})

\* handle_ssl_handshake, handle_read and handle_write have one shape.
HandleCompletion(s, err) ==
    LET t == CancelTimer(s)
    IN  IF err THEN {close(t)} ELSE UserStep(t)

\* No expires_at here: the wait that bounds the shutdown is left running
\* unless the next step arms another.  When the connection is being destroyed
\* on_ssl_shutdown_done is expected to start nothing, as in the library's own.
HandleShutdown(s, w, err) ==
    LET t == IF err THEN s ELSE [s EXCEPT !.r.ssl = FALSE]
    IN  IF err \/ w = "SSL_CLOSE" THEN {CloseAndDestroy(t)} ELSE UserStep(t)

HandleOp(s, w, err) ==
    CASE w \in Connects -> HandleConnect(s, w, err)
      [] w \in {"SSL_SHUTDOWN", "SSL_CLOSE"} -> HandleShutdown(s, w, err)
      [] OTHER -> HandleCompletion(s, err)

handle_socket_timeout(s, err) == IF err THEN s ELSE CloseSocket(s)
=============================================================================
