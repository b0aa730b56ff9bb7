--------------------------- MODULE ConnectionPool ---------------------------
(***************************************************************************)
(* What the connection managers of the asio library promise about their    *)
(* connection objects, whatever threads and handlers do: where each object *)
(* is and whether its socket is open.  TcpServer and TcpClient implement   *)
(* it (src/AOS/aos/TCP_Server.cpp, src/AOS/aos/TCP_Client.cpp).            *)
(*                                                                         *)
(* An object is unallocated ("none"), held by whoever asked for it         *)
(* ("held": the next accept, or a caller of connect()), in the pool, or    *)
(* parked for reuse.                                                       *)
(***************************************************************************)
EXTENDS Integers, FiniteSets

CONSTANTS
    Conns,    \* the connection objects
    Limit,    \* the most that may be in the pool, or 0
    Room      \* the most that may be parked

VARIABLES place, isOpen

Places == {"none", "held", "pool", "reuse"}

\* An object is handed out, admitted or given up, and only the pool returns
\* objects: what was parked is not pooled again without being handed out.
Moves == { <<"none", "held">>, <<"reuse", "held">>, <<"held", "pool">>, <<"held", "none">>,
           <<"pool", "reuse">>, <<"pool", "none">>, <<"reuse", "none">> }

In(p, where) == { c \in Conns : p[c] = where }

Init ==
    /\ place = [c \in Conns |-> "none"]
    /\ isOpen = [c \in Conns |-> FALSE]

Moved == { c \in Conns : place'[c] # place[c] }

\* The pool grows by one connection at a time, and not beyond the limit.
Admits ==
    LET new == In(place', "pool") \ In(place, "pool")
    IN  new # {} =>
            /\ Cardinality(new) = 1
            /\ Limit # 0 => Cardinality(In(place', "pool")) <= Limit

\* A connection leaves the pool with its socket closed, and what is parked or
\* not allocated has no open socket.
Closes ==
    /\ \A c \in Moved : place[c] = "pool" => ~isOpen[c]
    /\ \A c \in Conns : place'[c] \in {"none", "reuse"} => ~isOpen'[c]

Next ==
    /\ place' \in [Conns -> Places]
    /\ isOpen' \in [Conns -> BOOLEAN]
    /\ \A c \in Moved : <<place[c], place'[c]>> \in Moves
    /\ Admits
    /\ Closes
    /\ Cardinality(In(place', "reuse")) <= Room

Spec == Init /\ [][Next]_<<place, isOpen>>
=============================================================================
