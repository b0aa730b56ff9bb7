------------------------------ MODULE TcpClient ------------------------------
(***************************************************************************)
(* The asio client library: class TCP_Client (src/AOS/aos/TCP_Client.cpp): *)
(* connect(), which any thread may call at any time, start() and stop() on *)
(* top of TcpManager.                                                      *)
(*                                                                         *)
(* connect() takes its locks one after the other, so what it compares, the *)
(* object it takes and the entry it inserts may each be old when the next  *)
(* is reached: every lock is a step of its own.                            *)
(***************************************************************************)
EXTENDS TcpManager

CONSTANT Callers   \* the threads that call connect()

ASSUME CallersAssumption == IsFiniteSet(Callers) /\ Callers # {}

VARIABLES
    caller,      \* where each caller is in connect(), and with which object
    ioStopped    \* the io_service is stopped: run_one() runs nothing

clientVars == <<caller, ioStopped>>
vars == <<clientVars, managerVars>>

Outside == [at |-> "outside", c |-> NoConn]
Inside == [at : {"checked"}, c : {NoConn}] \cup [at : {"created", "pooled"}, c : Conns]

Init ==
    /\ ManagerInit
    /\ caller = [k \in Callers |-> Outside]
    /\ ioStopped = FALSE

-----------------------------------------------------------------------------
(* connect() *)

\* max_connection() and n_connection(): refused callers leave at once.
CheckLimit(k) ==
    /\ caller[k] = Outside
    /\ Admits
    /\ caller' = [caller EXCEPT ![k] = [at |-> "checked", c |-> NoConn]]
    /\ UNCHANGED <<ioStopped, managerVars>>

\* create_connection(), which finds no memory when every object is in use.
Create(k) ==
    /\ caller[k].at = "checked"
    /\ LET made == create_connection(reuse, live, conn)
       IN  IF made = {}
           THEN caller' = [caller EXCEPT ![k] = Outside] /\ UNCHANGED <<reuse, live, conn>>
           ELSE \E n \in made :
                    /\ caller' = [caller EXCEPT ![k] = [at |-> "created", c |-> n.c]]
                    /\ reuse' = n.reuse /\ live' = n.live /\ conn' = n.conn
    /\ UNCHANGED <<ioStopped, phase, pool, q, held>>

Insert(k) ==
    /\ caller[k].at = "created"
    /\ on_create_connection(caller[k].c)
    /\ caller' = [caller EXCEPT ![k].at = "pooled"]
    /\ UNCHANGED <<ioStopped, phase, reuse, live, conn, q, held>>

BeginConnect(k) ==
    /\ caller[k].at = "pooled"
    /\ LET c == caller[k].c
       IN  \E sslConnect \in SslModes :
            LET s == connect(Item(c, conn[c]), sslConnect)
            IN  conn' = [conn EXCEPT ![c] = s.r] /\ q' = q \o s.out
    /\ caller' = [caller EXCEPT ![k] = Outside]
    /\ UNCHANGED <<ioStopped, phase, pool, reuse, live, held>>

ConnectStep(k) == Create(k) \/ Insert(k) \/ BeginConnect(k)

-----------------------------------------------------------------------------
(* start() and stop() *)

\* activate() may fail, and then nothing runs the handlers.
Start ==
    /\ phase = "idle"
    /\ phase' = "running"
    /\ UNCHANGED <<clientVars, connVars, q, held>>

\* stop(), which the destructor calls as well: ios_.stop()
Stop ==
    /\ phase \in {"idle", "running"}
    /\ phase' = "joining"
    /\ ioStopped' = TRUE
    /\ UNCHANGED <<caller, connVars, q, held>>

\* Leaves the io_service stopped.
JoinWithoutReset ==
    /\ phase = "joining"
    /\ ThreadsBack
    /\ CloseAll(<<>>)
    /\ phase' = "draining"
    /\ UNCHANGED <<ioStopped, caller, pool, reuse, live, held>>

\* The threads have returned; close_all_connections(); ios_.reset()
Join ==
    /\ phase = "joining"
    /\ ThreadsBack
    /\ CloseAll(<<>>)
    /\ phase' = "draining"
    /\ ioStopped' = FALSE
    /\ UNCHANGED <<caller, pool, reuse, live, held>>

\* run_one() of stop()'s loop runs a handler ...
Drain ==
    /\ phase = "draining" /\ ~ioStopped
    /\ q # <<>>
    /\ HandleConnection(Head(q), Tail(q))
    /\ UNCHANGED <<clientVars, phase, held>>

\* ... or finds no work at all, and then asio stops the io_service by itself:
\* from here on run_one() returns 0 whatever is posted, and the loop spins.
DrainNothing ==
    /\ phase = "draining"
    /\ ioStopped \/ NothingToRun
    /\ ioStopped' = TRUE
    /\ UNCHANGED <<caller, managerVars>>

\* 0 == run_one() && 0 == n_connection()
LoopEnds == ioStopped /\ pool = {}

FinishStop ==
    /\ phase = "draining"
    /\ LoopEnds
    /\ phase' = "idle"
    /\ ioStopped' = FALSE
    /\ UNCHANGED <<caller, connVars, q, held>>

RunHandler(t) ==
    /\ held[t] # NoHandler
    /\ HandleConnection(held[t], q)
    /\ held' = [held EXCEPT ![t] = NoHandler]
    /\ UNCHANGED <<clientVars, phase>>

Completion(c) == OpCompletes(c) /\ UNCHANGED clientVars
Expiry(c) == TimerExpires(c) /\ UNCHANGED clientVars
Take(t) == TakeHandler(t) /\ UNCHANGED clientVars

Next ==
    \/ Start \/ Stop \/ Join \/ Drain \/ DrainNothing \/ FinishStop
    \/ ClearReuse /\ UNCHANGED clientVars
    \/ \E k \in Callers : CheckLimit(k) \/ ConnectStep(k)
    \/ \E c \in Conns : Completion(c) \/ Expiry(c)
    \/ \E t \in Threads : Take(t) \/ RunHandler(t)

Spec == Init /\ [][Next]_vars

\* stop(), the io threads and a connect() under way go on, and timers expire.
\* Nothing makes a peer answer, or anyone call connect(), start() or stop().
Fairness ==
    /\ WF_vars(Join) /\ WF_vars(Drain) /\ WF_vars(DrainNothing) /\ WF_vars(FinishStop)
    /\ \A k \in Callers : WF_vars(ConnectStep(k))
    /\ \A c \in Conns : WF_vars(Expiry(c))
    /\ \A t \in Threads : WF_vars(Take(t)) /\ WF_vars(RunHandler(t))

FairSpec == Spec /\ Fairness

-----------------------------------------------------------------------------
(* Properties *)

Holding(where) == { caller[k].c : k \in { j \in Callers : caller[j].at = where } }
NobodyInside == \A k \in Callers : caller[k] = Outside

\* The members of the client, its callers and the ready queue stay within
\* their types, and no handler takes the client past its objects.
TypeOK ==
    /\ ManagerTypeOK(ConnectionHandlers)
    /\ caller \in [Callers -> {Outside} \cup Inside]
    /\ ioStopped \in BOOLEAN

\* Every allocated connection is in exactly one of: the hands of one caller of
\* connect(), pool_, reuse_.  Callers, the io threads and the owner take and
\* return objects at once (create_connection, destroy_connection,
\* clear_all_reuse_connections).
OwnedOnce ==
    /\ OwnedOnceWith(Holding("created"))
    /\ \A j, k \in Callers : (j # k /\ caller[j].c # NoConn) => caller[j].c # caller[k].c

\* A pooled connection has exactly one continuation; one that was inserted and
\* not connected yet has its caller.  With none stop() would wait for it for
\* ever (TCP_Client.cpp:144-149), with two it would be destroyed twice, although
\* two io threads run its handlers and stop() closes its socket.
OneContinuation ==
    \A c \in pool :
        Continuations(c) + (IF c \in Holding("pooled") THEN 1 ELSE 0) = 1

\* connect() compares n_connection() and inserts under separate locks
\* (TCP_Client.cpp:211,219), so the callers may exceed n_max_conn_ together: by
\* as many as they are, less one.
Pool == INSTANCE ConnectionPool
    WITH place <- Place(Holding("created")), isOpen <- IsOpen, Room <- MaxReuse,
         Limit <- IF MaxConn = 0 THEN 0 ELSE MaxConn + Cardinality(Callers) - 1

\* The client implements the abstract pool: no object goes back to the pool
\* unless it was handed out, none is parked or freed with an open socket, and
\* the limit is exceeded by the callers' race only.
ImplementsPool == Pool!Spec

\* stop() returns once every pooled socket is closed, unless somebody calls
\* connect() meanwhile: then the io_service may stop by itself while a connection
\* is pooled that only a handler could destroy, and the loop spins for ever.
StopEnds ==
    (phase = "draining" /\ NobodyInside /\ \A c \in pool : conn[c].sock = "closed")
        ~> (phase = "idle" \/ ~NobodyInside)
=============================================================================
