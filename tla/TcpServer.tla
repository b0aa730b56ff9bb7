------------------------------ MODULE TcpServer ------------------------------
(***************************************************************************)
(* The asio server library: class TCP_Server (src/AOS/aos/TCP_Server.cpp): *)
(* accepting, starting and stopping on top of TcpManager.                  *)
(*                                                                         *)
(* handle_accept takes pool_lock_ to compare, again to insert, and         *)
(* reuse_lock_ to get the next connection.  Each is a step of its own:     *)
(* step[r] is how far r is in it, an io thread, or the owner in the loop   *)
(* of stop().                                                              *)
(***************************************************************************)
EXTENDS TcpManager

CONSTANT Owner   \* the thread that calls start() and stop()

ASSUME OwnerAssumption == Owner \notin Threads

Runners == Threads \cup {Owner}

VARIABLES
    isRunning,   \* is_running_
    listening,   \* acceptor_ is open
    accepting,   \* an async_accept is pending
    acc,         \* conn_, the connection the next accept will use
    step,        \* where each runner is in handle_accept
    sslConnect   \* is_ssl_connect_

acceptVars == <<isRunning, listening, accepting, acc, step, sslConnect>>
vars == <<acceptVars, managerVars>>

AcceptHandler(err) == [k |-> "accept", err |-> err]
Handlers == [k : {"accept"}, err : BOOLEAN] \cup ConnectionHandlers

Init ==
    /\ ManagerInit
    /\ isRunning = FALSE
    /\ listening = FALSE
    /\ accepting = FALSE
    /\ acc = NoConn
    /\ step = [r \in Runners |-> "none"]
    /\ sslConnect \in SslModes

-----------------------------------------------------------------------------
(* handle_accept *)

\* none: not in it; admitted: below the limit; inserted: conn_ is in the pool;
\* rejected: conn_ is to be deleted; renew: the next connection is to be made;
\* again: and to be accepted.
AcceptSteps == {"none", "admitted", "inserted", "rejected", "renew", "again"}

Reaches(r, there) == step' = [step EXCEPT ![r] = there]

\* Issues the next accept as soon as the limit has been looked at.
AcceptBeforeInsert(r, h, rest) ==
    /\ \/ ~h.err /\ Admits /\ Reaches(r, "admitted")
       \/ ~h.err /\ ~Admits /\ Reaches(r, "rejected")
       \/ h.err /\ isRunning /\ Reaches(r, "rejected")
       \/ h.err /\ ~isRunning /\ UNCHANGED step
    /\ accepting' = listening
    /\ q' = rest
    /\ UNCHANGED <<isRunning, listening, acc, sslConnect, connVars>>

\* max_connection() and n_connection(), or is_running_ when the accept failed.
\* h is run with the rest of the ready queue.
handle_accept(r, h, rest) ==
    /\ \/ ~h.err /\ Admits /\ Reaches(r, "admitted")
       \/ ~h.err /\ ~Admits /\ Reaches(r, "rejected")
       \/ h.err /\ isRunning /\ Reaches(r, "rejected")
       \/ h.err /\ ~isRunning /\ UNCHANGED step
    /\ q' = rest
    /\ UNCHANGED <<isRunning, listening, accepting, acc, sslConnect, connVars>>

InsertAccepted(r) ==
    /\ step[r] = "admitted"
    /\ on_create_connection(acc)
    /\ Reaches(r, "inserted")
    /\ UNCHANGED <<isRunning, listening, accepting, acc, sslConnect, phase, reuse, live, conn, q, held>>

OpenAccepted(r) ==
    /\ step[r] = "inserted"
    /\ \E s \in open(Item(acc, conn[acc]), sslConnect) :
            conn' = [conn EXCEPT ![acc] = s.r] /\ q' = q \o s.out
    /\ Reaches(r, "renew")
    /\ UNCHANGED <<isRunning, listening, accepting, acc, sslConnect, phase, pool, reuse, live, held>>

\* Refused, or failed while the server runs: "delete conn_", so neither the
\* parked objects nor unmake_connection() are involved.
DeleteRejected(r) ==
    /\ step[r] = "rejected"
    /\ LET gone == Delete(Item(acc, conn[acc]))
       IN  conn' = [conn EXCEPT ![acc] = gone.r] /\ q' = q \o gone.out
    /\ live' = live \ {acc}
    /\ acc' = NoConn
    /\ Reaches(r, "renew")
    /\ UNCHANGED <<isRunning, listening, accepting, sslConnect, phase, pool, reuse, held>>

\* create_connection(): the connection that was opened keeps its place in the
\* pool, or has left it meanwhile.
RenewAccept(r) ==
    /\ step[r] = "renew"
    /\ \E n \in create_connection(reuse, live, conn) :
            acc' = n.c /\ reuse' = n.reuse /\ live' = n.live /\ conn' = n.conn
    /\ Reaches(r, "again")
    /\ UNCHANGED <<isRunning, listening, accepting, sslConnect, phase, pool, q, held>>

\* acceptor_.async_accept; on a closed acceptor it completes at once.
AcceptAgain(r) ==
    /\ step[r] = "again"
    /\ accepting' = listening
    /\ q' = IF listening THEN q ELSE Append(q, AcceptHandler(TRUE))
    /\ Reaches(r, "none")
    /\ UNCHANGED <<isRunning, listening, acc, sslConnect, phase, connVars, held>>

AcceptStep(r) ==
    \/ InsertAccepted(r) \/ OpenAccepted(r) \/ DeleteRejected(r)
    \/ RenewAccept(r) \/ AcceptAgain(r)

Handle(r, h, rest) ==
    \/ h.k = "accept" /\ handle_accept(r, h, rest)
    \/ HandleConnection(h, rest) /\ UNCHANGED acceptVars

\* The bound on the environment: a client arrives only while the allocator
\* still has an object for the next accept.
RoomForNext == reuse # <<>> \/ live # Conns

AcceptCompletes ==
    /\ accepting
    /\ accepting' = FALSE
    /\ \/ /\ RoomForNext
          /\ conn' = [conn EXCEPT ![acc].sock = "open"]
          /\ q' = Append(q, AcceptHandler(FALSE))
       \/ /\ q' = Append(q, AcceptHandler(TRUE))
          /\ UNCHANGED conn
    /\ UNCHANGED <<isRunning, listening, sslConnect, acc, step, phase, pool, reuse, live, held>>

RunHandler(t) ==
    /\ held[t] # NoHandler
    /\ Handle(t, held[t], q)
    /\ held' = [held EXCEPT ![t] = NoHandler]
    /\ UNCHANGED phase

-----------------------------------------------------------------------------
(* The thread that owns the server: start() and stop() *)

\* open() succeeded and set_option, bind or listen failed: the acceptor is
\* left open, and a later start() fails at open() until stop() closes it.
StartFails ==
    /\ phase = "idle" /\ ~listening
    /\ listening' = TRUE
    /\ UNCHANGED <<isRunning, accepting, acc, step, sslConnect, managerVars>>

\* activate() starts the threads, or fails and leaves the accept pending.
Start ==
    /\ phase = "idle" /\ ~listening
    /\ listening' = TRUE
    /\ accepting' = TRUE
    /\ \E n \in create_connection(reuse, live, conn) :
            acc' = n.c /\ reuse' = n.reuse /\ live' = n.live /\ conn' = n.conn
    /\ phase' \in {"starting", "idle"}
    /\ UNCHANGED <<isRunning, step, sslConnect, pool, q, held>>

\* is_running_ = 1: the last statement of start(), with the threads at work.
FinishStart ==
    /\ phase = "starting"
    /\ phase' = "running"
    /\ isRunning' = TRUE
    /\ UNCHANGED <<listening, accepting, acc, step, sslConnect, connVars, q, held>>

\* stop(), which the destructor calls as well: is_running_ = 0; ios_.stop()
Stop ==
    /\ phase \in {"idle", "running"}
    /\ phase' = "joining"
    /\ isRunning' = FALSE
    /\ UNCHANGED <<listening, accepting, acc, step, sslConnect, connVars, q, held>>

\* The threads have returned; close_all_connections() closes the acceptor and
\* the pooled sockets; ios_.reset()
Join ==
    /\ phase = "joining"
    /\ ThreadsBack /\ \A t \in Threads : step[t] = "none"
    /\ CloseAll(IF accepting THEN <<AcceptHandler(TRUE)>> ELSE <<>>)
    /\ phase' = "draining"
    /\ listening' = FALSE
    /\ accepting' = FALSE
    /\ UNCHANGED <<isRunning, acc, step, sslConnect, pool, reuse, live, held>>

\* One ios_.run_one() of stop()'s loop.
Drain ==
    /\ phase = "draining"
    /\ step[Owner] = "none"
    /\ q # <<>>
    /\ Handle(Owner, Head(q), Tail(q))
    /\ UNCHANGED <<phase, held>>

FinishStop ==
    /\ phase = "draining"
    /\ step[Owner] = "none"
    /\ NothingToRun /\ ~accepting
    /\ pool = {}
    /\ IF acc = NoConn THEN UNCHANGED <<live, conn, q>>
       ELSE LET gone == Delete(Item(acc, conn[acc]))
            IN  /\ live' = live \ {acc}
                /\ conn' = [conn EXCEPT ![acc] = gone.r]
                /\ q' = gone.out
    /\ acc' = NoConn
    /\ phase' = "idle"
    /\ UNCHANGED <<isRunning, listening, accepting, step, sslConnect, pool, reuse, held>>

\* ssl_connect(bool) may be called when the owner likes.
SetSsl ==
    /\ \E b \in SslModes : sslConnect' = b
    /\ UNCHANGED <<isRunning, listening, accepting, acc, step, managerVars>>

OwnerStep == StartFails \/ Start \/ FinishStart \/ Stop \/ Join \/ Drain \/ FinishStop \/ SetSsl

\* The steps of TcpManager that leave the accepting alone.
Completion(c) == OpCompletes(c) /\ UNCHANGED acceptVars
Expiry(c) == TimerExpires(c) /\ UNCHANGED acceptVars
Take(t) == step[t] = "none" /\ TakeHandler(t) /\ UNCHANGED acceptVars

Next ==
    \/ OwnerStep
    \/ AcceptCompletes
    \/ ClearReuse /\ UNCHANGED acceptVars
    \/ \E c \in Conns : Completion(c) \/ Expiry(c)
    \/ \E t \in Threads : Take(t) \/ RunHandler(t)
    \/ \E r \in Runners : AcceptStep(r)

Spec == Init /\ [][Next]_vars

\* The io threads and the drain loop of stop() keep running handlers, timers
\* expire, and the owner carries a start() or a stop() through.  Nothing makes a
\* client arrive, a peer answer, or the owner call start() or stop().
Fairness ==
    /\ WF_vars(FinishStart) /\ WF_vars(Join) /\ WF_vars(Drain) /\ WF_vars(FinishStop)
    /\ \A c \in Conns : WF_vars(Expiry(c))
    /\ \A t \in Threads : WF_vars(Take(t)) /\ WF_vars(RunHandler(t))
    /\ \A r \in Runners : WF_vars(AcceptStep(r))

FairSpec == Spec /\ Fairness

-----------------------------------------------------------------------------
(* Properties *)

\* The members of the server and the ready queue stay within their types.
TypeOK ==
    /\ ManagerTypeOK(Handlers)
    /\ isRunning \in BOOLEAN /\ listening \in BOOLEAN /\ accepting \in BOOLEAN
    /\ sslConnect \in SslModes
    /\ acc \in Conns \cup {NoConn}
    /\ step \in [Runners -> AcceptSteps]

\* conn_, but from its insertion into the pool to its renewal.
InPoolByNow == \E r \in Runners : step[r] \in {"inserted", "renew"}
NextToAccept == IF InPoolByNow THEN {} ELSE {acc} \ {NoConn}

\* Every allocated connection is in exactly one of conn_, pool_ and reuse_, and
\* there once (create_connection, handle_accept, destroy_connection, stop): none
\* is leaked, none is handed out twice, none is still listed when it is freed.
OwnedOnce == OwnedOnceWith(NextToAccept)

\* A pooled connection has exactly one continuation; one that was inserted and
\* not opened yet has handle_accept.  With none, nothing would ever destroy it and
\* stop()'s loop (TCP_Server.cpp:219-224) would spin on n_connection() for ever;
\* with two it would be destroyed twice.
AboutToOpen(c) == c = acc /\ \E r \in Runners : step[r] = "inserted"
OneContinuation == \A c \in pool : Continuations(c) + (IF AboutToOpen(c) THEN 1 ELSE 0) = 1

\* No handler is left for a connection that is parked, freed or waiting for its
\* accept: none can touch freed memory or a later use of the same object.  With one
\* io thread handle_destroy is the last of its connection's handlers to run, as
\* TCP_Server_Connection.cpp:476 asks ("ensure execute lastly!"); a second thread
\* may overtake a handler that the first has taken.
QuietOutsidePool ==
    \A c \in Conns \ pool :
        Queued(c) = {} /\ Taken(c) = {} /\ conn[c].op = "none" /\ conn[c].timer = "none"

\* What an accept is given has a socket that asio may assign (closed, until the
\* accept itself opens it) and is not marked as an ssl connection, whatever the
\* object's previous use left behind (reset_socket).
NextAcceptIsClean ==
    \A c \in NextToAccept :
        /\ ~conn[c].ssl /\ ~conn[c].sslUsed
        /\ accepting => conn[c].sock = "closed"

Pool == INSTANCE ConnectionPool
    WITH place <- Place(NextToAccept), isOpen <- IsOpen, Limit <- MaxConn, Room <- MaxReuse

\* The server implements the abstract pool: n_max_conn_ bounds the connections
\* although handle_accept compares n_connection() and inserts under pool_lock_
\* taken twice (TCP_Server.cpp:149-152), because nobody else inserts in between;
\* a connection leaves the pool with its socket closed, and no descriptor is
\* parked or freed while it is open.
ImplementsPool == Pool!Spec

\* Once its socket is closed, by a timeout, an error, the server or the user, a
\* connection is destroyed: nothing else would take it out of the pool.
ClosedIsDestroyed ==
    \A c \in Conns : (c \in pool /\ conn[c].sock = "closed") ~> (c \notin pool)

-----------------------------------------------------------------------------
(* What comments in the code say, and the code does not do *)

\* TCP_Server.cpp:194: the branch that gives up accepting is "triggered when
\* acceptor.close()": while the acceptor is open an accept is outstanding.
AcceptingWhileListening ==
    phase \in {"starting", "running"} =>
        \/ accepting
        \/ \E i \in DOMAIN q : q[i].k = "accept"
        \/ \E t \in Threads : held[t].k = "accept" \/ step[t] # "none"

\* TCP_Server.cpp:344, "close all connections": while stop() finishes what is
\* incomplete, no pooled connection has an open socket.
StopClosesEveryone ==
    phase = "draining" => \A c \in pool : conn[c].sock = "closed"
=============================================================================
