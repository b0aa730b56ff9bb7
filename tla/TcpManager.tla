----------------------------- MODULE TcpManager -----------------------------
(***************************************************************************)
(* What TCP_Server and TCP_Client share (src/AOS/aos/TCP_Server.cpp;       *)
(* TCP_Client.cpp repeats it): the connections they pool, close, reuse and *)
(* free, the io threads, and the loop of stop().                           *)
(*                                                                         *)
(* The state is the manager's members, one record per connection object    *)
(* and the io_service: q holds the handlers that are ready to run, in      *)
(* order, and held[t] the handler that thread t has taken out of q and not *)
(* run yet.  A handler runs in one step: the strand of its connection      *)
(* keeps two handlers of one connection from overlapping, and what two     *)
(* handlers of different connections share is behind pool_lock_ and        *)
(* reuse_lock_.  The strand orders handlers only once they reach it, so    *)
(* the gap between taking a handler and running it is a step of its own.   *)
(***************************************************************************)
EXTENDS TcpConnection, Integers, FiniteSets, SequencesExt

CONSTANTS
    Conns,      \* the connection objects the allocator can hand out
    NoConn,     \* the null pointer
    Threads,    \* the io threads: svc() of each runs ios_.run_one()
    MaxConn,    \* n_max_conn_: 0 for no limit, -1 to refuse everyone
    MaxReuse,   \* n_max_reuse_
    SslModes    \* the values ssl_connect is given

ASSUME ConnsAssumption == NoConn \notin Conns /\ IsFiniteSet(Conns)
ASSUME ThreadsAssumption == IsFiniteSet(Threads)
ASSUME LimitsAssumption == MaxConn \in Int /\ MaxReuse \in Nat
ASSUME SslModesAssumption == SslModes # {} /\ SslModes \subseteq BOOLEAN

VARIABLES
    phase,       \* where the thread that calls start() and stop() is
    pool,        \* pool_; its keys (the peers' addresses) are abstracted
    reuse,       \* reuse_
    live,        \* the connection objects that are allocated
    conn,        \* the record of each object
    q, held

connVars == <<pool, reuse, live, conn>>
managerVars == <<phase, connVars, q, held>>

NoHandler == [k |-> "none"]

Phases == {"idle", "starting", "running", "joining", "draining"}

ConnectionHandlers ==
    [k : {"op"}, c : Conns, w : Operations, err : BOOLEAN]
        \cup [k : {"timer"}, c : Conns, w : Waits, err : BOOLEAN]

ManagerInit ==
    /\ phase = "idle"
    /\ pool = {}
    /\ reuse = <<>>
    /\ live = {}
    /\ conn = [c \in Conns |-> NewConnection]
    /\ q = <<>>
    /\ held = [t \in Threads |-> NoHandler]

-----------------------------------------------------------------------------
(* Creating and destroying connections *)

\* Takes a parked object and leaves it in the vector.
CreateWithoutPop(ru, lv, cn) ==
    IF ru # <<>>
    THEN {[c |-> Last(ru), reuse |-> ru, live |-> lv,
           conn |-> [cn EXCEPT ![Last(ru)] = reset_socket(@)]]}
    ELSE { [c |-> c, reuse |-> ru, live |-> lv \cup {c},
            conn |-> [cn EXCEPT ![c] = NewConnection]] : c \in Conns \ lv }

\* Returns the null pointer when nothing is parked, and allocates nothing.
CreateParkedOnly(ru, lv, cn) ==
    IF ru # <<>>
    THEN {[c |-> Last(ru), reuse |-> Front(ru), live |-> lv,
           conn |-> [cn EXCEPT ![Last(ru)] = reset_socket(@)]]}
    ELSE {[c |-> NoConn, reuse |-> ru, live |-> lv, conn |-> cn]}

\* create_connection(): the newest parked object with its socket reset, or a
\* new one.  Each result is the object and the values of reuse, live and conn.
create_connection(ru, lv, cn) ==
    IF ru # <<>>
    THEN {[c |-> Last(ru), reuse |-> Front(ru), live |-> lv,
           conn |-> [cn EXCEPT ![Last(ru)] = reset_socket(@)]]}
    ELSE { [c |-> c, reuse |-> ru, live |-> lv \cup {c},
            conn |-> [cn EXCEPT ![c] = NewConnection]] : c \in Conns \ lv }

\* The insertion into and the removal from pool_, each under pool_lock_.
on_create_connection(c) == pool' = pool \cup {c}
on_destroy_connection(c) == pool' = pool \ {c}

\* destroy_connection(), run by handle_destroy: out of the pool, then parked
\* if there is room and deleted otherwise.
destroy_connection(c, rest) ==
    /\ on_destroy_connection(c)
    /\ IF Len(reuse) < MaxReuse
       THEN /\ reuse' = Append(reuse, c)
            /\ q' = rest
            /\ UNCHANGED <<live, conn>>
       ELSE LET gone == Delete(Item(c, conn[c]))
            IN  /\ live' = live \ {c}
                /\ conn' = [conn EXCEPT ![c] = gone.r]
                /\ q' = rest \o gone.out
                /\ UNCHANGED reuse

-----------------------------------------------------------------------------
(* The handlers of the connections, run with the rest of the ready queue *)

\* An off-by-one in the comparison.
AdmitsOneMore == MaxConn = 0 \/ Cardinality(pool) <= MaxConn

\* max_connection(): 0 accepts everyone, and a negative limit nobody.
Admits == MaxConn = 0 \/ Cardinality(pool) < MaxConn

\* A handler that only changes its connection's record and posts.
ConnectionStep(results, rest) ==
    /\ \E s \in results :
            /\ conn' = [conn EXCEPT ![s.c] = s.r]
            /\ q' = rest \o s.out
    /\ UNCHANGED <<pool, reuse, live>>

HandleConnection(h, rest) ==
    \/ h.k = "op" /\ ConnectionStep(HandleOp(Item(h.c, conn[h.c]), h.w, h.err), rest)
    \/ /\ h.k = "timer" /\ h.w # "DESTROY"
       /\ ConnectionStep({handle_socket_timeout(Item(h.c, conn[h.c]), h.err)}, rest)
    \/ h.k = "timer" /\ h.w = "DESTROY" /\ destroy_connection(h.c, rest)

(* asio: completions *)
OpCompletes(c) ==
    /\ conn[c].op # "none"
    /\ \E err \in BOOLEAN : q' = Append(q, OpHandler(c, conn[c].op, err))
    /\ conn' = [conn EXCEPT ![c].op = "none"]
    /\ UNCHANGED <<phase, pool, reuse, live, held>>

TimerExpires(c) ==
    /\ conn[c].timer # "none"
    /\ q' = Append(q, TimerHandler(c, conn[c].timer, FALSE))
    /\ conn' = [conn EXCEPT ![c].timer = "none"]
    /\ UNCHANGED <<phase, pool, reuse, live, held>>

(* The io threads: svc(), until stop() stops the io_service *)
TakeHandler(t) ==
    /\ phase \in {"starting", "running"}
    /\ held[t] = NoHandler
    /\ q # <<>>
    /\ held' = [held EXCEPT ![t] = Head(q)]
    /\ q' = Tail(q)
    /\ UNCHANGED <<phase, connVars>>

-----------------------------------------------------------------------------
(* stop() and the pool of objects *)

ThreadsBack == \A t \in Threads : held[t] = NoHandler

\* close_all_connections() closes the pooled sockets, in the order of the pool,
\* which aborts what is pending on them; others are the handlers of what the
\* manager aborts besides.
CloseAll(others) ==
    /\ conn' = [c \in Conns |-> IF c \in pool THEN CloseSocket(Item(c, conn[c])).r ELSE conn[c]]
    /\ \E order \in SetToSeqs({ c \in pool : conn[c].op # "none" }) :
            q' = q \o others \o [i \in DOMAIN order |-> OpHandler(order[i], conn[order[i]].op, TRUE)]

\* run_one() returns 0 when nothing is ready and nothing is pending.
NothingToRun ==
    /\ q = <<>>
    /\ \A c \in Conns : conn[c].op = "none" /\ conn[c].timer = "none"

\* clear_all_reuse_connections() may be called when the owner likes.
ClearReuse ==
    /\ reuse # <<>>
    /\ reuse' = <<>>
    /\ live' = live \ Range(reuse)
    /\ UNCHANGED <<phase, pool, conn, q, held>>

-----------------------------------------------------------------------------
(* Parts of the properties *)

ManagerTypeOK(handlers) ==
    /\ phase \in Phases
    /\ pool \subseteq Conns
    /\ reuse \in Seq(Conns)
    /\ live \subseteq Conns
    /\ conn \in [Conns -> ConnectionRecord]
    /\ q \in Seq(handlers)
    /\ held \in [Threads -> handlers \cup {NoHandler}]

Of(h, c) == h.k \in {"op", "timer"} /\ h.c = c
Queued(c) == { i \in DOMAIN q : Of(q[i], c) }
Taken(c) == { t \in Threads : Of(held[t], c) }

\* What moves connection c on: its socket operation, the handler of a finished
\* one, the wait that ends in handle_destroy, or that handler.  A timeout is
\* not one of them: it only closes the socket.
Continues(h, c) == Of(h, c) /\ (h.k = "op" \/ h.w = "DESTROY")
Continuations(c) ==
    (IF conn[c].op = "none" THEN 0 ELSE 1)
        + (IF conn[c].timer = "DESTROY" THEN 1 ELSE 0)
        + Cardinality({ i \in DOMAIN q : Continues(q[i], c) })
        + Cardinality({ t \in Threads : Continues(held[t], c) })

\* Every allocated object has exactly one owner: those that hold one, the pool
\* and the parked ones.
OwnedOnceWith(holders) ==
    /\ Cardinality(Range(reuse)) = Len(reuse)
    /\ holders \cap pool = {} /\ holders \cap Range(reuse) = {} /\ pool \cap Range(reuse) = {}
    /\ live = holders \cup pool \cup Range(reuse)

\* The refinement mapping to ConnectionPool.
Place(holders) ==
    [c \in Conns |-> CASE c \in pool         -> "pool"
                      [] c \in Range(reuse) -> "reuse"
                      [] c \in holders      -> "held"
                      [] OTHER              -> "none"]
IsOpen == [c \in Conns |-> conn[c].sock = "open"]
=============================================================================
