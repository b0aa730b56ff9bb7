--------------------------- MODULE TcpClientProofs ---------------------------
(***************************************************************************)
(* Theorems about TCP_Client for any number of connections, io threads and *)
(* callers of connect().  The invariant is Conserved of TcpManagerProofs,  *)
(* where the hands are those of the callers between create_connection()    *)
(* and the insertion into pool_, and a caller that has inserted its object *)
(* and not connected it yet is what moves that connection on.              *)
(***************************************************************************)
EXTENDS TcpClient, TcpManagerProofs

\* What the callers have in hand or are about to connect.
Hands == Holding("created")
Waiting == Holding("pooled")

\* No two callers are at work on one object.
DistinctHands ==
    \A j, k \in Callers : (j # k /\ caller[j].c # NoConn) => caller[j].c # caller[k].c

MembersOK ==
    /\ phase \in Phases
    /\ ioStopped \in BOOLEAN
    /\ caller \in [Callers -> {Outside} \cup Inside]
    /\ held \in [Threads -> ConnectionHandlers \cup {NoHandler}]

IInv ==
    /\ MembersOK
    /\ Conserved(Hands, pool, reuse, live, conn, q, held, Waiting, ConnectionHandlers)
    /\ DistinctHands

\* The constructor establishes the invariant.
LEMMA HandsInit == Init => IInv
<1> SUFFICES ASSUME Init PROVE IInv
  OBVIOUS
<1>1. /\ ManagerInit /\ caller = [k \in Callers |-> Outside] /\ ioStopped = FALSE
      /\ phase = "idle" /\ held = [t \in Threads |-> NoHandler]
  BY DEF Init, ManagerInit
<1>2. MembersOK
  BY <1>1 DEF MembersOK, Phases
<1>3. Hands = {} /\ Waiting = {} /\ DistinctHands
  BY <1>1 DEF Hands, Waiting, Holding, Outside, DistinctHands
<1>4. Conserved({}, pool, reuse, live, conn, q, held, {}, ConnectionHandlers)
  BY <1>1, NothingYet
<1> QED
  BY <1>2, <1>3, <1>4 DEF IInv

\* A caller's fields, where it is.
LEMMA CallerFields ==
  ASSUME caller \in [Callers -> {Outside} \cup Inside], NEW k \in Callers
  PROVE  /\ caller[k] \in {Outside} \cup Inside
         /\ caller[k].at \in {"outside", "checked", "created", "pooled"}
         /\ caller[k].at \in {"created", "pooled"} <=> caller[k].c # NoConn
         /\ caller[k].at \in {"created", "pooled"} => caller[k].c \in Conns
         /\ caller[k].at = "outside" => caller[k] = Outside
         /\ caller[k].at = "created" => caller[k].c \in Hands
         /\ caller[k].at = "pooled" => caller[k].c \in Waiting
<1>1. caller[k] \in {Outside} \cup Inside
  OBVIOUS
<1>2. caller[k].at = "created" => caller[k].c \in Hands
  BY DEF Hands, Holding
<1>3. caller[k].at = "pooled" => caller[k].c \in Waiting
  BY DEF Waiting, Holding
<1> QED
  BY <1>1, <1>2, <1>3, ConnsAssumption DEF Outside, Inside

\* The members of TcpManager that a step leaves alone keep what is conserved.
LEMMA SameManager ==
  ASSUME IInv, UNCHANGED <<connVars, q, held>>, MembersOK', Hands' = Hands, Waiting' = Waiting,
         DistinctHands'
  PROVE  IInv'
<1>1. UNCHANGED <<pool, reuse, live, conn, q, held>>
  BY DEF connVars
<1>2. Conserved(Hands, pool', reuse', live', conn', q', held', Waiting, ConnectionHandlers)
  BY <1>1 DEF IInv
<1> QED
  BY <1>2 DEF IInv

\* The steps of the manager and of asio leave the callers alone.
LEMMA SameCallers ==
  ASSUME IInv, UNCHANGED caller,
         Conserved(Hands, pool', reuse', live', conn', q', held', Waiting, ConnectionHandlers),
         MembersOK'
  PROVE  IInv'
<1>1. Hands' = Hands /\ Waiting' = Waiting
  BY DEF Hands, Waiting, Holding
<1>2. DistinctHands'
  BY DEF IInv, DistinctHands
<1> QED
  BY <1>1, <1>2 DEF IInv

-----------------------------------------------------------------------------
(* connect() *)

\* A caller compares n_connection() with the limit.
LEMMA CheckLimitKeeps == ASSUME IInv, NEW k \in Callers, CheckLimit(k) PROVE IInv'
<1>1. /\ caller[k] = Outside /\ UNCHANGED <<ioStopped, phase, connVars, q, held>>
      /\ caller' = [caller EXCEPT ![k] = [at |-> "checked", c |-> NoConn]]
  BY DEF CheckLimit, managerVars
<1>2. caller \in [Callers -> {Outside} \cup Inside]
  BY DEF IInv, MembersOK
<1>3. [at |-> "checked", c |-> NoConn] \in Inside
  BY DEF Inside
<1>4. /\ caller' \in [Callers -> {Outside} \cup Inside]
      /\ caller'[k].at = "checked" /\ caller'[k].c = NoConn
      /\ \A j \in Callers \ {k} : caller'[j] = caller[j]
  BY <1>1, <1>2, <1>3
<1>5. caller[k].at = "outside" /\ caller[k].c = NoConn
  BY <1>1 DEF Outside
<1>6. Hands' = Hands /\ Waiting' = Waiting
  BY <1>4, <1>5 DEF Hands, Waiting, Holding
<1>7. DistinctHands'
  BY <1>4, <1>5 DEF IInv, DistinctHands
<1>8. MembersOK'
  BY <1>1, <1>4 DEF IInv, MembersOK
<1> QED
  BY <1>1, <1>6, <1>7, <1>8, SameManager

\* The object that create_connection() gives is nobody's.
LEMMA CreateKeeps == ASSUME IInv, NEW k \in Callers, Create(k) PROVE IInv'
<1>1. /\ caller[k].at = "checked" /\ UNCHANGED <<ioStopped, phase, pool, q, held>>
      /\ \/ caller' = [caller EXCEPT ![k] = Outside] /\ UNCHANGED <<reuse, live, conn>>
         \/ \E n \in create_connection(reuse, live, conn) :
               /\ caller' = [caller EXCEPT ![k] = [at |-> "created", c |-> n.c]]
               /\ reuse' = n.reuse /\ live' = n.live /\ conn' = n.conn
  BY DEF Create
<1>2. /\ caller \in [Callers -> {Outside} \cup Inside] /\ caller[k].c = NoConn
      /\ Conserved(Hands, pool, reuse, live, conn, q, held, Waiting, ConnectionHandlers)
  BY <1>1, CallerFields DEF IInv, MembersOK
<1>3. CASE caller' = [caller EXCEPT ![k] = Outside] /\ UNCHANGED <<reuse, live, conn>>
  <2>1. /\ caller' \in [Callers -> {Outside} \cup Inside]
        /\ caller'[k].at = "outside" /\ caller'[k].c = NoConn
        /\ \A j \in Callers \ {k} : caller'[j] = caller[j]
    BY <1>2, <1>3 DEF Outside
  <2>2. Hands' = Hands /\ Waiting' = Waiting
    BY <1>1, <2>1 DEF Hands, Waiting, Holding
  <2>3. DistinctHands'
    BY <1>2, <2>1 DEF IInv, DistinctHands
  <2>4. MembersOK'
    BY <1>1, <2>1 DEF IInv, MembersOK
  <2> QED
    BY <1>1, <1>3, <2>2, <2>3, <2>4, SameManager DEF connVars
<1>4. ASSUME NEW n \in create_connection(reuse, live, conn),
             caller' = [caller EXCEPT ![k] = [at |-> "created", c |-> n.c]],
             reuse' = n.reuse, live' = n.live, conn' = n.conn
      PROVE  IInv'
  <2>0. \A d \in Conns \ pool : /\ conn[d].op = "none" /\ conn[d].timer = "none"
                                /\ Pending(q, held, Moving(d)) = 0
                                /\ Pending(q, held, Destroys(d)) \in Nat
                                /\ Pending(q, held, Destroys(d)) <= Pending(q, held, Moving(d))
                                /\ d \notin Waiting
    BY <1>2 DEF Conserved, GoodConns, GoodConn, Good
  <2> DEFINE c == n.c
  <2>1. /\ c \in Conns \ (Hands \cup pool)
        /\ Owned(Hands \cup {c}, pool, reuse', live')
        /\ conn' \in [Conns -> CleanRecord]
        /\ \A d \in Conns \ {c} : conn'[d] = conn[d]
        /\ conn'[c].op = "none" /\ conn'[c].timer = "none" /\ conn'[c].sock = "closed"
    <3>1. Owned(Hands, pool, reuse, live) /\ conn \in [Conns -> CleanRecord] /\ RestClosed(Hands, pool, conn)
      BY <1>2 DEF Conserved
    <3>2. RestIdle(pool, conn)
      BY <2>0 DEF RestIdle
    <3>3. Created(n, Hands, pool, reuse, conn)
      BY <3>1, <3>2, Creates
    <3> QED
      BY <1>4, <3>3 DEF Created
  <2>2. /\ [at |-> "created", c |-> c] \in Inside
        /\ c # NoConn
    BY <2>1, ConnsAssumption DEF Inside
  <2>3. /\ caller' \in [Callers -> {Outside} \cup Inside]
        /\ caller'[k].at = "created" /\ caller'[k].c = c
        /\ \A j \in Callers \ {k} : caller'[j] = caller[j]
    BY <1>2, <1>4, <2>2
  <2> HIDE DEF c
  <2>4. Hands' = Hands \cup {c} /\ Waiting' = Waiting
    BY <1>1, <2>3 DEF Hands, Waiting, Holding
  <2>5. DistinctHands'
    <3>1. \A j \in Callers \ {k} : caller[j].c # c
      BY <1>2, <2>0, <2>1, <2>2, CallerFields
    <3> QED
      BY <2>3, <3>1 DEF IInv, DistinctHands
  <2>6. MembersOK'
    BY <1>1, <2>3 DEF IInv, MembersOK
  <2>7. GoodConns(pool, conn', q, held, Waiting)
    <3> SUFFICES ASSUME NEW d \in Conns PROVE GoodConn(d, pool, conn', q, held, Waiting)
      BY DEF GoodConns
    <3>1. GoodConn(d, pool, conn, q, held, Waiting)
      BY <1>2 DEF Conserved, GoodConns
    <3>2. CASE d = c
      BY <2>0, <2>1, <3>2 DEF GoodConn, Good
    <3>3. CASE d # c
      BY <2>1, <3>1, <3>3 DEF GoodConn
    <3> QED
      BY <3>2, <3>3
  <2>8. RestClosed(Hands \cup {c}, pool, conn')
    BY <1>2, <2>1 DEF Conserved, RestClosed
  <2>9. Conserved(Hands \cup {c}, pool', reuse', live', conn', q', held', Waiting, ConnectionHandlers)
    BY <1>1, <1>2, <2>1, <2>7, <2>8 DEF Conserved
  <2> QED
    BY <2>4, <2>5, <2>6, <2>9 DEF IInv
<1> QED
  BY <1>1, <1>3, <1>4

\* From now on what moves the connection on is its caller.
LEMMA InsertKeeps == ASSUME IInv, NEW k \in Callers, Insert(k) PROVE IInv'
<1> DEFINE c == caller[k].c
<1>1. /\ caller[k].at = "created" /\ pool' = pool \cup {c}
      /\ caller' = [caller EXCEPT ![k].at = "pooled"]
      /\ UNCHANGED <<ioStopped, phase, reuse, live, conn, q, held>>
  BY DEF Insert, on_create_connection
<1>2. /\ caller \in [Callers -> {Outside} \cup Inside]
      /\ Conserved(Hands, pool, reuse, live, conn, q, held, Waiting, ConnectionHandlers)
  BY DEF IInv, MembersOK
<1>3. c \in Conns /\ c # NoConn /\ c \in Hands
  BY <1>1, <1>2, CallerFields
<1>4. /\ caller' \in [Callers -> {Outside} \cup Inside]
      /\ caller'[k].at = "pooled" /\ caller'[k].c = c
      /\ \A j \in Callers \ {k} : caller'[j] = caller[j]
  <2>1. [caller[k] EXCEPT !.at = "pooled"] = [at |-> "pooled", c |-> c]
    <3>1. caller[k] \in Inside
      BY <1>1, <1>2 DEF Outside
    <3> QED
      BY <3>1 DEF Inside
  <2>2. caller' = [caller EXCEPT ![k] = [at |-> "pooled", c |-> c]]
    BY <1>1, <2>1
  <2>3. [at |-> "pooled", c |-> c] \in Inside
    BY <1>3 DEF Inside
  <2> QED
    BY <1>2, <2>2, <2>3
<1> HIDE DEF c
<1>5. \A j \in Callers \ {k} : caller[j].c # c
  BY <1>3, <1>4 DEF IInv, DistinctHands, c
<1>6. Hands' = Hands \ {c} /\ Waiting' = Waiting \cup {c}
  BY <1>1, <1>4, <1>5 DEF Hands, Waiting, Holding, c
<1>7. DistinctHands'
  BY <1>3, <1>4, <1>5 DEF IInv, DistinctHands
<1>8. MembersOK'
  BY <1>1, <1>4 DEF IInv, MembersOK
<1>9. Owned(Hands \ {c}, pool', reuse', live')
  BY <1>1, <1>2, <1>3 DEF Conserved, Owned
<1>10. RestClosed(Hands \ {c}, pool', conn')
  BY <1>1, <1>2 DEF Conserved, RestClosed
<1>11. GoodConns(pool', conn', q', held', Waiting \cup {c})
  <2> SUFFICES ASSUME NEW d \in Conns PROVE GoodConn(d, pool \cup {c}, conn, q, held, Waiting \cup {c})
    BY <1>1 DEF GoodConns
  <2>1. GoodConn(d, pool, conn, q, held, Waiting)
    BY <1>2 DEF Conserved, GoodConns
  <2>2. CASE d = c
    <3>1. c \notin pool
      BY <1>2, <1>3 DEF Conserved, Owned
    <3> QED
      BY <2>1, <2>2, <3>1 DEF GoodConn, Good, One
  <2>3. CASE d # c
    BY <2>1, <2>3 DEF GoodConn
  <2> QED
    BY <2>2, <2>3
<1>12. Conserved(Hands \ {c}, pool', reuse', live', conn', q', held', Waiting \cup {c}, ConnectionHandlers)
  BY <1>1, <1>2, <1>9, <1>10, <1>11 DEF Conserved
<1> QED
  BY <1>6, <1>7, <1>8, <1>12 DEF IInv

\* connect() finds nothing pending on its connection, and leaves one operation.
LEMMA BeginConnectKeeps ==
  ASSUME IInv, NEW k \in Callers, BeginConnect(k)
  PROVE  IInv' /\ \A d \in Conns \ pool : conn'[d] = conn[d]
<1> DEFINE c == caller[k].c
<1>1. /\ caller[k].at = "pooled"
      /\ caller' = [caller EXCEPT ![k] = Outside]
      /\ UNCHANGED <<ioStopped, phase, pool, reuse, live, held>>
      /\ \E sslConnect \in SslModes :
            /\ conn' = [conn EXCEPT ![c] = connect(Item(c, conn[c]), sslConnect).r]
            /\ q' = q \o connect(Item(c, conn[c]), sslConnect).out
  BY DEF BeginConnect
<1>2. /\ caller \in [Callers -> {Outside} \cup Inside]
      /\ Conserved(Hands, pool, reuse, live, conn, q, held, Waiting, ConnectionHandlers)
      /\ conn \in [Conns -> CleanRecord] /\ q \in Seq(ConnectionHandlers)
      /\ GoodConns(pool, conn, q, held, Waiting)
  BY DEF IInv, MembersOK, Conserved
<1>3. c \in Conns /\ c # NoConn /\ c \in Waiting
  BY <1>1, <1>2, CallerFields
<1>4. PICK sslConnect \in SslModes :
            /\ conn' = [conn EXCEPT ![c] = connect(Item(c, conn[c]), sslConnect).r]
            /\ q' = q \o connect(Item(c, conn[c]), sslConnect).out
  BY <1>1
<1> DEFINE i == Item(c, conn[c])
           y == connect(i, sslConnect)
<1>5. conn' = [conn EXCEPT ![c] = y.r] /\ q' = q \o y.out
  BY <1>4
<1> HIDE DEF y, i, c
<1>6. /\ c \in pool /\ conn[c] \in CleanRecord
      /\ conn[c].op = "none" /\ conn[c].timer # "DESTROY" /\ Pending(q, held, Moving(c)) = 0
  <2>1. GoodConn(c, pool, conn, q, held, Waiting)
    BY <1>2, <1>3 DEF GoodConns
  <2> QED
    BY <1>2, <1>3, <2>1 DEF GoodConn, Good, One
<1>7. Moved(y, c)
  <2>1. Fresh(i, c)
    BY <1>6, NewItem DEF i
  <2> QED
    BY <1>3, <2>1, ConnectMoves DEF y
<1>8. /\ caller' \in [Callers -> {Outside} \cup Inside]
      /\ caller'[k].at = "outside" /\ caller'[k].c = NoConn
      /\ \A j \in Callers \ {k} : caller'[j] = caller[j]
  BY <1>1, <1>2 DEF Outside
<1>9. \A j \in Callers \ {k} : caller[j].c # c
  BY <1>3 DEF IInv, DistinctHands, c
<1>10. Hands' = Hands /\ Waiting' = Waiting \ {c}
  BY <1>1, <1>8, <1>9 DEF Hands, Waiting, Holding, c
<1>11. DistinctHands'
  BY <1>8 DEF IInv, DistinctHands
<1>12. MembersOK'
  BY <1>1, <1>8 DEF IInv, MembersOK
<1>13. OthersGood(c, pool, conn, q, held, Waiting)
  BY <1>2 DEF GoodConns, OthersGood
<1> DEFINE W2 == Waiting \ {c}
<1>14. c \notin W2 /\ W2 \ {c} = Waiting \ {c}
  OBVIOUS
<1> HIDE DEF W2
<1>15. /\ q \o y.out \in Seq(ConnectionHandlers)
       /\ [conn EXCEPT ![c] = y.r] \in [Conns -> CleanRecord]
       /\ GoodConns(pool, [conn EXCEPT ![c] = y.r], q \o y.out, held, W2)
  BY <1>2, <1>3, <1>6, <1>7, <1>13, <1>14, ConnectionWorks
<1>16. \A d \in Conns \ pool : conn'[d] = conn[d]
  BY <1>2, <1>5, <1>6
<1>17. RestClosed(Hands, pool, conn')
  BY <1>2, <1>16 DEF Conserved, RestClosed
<1>18. Conserved(Hands, pool', reuse', live', conn', q', held', W2, ConnectionHandlers)
  BY <1>1, <1>2, <1>5, <1>15, <1>17 DEF Conserved
<1> QED
  BY <1>10, <1>11, <1>12, <1>16, <1>18 DEF IInv, W2

-----------------------------------------------------------------------------
(* start(), stop(), the io threads and asio *)

\* The steps of the owner that touch no connection.
LEMMA PhaseStepKeeps ==
  ASSUME IInv, Start \/ Stop \/ DrainNothing \/ FinishStop
  PROVE  IInv' /\ UNCHANGED <<caller, connVars, q, held>>
<1>1. UNCHANGED <<caller, connVars, q, held>> /\ phase' \in Phases /\ ioStopped' \in BOOLEAN
  BY DEF Start, Stop, DrainNothing, FinishStop, clientVars, managerVars, IInv, MembersOK, Phases
<1>2. MembersOK'
  BY <1>1 DEF IInv, MembersOK
<1>3. Hands' = Hands /\ Waiting' = Waiting /\ DistinctHands'
  BY <1>1 DEF Hands, Waiting, Holding, DistinctHands, IInv
<1> QED
  BY <1>1, <1>2, <1>3, SameManager

\* stop() closes what is pooled once the threads are back.
LEMMA JoinKeeps ==
  ASSUME IInv, Join
  PROVE  IInv' /\ UNCHANGED <<caller, pool, reuse, live>> /\ \A d \in Conns \ pool : conn'[d] = conn[d]
<1>1. /\ CloseAll(<<>>) /\ UNCHANGED <<caller, pool, reuse, live, held>>
      /\ phase' \in Phases /\ ioStopped' \in BOOLEAN
  BY DEF Join, Phases
<1>2. /\ <<>> \in Seq(ConnectionHandlers)
      /\ \A i \in DOMAIN <<>> : <<>>[i] \notin ConnectionHandlers
  BY EmptySeq
<1> DEFINE none == <<>>
<1>3. none \in Seq(ConnectionHandlers) /\ (\A i \in DOMAIN none : none[i] \notin ConnectionHandlers)
      /\ CloseAll(none)
  BY <1>1, <1>2
<1> HIDE DEF none
<1>4. /\ Conserved(Hands, pool', reuse', live', conn', q', held', Waiting, ConnectionHandlers)
      /\ \A d \in Conns \ pool : conn'[d] = conn[d]
  BY <1>1, <1>3, CloseAllKeeps DEF IInv
<1>5. MembersOK'
  BY <1>1 DEF IInv, MembersOK
<1> QED
  BY <1>1, <1>4, <1>5, SameCallers

\* The loop of stop() runs a handler.
LEMMA DrainKeeps ==
  ASSUME IInv, Drain
  PROVE  IInv' /\ UNCHANGED caller /\ PoolGivesBack /\ OutsideOnlyCloses
<1>1. /\ q # <<>> /\ HandleConnection(Head(q), Tail(q)) /\ UNCHANGED <<caller, ioStopped, phase, held>>
  BY DEF Drain, clientVars
<1>2. q \in Seq(ConnectionHandlers)
  BY DEF IInv, Conserved
<1>3. /\ Consumes(Head(q), q, held, Tail(q), held)
      /\ Head(q) \in ConnectionHandlers /\ Tail(q) \in Seq(ConnectionHandlers)
  BY <1>1, <1>2, HeadConsumes
<1>4. /\ Conserved(Hands, pool', reuse', live', conn', q', held, Waiting, ConnectionHandlers)
      /\ PoolGivesBack /\ OutsideOnlyCloses
  BY <1>1, <1>3, HandleKeeps DEF IInv
<1>5. MembersOK'
  BY <1>1 DEF IInv, MembersOK
<1> QED
  BY <1>1, <1>4, <1>5, SameCallers

\* An io thread runs the handler it took.
LEMMA RunHandlerKeeps ==
  ASSUME IInv, NEW t \in Threads, RunHandler(t)
  PROVE  IInv' /\ UNCHANGED caller /\ PoolGivesBack /\ OutsideOnlyCloses
<1>1. /\ held[t] # NoHandler /\ HandleConnection(held[t], q)
      /\ held' = [held EXCEPT ![t] = NoHandler] /\ UNCHANGED <<caller, ioStopped, phase>>
  BY DEF RunHandler, clientVars
<1>2. q \in Seq(ConnectionHandlers) /\ held \in [Threads -> ConnectionHandlers \cup {NoHandler}]
  BY DEF IInv, Conserved, MembersOK
<1>3. held[t] \in ConnectionHandlers
  BY <1>1, <1>2
<1>4. /\ held' \in [Threads -> ConnectionHandlers \cup {NoHandler}]
      /\ held'[t] = NoHandler /\ \A u \in Threads \ {t} : held'[u] = held[u]
  BY <1>1, <1>2
<1> DEFINE g == held'
<1>5. Consumes(held[t], q, held, q, g)
  <2>1. g[t] = NoHandler /\ \A u \in Threads \ {t} : g[u] = held[u]
    BY <1>4
  <2> HIDE DEF g
  <2> QED
    BY <1>2, <2>1, RunConsumes
<1>6. /\ Conserved(Hands, pool', reuse', live', conn', q', g, Waiting, ConnectionHandlers)
      /\ PoolGivesBack /\ OutsideOnlyCloses
  <2> HIDE DEF g
  <2> QED
    BY <1>1, <1>2, <1>3, <1>5, HandleKeeps DEF IInv
<1>7. MembersOK'
  BY <1>1, <1>4 DEF IInv, MembersOK
<1> QED
  BY <1>1, <1>6, <1>7, SameCallers

\* An io thread takes a handler.
LEMMA TakeHandlerKeeps ==
  ASSUME IInv, NEW t \in Threads, Take(t)
  PROVE  IInv' /\ UNCHANGED <<caller, connVars>>
<1> DEFINE T == ConnectionHandlers \cup {NoHandler}
<1>1. /\ TakeHandler(t) /\ UNCHANGED <<caller, ioStopped, phase>> /\ q # <<>>
      /\ held' = [held EXCEPT ![t] = Head(q)]
  BY DEF Take, TakeHandler, clientVars
<1>2. q \in Seq(ConnectionHandlers) /\ held \in [Threads -> T]
  BY DEF IInv, Conserved, MembersOK
<1>3. Head(q) \in ConnectionHandlers
  BY <1>1, <1>2, HeadTailProperties
<1>4. held' \in [Threads -> T]
  BY <1>1, <1>2, <1>3
<1>5. /\ Conserved(Hands, pool', reuse', live', conn', q', held', Waiting, ConnectionHandlers)
      /\ UNCHANGED connVars
  <2> HIDE DEF T
  <2> QED
    BY <1>1, <1>2, TakeKeeps DEF IInv
<1>6. MembersOK'
  BY <1>1, <1>4 DEF IInv, MembersOK
<1> QED
  BY <1>1, <1>5, <1>6, SameCallers

\* An operation or a wait of a connection ends.
LEMMA AsioKeeps ==
  ASSUME IInv, NEW c \in Conns, Completion(c) \/ Expiry(c)
  PROVE  IInv' /\ UNCHANGED <<caller, pool, reuse, live>> /\ OutsideOnlyCloses
<1>1. /\ OpCompletes(c) \/ TimerExpires(c)
      /\ UNCHANGED <<caller, ioStopped, phase, pool, reuse, live, held>>
  BY DEF Completion, Expiry, OpCompletes, TimerExpires, clientVars
<1>2. /\ Conserved(Hands, pool', reuse', live', conn', q', held, Waiting, ConnectionHandlers)
      /\ OutsideOnlyCloses
  BY <1>1, OpCompletesKeeps, TimerExpiresKeeps DEF IInv
<1>3. MembersOK'
  BY <1>1 DEF IInv, MembersOK
<1> QED
  BY <1>1, <1>2, <1>3, SameCallers

\* The parked objects are freed.
LEMMA ClearReuseKeeps ==
  ASSUME IInv, ClearReuse, UNCHANGED clientVars
  PROVE  IInv' /\ UNCHANGED <<caller, pool, conn>> /\ Range(reuse') = {}
<1>1. UNCHANGED <<caller, ioStopped, phase, held>>
  BY DEF ClearReuse, clientVars
<1>2. /\ Conserved(Hands, pool', reuse', live', conn', q', held', Waiting, ConnectionHandlers)
      /\ UNCHANGED <<pool, conn>> /\ Range(reuse') = {}
  BY ClearKeeps DEF IInv
<1>3. MembersOK'
  BY <1>1 DEF IInv, MembersOK
<1> QED
  BY <1>1, <1>2, <1>3, SameCallers

\* Every step keeps the invariant.
LEMMA StepKeeps == IInv /\ [Next]_vars => IInv'
<1> SUFFICES ASSUME IInv, [Next]_vars PROVE IInv'
  OBVIOUS
<1>1. CASE UNCHANGED vars
  <2>1. UNCHANGED <<phase, ioStopped, caller, connVars, q, held>>
    BY <1>1 DEF vars, clientVars, managerVars
  <2>2. MembersOK' /\ Hands' = Hands /\ Waiting' = Waiting /\ DistinctHands'
    BY <2>1 DEF IInv, MembersOK, Hands, Waiting, Holding, DistinctHands
  <2> QED
    BY <2>1, <2>2, SameManager
<1>2. ASSUME NEW k \in Callers, CheckLimit(k) \/ ConnectStep(k)
      PROVE  IInv'
  BY <1>2, CheckLimitKeeps, CreateKeeps, InsertKeeps, BeginConnectKeeps DEF ConnectStep
<1>3. CASE Start \/ Stop \/ Join \/ Drain \/ DrainNothing \/ FinishStop
  BY <1>3, PhaseStepKeeps, JoinKeeps, DrainKeeps
<1>4. CASE ClearReuse /\ UNCHANGED clientVars
  BY <1>4, ClearReuseKeeps
<1>5. ASSUME NEW c \in Conns, Completion(c) \/ Expiry(c)
      PROVE  IInv'
  BY <1>5, AsioKeeps
<1>6. ASSUME NEW t \in Threads, Take(t) \/ RunHandler(t)
      PROVE  IInv'
  BY <1>6, TakeHandlerKeeps, RunHandlerKeeps
<1> QED
  BY <1>1, <1>2, <1>3, <1>4, <1>5, <1>6 DEF Next

LEMMA ClientInv == Spec => []IInv
  BY HandsInit, StepKeeps, PTL DEF Spec

-----------------------------------------------------------------------------
(* The theorems *)

\* The members of TCP_Client, its callers and the ready queue keep their types.
THEOREM Types == Spec => []TypeOK
<1>1. IInv => TypeOK
  BY ConservedTypes DEF IInv, MembersOK, TypeOK
<1> QED
  BY <1>1, ClientInv, PTL

\* Every allocated connection is in the hands of one caller of connect(), in
\* pool_ or in reuse_, and there once, whatever the callers, the io threads and
\* the owner do: create_connection() gives nobody an object in use.
THEOREM Ownership == Spec => []OwnedOnce
<1>1. IInv => OwnedOnce
  BY ConservedOwners DEF IInv, Hands, DistinctHands, OwnedOnce
<1> QED
  BY <1>1, ClientInv, PTL

\* One thing, and only one, moves a pooled connection on to handle_destroy: its
\* operation, the wait, one handler, or the caller that has still to connect it.
THEOREM Continuation == Spec => []OneContinuation
<1>1. ASSUME IInv PROVE OneContinuation
  <2> SUFFICES ASSUME NEW c \in pool
               PROVE  Continuations(c) + (IF c \in Holding("pooled") THEN 1 ELSE 0) = 1
    BY DEF OneContinuation
  <2>1. Continuations(c) + One(c \in Waiting) = 1
    BY <1>1, ConservedContinues DEF IInv, MembersOK
  <2> QED
    BY <2>1 DEF One, Waiting
<1> QED
  BY <1>1, ClientInv, PTL

-----------------------------------------------------------------------------
(* The client implements ConnectionPool *)

\* The callers that have compared n_connection() and not inserted yet.
Entering == { k \in Callers : caller[k].at \in {"checked", "created"} }

\* Whoever enters found room; the others that enter meanwhile may use it too.
Bounded ==
    (MaxConn # 0 /\ (pool # {} \/ Entering # {})) =>
        Cardinality(pool) + Cardinality(Entering) <= MaxConn + Cardinality(Callers) - 1

\* The sets that are counted are finite.
LEMMA SetsAreFinite ==
  ASSUME IInv
  PROVE  /\ IsFiniteSet(pool) /\ Cardinality(pool) \in Nat
         /\ IsFiniteSet(Entering) /\ Cardinality(Entering) \in Nat
         /\ Cardinality(Entering) <= Cardinality(Callers) /\ Cardinality(Callers) \in Nat
<1>1. pool \subseteq Conns
  BY DEF IInv, Conserved, Owned
<1>2. Entering \subseteq Callers
  BY DEF Entering
<1> QED
  BY <1>1, <1>2, ConnsAssumption, CallersAssumption, FS_Subset, FS_CardinalityType

\* Whoever leaves makes room.
LEMMA ShrinkingIsBounded ==
  ASSUME IInv, Bounded, pool' \subseteq pool, Entering' \subseteq Entering
  PROVE  Bounded'
<1>1. /\ Cardinality(pool') <= Cardinality(pool) /\ Cardinality(pool') \in Nat
      /\ Cardinality(Entering') <= Cardinality(Entering) /\ Cardinality(Entering') \in Nat
  BY SetsAreFinite, FS_Subset, FS_CardinalityType
<1>2. /\ Cardinality(pool) \in Nat /\ Cardinality(Entering) \in Nat /\ Cardinality(Callers) \in Nat
  BY SetsAreFinite
<1> QED
  BY <1>1, <1>2, LimitsAssumption DEF Bounded

\* Whoever passes the comparison found less than the limit pooled.
LEMMA CheckLimitIsBounded ==
  ASSUME IInv, Bounded, NEW k \in Callers, CheckLimit(k)
  PROVE  Bounded' /\ UNCHANGED <<pool, reuse, live, conn>>
<1>1. /\ Admits /\ UNCHANGED <<pool, reuse, live, conn>>
      /\ caller[k] = Outside /\ caller' = [caller EXCEPT ![k] = [at |-> "checked", c |-> NoConn]]
  BY DEF CheckLimit, managerVars, connVars
<1>2. IsFiniteSet(Entering') /\ Cardinality(Entering') \in Nat /\ Cardinality(Entering') <= Cardinality(Callers)
  <2>1. Entering' \subseteq Callers
    BY DEF Entering
  <2> QED
    BY <2>1, CallersAssumption, FS_Subset, FS_CardinalityType
<1>3. Cardinality(pool) \in Nat /\ Cardinality(Callers) \in Nat
  BY SetsAreFinite
<1> QED
  BY <1>1, <1>2, <1>3, LimitsAssumption DEF Bounded, Admits

\* An insertion moves one from those that enter to the pool.
LEMMA InsertIsBounded ==
  ASSUME IInv, Bounded, NEW k \in Callers, Insert(k)
  PROVE  Bounded'
<1> DEFINE c == caller[k].c
<1>1. /\ caller[k].at = "created" /\ pool' = pool \cup {c}
      /\ caller' = [caller EXCEPT ![k].at = "pooled"]
  BY DEF Insert, on_create_connection
<1>2. caller \in [Callers -> {Outside} \cup Inside]
  BY DEF IInv, MembersOK
<1>3. k \in Entering
  BY <1>1 DEF Entering
<1>4. Entering' = Entering \ {k}
  <2>1. \A j \in Callers \ {k} : caller'[j] = caller[j]
    BY <1>1, <1>2
  <2>2. caller'[k].at = "pooled"
    <3>1. caller[k] \in Inside
      BY <1>1, <1>2 DEF Outside
    <3>2. caller'[k] = [caller[k] EXCEPT !.at = "pooled"]
      BY <1>1, <1>2
    <3> QED
      BY <3>1, <3>2 DEF Inside
  <2> QED
    BY <2>1, <2>2 DEF Entering
<1>5. Cardinality(Entering') = Cardinality(Entering) - 1
  BY <1>3, <1>4, SetsAreFinite, FS_RemoveElement
<1> HIDE DEF c
<1>6. Cardinality(pool') <= Cardinality(pool) + 1 /\ Cardinality(pool') \in Nat
  <2>1. IsFiniteSet(pool')
    BY <1>1, SetsAreFinite, FS_AddElement
  <2>2. Cardinality(pool') = IF c \in pool THEN Cardinality(pool) ELSE Cardinality(pool) + 1
    BY <1>1, SetsAreFinite, FS_AddElement
  <2>3. Cardinality(pool') <= Cardinality(pool) + 1
    BY <2>2, SetsAreFinite
  <2> QED
    BY <2>1, <2>3, FS_CardinalityType
<1>7. Cardinality(pool) \in Nat /\ Cardinality(Entering) \in Nat /\ Cardinality(Callers) \in Nat
  BY SetsAreFinite
<1> QED
  BY <1>3, <1>5, <1>6, <1>7, LimitsAssumption DEF Bounded

\* What a step does to the pool and to what is parked.
Gives ==
    /\ pool' \ pool \subseteq Hands
    /\ Hands' \cap pool = {}
    /\ Range(reuse') \subseteq Range(reuse) \cup pool
    /\ \A c \in pool \ pool' : conn[c].sock = "closed"
    /\ \A c, d \in pool' \ pool : c = d

\* What is in hand is not pooled.
LEMMA HandsAreOut ==
  ASSUME IInv
  PROVE  Hands \cap pool = {} /\ Owned(Hands, pool, reuse, live) /\ RestClosed(Hands, pool, conn)
  BY DEF IInv, Conserved, Owned

\* A step that leaves the callers alone and does not fill the pool.
LEMMA QuietStep ==
  ASSUME IInv, Bounded, UNCHANGED caller, pool' \subseteq pool,
         Range(reuse') \subseteq Range(reuse) \cup pool,
         \A c \in pool \ pool' : conn[c].sock = "closed"
  PROVE  Bounded' /\ Gives
<1>1. Hands' = Hands /\ Entering' = Entering
  BY DEF Hands, Holding, Entering
<1>2. Bounded'
  BY <1>1, ShrinkingIsBounded
<1> QED
  BY <1>1, <1>2, HandsAreOut DEF Gives

\* The steps of connect().
LEMMA CallerGives ==
  ASSUME IInv, Bounded, NEW k \in Callers, CheckLimit(k) \/ ConnectStep(k)
  PROVE  Bounded' /\ Gives
<1>1. IInv'
  BY CheckLimitKeeps, CreateKeeps, InsertKeeps, BeginConnectKeeps DEF ConnectStep
<1>2. Hands' \cap pool' = {}
  BY <1>1 DEF IInv, Conserved, Owned
<1>3. CASE CheckLimit(k)
  <2>1. Bounded' /\ UNCHANGED <<pool, reuse>>
    BY <1>3, CheckLimitIsBounded
  <2> QED
    BY <1>2, <2>1 DEF Gives
<1>4. CASE Create(k)
  <2>1. UNCHANGED pool /\ Range(reuse') \subseteq Range(reuse) /\ Entering' \subseteq Entering
    <3>1. /\ caller[k].at = "checked" /\ UNCHANGED pool
          /\ \/ caller' = [caller EXCEPT ![k] = Outside] /\ UNCHANGED reuse
             \/ \E n \in create_connection(reuse, live, conn) :
                   /\ caller' = [caller EXCEPT ![k] = [at |-> "created", c |-> n.c]]
                   /\ reuse' = n.reuse
      BY <1>4 DEF Create
    <3>2. k \in Entering /\ caller \in [Callers -> {Outside} \cup Inside]
      BY <3>1 DEF Entering, IInv, MembersOK
    <3>3. \A j \in Callers \ {k} : caller'[j] = caller[j]
      BY <3>1, <3>2
    <3>4. Entering' \subseteq Entering
      BY <3>2, <3>3 DEF Entering
    <3>5. ASSUME NEW n \in create_connection(reuse, live, conn) PROVE Range(n.reuse) \subseteq Range(reuse)
      <4>1. RestIdle(pool, conn)
        BY DEF IInv, Conserved, GoodConns, GoodConn, Good, RestIdle
      <4>2. conn \in [Conns -> CleanRecord]
        BY DEF IInv, Conserved
      <4>3. Created(n, Hands, pool, reuse, conn)
        BY <4>1, <4>2, HandsAreOut, Creates
      <4> QED
        BY <4>3 DEF Created
    <3> QED
      BY <3>1, <3>4, <3>5
  <2>2. Bounded'
    BY <2>1, ShrinkingIsBounded
  <2> QED
    BY <1>2, <2>1, <2>2 DEF Gives
<1>5. CASE Insert(k)
  <2> DEFINE c == caller[k].c
  <2>1. caller[k].at = "created" /\ pool' = pool \cup {c} /\ UNCHANGED reuse
    BY <1>5 DEF Insert, on_create_connection
  <2>2. c \in Hands
    BY <2>1, CallerFields DEF IInv, MembersOK
  <2>3. Bounded'
    BY <1>5, InsertIsBounded
  <2> QED
    BY <1>2, <2>1, <2>2, <2>3 DEF Gives
<1>6. CASE BeginConnect(k)
  <2>1. UNCHANGED <<pool, reuse>> /\ caller[k].at = "pooled" /\ caller' = [caller EXCEPT ![k] = Outside]
    BY <1>6 DEF BeginConnect
  <2>2. caller \in [Callers -> {Outside} \cup Inside]
    BY DEF IInv, MembersOK
  <2>3. Entering' \subseteq Entering
    BY <2>1, <2>2 DEF Entering, Outside
  <2>4. Bounded'
    BY <2>1, <2>3, ShrinkingIsBounded
  <2> QED
    BY <1>2, <2>1, <2>4 DEF Gives
<1> QED
  BY <1>3, <1>4, <1>5, <1>6 DEF ConnectStep

\* All steps.
LEMMA StepGives ==
  ASSUME IInv, Bounded, [Next]_vars
  PROVE  Bounded' /\ Gives
<1>1. CASE UNCHANGED vars
  BY <1>1, QuietStep DEF vars, clientVars, managerVars, connVars
<1>2. ASSUME NEW k \in Callers, CheckLimit(k) \/ ConnectStep(k)
      PROVE  Bounded' /\ Gives
  BY <1>2, CallerGives
<1>3. CASE Start \/ Stop \/ DrainNothing \/ FinishStop
  BY <1>3, PhaseStepKeeps, QuietStep DEF connVars
<1>4. CASE Join
  BY <1>4, JoinKeeps, QuietStep
<1>5. CASE Drain
  BY <1>5, DrainKeeps, QuietStep DEF PoolGivesBack
<1>6. CASE ClearReuse /\ UNCHANGED clientVars
  BY <1>6, ClearReuseKeeps, QuietStep
<1>7. ASSUME NEW c \in Conns, Completion(c) \/ Expiry(c)
      PROVE  Bounded' /\ Gives
  BY <1>7, AsioKeeps, QuietStep
<1>8. ASSUME NEW t \in Threads, Take(t) \/ RunHandler(t)
      PROVE  Bounded' /\ Gives
  BY <1>8, TakeHandlerKeeps, RunHandlerKeeps, QuietStep DEF PoolGivesBack, connVars
<1> QED
  BY <1>1, <1>2, <1>3, <1>4, <1>5, <1>6, <1>7, <1>8 DEF Next

Most == IF MaxConn = 0 THEN 0 ELSE MaxConn + Cardinality(Callers) - 1

\* The empty client is the empty pool.
LEMMA PoolInit == Init => Pool!Init /\ Bounded
<1> SUFFICES ASSUME Init PROVE Pool!Init /\ Bounded
  OBVIOUS
<1>1. /\ pool = {} /\ reuse = <<>> /\ conn = [c \in Conns |-> NewConnection]
      /\ caller = [k \in Callers |-> Outside]
  BY DEF Init, ManagerInit
<1>2. Range(reuse) = {}
  BY <1>1 DEF Range
<1>3. Holding("created") = {} /\ Entering = {}
  BY <1>1 DEF Holding, Entering, Outside
<1>4. Place(Holding("created")) = [c \in Conns |-> "none"]
  BY <1>1, <1>2, <1>3 DEF Place
<1>5. IsOpen = [c \in Conns |-> FALSE]
  BY <1>1 DEF IsOpen, NewConnection
<1> QED
  BY <1>1, <1>3, <1>4, <1>5 DEF Pool!Init, Bounded

\* Every step of the client is one of the pool, or none.
LEMMA PoolNext ==
  ASSUME IInv, Bounded, [Next]_vars
  PROVE  Pool!Next
<1>1. Bounded' /\ Gives /\ IInv'
  BY StepGives, StepKeeps
<1>2. Owned(Hands, pool, reuse, live) /\ Owned(Hands', pool', reuse', live')
      /\ RestClosed(Hands', pool', conn')
  BY <1>1 DEF IInv, Conserved
<1>3. (pool' \ pool # {} /\ Most # 0) => Cardinality(pool') <= Most
  <2> SUFFICES ASSUME pool' # {}, Most # 0 PROVE Cardinality(pool') <= Most
    OBVIOUS
  <2>1. /\ Cardinality(pool') \in Nat /\ Cardinality(Entering') \in Nat /\ Cardinality(Callers) \in Nat
    <3>1. pool' \subseteq Conns /\ Entering' \subseteq Callers
      BY <1>2 DEF Owned, Entering
    <3> QED
      BY <3>1, ConnsAssumption, CallersAssumption, FS_Subset, FS_CardinalityType
  <2> QED
    BY <1>1, <2>1, LimitsAssumption DEF Bounded, Most
<1> DEFINE p == PlaceOf(Hands, pool, reuse)
           o == OpenIn(conn)
           p2 == PlaceOf(Hands', pool', reuse')
           o2 == OpenIn(conn')
<1>4. PoolAction(p, o, p2, o2, Most)
  BY <1>1, <1>2, <1>3, PoolStep DEF Gives
<1>5. /\ p = Place(Holding("created")) /\ p2 = Place(Holding("created"))'
      /\ o = IsOpen /\ o2 = IsOpen'
  BY DEF PlaceOf, Place, OpenIn, IsOpen, Hands
<1> HIDE DEF p, o, p2, o2
<1>6. /\ p2 \in [Conns -> Pool!Places] /\ o2 \in [Conns -> BOOLEAN]
      /\ \A c \in Conns : p2[c] # p[c] => <<p[c], p2[c]>> \in Pool!Moves /\ (p[c] = "pool" => ~o[c])
  BY <1>4 DEF PoolAction, Pool!Places, Pool!Moves
<1>7. /\ At(p2, "pool") \ At(p, "pool") # {} =>
            /\ Cardinality(At(p2, "pool") \ At(p, "pool")) = 1
            /\ Most # 0 => Cardinality(At(p2, "pool")) <= Most
      /\ \A c \in Conns : p2[c] \in {"none", "reuse"} => ~o2[c]
      /\ Cardinality(At(p2, "reuse")) <= MaxReuse
  BY <1>4 DEF PoolAction
<1>8. \A S : Pool!Cardinality(S) = Cardinality(S)
  BY DEF Pool!Cardinality, Cardinality
<1>9. Pool!Admits
  BY <1>5, <1>7, <1>8 DEF Pool!Admits, Pool!In, At, Most
<1>10. Pool!Closes
  BY <1>5, <1>6, <1>7 DEF Pool!Closes, Pool!Moved
<1>11. Pool!Cardinality(Pool!In(p2, "reuse")) <= MaxReuse
  BY <1>7, <1>8 DEF Pool!In, At
<1> QED
  BY <1>5, <1>6, <1>9, <1>10, <1>11 DEF Pool!Next, Pool!Moved

\* The client implements the abstract pool, with the limit that the race of
\* connect()'s callers between n_connection() and the insertion allows: whatever
\* the number of callers, n_max_conn_ is exceeded by one less than they are.
THEOREM Refinement == Spec => ImplementsPool
<1>1. Init => IInv /\ Bounded /\ Pool!Init
  BY HandsInit, PoolInit
<1>2. IInv /\ Bounded /\ [Next]_vars => IInv' /\ Bounded' /\ Pool!Next
  BY StepKeeps, StepGives, PoolNext
<1> QED
  BY <1>1, <1>2, PTL DEF Spec, ImplementsPool, Pool!Spec
=============================================================================
