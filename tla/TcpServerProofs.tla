--------------------------- MODULE TcpServerProofs ---------------------------
(***************************************************************************)
(* Theorems about TCP_Server for any number of connections and io threads. *)
(* The invariant is Conserved of TcpManagerProofs, where the one object in *)
(* hand is conn_, and what makes handle_accept safe though it holds its    *)
(* locks one after the other: one accept is outstanding at most, pending   *)
(* at the acceptor, as a handler or in the hands of one that is between    *)
(* two steps of handle_accept, and while it is conn_ is the object it was  *)
(* started for.  So what one compared is still so when it inserts.         *)
(*                                                                         *)
(* With one thread the queue also stays in line: handle_destroy is the     *)
(* last handler of its connection, so nothing is left when it has run.     *)
(***************************************************************************)
EXTENDS TcpServer, TcpManagerProofs

AcceptHandlers == [k : {"accept"}, err : BOOLEAN]

\* The accepts that are pending, at the acceptor or as handlers.
Accepts == One(accepting) + Pending(q, held, AcceptHandlers)

\* What was inserted and is not opened yet.
Waiting == { c \in Conns : AboutToOpen(c) }

MembersOK ==
    /\ phase \in Phases
    /\ isRunning \in BOOLEAN /\ listening \in BOOLEAN /\ accepting \in BOOLEAN
    /\ sslConnect \in SslModes
    /\ acc \in Conns \cup {NoConn}
    /\ step \in [Runners -> AcceptSteps]
    /\ held \in [Threads -> Handlers \cup {NoHandler}]

\* One accept is pending or one runner is in handle_accept, with conn_ unless it
\* has just deleted it; what an admitted one compared still holds.
OneAccept(ac, st, n, pl) ==
    /\ n \in {0, 1}
    /\ n = 1 => ac # NoConn /\ \A r \in Runners : st[r] = "none"
    /\ \A r, s \in Runners : (st[r] # "none" /\ st[s] # "none") => r = s
    /\ \A r \in Runners : st[r] \in {"admitted", "inserted", "rejected", "again"} => ac # NoConn
    /\ \A r \in Runners : st[r] = "admitted" => MaxConn = 0 \/ Cardinality(pl) < MaxConn

\* conn_ is let go before the next start(); the io threads are back when the owner
\* runs handlers, and only then it does.
PhaseOK(ph, li, ac, st, h) ==
    /\ (ph = "idle" /\ ~li) => ac = NoConn
    /\ ph \in {"idle", "draining"} => \A t \in Threads : h[t] = NoHandler /\ st[t] = "none"
    /\ ph # "draining" => st[Owner] = "none"

\* The object that handle_accept has just made is closed.
RenewedIsClosed == \A r \in Runners : step[r] = "again" => conn[acc].sock = "closed"

IInv ==
    /\ MembersOK
    /\ Conserved(NextToAccept, pool, reuse, live, conn, q, held, Waiting, Handlers)
    /\ OneAccept(acc, step, Accepts, pool)
    /\ PhaseOK(phase, listening, acc, step, held)
    /\ NextAcceptIsClean /\ RenewedIsClosed

\* The handlers of the server: those of accepts and those of connections.
LEMMA HandlersAre ==
  /\ ConnectionHandlers \subseteq Handlers
  /\ Handlers = AcceptHandlers \cup ConnectionHandlers
  /\ AcceptHandlers \cap ConnectionHandlers = {}
  /\ NoHandler \notin AcceptHandlers /\ NoHandler \notin Handlers
  /\ \A h \in Handlers : h.k = "accept" <=> h \in AcceptHandlers
  /\ \A err \in BOOLEAN : AcceptHandler(err) \in AcceptHandlers
  /\ \A c : \A h \in Handlers : Continues(h, c) => h \in ConnectionHandlers
<1>1. \A h \in AcceptHandlers : h.k = "accept"
  BY DEF AcceptHandlers
<1>2. \A h \in ConnectionHandlers : h.k \in {"op", "timer"}
  BY DEF ConnectionHandlers
<1>3. Handlers = AcceptHandlers \cup ConnectionHandlers
  BY DEF Handlers, AcceptHandlers
<1>4. NoHandler.k = "none"
  BY DEF NoHandler
<1>5. \A err \in BOOLEAN : AcceptHandler(err) \in AcceptHandlers
  BY DEF AcceptHandler, AcceptHandlers
<1>6. AcceptHandlers \cap ConnectionHandlers = {}
  BY <1>1, <1>2
<1>7. \A c : \A h \in Handlers : Continues(h, c) => h \in ConnectionHandlers
  BY <1>1, <1>3 DEF Continues, Of
<1> QED
  BY <1>1, <1>2, <1>3, <1>4, <1>5, <1>6, <1>7

\* The constructor establishes the invariant.
LEMMA ServerInit == Init => IInv
<1> SUFFICES ASSUME Init PROVE IInv
  OBVIOUS
<1>1. /\ ManagerInit /\ isRunning = FALSE /\ listening = FALSE /\ accepting = FALSE /\ acc = NoConn
      /\ sslConnect \in SslModes /\ phase = "idle"
      /\ held = [t \in Threads |-> NoHandler] /\ q = <<>>
      /\ step = [r \in Runners |-> "none"]
  BY DEF Init, ManagerInit
<1>2. MembersOK
  BY <1>1 DEF MembersOK, Phases, AcceptSteps
<1>3. NextToAccept = {} /\ Waiting = {}
  BY <1>1 DEF NextToAccept, Waiting, AboutToOpen
<1>4. Conserved({}, pool, reuse, live, conn, q, held, {}, Handlers)
  BY <1>1, NothingYet
<1>5. Accepts = 0
  <2>1. q \in Seq(Handlers) /\ \A i \in DOMAIN q : q[i] \notin AcceptHandlers
    BY <1>1, EmptySeq
  <2>2. \A t \in Threads : held[t] \notin AcceptHandlers
    BY <1>1, HandlersAre
  <2>3. Pending(q, held, AcceptHandlers) = 0
    BY <2>1, <2>2, NothingPending
  <2> QED
    BY <1>1, <2>3 DEF Accepts, One
<1>6. OneAccept(acc, step, Accepts, pool)
  BY <1>1, <1>5 DEF OneAccept
<1>7. PhaseOK(phase, listening, acc, step, held)
  BY <1>1 DEF PhaseOK, Runners
<1>8. NextAcceptIsClean /\ RenewedIsClosed
  BY <1>1, <1>3 DEF NextAcceptIsClean, RenewedIsClosed
<1> QED
  BY <1>2, <1>3, <1>4, <1>6, <1>7, <1>8 DEF IInv

-----------------------------------------------------------------------------
(* handle_accept *)

\* What a step does to the pool and to what is parked.
Gives ==
    /\ pool' \ pool \subseteq NextToAccept
    /\ NextToAccept' \cap pool = {}
    /\ Range(reuse') \subseteq Range(reuse) \cup pool
    /\ \A c \in pool \ pool' : conn[c].sock = "closed"
    /\ (pool' \ pool # {} /\ MaxConn # 0) => Cardinality(pool') <= MaxConn

\* conn_ is not pooled, unless it was just inserted.
LEMMA AccIsOut ==
  ASSUME IInv
  PROVE  /\ NextToAccept \cap pool = {} /\ NextToAccept \subseteq Conns
         /\ IsFiniteSet(pool) /\ Cardinality(pool) \in Nat
         /\ acc = NoConn => NextToAccept = {}
         /\ (acc # NoConn /\ ~InPoolByNow) => acc \in Conns \ pool /\ NextToAccept = {acc}
<1>1. /\ NextToAccept \cap pool = {} /\ NextToAccept \subseteq Conns
      /\ pool \subseteq Conns /\ acc \in Conns \cup {NoConn}
  BY DEF IInv, MembersOK, Conserved, Owned
<1>2. IsFiniteSet(pool) /\ Cardinality(pool) \in Nat
  BY <1>1, ConnsAssumption, FS_Subset, FS_CardinalityType
<1>3. acc = NoConn => NextToAccept = {}
  BY DEF NextToAccept
<1>4. (acc # NoConn /\ ~InPoolByNow) => acc \in Conns \ pool /\ NextToAccept = {acc}
  BY <1>1 DEF NextToAccept
<1> QED
  BY <1>1, <1>2, <1>3, <1>4

\* A step that fills nothing gives what the pool lets go.
LEMMA QuietGives ==
  ASSUME IInv, pool' \subseteq pool, NextToAccept' \subseteq NextToAccept,
         Range(reuse') \subseteq Range(reuse) \cup pool,
         \A c \in pool \ pool' : conn[c].sock = "closed"
  PROVE  Gives
  BY AccIsOut DEF Gives

\* A pool that only shrinks still has the room that was found.
LEMMA StillAdmitted ==
  ASSUME IInv, pool' \subseteq pool, NEW n, OneAccept(acc, step, n, pool)
  PROVE  OneAccept(acc, step, n, pool')
<1>1. Cardinality(pool') \in Nat /\ Cardinality(pool') <= Cardinality(pool) /\ Cardinality(pool) \in Nat
  BY AccIsOut, FS_Subset, FS_CardinalityType
<1>2. ASSUME MaxConn = 0 \/ Cardinality(pool) < MaxConn
      PROVE  MaxConn = 0 \/ Cardinality(pool') < MaxConn
  BY <1>1, <1>2, LimitsAssumption
<1> QED
  BY <1>2 DEF OneAccept

\* handle_accept finds the object its accept was for, nothing else pending at the
\* acceptor, and nobody else in it.
LEMMA AcceptFinds ==
  ASSUME IInv, NEW x \in AcceptHandlers, NEW rest \in Seq(Handlers), NEW later,
         Consumes(x, q, held, rest, later)
  PROVE  /\ acc \in Conns /\ accepting = FALSE /\ Pending(rest, later, AcceptHandlers) = 0
         /\ \A r \in Runners : step[r] = "none"
         /\ NextToAccept = {acc} /\ Waiting = {}
         /\ Conserved({acc}, pool, reuse, live, conn, rest, later, {}, Handlers)
<1>1. q \in Seq(Handlers) /\ Conserved(NextToAccept, pool, reuse, live, conn, q, held, Waiting, Handlers)
  BY DEF IInv, Conserved
<1>2. Pending(rest, later, AcceptHandlers) = Pending(q, held, AcceptHandlers) - 1
  BY HandlersAre DEF Consumes, One
<1>3. Pending(rest, later, AcceptHandlers) \in Nat /\ Pending(q, held, AcceptHandlers) \in Nat
  BY <1>1, PendingIsANumber
<1>4. acc \in Conns \cup {NoConn} /\ accepting \in BOOLEAN /\ One(accepting) \in Nat
  BY DEF IInv, MembersOK, One
<1>5. Accepts # 0 /\ Accepts \in {0, 1}
  BY <1>2, <1>3, <1>4 DEF IInv, OneAccept, Accepts
<1>6. acc # NoConn /\ \A r \in Runners : step[r] = "none"
  BY <1>5 DEF IInv, OneAccept
<1>7. accepting = FALSE /\ Pending(rest, later, AcceptHandlers) = 0 /\ acc \in Conns
  BY <1>2, <1>3, <1>4, <1>5, <1>6 DEF Accepts, One
<1>8. NextToAccept = {acc} /\ Waiting = {}
  BY <1>6, AccIsOut DEF InPoolByNow, Waiting, AboutToOpen
<1>9. Conserved({acc}, pool, reuse, live, conn, rest, later, {}, Handlers)
  <2>1. x \notin ConnectionHandlers
    BY HandlersAre
  <2>2. Conserved(NextToAccept, pool, reuse, live, conn, rest, later, Waiting, Handlers)
    BY <1>1, <2>1, OtherConsumed
  <2> QED
    BY <1>8, <2>2
<1> QED
  BY <1>6, <1>7, <1>8, <1>9

\* What a handler leaves that r runs, where later is what the threads hold after it.
Handled(r, later) ==
    /\ Conserved(NextToAccept', pool', reuse', live', conn', q', later, Waiting', Handlers)
    /\ UNCHANGED <<isRunning, listening, accepting, acc, sslConnect>>
    /\ step' \in [Runners -> AcceptSteps]
    /\ \A s \in Runners \ {r} : step'[s] = step[s]
    /\ OneAccept(acc, step', One(accepting) + Pending(q', later, AcceptHandlers), pool')
    /\ NextAcceptIsClean' /\ RenewedIsClosed'

\* handle_accept runs, as far as its first lock.
LEMMA AcceptHandled ==
  ASSUME IInv, NEW r \in Runners, NEW x \in AcceptHandlers, NEW rest \in Seq(Handlers), NEW later,
         Consumes(x, q, held, rest, later), handle_accept(r, x, rest)
  PROVE  Handled(r, later) /\ Gives
<1>1. /\ UNCHANGED <<isRunning, listening, accepting, acc, sslConnect>> /\ q' = rest
      /\ UNCHANGED <<pool, reuse, live, conn>>
  BY DEF handle_accept, connVars
<1>2. /\ acc \in Conns /\ accepting = FALSE /\ Pending(rest, later, AcceptHandlers) = 0
      /\ \A s \in Runners : step[s] = "none"
      /\ NextToAccept = {acc} /\ Waiting = {} /\ acc # NoConn
      /\ Conserved({acc}, pool, reuse, live, conn, rest, later, {}, Handlers)
  BY AcceptFinds, ConnsAssumption
<1>3. step \in [Runners -> AcceptSteps] /\ {"none", "admitted", "rejected"} \subseteq AcceptSteps
  BY DEF IInv, MembersOK, AcceptSteps
<1>4. /\ step' \in [Runners -> AcceptSteps]
      /\ \A s \in Runners \ {r} : step'[s] = "none"
      /\ step'[r] \in {"none", "admitted", "rejected"}
      /\ step'[r] = "admitted" => Admits
  BY <1>2, <1>3 DEF handle_accept, Reaches
<1>5. NextToAccept' = {acc} /\ Waiting' = {}
  BY <1>1, <1>2, <1>4 DEF NextToAccept, InPoolByNow, Waiting, AboutToOpen
<1>6. Conserved(NextToAccept', pool', reuse', live', conn', q', later, Waiting', Handlers)
  BY <1>1, <1>2, <1>5
<1>7. One(accepting) + Pending(q', later, AcceptHandlers) = 0
  BY <1>1, <1>2 DEF One
<1>8. OneAccept(acc, step', 0, pool')
  <2>1. \A s \in Runners : step'[s] # "none" => s = r
    BY <1>4
  <2>2. \A s \in Runners : step'[s] = "admitted" => MaxConn = 0 \/ Cardinality(pool') < MaxConn
    BY <1>1, <1>4, <2>1 DEF Admits
  <2> QED
    BY <1>2, <2>1, <2>2 DEF OneAccept
<1>9. NextAcceptIsClean' /\ RenewedIsClosed'
  BY <1>1, <1>2, <1>4, <1>5 DEF IInv, NextAcceptIsClean, RenewedIsClosed
<1>10. Handled(r, later)
  BY <1>1, <1>2, <1>4, <1>6, <1>7, <1>8, <1>9 DEF Handled
<1>11. Gives
  BY <1>1, <1>2, <1>5, QuietGives
<1> QED
  BY <1>10, <1>11

\* One that is in handle_accept is there alone, and no accept is pending.
LEMMA InsideAlone ==
  ASSUME IInv, NEW r \in Runners, step[r] # "none"
  PROVE  /\ \A s \in Runners \ {r} : step[s] = "none"
         /\ accepting = FALSE /\ Pending(q, held, AcceptHandlers) = 0 /\ phase # "idle"
         /\ step[r] \in {"inserted", "renew"} => InPoolByNow
         /\ step[r] \notin {"inserted", "renew"} => ~InPoolByNow
         /\ Waiting = { c \in Conns : c = acc /\ step[r] = "inserted" }
         /\ step[r] # "renew" => acc \in Conns
         /\ q \in Seq(Handlers)
<1>1. /\ q \in Seq(Handlers) /\ acc \in Conns \cup {NoConn} /\ accepting \in BOOLEAN
      /\ step \in [Runners -> AcceptSteps]
  BY DEF IInv, Conserved, MembersOK
<1>2. OneAccept(acc, step, Accepts, pool) /\ PhaseOK(phase, listening, acc, step, held)
  BY DEF IInv
<1>3. \A s \in Runners \ {r} : step[s] = "none"
  BY <1>2 DEF OneAccept
<1>4. Accepts = 0
  BY <1>2 DEF OneAccept
<1>5. accepting = FALSE /\ Pending(q, held, AcceptHandlers) = 0
  <2>1. Pending(q, held, AcceptHandlers) \in Nat
    BY <1>1, PendingIsANumber
  <2> QED
    BY <1>1, <1>4, <2>1 DEF Accepts, One
<1>6. phase # "idle"
  BY <1>2 DEF PhaseOK, Runners
<1>7. step[r] \in {"admitted", "inserted", "rejected", "renew", "again"}
  BY <1>1 DEF AcceptSteps
<1>8. step[r] # "renew" => acc \in Conns
  BY <1>1, <1>2, <1>7 DEF OneAccept
<1> QED
  BY <1>1, <1>3, <1>5, <1>6, <1>8 DEF InPoolByNow, Waiting, AboutToOpen

\* It goes on to the next lock.
LEMMA GoesOn ==
  ASSUME IInv, NEW r \in Runners, step[r] # "none", NEW v \in AcceptSteps, Reaches(r, v),
         UNCHANGED <<isRunning, listening, sslConnect, phase, held>>,
         acc' \in Conns \cup {NoConn}, accepting' \in BOOLEAN
  PROVE  /\ MembersOK' /\ PhaseOK(phase', listening', acc', step', held')
         /\ \A s \in Runners \ {r} : step'[s] = "none"
         /\ step'[r] = v
         /\ v \in {"inserted", "renew"} => InPoolByNow'
         /\ v \notin {"inserted", "renew"} => ~InPoolByNow'
         /\ Waiting' = { c \in Conns : c = acc' /\ v = "inserted" }
         /\ v # "again" => RenewedIsClosed'
<1>1. /\ step' \in [Runners -> AcceptSteps] /\ step'[r] = v
      /\ \A s \in Runners \ {r} : step'[s] = "none"
      /\ \A s \in Runners \ {r} : step'[s] = step[s]
  BY InsideAlone DEF IInv, MembersOK, Reaches
<1>2. MembersOK'
  BY <1>1 DEF IInv, MembersOK
<1>3. PhaseOK(phase, listening, acc, step, held) /\ phase # "idle"
  BY InsideAlone DEF IInv
<1>4. PhaseOK(phase', listening', acc', step', held')
  <2>1. phase = "draining" => r \notin Threads
    BY <1>3 DEF PhaseOK
  <2>2. phase # "draining" => r # Owner
    BY <1>3 DEF PhaseOK
  <2>3. \A t \in Threads : t \in Runners
    BY DEF Runners
  <2>4. Owner \in Runners
    BY DEF Runners
  <2> QED
    BY <1>1, <1>3, <2>1, <2>2, <2>3, <2>4 DEF PhaseOK
<1> QED
  BY <1>1, <1>2, <1>4 DEF InPoolByNow, Waiting, AboutToOpen, RenewedIsClosed

\* With no accept pending the runner that is in handle_accept is all there is.
LEMMA OneInside ==
  ASSUME NEW r \in Runners, NEW st, NEW ac, NEW pl, \A s \in Runners \ {r} : st[s] = "none",
         st[r] \in {"inserted", "rejected", "again"} => ac # NoConn, st[r] # "admitted"
  PROVE  OneAccept(ac, st, 0, pl)
  BY DEF OneAccept

\* conn_ is inserted: there is still room, nobody else has inserted since.
LEMMA InsertKeeps == ASSUME IInv, NEW r \in Runners, InsertAccepted(r) PROVE IInv' /\ Gives
<1>1. /\ step[r] = "admitted" /\ pool' = pool \cup {acc} /\ Reaches(r, "inserted")
      /\ UNCHANGED <<isRunning, listening, accepting, acc, sslConnect, phase, held>>
      /\ UNCHANGED <<reuse, live, conn, q>>
  BY DEF InsertAccepted, on_create_connection
<1>2. /\ \A s \in Runners \ {r} : step[s] = "none"
      /\ acc \in Conns /\ accepting = FALSE /\ Pending(q, held, AcceptHandlers) = 0
      /\ ~InPoolByNow /\ Waiting = {}
  BY <1>1, InsideAlone
<1>3. acc \in Conns \ pool /\ NextToAccept = {acc} /\ acc # NoConn
  BY <1>2, ConnsAssumption, AccIsOut
<1>4. "inserted" \in AcceptSteps /\ acc' \in Conns \cup {NoConn} /\ accepting' \in BOOLEAN
  BY <1>1, <1>2 DEF AcceptSteps
<1>5. /\ MembersOK' /\ PhaseOK(phase', listening', acc', step', held')
      /\ \A s \in Runners \ {r} : step'[s] = "none"
      /\ step'[r] = "inserted" /\ InPoolByNow' /\ Waiting' = { c \in Conns : c = acc' } /\ RenewedIsClosed'
  BY <1>1, <1>4, GoesOn
<1>6. NextToAccept' = {} /\ Waiting' = {acc}
  BY <1>1, <1>3, <1>5 DEF NextToAccept
<1>7. /\ Owned({acc}, pool, reuse, live) /\ RestClosed({acc}, pool, conn)
      /\ GoodConns(pool, conn, q, held, {}) /\ conn \in [Conns -> CleanRecord] /\ q \in Seq(Handlers)
  BY <1>2, <1>3 DEF IInv, Conserved
<1> DEFINE pl2 == pool \cup {acc}
           W2 == {acc}
<1>8. Owned({}, pl2, reuse, live) /\ RestClosed({}, pl2, conn)
  BY <1>3, <1>7 DEF Owned, RestClosed
<1>9. GoodConns(pl2, conn, q, held, W2)
  <2> SUFFICES ASSUME NEW d \in Conns PROVE GoodConn(d, pl2, conn, q, held, W2)
    BY DEF GoodConns
  <2>1. GoodConn(d, pool, conn, q, held, {})
    BY <1>7 DEF GoodConns
  <2>2. CASE d = acc
    BY <1>3, <2>1, <2>2 DEF GoodConn, Good, One
  <2>3. CASE d # acc
    BY <2>1, <2>3 DEF GoodConn
  <2> QED
    BY <2>2, <2>3
<1>10. Conserved({}, pl2, reuse, live, conn, q, held, W2, Handlers)
  BY <1>7, <1>8, <1>9 DEF Conserved
<1>11. Conserved(NextToAccept', pool', reuse', live', conn', q', held', Waiting', Handlers)
  BY <1>1, <1>6, <1>10
<1>12. Accepts' = 0
  BY <1>1, <1>2 DEF Accepts, One
<1>13. OneAccept(acc', step', 0, pool')
  BY <1>1, <1>3, <1>5, OneInside
<1>14. NextAcceptIsClean'
  BY <1>6 DEF NextAcceptIsClean
<1>15. IInv'
  BY <1>5, <1>11, <1>12, <1>13, <1>14 DEF IInv
<1>16. MaxConn # 0 => Cardinality(pool') <= MaxConn
  <2>1. Cardinality(pool') = Cardinality(pool) + 1 /\ Cardinality(pool) \in Nat
    BY <1>1, <1>3, AccIsOut, FS_AddElement
  <2>2. MaxConn = 0 \/ Cardinality(pool) < MaxConn
    BY <1>1 DEF IInv, OneAccept
  <2> QED
    BY <2>1, <2>2, LimitsAssumption
<1>17. pool \ pool' = {} /\ pool' \ pool = {acc} /\ reuse' = reuse
  BY <1>1, <1>3
<1>18. Gives
  BY <1>3, <1>6, <1>16, <1>17 DEF Gives
<1> QED
  BY <1>15, <1>18

\* The inserted connection is opened: one thing moves it on, and conn_ is still it.
LEMMA OpenKeeps == ASSUME IInv, NEW r \in Runners, OpenAccepted(r) PROVE IInv' /\ Gives
<1>1. /\ step[r] = "inserted" /\ Reaches(r, "renew")
      /\ UNCHANGED <<isRunning, listening, accepting, acc, sslConnect, phase, held>>
      /\ UNCHANGED <<pool, reuse, live>>
  BY DEF OpenAccepted
<1>2. /\ acc \in Conns /\ accepting = FALSE /\ Pending(q, held, AcceptHandlers) = 0
      /\ InPoolByNow /\ Waiting = { c \in Conns : c = acc } /\ q \in Seq(Handlers)
  BY <1>1, InsideAlone
<1>3. NextToAccept = {} /\ Waiting = {acc} /\ acc # NoConn
  BY <1>2, ConnsAssumption DEF NextToAccept
<1>4. "renew" \in AcceptSteps /\ acc' \in Conns \cup {NoConn} /\ accepting' \in BOOLEAN
  BY <1>1, <1>2 DEF AcceptSteps
<1>5. /\ MembersOK' /\ PhaseOK(phase', listening', acc', step', held')
      /\ \A s \in Runners \ {r} : step'[s] = "none"
      /\ step'[r] = "renew" /\ InPoolByNow' /\ Waiting' = {} /\ RenewedIsClosed'
  BY <1>1, <1>4, GoesOn
<1>6. NextToAccept' = {}
  BY <1>5 DEF NextToAccept
<1> DEFINE W == {acc}
           hands == {}
<1>7. /\ Conserved(hands, pool, reuse, live, conn, q, held, W, Handlers)
      /\ GoodConns(pool, conn, q, held, W) /\ conn \in [Conns -> CleanRecord]
  BY <1>3 DEF IInv, Conserved
<1> DEFINE i == Item(acc, conn[acc])
<1>8. PICK s \in open(i, sslConnect) : conn' = [conn EXCEPT ![acc] = s.r] /\ q' = q \o s.out
  BY DEF OpenAccepted
<1>9. /\ acc \in pool /\ conn[acc] \in CleanRecord
      /\ conn[acc].op = "none" /\ conn[acc].timer # "DESTROY" /\ Pending(q, held, Moving(acc)) = 0
  <2>1. GoodConn(acc, pool, conn, q, held, W) /\ acc \in W
    BY <1>2, <1>7 DEF GoodConns
  <2> QED
    BY <1>2, <1>7, <2>1 DEF GoodConn, Good, One
<1>10. Fresh(i, acc)
  BY <1>9, NewItem
<1> HIDE DEF i
<1>11. Moved(s, acc)
  BY <1>2, <1>8, <1>10, OpenMoves
<1>12. OthersGood(acc, pool, conn, q, held, W)
  BY <1>7 DEF GoodConns, OthersGood
<1> DEFINE W2 == {}
<1>13. acc \notin W2 /\ W2 \ {acc} = W \ {acc}
  OBVIOUS
<1> HIDE DEF W, W2, hands
<1>14. ConnectionHandlers \subseteq Handlers
  BY HandlersAre
<1>15. /\ q \o s.out \in Seq(Handlers)
       /\ [conn EXCEPT ![acc] = s.r] \in [Conns -> CleanRecord]
       /\ GoodConns(pool, [conn EXCEPT ![acc] = s.r], q \o s.out, held, W2)
  BY <1>2, <1>7, <1>9, <1>11, <1>12, <1>13, <1>14, ConnectionWorks
<1>16. \A d \in Conns \ pool : conn'[d] = conn[d]
  BY <1>7, <1>8, <1>9
<1>17. RestClosed(hands, pool, conn')
  BY <1>7, <1>16 DEF Conserved, RestClosed
<1>18. Conserved(hands, pool', reuse', live', conn', q', held', W2, Handlers)
  BY <1>1, <1>7, <1>8, <1>15, <1>17 DEF Conserved
<1>19. Conserved(NextToAccept', pool', reuse', live', conn', q', held', Waiting', Handlers)
  BY <1>5, <1>6, <1>18 DEF hands, W2
<1>20. Pending(q', held, AcceptHandlers) = 0
  <2> DEFINE u == s.out
  <2>1. u \in Seq(HandlersOf(acc)) /\ q' = q \o u
    BY <1>8, <1>11, ItemFields DEF Moved
  <2> HIDE DEF u
  <2>2. Posts(q, q')
    BY <2>1, PostsSome
  <2> QED
    BY <1>2, <2>2, HandlersAre, PostsElsewhere
<1>21. Accepts' = 0
  BY <1>1, <1>2, <1>20 DEF Accepts, One
<1>22. OneAccept(acc', step', 0, pool')
  BY <1>5, OneInside
<1>23. NextAcceptIsClean'
  BY <1>6 DEF NextAcceptIsClean
<1>24. IInv'
  BY <1>5, <1>19, <1>21, <1>22, <1>23 DEF IInv
<1> QED
  BY <1>1, <1>6, <1>24, QuietGives

\* The rejected conn_ is deleted: nothing was pending on it.
LEMMA DeleteKeeps == ASSUME IInv, NEW r \in Runners, DeleteRejected(r) PROVE IInv' /\ Gives
<1> DEFINE gone == Delete(Item(acc, conn[acc]))
<1>1. /\ step[r] = "rejected" /\ Reaches(r, "renew") /\ acc' = NoConn /\ live' = live \ {acc}
      /\ conn' = [conn EXCEPT ![acc] = gone.r] /\ q' = q \o gone.out
      /\ UNCHANGED <<isRunning, listening, accepting, sslConnect, phase, held>>
      /\ UNCHANGED <<pool, reuse>>
  BY DEF DeleteRejected
<1>2. /\ acc \in Conns /\ accepting = FALSE /\ Pending(q, held, AcceptHandlers) = 0
      /\ ~InPoolByNow /\ Waiting = {} /\ q \in Seq(Handlers)
  BY <1>1, InsideAlone
<1>3. acc \in Conns \ pool /\ NextToAccept = {acc}
  BY <1>2, ConnsAssumption, AccIsOut
<1>4. "renew" \in AcceptSteps /\ acc' \in Conns \cup {NoConn} /\ accepting' \in BOOLEAN
  BY <1>1, <1>2 DEF AcceptSteps
<1>5. /\ MembersOK' /\ PhaseOK(phase', listening', acc', step', held')
      /\ \A s \in Runners \ {r} : step'[s] = "none"
      /\ step'[r] = "renew" /\ InPoolByNow' /\ Waiting' = {} /\ RenewedIsClosed'
  BY <1>1, <1>4, GoesOn
<1>6. NextToAccept' = {}
  BY <1>5 DEF NextToAccept
<1>7. /\ Owned({acc}, pool, reuse, live) /\ RestClosed({acc}, pool, conn)
      /\ GoodConns(pool, conn, q, held, {}) /\ conn \in [Conns -> CleanRecord]
  BY <1>2, <1>3 DEF IInv, Conserved
<1>8. conn[acc] \in CleanRecord /\ conn[acc].op = "none" /\ conn[acc].timer = "none"
  <2>1. GoodConn(acc, pool, conn, q, held, {})
    BY <1>2, <1>7 DEF GoodConns
  <2> QED
    BY <1>3, <2>1 DEF GoodConn, Good
<1>9. /\ gone.out = <<>> /\ gone.r \in CleanRecord /\ gone.r.sock = "closed"
      /\ SameBut(conn[acc], gone.r, "sock")
  BY <1>2, <1>8, DeleteQuiet
<1> HIDE DEF gone
<1>10. q' = q
  BY <1>1, <1>2, <1>9, ConcatEmptySeq
<1>11. /\ conn' \in [Conns -> CleanRecord] /\ conn'[acc] = gone.r
       /\ \A d \in Conns \ {acc} : conn'[d] = conn[d]
  BY <1>1, <1>2, <1>7, <1>9
<1>12. Owned({}, pool, reuse, live')
  BY <1>1, <1>7 DEF Owned
<1>13. RestClosed({}, pool, conn')
  BY <1>7, <1>9, <1>11 DEF RestClosed
<1>14. GoodConns(pool, conn', q, held, {})
  <2> SUFFICES ASSUME NEW d \in Conns PROVE GoodConn(d, pool, conn', q, held, {})
    BY DEF GoodConns
  <2>1. GoodConn(d, pool, conn, q, held, {})
    BY <1>7 DEF GoodConns
  <2>2. CASE d = acc
    BY <1>3, <1>9, <1>11, <2>1, <2>2 DEF GoodConn, Good, SameBut
  <2>3. CASE d # acc
    BY <1>11, <2>1, <2>3 DEF GoodConn
  <2> QED
    BY <2>2, <2>3
<1>15. Conserved({}, pool, reuse, live', conn', q, held, {}, Handlers)
  BY <1>2, <1>11, <1>12, <1>13, <1>14 DEF Conserved
<1>16. Conserved(NextToAccept', pool', reuse', live', conn', q', held', Waiting', Handlers)
  BY <1>1, <1>5, <1>6, <1>10, <1>15
<1>17. Accepts' = 0
  BY <1>1, <1>2, <1>10 DEF Accepts, One
<1>18. OneAccept(acc', step', 0, pool')
  BY <1>5, OneInside
<1>19. NextAcceptIsClean'
  BY <1>6 DEF NextAcceptIsClean
<1>20. IInv'
  BY <1>5, <1>16, <1>17, <1>18, <1>19 DEF IInv
<1> QED
  BY <1>1, <1>6, <1>20, QuietGives

\* conn_ becomes an object that nobody has, whatever became of the one before.
LEMMA RenewKeeps == ASSUME IInv, NEW r \in Runners, RenewAccept(r) PROVE IInv' /\ Gives
<1>1. /\ step[r] = "renew" /\ Reaches(r, "again")
      /\ UNCHANGED <<isRunning, listening, accepting, sslConnect, phase, held>>
      /\ UNCHANGED <<pool, q>>
  BY DEF RenewAccept
<1>2. PICK n : /\ n \in create_connection(reuse, live, conn)
               /\ acc' = n.c /\ reuse' = n.reuse /\ live' = n.live /\ conn' = n.conn
  BY DEF RenewAccept
<1>3. /\ accepting = FALSE /\ Pending(q, held, AcceptHandlers) = 0
      /\ InPoolByNow /\ Waiting = {} /\ q \in Seq(Handlers)
  BY <1>1, InsideAlone
<1>4. NextToAccept = {}
  BY <1>3 DEF NextToAccept
<1> DEFINE none == {}
           W == {}
<1>5. /\ Conserved(none \cup {n.c}, pool, n.reuse, n.live, n.conn, q, held, W, Handlers)
      /\ Created(n, none, pool, reuse, conn)
  <2> HIDE DEF W, none
  <2>1. Conserved(none, pool, reuse, live, conn, q, held, W, Handlers)
    BY <1>3, <1>4 DEF IInv, none, W
  <2> QED
    BY <1>2, <2>1, CreateConserves
<1> DEFINE c == n.c
<1>6. /\ c \in Conns \ pool /\ Range(n.reuse) = Range(reuse) \ {c}
      /\ n.conn[c].sock = "closed" /\ ~n.conn[c].ssl /\ ~n.conn[c].sslUsed
  BY <1>5 DEF Created
<1>7. none \cup {n.c} = {c}
  OBVIOUS
<1> HIDE DEF c, none
<1>8. acc' = c /\ c # NoConn
  BY <1>2, <1>6, ConnsAssumption DEF c
<1>9. "again" \in AcceptSteps /\ acc' \in Conns \cup {NoConn} /\ accepting' \in BOOLEAN
  BY <1>1, <1>3, <1>6, <1>8 DEF AcceptSteps
<1>10. /\ MembersOK' /\ PhaseOK(phase', listening', acc', step', held')
       /\ \A s \in Runners \ {r} : step'[s] = "none"
       /\ step'[r] = "again" /\ ~InPoolByNow' /\ Waiting' = {}
  BY <1>1, <1>9, GoesOn
<1>11. NextToAccept' = {c}
  BY <1>8, <1>10 DEF NextToAccept
<1>12. Conserved(NextToAccept', pool', reuse', live', conn', q', held', Waiting', Handlers)
  BY <1>1, <1>2, <1>5, <1>7, <1>10, <1>11 DEF W
<1>13. Accepts' = 0
  BY <1>1, <1>3 DEF Accepts, One
<1>14. OneAccept(acc', step', 0, pool')
  BY <1>8, <1>10, OneInside
<1>15. NextAcceptIsClean' /\ RenewedIsClosed'
  BY <1>2, <1>6, <1>8, <1>10, <1>11 DEF NextAcceptIsClean, RenewedIsClosed, c
<1>16. IInv'
  BY <1>10, <1>12, <1>13, <1>14, <1>15 DEF IInv
<1>17. Gives
  BY <1>1, <1>2, <1>6, <1>11 DEF Gives
<1> QED
  BY <1>16, <1>17

\* The next accept is started, or fails at once: one is pending.
LEMMA AgainKeeps == ASSUME IInv, NEW r \in Runners, AcceptAgain(r) PROVE IInv' /\ Gives
<1>1. /\ step[r] = "again" /\ Reaches(r, "none") /\ accepting' = listening
      /\ q' = IF listening THEN q ELSE Append(q, AcceptHandler(TRUE))
      /\ UNCHANGED <<isRunning, listening, acc, sslConnect, phase, held>>
      /\ UNCHANGED <<pool, reuse, live, conn>>
  BY DEF AcceptAgain, connVars
<1>2. /\ acc \in Conns /\ accepting = FALSE /\ Pending(q, held, AcceptHandlers) = 0
      /\ ~InPoolByNow /\ Waiting = {} /\ q \in Seq(Handlers)
  BY <1>1, InsideAlone
<1>3. NextToAccept = {acc} /\ acc # NoConn
  BY <1>2, ConnsAssumption, AccIsOut
<1>4. listening \in BOOLEAN
  BY DEF IInv, MembersOK
<1>5. "none" \in AcceptSteps /\ acc' \in Conns \cup {NoConn} /\ accepting' \in BOOLEAN
  BY <1>1, <1>2, <1>4 DEF AcceptSteps
<1>6. /\ MembersOK' /\ PhaseOK(phase', listening', acc', step', held')
      /\ \A s \in Runners \ {r} : step'[s] = "none"
      /\ step'[r] = "none" /\ ~InPoolByNow' /\ Waiting' = {} /\ RenewedIsClosed'
  BY <1>1, <1>5, GoesOn
<1>7. NextToAccept' = {acc}
  BY <1>1, <1>3, <1>6 DEF NextToAccept
<1> DEFINE W == {}
<1>8. Conserved({acc}, pool, reuse, live, conn, q, held, W, Handlers)
  BY <1>2, <1>3 DEF IInv
<1> HIDE DEF W
<1>9. Conserved({acc}, pool, reuse, live, conn, q', held, W, Handlers) /\ Accepts' = 1
  <2>1. CASE listening
    BY <1>1, <1>2, <1>8, <2>1 DEF Accepts, One
  <2>2. CASE ~listening
    <3> DEFINE x == AcceptHandler(TRUE)
    <3>1. x \in AcceptHandlers /\ x \in Handlers /\ x \notin ConnectionHandlers /\ q' = Append(q, x)
      BY <1>1, <2>2, HandlersAre
    <3> HIDE DEF x
    <3>2. Conserved({acc}, pool, reuse, live, conn, Append(q, x), held, W, Handlers)
      BY <1>8, <3>1, OtherPosted
    <3>3. Pending(Append(q, x), held, AcceptHandlers) = 1
      BY <1>2, <3>1, PostingOne DEF One
    <3>4. Pending(q', held', AcceptHandlers) = 1
      BY <1>1, <3>1, <3>3
    <3>5. One(accepting') = 0
      BY <1>1, <2>2 DEF One
    <3>6. Accepts' = 1
      BY <3>4, <3>5 DEF Accepts
    <3> QED
      BY <3>1, <3>2, <3>6
  <2> QED
    BY <1>4, <2>1, <2>2
<1>10. Conserved(NextToAccept', pool', reuse', live', conn', q', held', Waiting', Handlers)
  BY <1>1, <1>6, <1>7, <1>9 DEF W
<1>11. \A s \in Runners : step'[s] = "none"
  BY <1>6
<1>12. OneAccept(acc', step', Accepts', pool')
  BY <1>1, <1>3, <1>9, <1>11 DEF OneAccept
<1>13. NextAcceptIsClean'
  <2>1. ~conn[acc].ssl /\ ~conn[acc].sslUsed /\ conn[acc].sock = "closed"
    BY <1>1, <1>3 DEF IInv, NextAcceptIsClean, RenewedIsClosed
  <2> QED
    BY <1>1, <1>7, <2>1 DEF NextAcceptIsClean
<1>14. IInv'
  BY <1>6, <1>10, <1>12, <1>13 DEF IInv
<1> QED
  BY <1>1, <1>3, <1>7, <1>14, QuietGives

\* Whatever step of handle_accept.
LEMMA AcceptStepKeeps == ASSUME IInv, NEW r \in Runners, AcceptStep(r) PROVE IInv' /\ Gives
  BY InsertKeeps, OpenKeeps, DeleteKeeps, RenewKeeps, AgainKeeps DEF AcceptStep

\* The accepting is left as it is by a step that leaves its variables alone and only
\* closes what is out of the pool.
LEMMA SameAccept ==
  ASSUME IInv, UNCHANGED acceptVars, OutsideOnlyCloses
  PROVE  /\ NextToAccept' = NextToAccept /\ Waiting' = Waiting
         /\ NextAcceptIsClean' /\ RenewedIsClosed'
         /\ UNCHANGED <<isRunning, listening, accepting, acc, step, sslConnect>>
<1>1. UNCHANGED <<isRunning, listening, accepting, acc, step, sslConnect>>
  BY DEF acceptVars
<1>2. NextToAccept' = NextToAccept /\ Waiting' = Waiting
  BY <1>1 DEF NextToAccept, InPoolByNow, Waiting, AboutToOpen
<1>3. NextToAccept \subseteq Conns \ pool
  BY AccIsOut
<1>4. NextAcceptIsClean'
  BY <1>1, <1>2, <1>3 DEF IInv, NextAcceptIsClean, OutsideOnlyCloses
<1>5. RenewedIsClosed'
  <2> SUFFICES ASSUME NEW r \in Runners, step[r] = "again" PROVE conn'[acc].sock = "closed"
    BY <1>1 DEF RenewedIsClosed
  <2>1. acc \in Conns /\ ~InPoolByNow
    BY InsideAlone
  <2>2. acc \in Conns \ pool
    BY <2>1, ConnsAssumption, AccIsOut
  <2> QED
    BY <2>2 DEF IInv, RenewedIsClosed, OutsideOnlyCloses
<1> QED
  BY <1>1, <1>2, <1>4, <1>5

\* A handler of a connection runs.
LEMMA ConnectionHandled ==
  ASSUME IInv, NEW r \in Runners, NEW x \in ConnectionHandlers, NEW rest \in Seq(Handlers), NEW later,
         Consumes(x, q, held, rest, later), HandleConnection(x, rest), UNCHANGED acceptVars
  PROVE  Handled(r, later) /\ Gives
<1>1. Conserved(NextToAccept, pool, reuse, live, conn, q, held, Waiting, Handlers)
  BY DEF IInv
<1>2. ConnectionHandlers \subseteq Handlers /\ NoHandler \notin AcceptHandlers
      /\ AcceptHandlers \cap ConnectionHandlers = {}
  BY HandlersAre
<1>3. /\ Conserved(NextToAccept, pool', reuse', live', conn', q', later, Waiting, Handlers)
      /\ PoolGivesBack /\ OutsideOnlyCloses /\ Posts(rest, q')
  BY <1>1, <1>2, HandleKeeps
<1>4. /\ NextToAccept' = NextToAccept /\ Waiting' = Waiting /\ NextAcceptIsClean' /\ RenewedIsClosed'
      /\ UNCHANGED <<isRunning, listening, accepting, acc, step, sslConnect>>
  BY <1>3, SameAccept
<1>5. Pending(q', later, AcceptHandlers) = Pending(rest, later, AcceptHandlers)
  BY <1>2, <1>3, PostsElsewhere
<1>6. Pending(rest, later, AcceptHandlers) = Pending(q, held, AcceptHandlers) - One(x \in AcceptHandlers)
  BY <1>2 DEF Consumes
<1>7. Pending(q, held, AcceptHandlers) \in Nat
  BY <1>1, PendingIsANumber DEF Conserved
<1>8. One(x \in AcceptHandlers) = 0
  BY <1>2 DEF One
<1>9. One(accepting) + Pending(q', later, AcceptHandlers) = Accepts
  BY <1>5, <1>6, <1>7, <1>8 DEF Accepts
<1>10. OneAccept(acc, step', One(accepting) + Pending(q', later, AcceptHandlers), pool')
  BY <1>3, <1>4, <1>9, StillAdmitted DEF IInv, PoolGivesBack
<1>11. Conserved(NextToAccept', pool', reuse', live', conn', q', later, Waiting', Handlers)
  BY <1>3, <1>4
<1>12. step' \in [Runners -> AcceptSteps]
  BY <1>4 DEF IInv, MembersOK
<1>13. Handled(r, later)
  BY <1>4, <1>10, <1>11, <1>12 DEF Handled
<1>14. Gives
  BY <1>3, <1>4, QuietGives DEF PoolGivesBack
<1> QED
  BY <1>13, <1>14

\* Whatever handler runs.
LEMMA HandlerHandled ==
  ASSUME IInv, NEW r \in Runners, NEW x \in Handlers, NEW rest \in Seq(Handlers), NEW later,
         Consumes(x, q, held, rest, later), Handle(r, x, rest)
  PROVE  Handled(r, later) /\ Gives
<1>1. CASE x.k = "accept" /\ handle_accept(r, x, rest)
  BY <1>1, HandlersAre, AcceptHandled
<1>2. CASE HandleConnection(x, rest) /\ UNCHANGED acceptVars
  <2>1. x.k = "op" \/ x.k = "timer"
    BY <1>2 DEF HandleConnection
  <2>2. x \in ConnectionHandlers
    BY <2>1, HandlersAre DEF AcceptHandlers
  <2> QED
    BY <1>2, <2>2, ConnectionHandled
<1> QED
  BY <1>1, <1>2 DEF Handle

-----------------------------------------------------------------------------
(* The io threads, the loop of stop() and asio *)

\* What a handler leaves is the invariant, once the threads have what they have.
LEMMA HandledKeeps ==
  ASSUME IInv, NEW r, NEW later, Handled(r, later), later = held', phase' = phase,
         held' \in [Threads -> Handlers \cup {NoHandler}],
         PhaseOK(phase, listening, acc, step', held')
  PROVE  IInv'
<1>1. /\ UNCHANGED <<isRunning, listening, accepting, acc, sslConnect>>
      /\ step' \in [Runners -> AcceptSteps]
  BY DEF Handled
<1>2. MembersOK'
  BY <1>1 DEF IInv, MembersOK
<1>3. Conserved(NextToAccept', pool', reuse', live', conn', q', held', Waiting', Handlers)
  BY DEF Handled
<1>4. OneAccept(acc', step', Accepts', pool')
  BY <1>1 DEF Handled, Accepts
<1>5. PhaseOK(phase', listening', acc', step', held')
  BY <1>1
<1>6. NextAcceptIsClean' /\ RenewedIsClosed'
  BY DEF Handled
<1> QED
  BY <1>2, <1>3, <1>4, <1>5, <1>6 DEF IInv

\* An io thread runs the handler it took.
LEMMA RunHandlerKeeps == ASSUME IInv, NEW t \in Threads, RunHandler(t) PROVE IInv' /\ Gives
<1>1. /\ held[t] # NoHandler /\ Handle(t, held[t], q)
      /\ held' = [held EXCEPT ![t] = NoHandler] /\ UNCHANGED phase
  BY DEF RunHandler
<1>2. q \in Seq(Handlers) /\ held \in [Threads -> Handlers \cup {NoHandler}]
  BY DEF IInv, Conserved, MembersOK
<1>3. held[t] \in Handlers /\ t \in Runners /\ t # Owner
  BY <1>1, <1>2, OwnerAssumption DEF Runners
<1>4. /\ held' \in [Threads -> Handlers \cup {NoHandler}]
      /\ held'[t] = NoHandler /\ \A u \in Threads \ {t} : held'[u] = held[u]
  BY <1>1, <1>2
<1>5. PhaseOK(phase, listening, acc, step, held) /\ phase \notin {"idle", "draining"}
  BY <1>1 DEF IInv, PhaseOK
<1> DEFINE g == held'
<1>6. Consumes(held[t], q, held, q, g)
  <2>1. g[t] = NoHandler /\ \A u \in Threads \ {t} : g[u] = held[u]
    BY <1>4
  <2> HIDE DEF g
  <2> QED
    BY <1>2, <2>1, RunConsumes
<1>7. g = held'
  OBVIOUS
<1> HIDE DEF g
<1>8. Handled(t, g) /\ Gives
  BY <1>1, <1>2, <1>3, <1>6, HandlerHandled
<1>9. step'[Owner] = step[Owner]
  BY <1>3, <1>8 DEF Handled, Runners
<1>10. PhaseOK(phase, listening, acc, step', held')
  BY <1>5, <1>9 DEF PhaseOK
<1>11. IInv'
  BY <1>1, <1>4, <1>7, <1>8, <1>10, HandledKeeps
<1> QED
  BY <1>8, <1>11

\* The loop of stop() runs one.
LEMMA DrainKeeps == ASSUME IInv, Drain PROVE IInv' /\ Gives
<1>1. phase = "draining" /\ q # <<>> /\ Handle(Owner, Head(q), Tail(q)) /\ UNCHANGED <<phase, held>>
  BY DEF Drain
<1>2. /\ q \in Seq(Handlers) /\ held \in [Threads -> Handlers \cup {NoHandler}]
      /\ PhaseOK(phase, listening, acc, step, held)
  BY DEF IInv, Conserved, MembersOK
<1>3. /\ Consumes(Head(q), q, held, Tail(q), held)
      /\ Head(q) \in Handlers /\ Tail(q) \in Seq(Handlers)
  BY <1>1, <1>2, HeadConsumes
<1>4. Owner \in Runners /\ \A t \in Threads : t \in Runners \ {Owner}
  BY OwnerAssumption DEF Runners
<1>5. Handled(Owner, held) /\ Gives
  BY <1>1, <1>3, <1>4, HandlerHandled
<1>6. held' = held /\ held' \in [Threads -> Handlers \cup {NoHandler}]
  BY <1>1, <1>2
<1>7. \A t \in Threads : step'[t] = step[t]
  BY <1>4, <1>5 DEF Handled
<1>8. PhaseOK(phase, listening, acc, step', held')
  BY <1>1, <1>2, <1>6, <1>7 DEF PhaseOK
<1>9. IInv'
  BY <1>1, <1>5, <1>6, <1>8, HandledKeeps
<1> QED
  BY <1>5, <1>9

\* A step of the manager that keeps the phase, the accepting and the accepts.
LEMMA ManagerStepKeeps ==
  ASSUME IInv, UNCHANGED <<acceptVars, phase>>, OutsideOnlyCloses, pool' \subseteq pool,
         Conserved(NextToAccept, pool', reuse', live', conn', q', held', Waiting, Handlers),
         Pending(q', held', AcceptHandlers) = Pending(q, held, AcceptHandlers),
         held' \in [Threads -> Handlers \cup {NoHandler}],
         phase \in {"idle", "draining"} => held' = held
  PROVE  IInv' /\ NextToAccept' = NextToAccept
<1>1. /\ NextToAccept' = NextToAccept /\ Waiting' = Waiting /\ NextAcceptIsClean' /\ RenewedIsClosed'
      /\ phase' = phase /\ UNCHANGED <<isRunning, listening, accepting, acc, step, sslConnect>>
  BY SameAccept
<1>2. MembersOK'
  BY <1>1 DEF IInv, MembersOK
<1>3. Accepts' = Accepts
  BY <1>1 DEF Accepts
<1>4. OneAccept(acc', step', Accepts', pool')
  BY <1>1, <1>3, StillAdmitted DEF IInv
<1>5. PhaseOK(phase', listening', acc', step', held')
  BY <1>1 DEF IInv, PhaseOK
<1>6. Conserved(NextToAccept', pool', reuse', live', conn', q', held', Waiting', Handlers)
  BY <1>1
<1> QED
  BY <1>1, <1>2, <1>4, <1>5, <1>6 DEF IInv

\* An io thread takes a handler.
LEMMA TakeHandlerKeeps == ASSUME IInv, NEW t \in Threads, Take(t) PROVE IInv' /\ Gives
<1> DEFINE T == Handlers \cup {NoHandler}
<1>1. /\ TakeHandler(t) /\ UNCHANGED <<acceptVars, phase>> /\ q # <<>>
      /\ held' = [held EXCEPT ![t] = Head(q)] /\ phase \notin {"idle", "draining"}
  BY DEF Take, TakeHandler
<1>2. /\ q \in Seq(Handlers) /\ held \in [Threads -> T]
      /\ Conserved(NextToAccept, pool, reuse, live, conn, q, held, Waiting, Handlers)
  BY DEF IInv, Conserved, MembersOK
<1>3. Head(q) \in Handlers
  BY <1>1, <1>2, HeadTailProperties
<1>4. held' \in [Threads -> T]
  BY <1>1, <1>2, <1>3
<1>5. ConnectionHandlers \subseteq Handlers /\ NoHandler \notin AcceptHandlers
  BY HandlersAre
<1>6. /\ Conserved(NextToAccept, pool', reuse', live', conn', q', held', Waiting, Handlers)
      /\ UNCHANGED connVars /\ SamePending(q, held, q', held')
  <2> HIDE DEF T
  <2> QED
    BY <1>1, <1>2, <1>5, TakeKeeps
<1>7. Pending(q', held', AcceptHandlers) = Pending(q, held, AcceptHandlers)
  BY <1>5, <1>6 DEF SamePending
<1>8. OutsideOnlyCloses /\ UNCHANGED <<pool, reuse, conn>>
  BY <1>6 DEF OutsideOnlyCloses, connVars
<1>9. IInv' /\ NextToAccept' = NextToAccept
  BY <1>1, <1>4, <1>6, <1>7, <1>8, ManagerStepKeeps
<1> QED
  BY <1>8, <1>9, QuietGives

\* An operation or a wait of a connection ends.
LEMMA AsioKeeps == ASSUME IInv, NEW c \in Conns, Completion(c) \/ Expiry(c) PROVE IInv' /\ Gives
<1>1. /\ OpCompletes(c) \/ TimerExpires(c)
      /\ UNCHANGED <<acceptVars, phase>> /\ UNCHANGED <<pool, reuse, live, held>>
  BY DEF Completion, Expiry, OpCompletes, TimerExpires
<1>2. /\ Conserved(NextToAccept, pool, reuse, live, conn, q, held, Waiting, Handlers)
      /\ q \in Seq(Handlers)
  BY DEF IInv, Conserved
<1>3. ConnectionHandlers \subseteq Handlers /\ AcceptHandlers \cap ConnectionHandlers = {}
  BY HandlersAre
<1>4. /\ Conserved(NextToAccept, pool', reuse', live', conn', q', held, Waiting, Handlers)
      /\ OutsideOnlyCloses /\ Posts(q, q')
  BY <1>1, <1>2, <1>3, OpCompletesKeeps, TimerExpiresKeeps
<1>5. Pending(q', held, AcceptHandlers) = Pending(q, held, AcceptHandlers)
  BY <1>2, <1>3, <1>4, PostsElsewhere
<1>6. held' = held /\ held' \in [Threads -> Handlers \cup {NoHandler}]
  BY <1>1 DEF IInv, MembersOK
<1>7. /\ Conserved(NextToAccept, pool', reuse', live', conn', q', held', Waiting, Handlers)
      /\ Pending(q', held', AcceptHandlers) = Pending(q, held, AcceptHandlers)
  BY <1>4, <1>5, <1>6
<1>8. IInv' /\ NextToAccept' = NextToAccept
  BY <1>1, <1>4, <1>6, <1>7, ManagerStepKeeps
<1> QED
  BY <1>1, <1>8, QuietGives

\* The parked objects are freed.
LEMMA ClearReuseKeeps == ASSUME IInv, ClearReuse, UNCHANGED acceptVars PROVE IInv' /\ Gives
<1>1. /\ Conserved(NextToAccept, pool, reuse, live, conn, q, held, Waiting, Handlers)
      /\ UNCHANGED phase
  BY DEF IInv, ClearReuse
<1>2. /\ Conserved(NextToAccept, pool', reuse', live', conn', q', held', Waiting, Handlers)
      /\ UNCHANGED <<pool, conn, q, held>> /\ Range(reuse') = {}
  BY <1>1, ClearKeeps
<1>3. OutsideOnlyCloses /\ held' \in [Threads -> Handlers \cup {NoHandler}]
  BY <1>2 DEF OutsideOnlyCloses, IInv, MembersOK
<1>4. IInv' /\ NextToAccept' = NextToAccept
  BY <1>1, <1>2, <1>3, ManagerStepKeeps
<1> QED
  BY <1>2, <1>4, QuietGives

\* An accept completes: what was pending at the acceptor is a handler.
LEMMA AcceptCompletesKeeps == ASSUME IInv, AcceptCompletes PROVE IInv' /\ Gives
<1>1. /\ accepting /\ accepting' = FALSE
      /\ UNCHANGED <<isRunning, listening, sslConnect, acc, step, phase, pool, reuse, live, held>>
  BY DEF AcceptCompletes
<1>2. PICK err \in BOOLEAN : /\ q' = Append(q, AcceptHandler(err))
                             /\ conn' = conn \/ conn' = [conn EXCEPT ![acc].sock = "open"]
  BY DEF AcceptCompletes
<1> DEFINE x == AcceptHandler(err)
           W == {}
<1>3. x \in AcceptHandlers /\ x \in Handlers \ ConnectionHandlers /\ q' = Append(q, x)
  BY <1>2, HandlersAre
<1> HIDE DEF x
<1>4. /\ Conserved(NextToAccept, pool, reuse, live, conn, q, held, Waiting, Handlers)
      /\ q \in Seq(Handlers) /\ conn \in [Conns -> CleanRecord]
  BY DEF IInv, Conserved
<1>5. Pending(q', held, AcceptHandlers) = Pending(q, held, AcceptHandlers) + 1
  BY <1>3, <1>4, PostingOne DEF One
<1>6. Pending(q, held, AcceptHandlers) \in Nat
  BY <1>4, PendingIsANumber
<1>7. /\ Pending(q', held, AcceptHandlers) = 1 /\ Accepts = 1
      /\ acc # NoConn /\ \A r \in Runners : step[r] = "none"
  BY <1>1, <1>5, <1>6 DEF IInv, OneAccept, Accepts, One
<1>8. /\ acc \in Conns \ pool /\ NextToAccept = {acc} /\ NextToAccept' = {acc}
      /\ Waiting = {} /\ Waiting' = {}
  BY <1>1, <1>7, AccIsOut DEF NextToAccept, InPoolByNow, Waiting, AboutToOpen
<1>9. conn[acc] \in CleanRecord /\ conn[acc].sock = "closed" /\ ~conn[acc].ssl /\ ~conn[acc].sslUsed
  BY <1>1, <1>4, <1>7, <1>8 DEF IInv, NextAcceptIsClean
<1>10. Conserved(NextToAccept, pool, reuse, live, conn, q', held, W, Handlers)
  <2>1. Conserved(NextToAccept, pool, reuse, live, conn, q, held, W, Handlers)
    BY <1>4, <1>8
  <2> HIDE DEF W
  <2> QED
    BY <1>3, <2>1, OtherPosted
<1>11. PICK r \in CleanRecord : /\ conn' = [conn EXCEPT ![acc] = r] /\ SameBut(conn[acc], r, "sock")
  <2>1. WithSock(conn[acc], "open") \in CleanRecord /\ SameBut(conn[acc], WithSock(conn[acc], "open"), "sock")
    BY <1>9, SettingSock
  <2>2. CASE conn' = [conn EXCEPT ![acc].sock = "open"]
    <3>1. conn' = [conn EXCEPT ![acc] = WithSock(conn[acc], "open")]
      BY <2>2 DEF WithSock
    <3> QED
      BY <2>1, <3>1
  <2>3. CASE conn' = conn
    <3>1. conn' = [conn EXCEPT ![acc] = conn[acc]]
      BY <1>4, <1>8, <2>3
    <3>2. SameBut(conn[acc], conn[acc], "sock")
      BY DEF SameBut
    <3> QED
      BY <1>9, <3>1, <3>2
  <2> QED
    BY <1>2, <2>2, <2>3
<1>12. conn' \in [Conns -> CleanRecord] /\ conn'[acc] = r /\ \A d \in Conns \ {acc} : conn'[d] = conn[d]
  BY <1>4, <1>8, <1>11
<1>13. GoodConns(pool, conn', q', held, {})
  <2> SUFFICES ASSUME NEW d \in Conns PROVE GoodConn(d, pool, conn', q', held, W)
    BY DEF GoodConns
  <2>1. GoodConn(d, pool, conn, q', held, W)
    BY <1>10 DEF Conserved, GoodConns
  <2>2. CASE d = acc
    BY <1>8, <1>11, <1>12, <2>1, <2>2 DEF GoodConn, Good, SameBut
  <2>3. CASE d # acc
    BY <1>12, <2>1, <2>3 DEF GoodConn
  <2> QED
    BY <2>2, <2>3
<1>14. RestClosed(NextToAccept, pool, conn')
  BY <1>8, <1>10, <1>12 DEF Conserved, RestClosed
<1>15. Conserved(NextToAccept', pool', reuse', live', conn', q', held', Waiting', Handlers)
  BY <1>1, <1>8, <1>10, <1>12, <1>13, <1>14 DEF Conserved
<1>16. OneAccept(acc', step', Accepts', pool') /\ PhaseOK(phase', listening', acc', step', held')
  <2>1. Accepts' = 1
    BY <1>1, <1>7 DEF Accepts, One
  <2> QED
    BY <1>1, <1>7, <2>1 DEF IInv, OneAccept, PhaseOK
<1>17. NextAcceptIsClean' /\ RenewedIsClosed'
  BY <1>1, <1>7, <1>8, <1>9, <1>11, <1>12 DEF NextAcceptIsClean, RenewedIsClosed, SameBut
<1>18. MembersOK'
  BY <1>1 DEF IInv, MembersOK
<1>19. IInv'
  BY <1>15, <1>16, <1>17, <1>18 DEF IInv
<1> QED
  BY <1>1, <1>8, <1>19, QuietGives

-----------------------------------------------------------------------------
(* The owner: start() and stop() *)

\* What start(), stop() and ssl_connect() leave when they touch no connection.
LEMMA OwnerStepKeeps ==
  ASSUME IInv, UNCHANGED <<accepting, acc, step, connVars, q, held>>,
         phase' \in Phases, isRunning' \in BOOLEAN, listening' \in BOOLEAN, sslConnect' \in SslModes,
         PhaseOK(phase', listening', acc, step, held)
  PROVE  IInv' /\ Gives
<1>1. UNCHANGED <<accepting, acc, step, pool, reuse, live, conn, q, held>>
  BY DEF connVars
<1>2. NextToAccept' = NextToAccept /\ Accepts' = Accepts /\ Waiting' = Waiting
  BY <1>1 DEF NextToAccept, InPoolByNow, Accepts, Waiting, AboutToOpen
<1>3. Conserved(NextToAccept', pool', reuse', live', conn', q', held', Waiting', Handlers)
  BY <1>1, <1>2 DEF IInv
<1>4. MembersOK'
  BY <1>1 DEF IInv, MembersOK
<1>5. OneAccept(acc', step', Accepts', pool') /\ PhaseOK(phase', listening', acc', step', held')
  BY <1>1, <1>2 DEF IInv
<1>6. NextAcceptIsClean' /\ RenewedIsClosed'
  BY <1>1, <1>2 DEF IInv, NextAcceptIsClean, RenewedIsClosed
<1>7. IInv'
  BY <1>3, <1>4, <1>5, <1>6 DEF IInv
<1> QED
  BY <1>1, <1>2, <1>7, QuietGives

\* The steps of the owner that touch no connection.
LEMMA PlainOwnerKeeps ==
  ASSUME IInv, StartFails \/ FinishStart \/ Stop \/ SetSsl
  PROVE  IInv' /\ Gives
<1>1. /\ UNCHANGED <<accepting, acc, step, connVars, q, held>>
      /\ phase' \in Phases /\ isRunning' \in BOOLEAN /\ listening' \in BOOLEAN /\ sslConnect' \in SslModes
      /\ (phase' = "idle" /\ ~listening') => phase = "idle" /\ ~listening
      /\ phase' = phase \/ phase' \notin {"idle", "draining"}
      /\ phase' = "draining" \/ phase # "draining"
  BY DEF StartFails, FinishStart, Stop, SetSsl, managerVars, IInv, MembersOK, Phases
<1>2. PhaseOK(phase', listening', acc, step, held)
  BY <1>1 DEF IInv, PhaseOK
<1> QED
  BY <1>1, <1>2, OwnerStepKeeps

\* The first accept gets an object of its own.
LEMMA StartKeeps == ASSUME IInv, Start PROVE IInv' /\ Gives
<1> DEFINE W == {}
<1>1. /\ phase = "idle" /\ ~listening /\ listening' = TRUE /\ accepting' = TRUE
      /\ phase' \in {"starting", "idle"}
      /\ UNCHANGED <<isRunning, step, sslConnect, pool, q, held>>
  BY DEF Start
<1>2. PICK n : /\ n \in create_connection(reuse, live, conn)
               /\ acc' = n.c /\ reuse' = n.reuse /\ live' = n.live /\ conn' = n.conn
  BY DEF Start
<1>3. /\ acc = NoConn /\ Accepts = 0 /\ NextToAccept = {}
      /\ PhaseOK(phase, listening, acc, step, held)
      /\ \A r \in Runners : step[r] = "none"
  BY <1>1, AccIsOut DEF IInv, OneAccept, PhaseOK, Runners
<1>4. Waiting = {} /\ Waiting' = {} /\ ~InPoolByNow'
  BY <1>1, <1>3 DEF Waiting, AboutToOpen, InPoolByNow
<1>5. Conserved({}, pool, reuse, live, conn, q, held, W, Handlers) /\ q \in Seq(Handlers)
  BY <1>3, <1>4 DEF IInv, Conserved
<1> DEFINE none == {}
<1>6. /\ Conserved(none \cup {n.c}, pool, n.reuse, n.live, n.conn, q, held, W, Handlers)
      /\ Created(n, none, pool, reuse, conn)
  <2> HIDE DEF W, none
  <2>1. Conserved(none, pool, reuse, live, conn, q, held, W, Handlers)
    BY <1>5 DEF none
  <2> QED
    BY <1>2, <2>1, CreateConserves
<1> DEFINE c == n.c
<1>7. /\ c \in Conns \ pool /\ Range(n.reuse) = Range(reuse) \ {c}
      /\ n.conn[c].sock = "closed" /\ ~n.conn[c].ssl /\ ~n.conn[c].sslUsed
  BY <1>6 DEF Created
<1>8. none \cup {n.c} = {c}
  OBVIOUS
<1> HIDE DEF c, none
<1>9. NextToAccept' = {c} /\ acc' = c /\ c # NoConn
  BY <1>2, <1>4, <1>7, ConnsAssumption DEF NextToAccept, c
<1>10. Conserved(NextToAccept', pool', reuse', live', conn', q', held', Waiting', Handlers)
  BY <1>1, <1>2, <1>4, <1>6, <1>8, <1>9 DEF W
<1>11. Pending(q, held, AcceptHandlers) = 0
  <2>1. Pending(q, held, AcceptHandlers) \in Nat
    BY <1>5, PendingIsANumber
  <2> QED
    BY <1>3, <2>1 DEF Accepts, One
<1>12. Accepts' = 1
  BY <1>1, <1>11 DEF Accepts, One
<1>13. OneAccept(acc', step', Accepts', pool')
  BY <1>1, <1>3, <1>9, <1>12 DEF OneAccept
<1>14. PhaseOK(phase', listening', acc', step', held')
  BY <1>1, <1>3 DEF PhaseOK
<1>15. NextAcceptIsClean' /\ RenewedIsClosed'
  BY <1>1, <1>2, <1>3, <1>7, <1>9 DEF NextAcceptIsClean, RenewedIsClosed
<1>16. MembersOK'
  BY <1>1, <1>7, <1>9 DEF IInv, MembersOK, Phases
<1>17. IInv'
  BY <1>10, <1>13, <1>14, <1>15, <1>16 DEF IInv
<1>18. Gives
  BY <1>1, <1>2, <1>7, <1>9 DEF Gives
<1> QED
  BY <1>17, <1>18

\* close_all_connections(): the accept and the operations it aborts are posted.
LEMMA JoinKeeps == ASSUME IInv, Join PROVE IInv' /\ Gives
<1> DEFINE others == IF accepting THEN <<AcceptHandler(TRUE)>> ELSE <<>>
<1>1. /\ ThreadsBack /\ CloseAll(others) /\ \A t \in Threads : step[t] = "none"
      /\ phase' = "draining" /\ listening' = FALSE /\ accepting' = FALSE
      /\ UNCHANGED <<isRunning, acc, step, sslConnect, pool, reuse, live, held>>
  BY DEF Join
<1>2. /\ others \in Seq(Handlers)
      /\ \A i \in DOMAIN others : others[i] \notin ConnectionHandlers
      /\ Hits(others, AcceptHandlers) = One(accepting)
  <2> DEFINE x == AcceptHandler(TRUE)
  <2>1. x \in AcceptHandlers /\ x \in Handlers /\ x \notin ConnectionHandlers
    BY HandlersAre
  <2> HIDE DEF x
  <2>2. accepting \in BOOLEAN
    BY DEF IInv, MembersOK
  <2>3. CASE accepting
    <3>1. others = <<x>>
      BY <2>3 DEF x
    <3>2. Hits(<<x>>, AcceptHandlers) = 1
      BY <2>1, HitsInOne DEF One
    <3>3. <<x>> \in Seq(Handlers) /\ \A i \in DOMAIN <<x>> : <<x>>[i] \notin ConnectionHandlers
      BY <2>1
    <3> HIDE DEF others
    <3> QED
      BY <2>3, <3>1, <3>2, <3>3 DEF One
  <2>4. CASE ~accepting
    <3>1. others = <<>>
      BY <2>4
    <3>2. Hits(<<>>, AcceptHandlers) = 0
      BY HitsInNone
    <3>3. <<>> \in Seq(Handlers) /\ \A i \in DOMAIN <<>> : <<>>[i] \notin ConnectionHandlers
      BY EmptySeq
    <3> HIDE DEF others
    <3> QED
      BY <2>4, <3>1, <3>2, <3>3 DEF One
  <2> QED
    BY <2>2, <2>3, <2>4
<1>3. /\ Conserved(NextToAccept, pool, reuse, live, conn, q, held, Waiting, Handlers)
      /\ q \in Seq(Handlers)
  BY DEF IInv, Conserved
<1>4. ConnectionHandlers \subseteq Handlers /\ AcceptHandlers \cap ConnectionHandlers = {}
  BY HandlersAre
<1> HIDE DEF others
<1>5. /\ Conserved(NextToAccept, pool', reuse', live', conn', q', held, Waiting, Handlers)
      /\ \A d \in Conns \ pool : conn'[d] = conn[d]
      /\ Posts(q \o others, q')
  BY <1>1, <1>2, <1>3, <1>4, CloseAllKeeps
<1>6. q \o others \in Seq(Handlers)
  BY <1>2, <1>3, ConcatProperties
<1>7. Pending(q', held, AcceptHandlers) = Accepts
  <2> DEFINE s == q \o others
  <2>1. Hits(s, AcceptHandlers) = Hits(q, AcceptHandlers) + One(accepting)
    BY <1>2, <1>3, HitsInConcat
  <2>2. s \in Seq(Handlers) /\ Posts(s, q')
    BY <1>5, <1>6
  <2> HIDE DEF s
  <2>3. Pending(q', held, AcceptHandlers) = Pending(s, held, AcceptHandlers)
    BY <1>4, <2>2, PostsElsewhere
  <2>4. Hits(q, AcceptHandlers) \in Nat /\ HeldHits(held, AcceptHandlers) \in Nat /\ One(accepting) \in Nat
    BY <1>3, PendingIsANumber DEF One
  <2> QED
    BY <2>1, <2>3, <2>4 DEF Accepts, Pending
<1>8. NextToAccept' = NextToAccept /\ Waiting' = Waiting
  BY <1>1 DEF NextToAccept, InPoolByNow, Waiting, AboutToOpen
<1>9. Conserved(NextToAccept', pool', reuse', live', conn', q', held', Waiting', Handlers)
  BY <1>1, <1>5, <1>8
<1>10. Accepts' = Accepts
  <2>1. Accepts \in Nat
    <3>1. Pending(q, held, AcceptHandlers) \in Nat /\ One(accepting) \in Nat
      BY <1>3, PendingIsANumber DEF One
    <3> QED
      BY <3>1 DEF Accepts
  <2>2. Accepts' = 0 + Pending(q', held, AcceptHandlers)
    BY <1>1 DEF Accepts, One
  <2> QED
    BY <1>7, <2>1, <2>2
<1>11. OneAccept(acc', step', Accepts', pool') /\ PhaseOK(phase', listening', acc', step', held')
  BY <1>1, <1>10 DEF IInv, OneAccept, PhaseOK, ThreadsBack
<1>12. OutsideOnlyCloses
  BY <1>5 DEF OutsideOnlyCloses
<1>13. NextAcceptIsClean' /\ RenewedIsClosed'
  <2>1. NextToAccept \subseteq Conns \ pool
    BY AccIsOut
  <2>2. NextAcceptIsClean'
    BY <1>1, <1>5, <1>8, <2>1 DEF IInv, NextAcceptIsClean
  <2>3. ASSUME NEW r \in Runners, step[r] = "again" PROVE conn'[acc].sock = "closed"
    <3>1. acc \in Conns /\ ~InPoolByNow
      BY <2>3, InsideAlone
    <3>2. acc \in Conns \ pool
      BY <3>1, ConnsAssumption, AccIsOut
    <3> QED
      BY <1>5, <2>3, <3>2 DEF IInv, RenewedIsClosed
  <2> QED
    BY <1>1, <2>2, <2>3 DEF RenewedIsClosed
<1>14. MembersOK'
  BY <1>1 DEF IInv, MembersOK, Phases
<1>15. IInv'
  BY <1>9, <1>11, <1>13, <1>14 DEF IInv
<1> QED
  BY <1>1, <1>8, <1>15, QuietGives

\* The end of stop(): nothing is pending, and conn_ is deleted.
LEMMA FinishStopKeeps == ASSUME IInv, FinishStop PROVE IInv' /\ Gives
<1> DEFINE W == {}
<1>1. /\ phase = "draining" /\ q = <<>> /\ pool = {} /\ ~accepting /\ acc' = NoConn /\ phase' = "idle"
      /\ UNCHANGED <<isRunning, listening, accepting, step, sslConnect, pool, reuse, held>>
      /\ step[Owner] = "none"
  BY DEF FinishStop, NothingToRun
<1>idle. /\ \A r \in Runners : step[r] = "none"
         /\ \A t \in Threads : held[t] = NoHandler
         /\ Waiting = {} /\ Waiting' = {} /\ ~InPoolByNow /\ ~InPoolByNow'
  BY <1>1 DEF IInv, PhaseOK, Runners, Waiting, AboutToOpen, InPoolByNow
<1>2. /\ Conserved(NextToAccept, pool, reuse, live, conn, q, held, W, Handlers)
      /\ q \in Seq(Handlers) /\ conn \in [Conns -> CleanRecord]
      /\ Owned(NextToAccept, pool, reuse, live) /\ RestClosed(NextToAccept, pool, conn)
      /\ GoodConns(pool, conn, q, held, W)
  BY <1>idle DEF IInv, Conserved
<1>3. NextToAccept' = {}
  BY <1>1 DEF NextToAccept
<1>4. /\ q' = q /\ live' = live \ NextToAccept /\ conn' \in [Conns -> CleanRecord]
      /\ \A d \in Conns : SameBut(conn[d], conn'[d], "sock")
      /\ \A d \in Conns \ NextToAccept : conn'[d] = conn[d]
      /\ \A d \in NextToAccept : conn'[d].sock = "closed"
  <2>1. CASE acc = NoConn
    <3>1. UNCHANGED <<live, conn, q>> /\ NextToAccept = {}
      BY <2>1, AccIsOut DEF FinishStop
    <3> QED
      BY <1>2, <3>1 DEF SameBut
  <2>2. CASE acc # NoConn
    <3>1. acc \in Conns \ pool /\ NextToAccept = {acc}
      BY <1>idle, <2>2, AccIsOut
    <3>2. conn[acc] \in CleanRecord /\ conn[acc].op = "none" /\ conn[acc].timer = "none"
      BY <1>1, <1>2, <3>1 DEF FinishStop, NothingToRun
    <3> DEFINE gone == Delete(Item(acc, conn[acc]))
    <3>3. live' = live \ {acc} /\ conn' = [conn EXCEPT ![acc] = gone.r] /\ q' = gone.out
      BY <2>2 DEF FinishStop
    <3>4. gone.out = <<>> /\ gone.r \in CleanRecord /\ gone.r.sock = "closed"
          /\ SameBut(conn[acc], gone.r, "sock")
      BY <3>1, <3>2, DeleteQuiet
    <3> HIDE DEF gone
    <3>5. conn' \in [Conns -> CleanRecord] /\ conn'[acc] = gone.r /\ \A d \in Conns \ {acc} : conn'[d] = conn[d]
      BY <1>2, <3>1, <3>3, <3>4
    <3>6. \A d \in Conns : SameBut(conn[d], conn'[d], "sock")
      BY <3>4, <3>5 DEF SameBut
    <3> QED
      BY <1>1, <3>1, <3>3, <3>4, <3>5, <3>6
  <2> QED
    BY <2>1, <2>2
<1>5. Owned({}, pool', reuse', live') /\ RestClosed({}, pool', conn')
  BY <1>1, <1>2, <1>4 DEF Owned, RestClosed
<1>6. GoodConns(pool', conn', q', held', {})
  <2> SUFFICES ASSUME NEW d \in Conns PROVE GoodConn(d, pool, conn', q, held, W)
    BY <1>1, <1>4 DEF GoodConns
  <2>1. GoodConn(d, pool, conn, q, held, W)
    BY <1>2 DEF GoodConns
  <2> QED
    BY <1>1, <1>4, <2>1 DEF GoodConn, Good, SameBut
<1>7. Conserved(NextToAccept', pool', reuse', live', conn', q', held', Waiting', Handlers)
  BY <1>idle, <1>1, <1>2, <1>3, <1>4, <1>5, <1>6 DEF Conserved
<1>8. Accepts' = 0
  <2>1. \A t \in Threads : held[t] \notin AcceptHandlers
    BY <1>idle, HandlersAre
  <2>2. \A i \in DOMAIN q : q[i] \notin AcceptHandlers
    BY <1>1
  <2>3. Pending(q, held, AcceptHandlers) = 0
    BY <1>2, <2>1, <2>2, NothingPending
  <2> QED
    BY <1>1, <1>4, <2>3 DEF Accepts, One
<1>9. /\ OneAccept(acc', step', Accepts', pool') /\ PhaseOK(phase', listening', acc', step', held')
      /\ NextAcceptIsClean' /\ RenewedIsClosed'
  BY <1>idle, <1>1, <1>3, <1>8 DEF OneAccept, PhaseOK, NextAcceptIsClean, RenewedIsClosed, Runners
<1>10. MembersOK'
  BY <1>1 DEF IInv, MembersOK, Phases
<1>11. IInv'
  BY <1>7, <1>9, <1>10 DEF IInv
<1> QED
  BY <1>1, <1>3, <1>11, QuietGives

\* Every step keeps the invariant, and does to the pool what Gives says.
LEMMA StepKeeps == IInv /\ [Next]_vars => IInv' /\ Gives
<1> SUFFICES ASSUME IInv, [Next]_vars PROVE IInv' /\ Gives
  OBVIOUS
<1>1. CASE UNCHANGED vars
  <2>1. UNCHANGED <<phase, isRunning, listening, sslConnect>> /\ UNCHANGED <<accepting, acc, step, connVars, q, held>>
    BY <1>1 DEF vars, acceptVars, managerVars
  <2> QED
    BY <2>1, OwnerStepKeeps DEF IInv, MembersOK
<1>2. CASE OwnerStep
  BY <1>2, PlainOwnerKeeps, StartKeeps, JoinKeeps, DrainKeeps, FinishStopKeeps DEF OwnerStep
<1>3. CASE AcceptCompletes
  BY <1>3, AcceptCompletesKeeps
<1>4. CASE ClearReuse /\ UNCHANGED acceptVars
  BY <1>4, ClearReuseKeeps
<1>5. ASSUME NEW c \in Conns, Completion(c) \/ Expiry(c) PROVE IInv' /\ Gives
  BY <1>5, AsioKeeps
<1>6. ASSUME NEW t \in Threads, Take(t) \/ RunHandler(t) PROVE IInv' /\ Gives
  BY <1>6, TakeHandlerKeeps, RunHandlerKeeps
<1>7. ASSUME NEW r \in Runners, AcceptStep(r) PROVE IInv' /\ Gives
  BY <1>7, AcceptStepKeeps
<1> QED
  BY <1>1, <1>2, <1>3, <1>4, <1>5, <1>6, <1>7 DEF Next

LEMMA ServerInv == Spec => []IInv
  BY ServerInit, StepKeeps, PTL DEF Spec

-----------------------------------------------------------------------------
(* The theorems *)

\* The members of TCP_Server and the ready queue keep their types.
THEOREM Types == Spec => []TypeOK
<1>1. IInv => TypeOK
  <2> SUFFICES ASSUME IInv PROVE TypeOK
    OBVIOUS
  <2>1. /\ Conserved(NextToAccept, pool, reuse, live, conn, q, held, Waiting, Handlers)
        /\ phase \in Phases /\ held \in [Threads -> Handlers \cup {NoHandler}]
    BY DEF IInv, MembersOK
  <2>2. ManagerTypeOK(Handlers)
    BY <2>1, ConservedTypes
  <2> QED
    BY <2>2 DEF IInv, MembersOK, TypeOK
<1> QED
  BY <1>1, ServerInv, PTL

\* Every allocated connection is conn_, or is in pool_ or in reuse_, and there
\* once, whatever the io threads, the clients and the owner of the server do.
THEOREM Ownership == Spec => []OwnedOnce
<1>1. IInv => OwnedOnce
  <2> SUFFICES ASSUME IInv PROVE OwnedOnce
    OBVIOUS
  <2>1. Conserved(NextToAccept, pool, reuse, live, conn, q, held, Waiting, Handlers)
    BY DEF IInv
  <2> QED
    BY <2>1, ConservedOwners DEF OwnedOnce
<1> QED
  BY <1>1, ServerInv, PTL

\* One thing, and only one, moves a pooled connection on to handle_destroy: its
\* operation, the wait, one handler, or handle_accept between its insertion and
\* open().  stop()'s loop has something to wait for, and no connection is destroyed
\* twice.
THEOREM Continuation == Spec => []OneContinuation
<1>1. ASSUME IInv PROVE OneContinuation
  <2> SUFFICES ASSUME NEW c \in pool
               PROVE  Continuations(c) + (IF AboutToOpen(c) THEN 1 ELSE 0) = 1
    BY DEF OneContinuation
  <2>1. /\ Conserved(NextToAccept, pool, reuse, live, conn, q, held, Waiting, Handlers)
        /\ held \in [Threads -> Handlers \cup {NoHandler}] /\ pool \subseteq Conns
    BY <1>1 DEF IInv, MembersOK, Conserved, Owned
  <2>2. \A h \in Handlers : Continues(h, c) => h \in ConnectionHandlers
    BY HandlersAre
  <2>3. Continuations(c) + One(c \in Waiting) = 1
    BY <2>1, <2>2, ConservedContinues
  <2>4. c \in Waiting <=> AboutToOpen(c)
    BY <2>1 DEF Waiting
  <2> QED
    BY <2>3, <2>4 DEF One
<1> QED
  BY <1>1, ServerInv, PTL

\* The object of the next accept is as reset_socket() or the allocator leaves
\* it, whatever its previous use was and however the accept before it ended.
THEOREM CleanAccept == Spec => []NextAcceptIsClean
<1>1. IInv => NextAcceptIsClean
  BY DEF IInv
<1> QED
  BY <1>1, ServerInv, PTL

-----------------------------------------------------------------------------
(* The server implements ConnectionPool *)

\* The empty server is the empty pool.
LEMMA PoolInit == Init => Pool!Init
<1> SUFFICES ASSUME Init PROVE Pool!Init
  OBVIOUS
<1>1. pool = {} /\ reuse = <<>> /\ conn = [c \in Conns |-> NewConnection] /\ acc = NoConn
  BY DEF Init, ManagerInit
<1>2. Range(reuse) = {} /\ NextToAccept = {}
  BY <1>1 DEF Range, NextToAccept
<1>3. Place(NextToAccept) = [c \in Conns |-> "none"]
  BY <1>1, <1>2 DEF Place
<1>4. IsOpen = [c \in Conns |-> FALSE]
  BY <1>1 DEF IsOpen, NewConnection
<1> QED
  BY <1>3, <1>4 DEF Pool!Init

\* Every step of the server is one of the pool, or none.
LEMMA PoolNext ==
  ASSUME IInv, [Next]_vars
  PROVE  Pool!Next
<1>1. Gives /\ IInv'
  BY StepKeeps
<1>2. Owned(NextToAccept, pool, reuse, live) /\ Owned(NextToAccept', pool', reuse', live')
      /\ RestClosed(NextToAccept', pool', conn')
  BY <1>1 DEF IInv, Conserved
<1>3. \A c, d \in pool' \ pool : c = d
  BY <1>1 DEF Gives, NextToAccept
<1> DEFINE p == PlaceOf(NextToAccept, pool, reuse)
           o == OpenIn(conn)
           p2 == PlaceOf(NextToAccept', pool', reuse')
           o2 == OpenIn(conn')
<1>4. PoolAction(p, o, p2, o2, MaxConn)
  BY <1>1, <1>2, <1>3, PoolStep DEF Gives
<1>5. /\ p = Place(NextToAccept) /\ p2 = Place(NextToAccept)'
      /\ o = IsOpen /\ o2 = IsOpen'
  BY DEF PlaceOf, Place, OpenIn, IsOpen
<1> HIDE DEF p, o, p2, o2
<1>6. /\ p2 \in [Conns -> Pool!Places] /\ o2 \in [Conns -> BOOLEAN]
      /\ \A c \in Conns : p2[c] # p[c] => <<p[c], p2[c]>> \in Pool!Moves /\ (p[c] = "pool" => ~o[c])
  BY <1>4 DEF PoolAction, Pool!Places, Pool!Moves
<1>7. /\ At(p2, "pool") \ At(p, "pool") # {} =>
            /\ Cardinality(At(p2, "pool") \ At(p, "pool")) = 1
            /\ MaxConn # 0 => Cardinality(At(p2, "pool")) <= MaxConn
      /\ \A c \in Conns : p2[c] \in {"none", "reuse"} => ~o2[c]
      /\ Cardinality(At(p2, "reuse")) <= MaxReuse
  BY <1>4 DEF PoolAction
<1>8. \A S : Pool!Cardinality(S) = Cardinality(S)
  BY DEF Pool!Cardinality, Cardinality
<1>9. Pool!Admits
  BY <1>5, <1>7, <1>8 DEF Pool!Admits, Pool!In, At
<1>10. Pool!Closes
  BY <1>5, <1>6, <1>7 DEF Pool!Closes, Pool!Moved
<1>11. Pool!Cardinality(Pool!In(p2, "reuse")) <= MaxReuse
  BY <1>7, <1>8 DEF Pool!In, At
<1> QED
  BY <1>5, <1>6, <1>9, <1>10, <1>11 DEF Pool!Next, Pool!Moved

\* The server implements the abstract pool with n_max_conn_ as its limit, although
\* other threads destroy, park and free connections between the comparison with
\* n_connection() and the insertion into pool_, which hold pool_lock_ each on its
\* own: one accept is outstanding at most, so whoever compared is the next to insert.
THEOREM Refinement == Spec => ImplementsPool
<1>1. Init => IInv /\ Pool!Init
  BY ServerInit, PoolInit
<1>2. IInv /\ [Next]_vars => IInv' /\ Pool!Next
  BY StepKeeps, PoolNext
<1> QED
  BY <1>1, <1>2, PTL DEF Spec, ImplementsPool, Pool!Spec

-----------------------------------------------------------------------------
(* With one io thread nothing of a connection is left behind *)

\* Neither the queue nor a thread has a handler of a set.
None(s, h, A) == (\A i \in DOMAIN s : s[i] \notin A) /\ (\A t \in Threads : h[t] \notin A)

\* handle_destroy is the last handler of its connection in the queue, none follows
\* it when a thread has it, and none is left of a connection outside the pool.
DestroyLast(s, c) ==
    \A i, j \in DOMAIN s : (s[i] \in Destroys(c) /\ s[j] \in HandlersOf(c)) => j <= i
InLine(c, pl, s, h) ==
    /\ DestroyLast(s, c)
    /\ \A t \in Threads : \A j \in DOMAIN s : h[t] \in Destroys(c) => s[j] \notin HandlersOf(c)
    /\ c \notin pl => None(s, h, HandlersOf(c))
Line(pl, s, h) == \A c \in Conns : InLine(c, pl, s, h)

\* What is posted for a connection finds it in the pool and handle_destroy not
\* pending.
Follows(c, pl, s, h, u) ==
    /\ DestroyLast(u, c)
    /\ (\E i \in DOMAIN u : u[i] \in HandlersOf(c)) => c \in pl /\ None(s, h, Destroys(c))

\* A sequence without handlers of a connection may follow any.
LEMMA NoneFollows ==
  ASSUME NEW c, NEW pl, NEW s, NEW h, NEW u, \A i \in DOMAIN u : u[i] \notin HandlersOf(c)
  PROVE  Follows(c, pl, s, h, u)
  BY HandlerSets DEF Follows, DestroyLast

\* The queue stays in line when what follows is posted.
LEMMA PostedInLine ==
  ASSUME NEW H, NEW s \in Seq(H), NEW u \in Seq(H), NEW h, NEW c, NEW pl,
         InLine(c, pl, s, h), Follows(c, pl, s, h, u)
  PROVE  InLine(c, pl, s \o u, h)
<1> DEFINE w == s \o u
           n == Len(s)
<1>1. n \in Nat /\ Len(u) \in Nat /\ DOMAIN s = 1 .. n /\ DOMAIN u = 1 .. Len(u)
  BY LenProperties
<1>2. Len(w) = n + Len(u) /\ DOMAIN w = 1 .. Len(w)
  BY ConcatProperties, LenProperties
<1>3. ASSUME NEW i \in DOMAIN w
      PROVE  \/ i \in DOMAIN s /\ w[i] = s[i]
             \/ i - n \in DOMAIN u /\ w[i] = u[i - n] /\ i > n
  <2>1. i \in Int /\ 1 <= i /\ i <= n + Len(u)
    BY <1>1, <1>2
  <2>2. w[i] = IF i <= n THEN s[i] ELSE u[i - n]
    BY <2>1, <1>1, <1>2, ConcatProperties
  <2> HIDE DEF w
  <2> QED
    BY <1>1, <2>1, <2>2
<1> HIDE DEF w, n
<1>4. Destroys(c) \subseteq HandlersOf(c)
  BY HandlerSets
<1>5. DestroyLast(w, c)
  <2> SUFFICES ASSUME NEW i \in DOMAIN w, NEW j \in DOMAIN w,
                      w[i] \in Destroys(c), w[j] \in HandlersOf(c)
               PROVE  j <= i
    BY DEF DestroyLast
  <2>1. i \in Int /\ j \in Int
    BY <1>1, <1>2
  <2>2. CASE j \in DOMAIN s /\ w[j] = s[j]
    <3>1. CASE i \in DOMAIN s /\ w[i] = s[i]
      BY <2>2, <3>1 DEF InLine, DestroyLast
    <3>2. CASE i > n
      BY <1>1, <2>1, <2>2, <3>2
    <3> QED
      BY <1>3, <3>1, <3>2
  <2>3. CASE j - n \in DOMAIN u /\ w[j] = u[j - n]
    <3>1. None(s, h, Destroys(c))
      BY <2>3 DEF Follows
    <3>2. i - n \in DOMAIN u /\ w[i] = u[i - n]
      BY <1>3, <3>1 DEF None
    <3>3. j - n <= i - n
      BY <2>3, <3>2 DEF Follows, DestroyLast
    <3> QED
      BY <1>1, <2>1, <3>3
  <2> QED
    BY <1>3, <2>2, <2>3
<1>6. ASSUME NEW t \in Threads, NEW j \in DOMAIN w, h[t] \in Destroys(c)
      PROVE  w[j] \notin HandlersOf(c)
  <2>1. ~None(s, h, Destroys(c))
    BY <1>6 DEF None
  <2>2. \A i \in DOMAIN u : u[i] \notin HandlersOf(c)
    BY <2>1 DEF Follows
  <2>3. \A i \in DOMAIN s : s[i] \notin HandlersOf(c)
    BY <1>6 DEF InLine
  <2> QED
    BY <1>3, <2>2, <2>3
<1>7. ASSUME c \notin pl PROVE None(w, h, HandlersOf(c))
  <2>1. \A i \in DOMAIN u : u[i] \notin HandlersOf(c)
    BY <1>7 DEF Follows
  <2>2. None(s, h, HandlersOf(c))
    BY <1>7 DEF InLine
  <2> QED
    BY <1>3, <2>1, <2>2 DEF None
<1>8. InLine(c, pl, w, h)
  BY <1>5, <1>6, <1>7 DEF InLine
<1> QED
  BY <1>8 DEF w

\* What is left of the queue when its head is gone.
LEMMA TailInLine ==
  ASSUME NEW H, NEW s \in Seq(H), s # <<>>, NEW c, DestroyLast(s, c)
  PROVE  /\ DestroyLast(Tail(s), c)
         /\ \A i \in DOMAIN Tail(s) : i + 1 \in DOMAIN s /\ Tail(s)[i] = s[i + 1]
         /\ Head(s) \in Destroys(c) => \A i \in DOMAIN Tail(s) : Tail(s)[i] \notin HandlersOf(c)
<1> DEFINE w == Tail(s)
<1>1. /\ w \in Seq(H) /\ Len(w) = Len(s) - 1 /\ \A i \in 1 .. Len(w) : w[i] = s[i + 1]
      /\ Head(s) = s[1] /\ Len(s) \in Nat /\ Len(s) >= 1
  BY HeadTailProperties, LenProperties, EmptySeq
<1>2. DOMAIN s = 1 .. Len(s) /\ DOMAIN w = 1 .. Len(w)
  BY <1>1, LenProperties
<1>3. \A i \in DOMAIN w : i \in Int /\ i >= 1 /\ i + 1 \in DOMAIN s /\ w[i] = s[i + 1]
  BY <1>1, <1>2
<1> HIDE DEF w
<1>4. DestroyLast(w, c)
  <2> SUFFICES ASSUME NEW i \in DOMAIN w, NEW j \in DOMAIN w,
                      w[i] \in Destroys(c), w[j] \in HandlersOf(c)
               PROVE  j <= i
    BY DEF DestroyLast
  <2>1. j + 1 <= i + 1
    BY <1>3 DEF DestroyLast
  <2> QED
    BY <1>3, <2>1
<1>5. ASSUME s[1] \in Destroys(c), NEW i \in DOMAIN w PROVE w[i] \notin HandlersOf(c)
  <2>1. 1 \in DOMAIN s /\ ~(i + 1 <= 1)
    BY <1>1, <1>2, <1>3
  <2> QED
    BY <1>3, <1>5, <2>1 DEF DestroyLast
<1> QED
  BY <1>1, <1>3, <1>4, <1>5 DEF w

OneThread == \A t, u \in Threads : t = u

\* A handler is gone from the line: the rest is in line, and nothing is left of a
\* connection whose handle_destroy it is.
AfterOne(x, s, h) ==
    \A c \in Conns : InLine(c, pool, s, h) /\ (x \in Destroys(c) => None(s, h, HandlersOf(c)))

\* The thread runs what it has taken.
LEMMA RunInLine ==
  ASSUME OneThread, NEW t \in Threads, NEW s, NEW h, NEW g, g[t] = NoHandler, Line(pool, s, h)
  PROVE  AfterOne(h[t], s, g)
<1> SUFFICES ASSUME NEW c \in Conns
             PROVE  InLine(c, pool, s, g) /\ (h[t] \in Destroys(c) => None(s, g, HandlersOf(c)))
  BY DEF AfterOne
<1>1. InLine(c, pool, s, h)
  BY DEF Line
<1>2. \A u \in Threads : g[u] = NoHandler
  BY DEF OneThread
<1>3. NoHandler \notin HandlersOf(c) /\ NoHandler \notin Destroys(c)
  BY HandlerSets
<1> QED
  BY <1>1, <1>2, <1>3 DEF InLine, None

\* The loop of stop() runs the head of the queue, when the threads have returned.
LEMMA DrainInLine ==
  ASSUME NEW H, NEW s \in Seq(H), s # <<>>, NEW h, \A t \in Threads : h[t] = NoHandler,
         Line(pool, s, h)
  PROVE  AfterOne(Head(s), Tail(s), h)
<1> SUFFICES ASSUME NEW c \in Conns
             PROVE  /\ InLine(c, pool, Tail(s), h)
                    /\ Head(s) \in Destroys(c) => None(Tail(s), h, HandlersOf(c))
  BY DEF AfterOne
<1>1. InLine(c, pool, s, h)
  BY DEF Line
<1>2. NoHandler \notin HandlersOf(c) /\ NoHandler \notin Destroys(c)
  BY HandlerSets
<1> DEFINE w == Tail(s)
<1>3. /\ DestroyLast(w, c)
      /\ \A i \in DOMAIN w : i + 1 \in DOMAIN s /\ w[i] = s[i + 1]
      /\ Head(s) \in Destroys(c) => \A i \in DOMAIN w : w[i] \notin HandlersOf(c)
  BY <1>1, TailInLine DEF InLine
<1> HIDE DEF w
<1>4. InLine(c, pool, w, h) /\ (Head(s) \in Destroys(c) => None(w, h, HandlersOf(c)))
  BY <1>1, <1>2, <1>3 DEF InLine, None
<1> QED
  BY <1>4 DEF w

\* A connection with an operation or a wait is pooled, and handle_destroy is not
\* pending for it.
LEMMA UnderWay ==
  ASSUME IInv, NEW c \in Conns, conn[c].op # "none" \/ conn[c].timer # "none"
  PROVE  c \in pool /\ Pending(q, held, Destroys(c)) = 0
<1>1. GoodConn(c, pool, conn, q, held, Waiting)
  BY DEF IInv, Conserved, GoodConns
<1>2. c \in pool
  BY <1>1 DEF GoodConn, Good
<1>3. conn[c].timer # "none" => Pending(q, held, Destroys(c)) = 0
  BY <1>1 DEF GoodConn, Good
<1>4. ASSUME conn[c].op # "none" PROVE Pending(q, held, Destroys(c)) = 0
  <2>1. /\ One(conn[c].op # "none") + One(conn[c].timer = "DESTROY")
              + Pending(q, held, Moving(c)) + One(c \in Waiting) = 1
        /\ Pending(q, held, Moving(c)) \in Nat /\ Pending(q, held, Destroys(c)) \in Nat
        /\ Pending(q, held, Destroys(c)) <= Pending(q, held, Moving(c))
    BY <1>1, <1>2 DEF GoodConn, Good
  <2>2. One(c \in Waiting) \in Nat /\ One(conn[c].timer = "DESTROY") \in Nat
    BY DEF One
  <2> QED
    BY <1>4, <2>1, <2>2 DEF One
<1> QED
  BY <1>2, <1>3, <1>4

\* What one connection posts, none of it handle_destroy, follows when the connection
\* is pooled and handle_destroy is not pending.
LEMMA OneFollows ==
  ASSUME NEW c, NEW u \in Seq(HandlersOf(c)), Hits(u, Destroys(c)) = 0, NEW pl,
         NEW H, NEW s \in Seq(H), NEW h, u # <<>> => c \in pl /\ Pending(s, h, Destroys(c)) = 0,
         NEW d
  PROVE  Follows(d, pl, s, h, u)
<1>1. \A i \in DOMAIN u : u[i] \in HandlersOf(c)
  BY LenProperties, ElementOfSeq
<1>2. \A i \in DOMAIN u : u[i] \notin Destroys(c)
  BY NoHits
<1>3. CASE d # c
  BY <1>1, <1>3, HandlerSets, NoneFollows
<1>4. CASE d = c
  <2>1. DestroyLast(u, c)
    BY <1>2 DEF DestroyLast
  <2>2. (\E i \in DOMAIN u : TRUE) => u # <<>>
    OBVIOUS
  <2>3. u # <<>> => c \in pl /\ None(s, h, Destroys(c))
    BY NothingPending DEF None
  <2> QED
    BY <1>4, <2>1, <2>2, <2>3 DEF Follows
<1> QED
  BY <1>3, <1>4

\* One handler posted follows in the same way, handle_destroy too.
LEMMA HandlerFollows ==
  ASSUME NEW c, NEW x \in HandlersOf(c), NEW pl, c \in pl,
         NEW H, NEW s \in Seq(H), NEW h, Pending(s, h, Destroys(c)) = 0, NEW d
  PROVE  Follows(d, pl, s, h, <<x>>)
<1>1. \A i \in DOMAIN <<x>> : i = 1 /\ <<x>>[i] = x
  OBVIOUS
<1>2. CASE d # c
  BY <1>1, <1>2, HandlerSets, NoneFollows
<1>3. CASE d = c
  <2>1. None(s, h, Destroys(c))
    BY NothingPending DEF None
  <2>2. DestroyLast(<<x>>, c)
    BY <1>1 DEF DestroyLast
  <2> QED
    BY <1>3, <2>1, <2>2 DEF Follows
<1> QED
  BY <1>2, <1>3

\* The handler of an accept concerns no connection.
LEMMA OtherFollows ==
  ASSUME NEW x, x \notin ConnectionHandlers, NEW c, NEW pl, NEW s, NEW h
  PROVE  Follows(c, pl, s, h, <<x>>)
<1>1. \A i \in DOMAIN <<x>> : <<x>>[i] \notin HandlersOf(c)
  BY HandlerSets
<1> QED
  BY <1>1, NoneFollows

-----------------------------------------------------------------------------
(* The handlers keep the queue in line *)

\* The handler of an operation runs.
LEMMA OpInLine ==
  ASSUME IInv, NEW x \in ConnectionHandlers, NEW rest \in Seq(Handlers), NEW later,
         Consumes(x, q, held, rest, later), AfterOne(x, rest, later), x.k = "op",
         ConnectionStep(HandleOp(Item(x.c, conn[x.c]), x.w, x.err), rest)
  PROVE  Line(pool', q', later)
<1> DEFINE c == x.c
<1>1. /\ c \in Conns /\ x \in Moving(c) /\ conn[c] \in CleanRecord
      /\ q \in Seq(Handlers) /\ GoodConns(pool, conn, q, held, Waiting)
  BY HandlerIs DEF IInv, Conserved
<1>2. /\ c \in pool /\ conn[c].op = "none" /\ conn[c].timer # "DESTROY"
      /\ Pending(rest, later, Destroys(c)) = 0
  BY <1>1, HandlerFinds
<1> DEFINE i == Item(c, conn[c])
<1>3. Fresh(i, c)
  BY <1>1, <1>2, NewItem
<1>4. PICK y \in HandleOp(i, x.w, x.err) : q' = rest \o y.out
  BY DEF ConnectionStep
<1>5. pool' = pool
  BY DEF ConnectionStep
<1> HIDE DEF i, c
<1>6. Moved(y, c)
  BY <1>1, <1>3, HandleOpMoves
<1> DEFINE u == y.out
<1>7. u \in Seq(HandlersOf(c)) /\ Hits(u, Destroys(c)) = 0 /\ q' = rest \o u
  BY <1>4, <1>6, ItemFields DEF Moved
<1> HIDE DEF u
<1>8. u \in Seq(Handlers)
  BY <1>7, HandlerSets, HandlersAre, SeqMonotonic
<1>9. ASSUME NEW d \in Conns PROVE InLine(d, pool, rest \o u, later)
  <2>1. Follows(d, pool, rest, later, u)
    BY <1>2, <1>7, OneFollows
  <2>2. InLine(d, pool, rest, later)
    BY DEF AfterOne
  <2> QED
    BY <1>8, <2>1, <2>2, PostedInLine
<1> QED
  BY <1>5, <1>7, <1>9 DEF Line

\* The handler of a socket timeout runs: it posts only what it aborts.
LEMMA TimeoutInLine ==
  ASSUME IInv, NEW x \in ConnectionHandlers, NEW rest \in Seq(Handlers), NEW later,
         Consumes(x, q, held, rest, later), AfterOne(x, rest, later), x.k = "timer", x.w # "DESTROY",
         ConnectionStep({handle_socket_timeout(Item(x.c, conn[x.c]), x.err)}, rest)
  PROVE  Line(pool', q', later)
<1> DEFINE c == x.c
           i == Item(c, conn[c])
           y == handle_socket_timeout(i, x.err)
<1>1. /\ c \in Conns /\ x \notin Moving(c) /\ conn[c] \in CleanRecord
      /\ q \in Seq(Handlers) /\ GoodConns(pool, conn, q, held, Waiting)
  BY HandlerIs DEF IInv, Conserved
<1>2. Pending(rest, later, Destroys(c)) = Pending(q, held, Destroys(c))
  BY <1>1, HandlerFinds
<1>3. q' = rest \o y.out /\ pool' = pool
  BY DEF ConnectionStep
<1>4. i \in Items(c) /\ i.r = conn[c] /\ i.out = <<>>
  BY <1>1, NewItem
<1>5. /\ y \in Items(c) /\ Hits(y.out, Destroys(c)) = 0
      /\ conn[c].op = "none" => y.out = <<>>
  <2>1. CASE x.err
    <3>1. y = i
      BY <2>1 DEF handle_socket_timeout
    <3> HIDE DEF i, y
    <3> QED
      BY <1>4, <3>1, HitsInNone
  <2>2. CASE ~x.err
    <3>1. y = CloseSocket(i)
      BY <2>2 DEF handle_socket_timeout
    <3> HIDE DEF i, y, c
    <3>2. /\ y \in Items(c) /\ Hits(y.out, Destroys(c)) = Hits(i.out, Destroys(c))
          /\ i.r.op = "none" => y.out = i.out
      BY <1>1, <1>4, <3>1, CloseKeeps
    <3> QED
      BY <1>4, <3>2, HitsInNone
  <2> QED
    BY <2>1, <2>2
<1> HIDE DEF i, y, c
<1> DEFINE u == y.out
<1>6. u \in Seq(HandlersOf(c)) /\ Hits(u, Destroys(c)) = 0 /\ q' = rest \o u
  BY <1>3, <1>5, ItemFields
<1>7. u # <<>> => c \in pool /\ Pending(rest, later, Destroys(c)) = 0
  BY <1>1, <1>2, <1>5, UnderWay
<1> HIDE DEF u
<1>8. u \in Seq(Handlers)
  BY <1>6, HandlerSets, HandlersAre, SeqMonotonic
<1>9. ASSUME NEW d \in Conns PROVE InLine(d, pool, rest \o u, later)
  <2>1. Follows(d, pool, rest, later, u)
    BY <1>6, <1>7, OneFollows
  <2>2. InLine(d, pool, rest, later)
    BY DEF AfterOne
  <2> QED
    BY <1>8, <2>1, <2>2, PostedInLine
<1> QED
  BY <1>3, <1>6, <1>9 DEF Line

\* handle_destroy runs: nothing of its connection is left when it leaves the pool.
LEMMA DestroyInLine ==
  ASSUME IInv, NEW x \in ConnectionHandlers, NEW rest \in Seq(Handlers), NEW later,
         Consumes(x, q, held, rest, later), AfterOne(x, rest, later), x.k = "timer", x.w = "DESTROY",
         destroy_connection(x.c, rest)
  PROVE  Line(pool', q', later)
<1> DEFINE c == x.c
<1>1. /\ c \in Conns /\ x \in Moving(c) /\ x \in Destroys(c) /\ conn[c] \in CleanRecord
      /\ q \in Seq(Handlers) /\ GoodConns(pool, conn, q, held, Waiting)
  BY HandlerIs DEF IInv, Conserved
<1>2. conn[c].op = "none" /\ conn[c].timer = "none"
  BY <1>1, HandlerFinds
<1>3. pool' = pool \ {c}
  BY DEF destroy_connection, on_destroy_connection
<1>4. q' = rest
  <2>1. CASE Len(reuse) < MaxReuse
    BY <2>1 DEF destroy_connection
  <2>2. CASE ~(Len(reuse) < MaxReuse)
    <3>1. Delete(Item(c, conn[c])).out = <<>>
      BY <1>1, <1>2, DeleteQuiet
    <3>2. q' = rest \o Delete(Item(c, conn[c])).out
      BY <2>2 DEF destroy_connection
    <3> QED
      BY <3>1, <3>2, ConcatEmptySeq
  <2> QED
    BY <2>1, <2>2
<1> HIDE DEF c
<1>5. ASSUME NEW d \in Conns PROVE InLine(d, pool', rest, later)
  BY <1>1, <1>3 DEF AfterOne, InLine
<1> QED
  BY <1>4, <1>5 DEF Line

\* handle_accept runs, as far as its first lock: it posts nothing.
LEMMA AcceptInLine ==
  ASSUME NEW r, NEW x, NEW rest, NEW later, AfterOne(x, rest, later), handle_accept(r, x, rest)
  PROVE  Line(pool', q', later)
<1>1. pool' = pool /\ q' = rest
  BY DEF handle_accept, connVars
<1> QED
  BY <1>1 DEF AfterOne, Line

\* Whatever handler runs.
LEMMA HandleInLine ==
  ASSUME IInv, NEW r \in Runners, NEW x \in Handlers, NEW rest \in Seq(Handlers), NEW later,
         Consumes(x, q, held, rest, later), AfterOne(x, rest, later), Handle(r, x, rest)
  PROVE  Line(pool', q', later)
<1>1. CASE x.k = "accept" /\ handle_accept(r, x, rest)
  BY <1>1, AcceptInLine
<1>2. CASE HandleConnection(x, rest)
  <2>1. x.k = "op" \/ x.k = "timer"
    BY <1>2 DEF HandleConnection
  <2>2. x \in ConnectionHandlers
    BY <2>1, HandlersAre DEF AcceptHandlers
  <2> QED
    BY <1>2, <2>2, OpInLine, TimeoutInLine, DestroyInLine DEF HandleConnection
<1> QED
  BY <1>1, <1>2 DEF Handle

-----------------------------------------------------------------------------
(* The other steps keep it in line *)

\* What the invariant says of the queue and the threads.
LEMMA QueueIs ==
  ASSUME IInv
  PROVE  /\ q \in Seq(Handlers) /\ held \in [Threads -> Handlers \cup {NoHandler}]
         /\ phase = "draining" => \A t \in Threads : held[t] = NoHandler
  BY DEF IInv, Conserved, MembersOK, PhaseOK

\* An io thread runs what it has taken, or the loop of stop() the oldest handler.
LEMMA RunsInLine ==
  ASSUME OneThread, IInv, Line(pool, q, held), Drain \/ \E t \in Threads : RunHandler(t)
  PROVE  Line(pool', q', held')
<1>1. ASSUME NEW t \in Threads, RunHandler(t) PROVE Line(pool', q', held')
  <2> DEFINE g == held'
  <2>1. held[t] \in Handlers /\ Handle(t, held[t], q) /\ t \in Runners
    BY <1>1, QueueIs DEF RunHandler, Runners
  <2>2. g[t] = NoHandler /\ \A u \in Threads \ {t} : g[u] = held[u]
    BY <1>1, QueueIs DEF RunHandler
  <2>3. g = held'
    OBVIOUS
  <2> HIDE DEF g
  <2>4. Consumes(held[t], q, held, q, g)
    BY <2>2, QueueIs, RunConsumes
  <2>5. AfterOne(held[t], q, g)
    BY <2>2, RunInLine
  <2>6. Line(pool', q', g)
    BY <2>1, <2>4, <2>5, QueueIs, HandleInLine
  <2> QED
    BY <2>3, <2>6
<1>2. CASE Drain
  <2>1. /\ q # <<>> /\ Handle(Owner, Head(q), Tail(q)) /\ Owner \in Runners
        /\ held' = held /\ \A t \in Threads : held[t] = NoHandler
    BY <1>2, QueueIs DEF Drain, Runners
  <2>2. /\ Consumes(Head(q), q, held, Tail(q), held)
        /\ Head(q) \in Handlers /\ Tail(q) \in Seq(Handlers)
    BY <2>1, QueueIs, HeadConsumes
  <2>3. AfterOne(Head(q), Tail(q), held)
    BY <2>1, QueueIs, DrainInLine
  <2>4. Line(pool', q', held)
    BY <2>1, <2>2, <2>3, HandleInLine
  <2> QED
    BY <2>1, <2>4
<1> QED
  BY <1>1, <1>2

\* The thread takes the oldest handler: it is still the first to run.
LEMMA TakeInLine ==
  ASSUME OneThread, IInv, Line(pool, q, held), NEW t \in Threads, Take(t)
  PROVE  Line(pool', q', held')
<1> DEFINE w == Tail(q)
           g == held'
           x == Head(q)
<1>1. /\ q # <<>> /\ pool' = pool /\ q' = w /\ held' = [held EXCEPT ![t] = x]
      /\ held[t] = NoHandler
  BY DEF Take, TakeHandler, connVars
<1>2. \A u \in Threads : g[u] = x
  BY <1>1, QueueIs DEF OneThread
<1>3. \A u \in Threads : held[u] = NoHandler
  BY <1>1 DEF OneThread
<1>4. 1 \in DOMAIN q /\ x = q[1]
  BY <1>1, QueueIs, LenProperties, EmptySeq
<1>5. ASSUME NEW c \in Conns
      PROVE  /\ DestroyLast(w, c)
             /\ \A i \in DOMAIN w : i + 1 \in DOMAIN q /\ w[i] = q[i + 1]
             /\ x \in Destroys(c) => \A i \in DOMAIN w : w[i] \notin HandlersOf(c)
  BY <1>1, QueueIs, TailInLine DEF Line, InLine
<1>6. w = q' /\ g = held'
  BY <1>1
<1> HIDE DEF w, g, x
<1>7. ASSUME NEW c \in Conns PROVE InLine(c, pool, w, g)
  <2>1. InLine(c, pool, q, held)
    BY DEF Line
  <2> QED
    BY <1>2, <1>4, <1>5, <2>1 DEF InLine, None
<1> QED
  BY <1>1, <1>6, <1>7 DEF Line

\* asio posts the handler of what ends, last in the queue.
LEMMA AsioInLine ==
  ASSUME IInv, Line(pool, q, held), NEW c \in Conns, Completion(c) \/ Expiry(c)
  PROVE  Line(pool', q', held')
<1>1. conn[c] \in CleanRecord /\ pool' = pool /\ held' = held
  BY DEF IInv, Conserved, Completion, Expiry, OpCompletes, TimerExpires
<1>2. conn[c].op # "none" \/ conn[c].timer # "none"
  BY DEF Completion, Expiry, OpCompletes, TimerExpires
<1>3. \E x \in HandlersOf(c) : q' = Append(q, x)
  <2>1. CASE OpCompletes(c)
    <3>1. conn[c].op \in Operations
      BY <1>1, <2>1, RecordFields DEF OpCompletes
    <3> QED
      BY <2>1, <3>1, OpHandlerIs DEF OpCompletes
  <2>2. CASE TimerExpires(c)
    <3>1. conn[c].timer \in Waits
      BY <1>1, <2>2, RecordFields DEF TimerExpires
    <3> QED
      BY <2>2, <3>1, TimerHandlerIs DEF TimerExpires
  <2> QED
    BY <2>1, <2>2 DEF Completion, Expiry
<1>4. PICK x \in HandlersOf(c) : q' = Append(q, x)
  BY <1>3
<1>5. x \in Handlers /\ q \in Seq(Handlers)
  BY HandlerSets, HandlersAre, QueueIs
<1>6. q' = q \o <<x>> /\ <<x>> \in Seq(Handlers)
  BY <1>4, <1>5, AppendIsConcat
<1>7. c \in pool /\ Pending(q, held, Destroys(c)) = 0
  BY <1>2, UnderWay
<1>8. ASSUME NEW d \in Conns PROVE InLine(d, pool, q \o <<x>>, held)
  <2>1. Follows(d, pool, q, held, <<x>>)
    BY <1>5, <1>7, HandlerFollows
  <2>2. InLine(d, pool, q, held)
    BY DEF Line
  <2> QED
    BY <1>5, <1>6, <2>1, <2>2, PostedInLine
<1> QED
  BY <1>1, <1>6, <1>8 DEF Line

\* stop() closes the acceptor and what is pooled: what it aborts is posted.
LEMMA JoinInLine ==
  ASSUME IInv, Line(pool, q, held), Join
  PROVE  Line(pool', q', held')
<1> DEFINE others == IF accepting THEN <<AcceptHandler(TRUE)>> ELSE <<>>
           S == { c \in pool : conn[c].op # "none" }
<1>1. CloseAll(others) /\ UNCHANGED <<pool, held>>
  BY DEF Join
<1>2. PICK order \in SetToSeqs(S) :
         q' = q \o others \o [i \in DOMAIN order |-> OpHandler(order[i], conn[order[i]].op, TRUE)]
  BY <1>1 DEF CloseAll
<1> DEFINE s == [i \in DOMAIN order |-> OpHandler(order[i], conn[order[i]].op, TRUE)]
<1>3. S \subseteq Conns /\ conn \in [Conns -> CleanRecord] /\ \A c \in S : conn[c].op # "none"
  BY DEF IInv, Conserved, Owned
<1>4. s \in Seq(ConnectionHandlers) /\ \A i \in DOMAIN order : Aborts(s[i], order[i])
  <2> HIDE DEF S
  <2> QED
    BY <1>3, AbortedAreHandlers
<1>5. DOMAIN s = DOMAIN order /\ \A i \in DOMAIN order : order[i] \in S
  BY DEF SetToSeqs
<1>6. q' = (q \o others) \o s
  BY <1>2
<1> HIDE DEF s
<1>7. s \in Seq(Handlers)
  BY <1>4, HandlersAre, SeqMonotonic
<1>8. others \in Seq(Handlers) /\ \A i \in DOMAIN others : others[i] \notin ConnectionHandlers
  <2> DEFINE x == AcceptHandler(TRUE)
  <2>1. x \in Handlers /\ x \notin ConnectionHandlers
    BY HandlersAre
  <2>2. others = <<x>> \/ others = <<>>
    OBVIOUS
  <2> HIDE DEF x, others
  <2>3. <<x>> \in Seq(Handlers) /\ \A i \in DOMAIN <<x>> : <<x>>[i] \notin ConnectionHandlers
    BY <2>1
  <2>4. <<>> \in Seq(Handlers) /\ \A i \in DOMAIN <<>> : <<>>[i] \notin ConnectionHandlers
    BY EmptySeq
  <2>5. CASE others = <<x>>
    BY <2>3, <2>5
  <2>6. CASE others = <<>>
    BY <2>4, <2>6
  <2> QED
    BY <2>2, <2>5, <2>6
<1> HIDE DEF others
<1> DEFINE w == q \o others
<1>9. w \in Seq(Handlers)
  BY <1>8, QueueIs, ConcatProperties
<1>10. ASSUME NEW d \in Conns PROVE InLine(d, pool, w, held)
  <2>1. Follows(d, pool, q, held, others)
    BY <1>8, HandlerSets, NoneFollows
  <2>2. InLine(d, pool, q, held)
    BY DEF Line
  <2> QED
    BY <1>8, <2>1, <2>2, QueueIs, PostedInLine
<1> HIDE DEF w
<1>11. ASSUME NEW d \in Conns PROVE Follows(d, pool, w, held, s)
  <2>1. DestroyLast(s, d)
    BY <1>4, <1>5, AbortsOnly DEF DestroyLast
  <2>2. ASSUME NEW i \in DOMAIN s, s[i] \in HandlersOf(d)
        PROVE  d \in S
    <3>1. s[i] \in HandlersOf(order[i])
      BY <1>4, <1>5 DEF Aborts
    <3>2. order[i] = d
      BY <2>2, <3>1, HandlerSets
    <3> QED
      BY <1>5, <3>2
  <2>3. ASSUME d \in S PROVE d \in pool /\ None(w, held, Destroys(d))
    <3>1. d \in pool /\ Pending(q, held, Destroys(d)) = 0
      BY <1>3, <2>3, UnderWay
    <3>2. /\ \A t \in Threads : held[t] \notin Destroys(d)
          /\ \A i \in DOMAIN q : q[i] \notin Destroys(d)
      BY <3>1, QueueIs, NothingPending
    <3>3. \A i \in DOMAIN others : others[i] \notin Destroys(d)
      BY <1>8, HandlerSets
    <3>4. Hits(w, Destroys(d)) = 0
      <4>1. Hits(q, Destroys(d)) = 0 /\ Hits(others, Destroys(d)) = 0
        BY <1>8, <3>2, <3>3, QueueIs, NoHits
      <4>2. Hits(q \o others, Destroys(d)) = Hits(q, Destroys(d)) + Hits(others, Destroys(d))
        BY <1>8, QueueIs, HitsInConcat
      <4> QED
        BY <4>1, <4>2 DEF w
    <3>5. \A i \in DOMAIN w : w[i] \notin Destroys(d)
      BY <1>9, <3>4, NoHits
    <3> QED
      BY <3>1, <3>2, <3>5 DEF None
  <2> QED
    BY <2>1, <2>2, <2>3 DEF Follows
<1>12. ASSUME NEW d \in Conns PROVE InLine(d, pool, w \o s, held)
  BY <1>7, <1>9, <1>10, <1>11, PostedInLine
<1> QED
  BY <1>1, <1>6, <1>12 DEF Line, w

\* Nothing is pending when stop() deletes conn_.
LEMMA FinishStopInLine ==
  ASSUME IInv, Line(pool, q, held), FinishStop
  PROVE  Line(pool', q', held')
<1>1. q = <<>> /\ UNCHANGED <<pool, held>>
  BY DEF FinishStop, NothingToRun
<1>2. q' = q
  <2>1. CASE acc = NoConn
    BY <2>1 DEF FinishStop
  <2>2. CASE acc # NoConn
    <3>1. acc \in Conns /\ conn \in [Conns -> CleanRecord]
      BY <2>2 DEF IInv, MembersOK, Conserved
    <3>2. conn[acc] \in CleanRecord /\ conn[acc].op = "none" /\ conn[acc].timer = "none"
      BY <3>1 DEF FinishStop, NothingToRun
    <3>3. Delete(Item(acc, conn[acc])).out = <<>>
      BY <3>1, <3>2, DeleteQuiet
    <3> QED
      BY <1>1, <2>2, <3>3 DEF FinishStop
  <2> QED
    BY <2>1, <2>2
<1> QED
  BY <1>1, <1>2

\* A client arrives, or the accept fails: its handler concerns no connection.
LEMMA ArrivalInLine ==
  ASSUME IInv, Line(pool, q, held), AcceptCompletes
  PROVE  Line(pool', q', held')
<1>1. UNCHANGED <<pool, held>>
  BY DEF AcceptCompletes
<1>2. PICK err \in BOOLEAN : q' = Append(q, AcceptHandler(err))
  BY DEF AcceptCompletes
<1> DEFINE x == AcceptHandler(err)
<1>3. x \in Handlers /\ x \notin ConnectionHandlers /\ q' = Append(q, x)
  BY <1>2, HandlersAre
<1> HIDE DEF x
<1>4. q' = q \o <<x>> /\ <<x>> \in Seq(Handlers)
  BY <1>3, QueueIs, AppendIsConcat
<1>5. ASSUME NEW c \in Conns PROVE InLine(c, pool, q \o <<x>>, held)
  <2>1. Follows(c, pool, q, held, <<x>>)
    BY <1>3, OtherFollows
  <2>2. InLine(c, pool, q, held)
    BY DEF Line
  <2> QED
    BY <1>4, <2>1, <2>2, QueueIs, PostedInLine
<1> QED
  BY <1>1, <1>4, <1>5 DEF Line

\* The next step of handle_accept: it posts for the connection it has pooled, which
\* handle_destroy is not pending for, or the handler of an accept that fails at once.
LEMMA AcceptStepInLine ==
  ASSUME IInv, Line(pool, q, held), NEW r \in Runners, AcceptStep(r)
  PROVE  Line(pool', q', held')
<1>1. ASSUME NEW d \in Conns PROVE InLine(d, pool, q, held)
  BY DEF Line
<1>2. CASE InsertAccepted(r)
  <2>1. pool' = pool \cup {acc} /\ UNCHANGED <<q, held>>
    BY <1>2 DEF InsertAccepted, on_create_connection
  <2>2. \A d \in Conns : InLine(d, pool', q, held)
    BY <1>1, <2>1 DEF InLine
  <2> QED
    BY <2>1, <2>2 DEF Line
<1>3. CASE OpenAccepted(r)
  <2> DEFINE i == Item(acc, conn[acc])
  <2>1. /\ step[r] = "inserted" /\ UNCHANGED <<pool, held>>
        /\ \E s \in open(i, sslConnect) : q' = q \o s.out
    BY <1>3 DEF OpenAccepted
  <2>2. acc \in Conns /\ Waiting = { c \in Conns : c = acc } /\ q \in Seq(Handlers)
    BY <2>1, InsideAlone
  <2>3. GoodConn(acc, pool, conn, q, held, Waiting)
    BY <2>2 DEF IInv, Conserved, GoodConns
  <2>4. /\ acc \in pool /\ conn[acc] \in CleanRecord
        /\ conn[acc].op = "none" /\ conn[acc].timer # "DESTROY" /\ Pending(q, held, Destroys(acc)) = 0
    <3>1. acc \in pool /\ conn[acc] \in CleanRecord
      BY <2>2, <2>3 DEF GoodConn, Good
    <3>2. /\ One(conn[acc].op # "none") + One(conn[acc].timer = "DESTROY")
                + Pending(q, held, Moving(acc)) + 1 = 1
          /\ Pending(q, held, Moving(acc)) \in Nat /\ Pending(q, held, Destroys(acc)) \in Nat
          /\ Pending(q, held, Destroys(acc)) <= Pending(q, held, Moving(acc))
      BY <2>2, <2>3, <3>1 DEF GoodConn, Good, One
    <3> QED
      BY <3>1, <3>2 DEF One
  <2>5. PICK s \in open(i, sslConnect) : q' = q \o s.out
    BY <2>1
  <2>6. Fresh(i, acc)
    BY <2>4, NewItem
  <2> HIDE DEF i
  <2>7. Moved(s, acc)
    BY <2>2, <2>5, <2>6, OpenMoves
  <2> DEFINE u == s.out
  <2>8. u \in Seq(HandlersOf(acc)) /\ Hits(u, Destroys(acc)) = 0 /\ q' = q \o u
    BY <2>5, <2>7, ItemFields DEF Moved
  <2> HIDE DEF u
  <2>9. u \in Seq(Handlers)
    BY <2>8, HandlerSets, HandlersAre, SeqMonotonic
  <2>10. ASSUME NEW d \in Conns PROVE InLine(d, pool, q \o u, held)
    <3>1. Follows(d, pool, q, held, u)
      BY <2>2, <2>4, <2>8, OneFollows
    <3> QED
      BY <1>1, <2>2, <2>9, <3>1, PostedInLine
  <2> QED
    BY <2>1, <2>8, <2>10 DEF Line
<1>4. CASE DeleteRejected(r)
  <2>1. step[r] = "rejected" /\ UNCHANGED <<pool, held>> /\ q' = q \o Delete(Item(acc, conn[acc])).out
    BY <1>4 DEF DeleteRejected
  <2>2. acc \in Conns /\ ~InPoolByNow /\ q \in Seq(Handlers)
    BY <2>1, InsideAlone
  <2>3. acc \notin pool /\ GoodConn(acc, pool, conn, q, held, Waiting)
    BY <2>2, ConnsAssumption, AccIsOut DEF IInv, Conserved, GoodConns
  <2>4. conn[acc] \in CleanRecord /\ conn[acc].op = "none" /\ conn[acc].timer = "none"
    BY <2>3 DEF GoodConn, Good
  <2>5. Delete(Item(acc, conn[acc])).out = <<>>
    BY <2>2, <2>4, DeleteQuiet
  <2>6. q' = q
    BY <2>1, <2>2, <2>5, ConcatEmptySeq
  <2> QED
    BY <2>1, <2>6
<1>5. CASE RenewAccept(r)
  BY <1>5 DEF RenewAccept
<1>6. CASE AcceptAgain(r)
  <2> DEFINE x == AcceptHandler(TRUE)
  <2>1. UNCHANGED <<pool, held>> /\ (q' = q \/ q' = Append(q, x))
    BY <1>6 DEF AcceptAgain, connVars
  <2>2. x \in Handlers /\ x \notin ConnectionHandlers
    BY HandlersAre
  <2> HIDE DEF x
  <2>3. ASSUME NEW d \in Conns PROVE InLine(d, pool, q \o <<x>>, held)
    <3>1. Follows(d, pool, q, held, <<x>>) /\ <<x>> \in Seq(Handlers)
      BY <2>2, OtherFollows
    <3> QED
      BY <1>1, <3>1, QueueIs, PostedInLine
  <2>4. q' = q \/ q' = q \o <<x>>
    BY <2>1, <2>2, QueueIs, AppendIsConcat
  <2> QED
    BY <2>1, <2>3, <2>4 DEF Line
<1> QED
  BY <1>2, <1>3, <1>4, <1>5, <1>6 DEF AcceptStep

\* With one io thread every step keeps the queue in line.
LEMMA StepInLine ==
  ASSUME OneThread, IInv, Line(pool, q, held), [Next]_vars
  PROVE  Line(pool', q', held')
<1>1. ASSUME UNCHANGED <<pool, q, held>> PROVE Line(pool', q', held')
  BY <1>1
<1>2. CASE UNCHANGED vars
  BY <1>1, <1>2 DEF vars, managerVars, connVars
<1>3. CASE StartFails \/ Start \/ FinishStart \/ Stop \/ SetSsl
  BY <1>1, <1>3 DEF StartFails, Start, FinishStart, Stop, SetSsl, managerVars, connVars
<1>4. CASE ClearReuse /\ UNCHANGED acceptVars
  BY <1>1, <1>4 DEF ClearReuse
<1>5. CASE Join \/ FinishStop \/ AcceptCompletes
  BY <1>5, JoinInLine, FinishStopInLine, ArrivalInLine
<1>6. CASE Drain \/ \E t \in Threads : RunHandler(t)
  BY <1>6, RunsInLine
<1>7. ASSUME NEW t \in Threads, Take(t) PROVE Line(pool', q', held')
  BY <1>7, TakeInLine
<1>8. ASSUME NEW c \in Conns, Completion(c) \/ Expiry(c) PROVE Line(pool', q', held')
  BY <1>8, AsioInLine
<1>9. ASSUME NEW r \in Runners, AcceptStep(r) PROVE Line(pool', q', held')
  BY <1>9, AcceptStepInLine
<1> QED
  BY <1>2, <1>3, <1>4, <1>5, <1>6, <1>7, <1>8, <1>9 DEF Next, OwnerStep

\* With one io thread a connection that leaves the pool has no handler in the queue
\* or taken, no operation and no wait: the socket and timer that handle_destroy parks
\* or deletes are used by nobody ("ensure execute lastly!").
THEOREM Quiet == ASSUME OneThread PROVE Spec => []QuietOutsidePool
<1>1. Init => Line(pool, q, held)
  <2> SUFFICES ASSUME Init PROVE Line(pool, q, held)
    OBVIOUS
  <2>1. q = <<>> /\ held = [t \in Threads |-> NoHandler]
    BY DEF Init, ManagerInit
  <2> QED
    BY <2>1, HandlerSets DEF Line, InLine, DestroyLast, None
<1>2. IInv /\ Line(pool, q, held) /\ [Next]_vars => Line(pool, q, held)'
  BY StepInLine
<1>3. IInv /\ Line(pool, q, held) => QuietOutsidePool
  <2> SUFFICES ASSUME IInv, Line(pool, q, held), NEW c \in Conns \ pool
               PROVE  /\ Queued(c) = {} /\ Taken(c) = {}
                      /\ conn[c].op = "none" /\ conn[c].timer = "none"
    BY DEF QuietOutsidePool
  <2>1. None(q, held, HandlersOf(c))
    BY DEF Line, InLine
  <2>2. \A h \in Handlers : Of(h, c) => h \in HandlersOf(c)
    <3>1. \A h \in AcceptHandlers : h.k = "accept"
      BY DEF AcceptHandlers
    <3> QED
      BY <3>1, HandlersAre DEF Of, HandlersOf
  <2>3. ~Of(NoHandler, c)
    BY DEF Of, NoHandler
  <2>4. \A i \in DOMAIN q : q[i] \in Handlers
    BY QueueIs, LenProperties, ElementOfSeq
  <2>5. Queued(c) = {}
    BY <2>1, <2>2, <2>4 DEF Queued, None
  <2>6. Taken(c) = {}
    BY <2>1, <2>2, <2>3, QueueIs DEF Taken, None
  <2>7. conn[c].op = "none" /\ conn[c].timer = "none"
    BY UnderWay
  <2> QED
    BY <2>5, <2>6, <2>7
<1> QED
  BY <1>1, <1>2, <1>3, ServerInv, PTL DEF Spec
=============================================================================
