----------------------------- MODULE AioManager -----------------------------
(***************************************************************************)
(* What AIO_Acceptor and AIO_Connector share: the table of sessions, their *)
(* creation and destruction, and the timer that walks the table            *)
(* (src/AOS/aos/net/AIO_Acceptor.cpp; AIO_Connector.cpp repeats it).       *)
(*                                                                         *)
(* pc[t] is what thread t of the Proactor_TaskPool is doing between two    *)
(* locked sections.  A section under the manager's lock_ is one step, and  *)
(* so is one under a session's lock_; the code that runs between them      *)
(* without a lock (destroy_session's look at the table, handle_time_out's  *)
(* walk) is a step of its own.  So is each computation of a pointer into   *)
(* the table, "ptr = arr_conn_ + i", which the code does before it takes   *)
(* the lock: max_session(int) may have moved the table by the time the     *)
(* pointer is used.                                                        *)
(***************************************************************************)
EXTENDS AioSession, FiniteSets

CONSTANTS
    Sessions,      \* the session objects the allocator can hand out
    NoSession,     \* the null pointer
    Threads,       \* the threads of the proactor pool
    FirstLimit,    \* max_conn_ at first
    Limits,        \* what max_session(int) is called with
    LockedWalk     \* handle_time_out walks under the lock (AIO_Connector)

ASSUME SessionsAssumption == NoSession \notin Sessions /\ IsFiniteSet(Sessions)
ASSUME LimitsAssumption ==
    FirstLimit \in Nat \ {0} /\ IsFiniteSet(Limits) /\ Limits \subseteq Nat \ {0}
ASSUME LockedWalkAssumption == LockedWalk \in BOOLEAN

VARIABLES
    slots,       \* arr_conn_
    curr,        \* curr_conn_
    maxConn,     \* max_conn_
    live,        \* the session objects that are allocated
    sess,        \* the record of each
    nOp,         \* n_op_a_ or n_op_c_: accepts or connects outstanding
    cancelling,  \* is_cancelling_
    timer,       \* timer_id_: none, or scheduled, or being handled
    hasTimeout,  \* timeout_ is not zero
    pc,
    stage,       \* how far the program has come with shutting the manager down
    signals,     \* the semaphore sem_main_ of the pool, which counts to one here
    astray       \* a pointer into a table that realloc has freed was used

tableVars == <<slots, curr, maxConn, live, sess, astray>>
timerVars == <<timer, hasTimeout>>
opVars == <<nOp, cancelling, signals>>
vars == <<tableVars, timerVars, opVars, pc, stage>>

\* then is where the thread goes on once the session it opens is taken care of;
\* old, that the table was moved since the thread computed its pointer.
Idle == [at |-> "idle", s |-> NoSession, i |-> 0, then |-> "idle", old |-> FALSE]
Go(at) == [Idle EXCEPT !.at = at]

\* At "compare", "scan" and "look" the thread has a pointer into the table.
Pointing == {"compare", "scan", "look"}
Places == {"idle", "validated", "open", "destroy", "destroyAt", "destroyScan",
           "reissue", "walk", "check", "walked"} \cup Pointing
Stages == {"serving", "cancelled", "waiting", "safe", "sweeping", "swept", "gone", "done"}

\* cancel_all_session(msec) keeps the lock while it sleeps.
LockFree == stage # "sweeping"

ManagerInit ==
    /\ slots = [i \in 0 .. FirstLimit - 1 |-> NoSession]
    /\ curr = 0
    /\ maxConn = FirstLimit
    /\ live = {}
    /\ sess = [s \in Sessions |-> NewSession]
    /\ nOp = 0
    /\ cancelling = FALSE
    /\ timer = "none"
    /\ hasTimeout = FALSE
    /\ pc = [t \in Threads |-> Idle]
    /\ stage = "serving"
    /\ signals = 0
    /\ astray = FALSE

-----------------------------------------------------------------------------
(* Creating a session *)

Free(i) == slots[i] = NoSession

\* The first free slot from curr_conn_ on; what the session records as its
\* index is the distance from there.
make_handler(t) ==
    /\ LockFree
    /\ pc[t].at = "validated"
    /\ \/ /\ curr < maxConn /\ ~cancelling
          /\ \E s \in Sessions \ live : \E i \in 0 .. maxConn - 1 :
                LET slot == (curr + i) % maxConn
                IN  /\ Free(slot)
                    /\ \A j \in 0 .. i - 1 : ~Free((curr + j) % maxConn)
                    /\ slots' = [slots EXCEPT ![slot] = s]
                    /\ live' = live \cup {s}
                    /\ sess' = [sess EXCEPT ![s] = [NewSession EXCEPT !.index = i]]
                    /\ pc' = [pc EXCEPT ![t].at = "open", ![t].s = s]
          /\ curr' = curr + 1
       \/ /\ curr >= maxConn \/ cancelling \/ Sessions = live
          /\ pc' = [pc EXCEPT ![t] = Go(pc[t].then)]
          /\ UNCHANGED <<slots, curr, live, sess>>
    /\ UNCHANGED <<maxConn, astray, timerVars, opVars, stage>>

\* Destroys on a condition that looks at the read alone.
ConcludeReads(t, s, x, then) ==
    /\ sess' = [sess EXCEPT ![s] = x]
    /\ pc' = [pc EXCEPT ![t] = IF x.r > 0 THEN Go(then)
                               ELSE [at |-> "destroy", s |-> s, i |-> 0, then |-> then, old |-> FALSE]]
    /\ UNCHANGED <<slots, curr, maxConn, live, astray, timerVars, opVars, stage>>

\* The common end of the session's methods: nothing pending, so destroy it.
Conclude(t, s, x, then) ==
    /\ sess' = [sess EXCEPT ![s] = x]
    /\ pc' = [pc EXCEPT ![t] = IF HasPending(x) THEN Go(then)
                               ELSE [at |-> "destroy", s |-> s, i |-> 0, then |-> then, old |-> FALSE]]
    /\ UNCHANGED <<slots, curr, maxConn, live, astray, timerVars, opVars, stage>>

OpenSession(t) ==
    /\ pc[t].at = "open"
    /\ \E x \in open(sess[pc[t].s]) : Conclude(t, pc[t].s, x, pc[t].then)

\* The proactor hands a completion to whichever thread is free.
CompleteRead(t, s) ==
    /\ pc[t].at = "idle" /\ s \in live /\ sess[s].rd
    /\ \E x \in handle_read_stream(sess[s]) : Conclude(t, s, x, "idle")

CompleteWrite(t, s) ==
    /\ pc[t].at = "idle" /\ s \in live /\ sess[s].wr
    /\ \E x \in handle_write_stream(sess[s]) : Conclude(t, s, x, "idle")

\* Called for a session its user has paused.
ResumeSession(t, s) ==
    /\ pc[t].at = "idle" /\ s \in live /\ IsPaused(sess[s])
    /\ \E x \in resume(sess[s]) : Conclude(t, s, x, "idle")

-----------------------------------------------------------------------------
(* Destroying a session *)

\* destroy_session(AIO_Session*) points at the slot of the recorded index ...
destroy_session(t) ==
    /\ pc[t].at = "destroy"
    /\ pc' = [pc EXCEPT ![t].at = "compare"]
    /\ UNCHANGED <<tableVars, timerVars, opVars, stage>>

\* ... and compares what is there, both without the lock.
CompareSlot(t) ==
    LET s == pc[t].s
    IN  /\ pc[t].at = "compare" /\ ~pc[t].old
        /\ pc' = [pc EXCEPT ![t].at =
                    IF slots[sess[s].index] = s THEN "destroyAt" ELSE "destroyScan"]
        /\ UNCHANGED <<tableVars, timerVars, opVars, stage>>

\* Counts a session that leaves twice, once for each destroy_session.
ReleaseTwice(t, slot) ==
    /\ live' = live \ {slots[slot]}
    /\ sess' = [sess EXCEPT ![slots[slot]] = NewSession]
    /\ slots' = [slots EXCEPT ![slot] = NoSession]
    /\ curr' = curr - 2
    /\ pc' = [pc EXCEPT ![t] = Go(pc[t].then)]
    /\ UNCHANGED <<maxConn, astray, timerVars, opVars, stage>>

\* Trusts the recorded index, which is not the slot.
ReleaseIndex(t, slot) ==
    LET i == sess[pc[t].s].index
    IN  /\ live' = live \ {slots[i]}
        /\ slots' = [slots EXCEPT ![i] = NoSession]
        /\ curr' = curr - 1
        /\ pc' = [pc EXCEPT ![t] = Go(pc[t].then)]
        /\ UNCHANGED <<maxConn, sess, astray, timerVars, opVars, stage>>

ReleaseUncounted(t, slot) ==
    /\ live' = live \ {slots[slot]}
    /\ sess' = [sess EXCEPT ![slots[slot]] = NewSession]
    /\ slots' = [slots EXCEPT ![slot] = NoSession]
    /\ pc' = [pc EXCEPT ![t] = Go(pc[t].then)]
    /\ UNCHANGED <<curr, maxConn, astray, timerVars, opVars, stage>>

Release(t, slot) ==
    /\ live' = live \ {slots[slot]}
    /\ sess' = [sess EXCEPT ![slots[slot]] = NewSession]
    /\ slots' = [slots EXCEPT ![slot] = NoSession]
    /\ curr' = curr - 1
    /\ pc' = [pc EXCEPT ![t] = Go(pc[t].then)]
    /\ UNCHANGED <<maxConn, astray, timerVars, opVars, stage>>

\* The slot at the recorded index, whoever is in it by now.
DestroyAt(t) ==
    /\ LockFree
    /\ pc[t].at = "destroyAt"
    /\ \/ ~Free(sess[pc[t].s].index) /\ Release(t, sess[pc[t].s].index)
       \/ /\ Free(sess[pc[t].s].index)
          /\ pc' = [pc EXCEPT ![t] = Go(pc[t].then)]
          /\ UNCHANGED <<tableVars, timerVars, opVars, stage>>

\* The loop over the table points at a slot and then takes the lock to use the
\* pointer.  A session never moves to another slot, so of the iterations only the
\* one at its own slot is kept: the others change nothing, and what one of them
\* could do to the freed table the one kept can do.
DestroyScan(t) ==
    /\ pc[t].at = "destroyScan"
    /\ \/ \E i \in 0 .. maxConn - 1 : /\ slots[i] = pc[t].s
                                     /\ pc' = [pc EXCEPT ![t].at = "scan", ![t].i = i]
       \/ /\ \A i \in 0 .. maxConn - 1 : slots[i] # pc[t].s
          /\ pc' = [pc EXCEPT ![t] = Go(pc[t].then)]
    /\ UNCHANGED <<tableVars, timerVars, opVars, stage>>

ScanSlot(t) ==
    /\ LockFree
    /\ pc[t].at = "scan" /\ ~pc[t].old
    /\ \/ slots[pc[t].i] = pc[t].s /\ Release(t, pc[t].i)
       \/ /\ slots[pc[t].i] # pc[t].s
          /\ pc' = [pc EXCEPT ![t] = Go(pc[t].then)]
          /\ UNCHANGED <<tableVars, timerVars, opVars, stage>>

-----------------------------------------------------------------------------
(* The timer *)

Signal == signals' = 1

\* What start_timer() does with the timer, and whether it signals.
start_timer(tm) ==
    IF cancelling THEN timer' = tm /\ (IF nOp = 0 THEN Signal ELSE UNCHANGED signals)
    ELSE timer' = (IF tm = "none" /\ hasTimeout' THEN "scheduled" ELSE tm) /\ UNCHANGED signals

\* set_timeout(): programs set a positive one.
SetTimeout ==
    /\ LockFree
    /\ hasTimeout' = TRUE
    /\ start_timer(timer)
    /\ UNCHANGED <<tableVars, nOp, cancelling, pc, stage>>

\* handle_time_out(): curr_conn_ is read without the lock.
TimerFires(t) ==
    /\ timer = "scheduled" /\ pc[t].at = "idle"
    /\ timer' = "firing"
    /\ pc' = [pc EXCEPT ![t] = IF curr > 0 THEN Go("walk") ELSE Go("walked")]
    /\ UNCHANGED <<tableVars, hasTimeout, opVars, stage>>

NextSlot(t) ==
    IF pc[t].i + 1 < maxConn THEN [Go("walk") EXCEPT !.i = pc[t].i + 1] ELSE Go("walked")

\* check_timeout() of session s: the time may have run out, and on_timeout()
\* then cancels the session.  What it does to freed memory is left out.
check_timeout(s) ==
    sess' \in {sess, IF s \in live THEN [sess EXCEPT ![s] = CloseStream(@)] ELSE sess}

\* Each iteration of handle_time_out's loop points at its slot without the lock.
PointAtSlot(t) ==
    /\ pc[t].at = "walk"
    /\ pc' = [pc EXCEPT ![t].at = "look"]
    /\ UNCHANGED <<tableVars, timerVars, opVars, stage>>

\* AIO_Acceptor's reads the slot, and goes on to the session.
WalkUnlocked(t) ==
    /\ ~LockedWalk
    /\ \/ /\ pc[t].at = "look" /\ ~pc[t].old /\ Free(pc[t].i)
          /\ pc' = [pc EXCEPT ![t] = NextSlot(t)]
          /\ UNCHANGED sess
       \/ /\ pc[t].at = "look" /\ ~pc[t].old /\ ~Free(pc[t].i)
          /\ pc' = [pc EXCEPT ![t].at = "check", ![t].s = slots[pc[t].i]]
          /\ UNCHANGED sess
       \/ /\ pc[t].at = "check"
          /\ check_timeout(pc[t].s)
          /\ pc' = [pc EXCEPT ![t] = NextSlot(t)]
    /\ UNCHANGED <<slots, curr, maxConn, live, astray, timerVars, opVars, stage>>

\* AIO_Connector's: under its lock, and sessions with something pending only.
WalkLocked(t) ==
    /\ LockedWalk /\ LockFree
    /\ pc[t].at = "look" /\ ~pc[t].old
    /\ IF Free(pc[t].i) THEN UNCHANGED sess
       ELSE IF HasPending(sess[slots[pc[t].i]]) THEN check_timeout(slots[pc[t].i])
       ELSE UNCHANGED sess
    /\ pc' = [pc EXCEPT ![t] = NextSlot(t)]
    /\ UNCHANGED <<slots, curr, maxConn, live, astray, timerVars, opVars, stage>>

WalkEnds(t) ==
    /\ LockFree
    /\ pc[t].at = "walked"
    /\ UNCHANGED hasTimeout
    /\ start_timer("none")
    /\ pc' = [pc EXCEPT ![t] = Idle]
    /\ UNCHANGED <<tableVars, nOp, cancelling, stage>>

-----------------------------------------------------------------------------
(* The owner *)

\* max_session(int): realloc grows the table where it is or moves it, and a
\* pointer into the old one is into freed memory; a smaller limit leaves the table
\* and whoever is in it as they are.
max_session(m) ==
    /\ LockFree
    /\ maxConn' = m
    /\ IF m > maxConn
       THEN /\ slots' = [i \in DOMAIN slots \cup maxConn .. m - 1 |->
                            IF i < maxConn THEN slots[i] ELSE NoSession]
            /\ pc' \in {pc, [t \in Threads |-> IF pc[t].at \in Pointing
                                              THEN [pc[t] EXCEPT !.old = TRUE] ELSE pc[t]]}
       ELSE UNCHANGED <<slots, pc>>
    /\ UNCHANGED <<curr, live, sess, astray, timerVars, opVars, stage>>

\* The environment bound: the limit is raised, never lowered.
RaiseLimit == \E m \in Limits : m > maxConn /\ max_session(m)

\* What is in the freed table by now may be what was there or anything else: the
\* session at the recorded index may seem to be or not to be the one wanted; the
\* loop may miss the session, or delete it and leave the new table with it; the walk
\* may come upon anything.  What becomes of the program after that is left out.
UseFreedTable(t) ==
    /\ pc[t].old
    /\ pc[t].at = "compare" \/ LockFree
    /\ astray' = TRUE
    /\ \/ /\ pc[t].at = "compare"
          /\ \E at \in {"destroyAt", "destroyScan"} : pc' = [pc EXCEPT ![t].at = at]
          /\ UNCHANGED <<curr, live>>
       \/ /\ pc[t].at # "compare"
          /\ pc' = [pc EXCEPT ![t] = Go(pc[t].then)]
          /\ UNCHANGED <<curr, live>>
       \/ /\ pc[t].at = "scan"
          /\ pc' = [pc EXCEPT ![t] = Go(pc[t].then)]
          /\ live' = live \ {pc[t].s}
          /\ curr' = curr - 1
    /\ UNCHANGED <<slots, maxConn, sess, timerVars, opVars, stage>>

Occupied == { i \in 0 .. maxConn - 1 : slots[i] # NoSession }

\* Cancels the sessions that are open, and not those about to be opened.
CancelOpened ==
    LET listed == { slots[i] : i \in Occupied }
    IN  /\ timer' = (IF timer = "scheduled" THEN "none" ELSE timer)
        /\ sess' = [s \in Sessions |-> IF s \in listed /\ sess[s].stream = "open"
                                       THEN CloseStream(sess[s]) ELSE sess[s]]
        /\ UNCHANGED <<slots, curr, maxConn, live, astray, hasTimeout, opVars, pc>>

\* cancel_all_session(msec): a timer that is being handled cannot be cancelled.
cancel_all_session ==
    LET listed == { slots[i] : i \in Occupied }
    IN  /\ timer' = (IF timer = "scheduled" THEN "none" ELSE timer)
        /\ sess' = [s \in Sessions |-> IF s \in listed THEN CloseStream(sess[s]) ELSE sess[s]]
        /\ UNCHANGED <<slots, curr, maxConn, live, astray, hasTimeout, opVars, pc>>

\* The sleep of cancel_all_session(msec), with the lock held: nothing that could
\* make n_session() drop can run meanwhile.
CancelAll(from) ==
    /\ stage = from
    /\ cancel_all_session
    /\ stage' \in {"sweeping", "swept"}

CancelAllReturns ==
    /\ stage = "sweeping"
    /\ stage' = "swept"
    /\ UNCHANGED <<tableVars, timerVars, opVars, pc>>

\* for(;;) if ( n_session() == 0 ) break;
AllGone(next) ==
    /\ stage = "swept"
    /\ curr = 0
    /\ stage' = next
    /\ UNCHANGED <<tableVars, timerVars, opVars, pc>>

\* while ( !is_safe_to_delete() ) wait_signal();
AwaitSafe(next) ==
    /\ stage = "cancelled"
    /\ stage' = IF nOp = 0 THEN next ELSE "waiting"
    /\ UNCHANGED <<tableVars, timerVars, opVars, pc>>

WakeUp ==
    /\ stage = "waiting" /\ signals = 1
    /\ stage' = "cancelled"
    /\ signals' = 0
    /\ UNCHANGED <<tableVars, timerVars, nOp, cancelling, pc>>

\* cancel(): what is outstanding completes with an error.
Cancel(from) ==
    /\ stage = from
    /\ stage' = "cancelled"
    /\ cancelling' = TRUE
    /\ UNCHANGED <<tableVars, timerVars, nOp, signals, pc>>

ThreadStep(t) ==
    \/ make_handler(t) \/ OpenSession(t)
    \/ destroy_session(t) \/ CompareSlot(t) \/ DestroyAt(t) \/ DestroyScan(t) \/ ScanSlot(t)
    \/ PointAtSlot(t) \/ WalkUnlocked(t) \/ WalkLocked(t) \/ WalkEnds(t)

SessionEvent(t, s) == CompleteRead(t, s) \/ CompleteWrite(t, s) \/ ResumeSession(t, s)

\* A closed stream fails its operations: the completion of s is certain to come.
FailedCompletion(s) ==
    \E t \in Threads : sess[s].stream = "closed" /\ (CompleteRead(t, s) \/ CompleteWrite(t, s))

ManagerFairness ==
    /\ \A t \in Threads : WF_vars(ThreadStep(t))
    /\ \A s \in Sessions : WF_vars(FailedCompletion(s))
    /\ WF_vars(CancelAllReturns) /\ WF_vars(WakeUp)

-----------------------------------------------------------------------------
(* Properties *)

\* The members, the table and what each thread is doing stay within their types.
TypeOK ==
    /\ maxConn \in Nat \ {0}
    /\ slots \in [0 .. maxConn - 1 -> Sessions \cup {NoSession}]
    /\ curr \in 0 .. maxConn
    /\ live \subseteq Sessions
    /\ sess \in [Sessions -> SessionRecord]
    /\ nOp \in Nat /\ cancelling \in BOOLEAN
    /\ timer \in {"none", "scheduled", "firing"} /\ hasTimeout \in BOOLEAN
    /\ pc \in [Threads -> [at : Places, s : Sessions \cup {NoSession}, i : Nat,
                           then : {"idle", "reissue"}, old : BOOLEAN]]
    /\ astray \in BOOLEAN
    /\ stage \in Stages /\ signals \in {0, 1}

ListsTheSessions ==
    /\ curr = Cardinality(Occupied)
    /\ live = { slots[i] : i \in Occupied }
    /\ \A i, j \in Occupied : slots[i] = slots[j] => i = j

\* The table lists exactly the allocated sessions, each in one slot, and
\* curr_conn_ is their number, although a session's index is not its slot and
\* destroy_session looks for it without the lock (AIO_Acceptor.cpp:180-245), and
\* although max_session grows the table meanwhile: as long as no thread has used a
\* pointer it computed before the table was moved (AIO_Connector.cpp:228-231, :289).
TableIsExact == ~astray => ListsTheSessions

Handling(s) == { t \in Threads : pc[t].s = s /\ pc[t].at # "check" }
Destroying == {"destroy", "compare", "destroyAt", "destroyScan", "scan"}

InHand(s) ==
    /\ Cardinality(Handling(s)) =
            IF s \in live /\ ~sess[s].rd /\ ~sess[s].wr /\ ~IsPaused(sess[s]) THEN 1 ELSE 0
    /\ s \notin live => ~sess[s].rd /\ ~sess[s].wr

\* A session is never left to nobody and never to two: it has operations
\* pending, or is paused, or one thread is opening or destroying it
\* (is_safe_to_delete() before destroy_session in AIO_Session.cpp:86-90, 147-151,
\* 209-213, 226-230).  So it is deleted exactly once, with nothing pending, as long
\* as no thread has used a pointer into a table that max_session moved.
InOneHand == ~astray => \A s \in Sessions : InHand(s)

\* The counters that decide on a session's life agree with what the proactor
\* owes it, with eight added to both while it is paused.
CountsArePending ==
    \A s \in live : sess[s].r # -1 =>
        LET paused == 8 * (sess[s].r \div 8)
        IN  /\ sess[s].r = paused + (IF sess[s].rd THEN 1 ELSE 0)
            /\ sess[s].w = paused + (IF sess[s].wr THEN 1 ELSE 0)

\* AIO_Session.cpp:67 says of the deadlock it avoids that handle_time_out()
\* locks the manager's mutex while it calls check_timeout(): then the session
\* that a walk has read from the table is still allocated when it is checked.
WalkFindsLiveSession ==
    \A t \in Threads : pc[t].at = "check" => pc[t].s \in live

\* Once the program has begun to shut the manager down (aos_test/net/_main_.h)
\* it gets to the end: the outstanding operations drain and signal, the
\* sessions are all destroyed, and neither of its waits lasts for ever.
ShutdownEnds == (stage # "serving") ~> (stage = "done")
=============================================================================
