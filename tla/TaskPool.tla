------------------------------ MODULE TaskPool ------------------------------
(***************************************************************************)
(* The io threads of TCP_Server: start(), resize_thread_pool(), stop() and *)
(* the life of svc() (src/AOS/aos/TCP_Server.cpp).                         *)
(*                                                                         *)
(* A thread numbers itself when it enters svc() and leaves after a handler *)
(* when its number exceeds n_wish_task_.  Numbers are not allocated: they  *)
(* are the count of numbered threads plus one, and the count goes down     *)
(* when a thread leaves.  resize_thread_pool() trusts that exactly the     *)
(* threads above n_thread leave, whatever the order in which threads are   *)
(* numbered, leave and give their number back.                             *)
(***************************************************************************)
EXTENDS Integers, FiniteSets

CONSTANTS
    Workers,    \* the threads the system can give
    MaxPosted   \* bound: no-op handlers waiting, beyond which posting adds none

ASSUME WorkersAssumption == IsFiniteSet(Workers) /\ Workers # {}
ASSUME MaxPostedAssumption == MaxPosted \in Nat \ {0}

VARIABLES
    owner,      \* what the thread that holds server_lock_ is doing
    nWish,      \* n_wish_task_
    nTask,      \* n_task_
    state, id,  \* of each thread: where it is, and task_id
    posted,     \* the no-op handlers that wait in the io_service
    stopped     \* ios_.stop() was called and ios_.reset() was not

vars == <<owner, nWish, nTask, state, id, posted, stopped>>

\* spawned: not numbered yet; leaving: out of the loop, number not given back;
\* left: given back, and still counted by ACE until the thread is gone.
States == {"none", "spawned", "looping", "leaving", "left"}

In(S) == { w \in Workers : state[w] \in S }
Numbered == In({"looping", "leaving"})

\* ACE's count of the threads that activate() created.
thr_count == Cardinality(Workers \ In({"none"}))

Init ==
    /\ owner = "down"
    /\ nWish = 0
    /\ nTask = 0
    /\ state = [w \in Workers |-> "none"]
    /\ id = [w \in Workers |-> 0]
    /\ posted = 0
    /\ stopped = FALSE

-----------------------------------------------------------------------------
(* The owner *)

activate(n) ==
    \E S \in SUBSET In({"none"}) :
        /\ Cardinality(S) = n
        /\ state' = [w \in Workers |-> IF w \in S THEN "spawned" ELSE state[w]]

\* start() with n_thread threads; when activate() fails is_running_ stays 0.
Start(n) ==
    /\ owner = "down"
    /\ nWish' = n
    /\ \/ activate(n) /\ owner' = "up"
       \/ UNCHANGED <<state, owner>>
    /\ UNCHANGED <<nTask, id, posted, stopped>>

\* resize_thread_pool(): ACE has counted the new threads when activate()
\* returns, so that branch does not wait; when activate() fails the wish stays.
resize_thread_pool(n) ==
    /\ owner = "up"
    /\ nWish' = n
    /\ \/ n = thr_count /\ UNCHANGED <<state, owner>>
       \/ n > thr_count /\ activate(n - thr_count) /\ UNCHANGED owner
       \/ n > thr_count /\ UNCHANGED <<state, owner>>
       \/ n < thr_count /\ owner' = "shrinking" /\ UNCHANGED state
    /\ UNCHANGED <<nTask, id, posted, stopped>>

\* Posts once for each thread too many and returns.
PostAndReturn ==
    /\ owner = "shrinking"
    /\ posted' = IF posted < MaxPosted THEN posted + 1 ELSE posted
    /\ owner' = "up"
    /\ UNCHANGED <<nWish, nTask, state, id, stopped>>

\* One turn of the shrinking loop: post a no-op, then look at the count.
PostAndCheck ==
    /\ owner = "shrinking"
    /\ posted' = IF posted < MaxPosted THEN posted + 1 ELSE posted
    /\ owner' = IF thr_count <= nWish THEN "up" ELSE "shrinking"
    /\ UNCHANGED <<nWish, nTask, state, id, stopped>>

Stop ==
    /\ owner \in {"up", "down"}
    /\ owner' = "stopping"
    /\ stopped' = TRUE
    /\ UNCHANGED <<nWish, nTask, state, id, posted>>

\* thr_mgr()->wait() has returned; the drain loop runs the no-ops that are left.
FinishStop ==
    /\ owner = "stopping"
    /\ In({"none"}) = Workers
    /\ owner' = "down"
    /\ stopped' = FALSE
    /\ posted' = 0
    /\ UNCHANGED <<nWish, nTask, state, id>>

-----------------------------------------------------------------------------
(* svc() *)

\* Reads the counter under the lock and numbers itself from 0.
EnterFromZero(w) ==
    /\ state[w] = "spawned"
    /\ nTask' = nTask + 1
    /\ id' = [id EXCEPT ![w] = nTask]
    /\ state' = [state EXCEPT ![w] = "looping"]
    /\ UNCHANGED <<owner, nWish, posted, stopped>>

Enter(w) ==
    /\ state[w] = "spawned"
    /\ nTask' = nTask + 1
    /\ id' = [id EXCEPT ![w] = nTask + 1]
    /\ state' = [state EXCEPT ![w] = "looping"]
    /\ UNCHANGED <<owner, nWish, posted, stopped>>

\* ">=": one thread too many leaves.
TooManyOrLast(w) == id[w] >= nWish

\* run_one() has run a handler: a no-op of the shrinking loop or any other.
TooMany(w) == id[w] > nWish

RunOne(w) ==
    /\ state[w] = "looping" /\ ~stopped
    /\ posted' \in {posted, IF posted > 0 THEN posted - 1 ELSE 0}
    /\ state' = IF TooMany(w) THEN [state EXCEPT ![w] = "leaving"] ELSE state
    /\ UNCHANGED <<owner, nWish, nTask, id, stopped>>

\* A stopped io_service is noticed only by the threads above the wish.
QuitIfTooMany(w) ==
    /\ state[w] = "looping" /\ stopped /\ TooMany(w)
    /\ state' = [state EXCEPT ![w] = "leaving"]
    /\ UNCHANGED <<owner, nWish, nTask, id, posted, stopped>>

\* run_one() returns 0 once the io_service is stopped.
Quit(w) ==
    /\ state[w] = "looping" /\ stopped
    /\ state' = [state EXCEPT ![w] = "leaving"]
    /\ UNCHANGED <<owner, nWish, nTask, id, posted, stopped>>

\* The decrement at the end of svc() is missing.
LeaveUncounted(w) ==
    /\ state[w] = "leaving"
    /\ nTask' = nTask
    /\ state' = [state EXCEPT ![w] = "left"]
    /\ UNCHANGED <<owner, nWish, id, posted, stopped>>

Leave(w) ==
    /\ state[w] = "leaving"
    /\ nTask' = nTask - 1
    /\ state' = [state EXCEPT ![w] = "left"]
    /\ UNCHANGED <<owner, nWish, id, posted, stopped>>

\* ACE_Task_Base::cleanup after svc() has returned.
Gone(w) ==
    /\ state[w] = "left"
    /\ state' = [state EXCEPT ![w] = "none"]
    /\ UNCHANGED <<owner, nWish, nTask, id, posted, stopped>>

Worker(w) == Enter(w) \/ RunOne(w) \/ Quit(w) \/ Leave(w) \/ Gone(w)

Wishes == 1 .. Cardinality(Workers)

Next ==
    \/ \E n \in Wishes : Start(n) \/ resize_thread_pool(n)
    \/ PostAndCheck \/ Stop \/ FinishStop
    \/ \E w \in Workers : Worker(w)

Spec == Init /\ [][Next]_vars

\* The threads are scheduled and stop() is carried through.
Fairness ==
    /\ WF_vars(FinishStop)
    /\ \A w \in Workers :
        WF_vars(Enter(w)) /\ WF_vars(Quit(w)) /\ WF_vars(Leave(w)) /\ WF_vars(Gone(w))

FairSpec == Spec /\ Fairness

-----------------------------------------------------------------------------
(* Properties *)

TypeOK ==
    /\ owner \in {"down", "up", "shrinking", "stopping"}
    /\ nWish \in 0 .. Cardinality(Workers)
    /\ nTask \in Nat
    /\ state \in [Workers -> States]
    /\ id \in [Workers -> Nat]
    /\ posted \in 0 .. MaxPosted
    /\ stopped \in BOOLEAN

\* While the io_service runs, the numbers up to the wish are each held by one
\* thread at most, and none of them is missing below the count: the threads that
\* stay are told apart from those that leave (svc(), TCP_Server.cpp:45-66).
LowNumbersOnce ==
    ~stopped =>
        /\ \A v, w \in Numbered : v # w /\ id[v] = id[w] => id[v] > nWish
        /\ \A i \in 1 .. nWish : i <= nTask => \E w \in Numbered : id[w] = i

\* Shrinking never overshoots: the threads that are not on their way out stay
\* at least as many as resize_thread_pool() asked for.
NoOvershoot ==
    owner = "shrinking" => Cardinality(In({"spawned", "looping"})) >= nWish

\* When resize_thread_pool() or start() has returned, no thread is on its way
\* out or will be: all of them serve until the next resize or stop().
SettledAfterResize ==
    owner = "up" =>
        /\ thr_count <= nWish
        /\ In({"leaving", "left"}) = {}
        /\ \A w \in In({"looping"}) : id[w] <= nWish

\* After stop() the count of numbered threads is back to zero, so that the next
\* start() numbers its threads from one.
CountRestored == owner = "down" => nTask = 0

\* stop() returns: every thread, numbered or still starting, leaves its loop.
StopReturns == owner = "stopping" ~> owner = "down"

-----------------------------------------------------------------------------
(* The invariant that makes the properties inductive *)

CountIsNumbered == nTask = Cardinality(Numbered)

\* Below the wish the numbers in use are exactly those up to the count.
BelowWish ==
    (~stopped /\ nTask < nWish) => \A w \in Numbered : id[w] <= nTask

LeaversAreHigh == ~stopped => \A w \in In({"leaving"}) : id[w] > nWish

OwnerAndService ==
    /\ stopped <=> owner = "stopping"
    /\ owner = "down" => In({"none"}) = Workers

\* What svc() and the owner keep together true of the numbers, the count and
\* the wish: the properties above hold because each step keeps all of these.
IInv ==
    /\ TypeOK
    /\ CountIsNumbered
    /\ \A w \in Numbered : id[w] >= 1
    /\ LowNumbersOnce
    /\ BelowWish
    /\ LeaversAreHigh
    /\ OwnerAndService
    /\ NoOvershoot
    /\ SettledAfterResize
=============================================================================
