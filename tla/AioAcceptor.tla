---------------------------- MODULE AioAcceptor ----------------------------
(***************************************************************************)
(* The accepting side of the proactor library: class AIO_Acceptor          *)
(* (src/AOS/aos/net/AIO_Acceptor.cpp) with its sessions, driven by the     *)
(* threads of a Proactor_TaskPool and by the program that starts it and    *)
(* shuts it down (src/AOS/aos_test/net/_main_.h).                          *)
(***************************************************************************)
EXTENDS AioManager

CONSTANT InitialAccepts   \* n_initial_accept_

ASSUME InitialAcceptsAssumption == InitialAccepts \in Nat \ {0}

\* start(): as many accepts as asked for, and the timer only if none fails.
\* When open() fails nothing changes.
start ==
    /\ LockFree
    /\ stage = "serving"
    /\ \E n \in nOp .. InitialAccepts :
        /\ nOp' = n
        /\ UNCHANGED hasTimeout
        /\ IF n = InitialAccepts THEN start_timer(timer) ELSE UNCHANGED <<timer, signals>>
    /\ UNCHANGED <<tableVars, cancelling, pc, stage>>

\* validate_connection(), the first thing the library does with a completed
\* accept: a failed one, and any that comes after cancel(), go no further.
validate_connection(t) ==
    /\ LockFree
    /\ pc[t].at = "idle" /\ nOp > 0
    /\ nOp' = nOp - 1
    /\ \/ ~cancelling /\ pc' = [pc EXCEPT ![t] = [Go("validated") EXCEPT !.then = "reissue"]]
       \/ pc' = [pc EXCEPT ![t] = Go("reissue")]
    /\ UNCHANGED <<tableVars, timerVars, cancelling, signals, stage>>

\* Signals only what a failed accept leaves behind.
ReissueSilently(t) ==
    /\ LockFree
    /\ pc[t].at = "reissue"
    /\ nOp' \in IF cancelling THEN {nOp} ELSE {nOp, nOp + 1}
    /\ pc' = [pc EXCEPT ![t] = Idle]
    /\ UNCHANGED <<tableVars, timerVars, cancelling, signals, stage>>

\* should_reissue_accept(), the last thing it does, opened session or not.
should_reissue_accept(t) ==
    /\ LockFree
    /\ pc[t].at = "reissue"
    /\ nOp' \in IF cancelling THEN {nOp} ELSE {nOp, nOp + 1}
    /\ IF nOp' = 0 THEN Signal ELSE UNCHANGED signals
    /\ pc' = [pc EXCEPT ![t] = Idle]
    /\ UNCHANGED <<tableVars, timerVars, cancelling, stage>>

\* cancel(), the wait for the accepts, cancel_all_session(), the wait for the
\* sessions.
Shutdown ==
    \/ Cancel("serving") \/ AwaitSafe("safe") \/ WakeUp
    \/ CancelAll("safe") \/ CancelAllReturns \/ AllGone("done")

\* The end of the program: nothing is left to be done, or nothing is known of it.
Finished ==
    /\ astray \/ (stage = "done" /\ \A t \in Threads : pc[t] = Idle)
    /\ UNCHANGED vars

Next ==
    \/ Finished
    \/ /\ ~astray
       /\ \/ start \/ SetTimeout \/ RaiseLimit \/ Shutdown
          \/ \E t \in Threads :
                \/ validate_connection(t) \/ should_reissue_accept(t) \/ TimerFires(t)
                \/ ThreadStep(t) \/ UseFreedTable(t)
                \/ \E s \in Sessions : SessionEvent(t, s)

Spec == ManagerInit /\ [][Next]_vars

\* For a limit that is not raised, so that no thread goes astray.  The pool's
\* threads go on, a cancelled operation completes, and the program carries its
\* shutdown through.
FairSpec ==
    /\ Spec /\ ManagerFairness
    /\ WF_vars(\E t \in Threads : cancelling /\ validate_connection(t))
    /\ \A t \in Threads : WF_vars(should_reissue_accept(t))
    /\ WF_vars(AwaitSafe("safe")) /\ WF_vars(CancelAll("safe")) /\ WF_vars(AllGone("done"))
=============================================================================
