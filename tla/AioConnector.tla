---------------------------- MODULE AioConnector ----------------------------
(***************************************************************************)
(* The connecting side: class AIO_Connector                                *)
(* (src/AOS/aos/net/AIO_Connector.cpp), with the same table and sessions.  *)
(* Nothing is reissued, and the program shuts it down in another order:    *)
(* the sessions first (src/AOS/aos_test/net/_main_.h).                     *)
(***************************************************************************)
EXTENDS AioManager

CONSTANT MaxConnects   \* the bound on the connects outstanding at a time

ASSUME MaxConnectsAssumption == MaxConnects \in Nat

start ==
    /\ LockFree
    /\ stage = "serving"
    /\ UNCHANGED hasTimeout
    /\ start_timer(timer)
    /\ UNCHANGED <<tableVars, nOp, cancelling, pc, stage>>

\* connect(addr, n): as many as the table has room for at most, up to the first
\* that cannot be started.
connect ==
    /\ LockFree
    /\ stage = "serving"
    /\ \E n \in 1 .. maxConn - curr :
        /\ nOp + n <= MaxConnects
        /\ nOp' = nOp + n
    /\ UNCHANGED <<tableVars, timerVars, cancelling, signals, pc, stage>>

validate_connection(t) ==
    /\ LockFree
    /\ pc[t].at = "idle" /\ nOp > 0
    /\ nOp' = nOp - 1
    /\ IF nOp' = 0 THEN Signal ELSE UNCHANGED signals
    /\ \/ ~cancelling /\ pc' = [pc EXCEPT ![t] = Go("validated")]
       \/ UNCHANGED pc
    /\ UNCHANGED <<tableVars, timerVars, cancelling, stage>>

\* cancel_all_session(), the wait for the sessions, cancel(), the wait for the
\* connects.
Shutdown ==
    \/ CancelAll("serving") \/ CancelAllReturns \/ AllGone("gone")
    \/ Cancel("gone") \/ AwaitSafe("done") \/ WakeUp

\* The end of the program, or a wait for sessions whose peers are silent, or
\* nothing is known of it.
Stopped ==
    /\ stage # "serving" \/ astray
    /\ UNCHANGED vars

Next ==
    \/ Stopped
    \/ /\ ~astray
       /\ \/ start \/ connect \/ SetTimeout \/ RaiseLimit \/ Shutdown
          \/ \E t \in Threads :
                \/ validate_connection(t) \/ TimerFires(t) \/ ThreadStep(t) \/ UseFreedTable(t)
                \/ \E s \in Sessions : SessionEvent(t, s)

Spec == ManagerInit /\ [][Next]_vars

=============================================================================
