------------------------------ MODULE MpService ------------------------------
(***************************************************************************)
(* The mail processor as a service: mp (src/AOS/home/mp) run by the        *)
(* processes of Service.  A process that serves has one enqueuer, which    *)
(* scans the directory of a queue and puts its files in the message queue, *)
(* and the workers, which take files out and move them to the next         *)
(* directory.  The threads die with their process; the directories stay.   *)
(*                                                                         *)
(* One queue with a next directory is modelled, without an interval, and   *)
(* a file is only its name.                                                *)
(***************************************************************************)
EXTENDS Service, Sequences

CONSTANTS
    Files,       \* the names of the mails
    Broken,      \* those that import_file() cannot read
    Workers,
    QueueLimit   \* how many messages the queue takes before enqueue_tail waits

ASSUME FilesAssumption == Broken \subseteq Files
ASSUME QueueLimitAssumption == QueueLimit \in Nat \ {0}

VARIABLES
    dir,       \* where each file is: in path, or in next
    queue,     \* worker_.msg_queue()
    active,    \* the queue has not been deactivated
    stop,      \* stop_ of the enqueuer
    enq,       \* the enqueuer: how far it is and what dir.read() has still to give
    worker     \* the workers, each with its file

diskVars == <<dir>>
threadVars == <<queue, active, stop, enq, worker>>
mpVars == <<diskVars, threadVars>>
vars == <<serviceVars, mpVars>>

Resting == [at |-> "dequeue", f |-> NoOne]
NoThread == [at |-> "none", f |-> NoOne]
Holding(f, step) == [at |-> step, f |-> f]

\* What the threads are when no process serves.
NoThreads ==
    /\ queue' = <<>>
    /\ active' = FALSE
    /\ stop' = FALSE
    /\ enq' = [at |-> "none", todo |-> {}]
    /\ worker' = [w \in Workers |-> NoThread]

Init ==
    /\ ServiceInit
    /\ dir \in [Files -> {"path"}]
    /\ queue = <<>> /\ active = FALSE /\ stop = FALSE
    /\ enq = [at |-> "none", todo |-> {}]
    /\ worker = [w \in Workers |-> NoThread]

-----------------------------------------------------------------------------
(* run_mp_service *)

\* acceptor.open(), worker.start(), enqueuer.start()
StartService(p) ==
    /\ Open(p)
    /\ queue' = <<>>
    /\ active' = TRUE
    /\ stop' = FALSE
    /\ enq' = [at |-> "loop", todo |-> {}]
    /\ worker' = [w \in Workers |-> Resting]
    /\ UNCHANGED diskVars

\* The command "stop": enqueuer.stop() ...
StopEnqueuer(k) ==
    /\ TakeStop(k)
    /\ stop' = TRUE
    /\ UNCHANGED <<diskVars, queue, active, enq, worker>>

\* ... enqueuer.wait(), worker.stop() ...
StopWorkers(p) ==
    /\ proc[p] = "stopping"
    /\ enq.at = "none" /\ active
    /\ active' = FALSE
    /\ UNCHANGED <<serviceVars, diskVars, queue, stop, enq, worker>>

\* ... and worker.wait().  The messages that are left are dropped.
EndService(p) ==
    /\ ~active
    /\ \A w \in Workers : worker[w] = NoThread
    /\ Close(p)
    /\ NoThreads
    /\ UNCHANGED diskVars

\* A crash or a kill takes the threads with it.
Dies(p, death) ==
    /\ death
    /\ IF proc[p] \in {"serving", "stopping"} THEN NoThreads ELSE UNCHANGED threadVars
    /\ UNCHANGED diskVars

-----------------------------------------------------------------------------
(* MP_Enqueuer::svc *)

InPath == { f \in Files : dir[f] = "path" }

BeginScan ==
    /\ enq.at = "loop"
    /\ enq' = IF stop THEN [at |-> "none", todo |-> {}] ELSE [at |-> "scan", todo |-> InPath]
    /\ UNCHANGED <<serviceVars, diskVars, queue, active, stop, worker>>

\* A file that has been moved since is passed over; a full queue is waited for.
ReadEntry ==
    /\ enq.at = "scan"
    /\ \E f \in enq.todo :
            /\ IF dir[f] = "path"
               THEN Len(queue) < QueueLimit /\ queue' = Append(queue, f)
               ELSE UNCHANGED queue
            /\ enq' = [enq EXCEPT !.todo = @ \ {f}]
    /\ UNCHANGED <<serviceVars, diskVars, active, stop, worker>>

\* Every 10000th mail looks at stop_: which one that is, is left open.
EndScan ==
    /\ enq.at = "scan"
    /\ enq.todo = {} \/ stop
    /\ enq' = [at |-> "drain", todo |-> {}]
    /\ UNCHANGED <<serviceVars, diskVars, queue, active, stop, worker>>

\* "wait util finished": until the queue is empty.
Drained ==
    /\ enq.at = "drain"
    /\ stop \/ queue = <<>>
    /\ enq' = [enq EXCEPT !.at = "loop"]
    /\ UNCHANGED <<serviceVars, diskVars, queue, active, stop, worker>>

Enqueuer == BeginScan \/ ReadEntry \/ EndScan \/ Drained

-----------------------------------------------------------------------------
(* MP_Worker::svc *)


Dequeue(w) ==
    /\ worker[w] = Resting
    /\ IF active
       THEN /\ queue # <<>>
            /\ queue' = Tail(queue)
            /\ worker' = [worker EXCEPT ![w] = Holding(Head(queue), "import")]
       ELSE /\ worker' = [worker EXCEPT ![w] = NoThread]
            /\ UNCHANGED queue
    /\ UNCHANGED <<serviceVars, diskVars, active, stop, enq>>

\* import_file() fails for a file that is broken or was moved by another worker.
Import(w) ==
    /\ worker[w].at = "import"
    /\ LET f == worker[w].f
       IN  worker' = [worker EXCEPT ![w] = IF f \notin Broken /\ dir[f] = "path"
                                           THEN Holding(f, "rename") ELSE Resting]
    /\ UNCHANGED <<serviceVars, diskVars, queue, active, stop, enq>>

\* rename() fails when another worker was first.
Rename(w) ==
    /\ worker[w].at = "rename"
    /\ dir' = [dir EXCEPT ![worker[w].f] = "next"]
    /\ worker' = [worker EXCEPT ![w] = Resting]
    /\ UNCHANGED <<serviceVars, queue, active, stop, enq>>

Work(w) == Dequeue(w) \/ Import(w) \/ Rename(w)

-----------------------------------------------------------------------------
\* A process on its own: what it does before it serves and after.
ProcessStep(p) ==
    \/ (Lock(p) \/ Exit(p)) /\ UNCHANGED mpVars
    \/ StartService(p) \/ StopWorkers(p) \/ EndService(p)

Control(k) == CommandStep(k) /\ UNCHANGED mpVars
Monitor == (MonitorProbe \/ MonitorStarts) /\ UNCHANGED mpVars

Next ==
    \/ \E p \in Procs :
            \/ ProcessStep(p)
            \/ OpenFails(p) /\ UNCHANGED mpVars
            \/ Dies(p, Crash(p)) \/ Dies(p, KillArrives(p))
    \/ \E k \in Users : GiveCommand(k) /\ UNCHANGED mpVars
    \/ \E k \in Commands : Control(k) \/ StopEnqueuer(k)
    \/ Monitor
    \/ Enqueuer
    \/ \E w \in Workers : Work(w)

Spec == Init /\ [][Next]_vars

\* A new process that does not meet a probe.
LockIsFree == lock = NoOne /\ \E p \in Procs : Lock(p) /\ UNCHANGED mpVars

\* The processes, their threads and the commands that are under way go on, and
\* the monitor makes its rounds.  Nothing makes a user give a command.  The
\* strong fairness: a round takes a second and a probe a moment, so not every
\* process the monitor starts meets its next probe and exits.
FairSpec ==
    /\ Spec
    /\ \A p \in Procs : WF_vars(ProcessStep(p)) /\ WF_vars(Dies(p, KillArrives(p)))
    /\ \A k \in Commands : WF_vars(Control(k) \/ StopEnqueuer(k))
    /\ WF_vars(Monitor)
    /\ WF_vars(Enqueuer)
    /\ \A w \in Workers : WF_vars(Work(w))
    /\ SF_vars(LockIsFree)

-----------------------------------------------------------------------------
(* Properties *)

\* The processes, the commands and mp's threads stay within their types; a stop
\* goes on only with the id of a process that answered.
TypeOK ==
    /\ ServiceTypeOK
    /\ dir \in [Files -> {"path", "next"}]
    /\ queue \in Seq(Files) /\ Len(queue) <= QueueLimit
    /\ active \in BOOLEAN /\ stop \in BOOLEAN
    /\ enq \in [at : {"none", "loop", "scan", "drain"}, todo : SUBSET Files]
    /\ worker \in [Workers -> [at : {"none", "dequeue", "import", "rename"}, f : Files \cup {NoOne}]]

\* At most one process serves, although commands and the monitor probe and wait
\* for the lock, start processes at once, and processes die: it is the one that
\* holds the lock from its start to the end of its threads and its acceptor
\* (IPC.cpp:305, 363), so nobody else opens the address or works on the files.
OneInstance ==
    /\ \A p \in Procs : proc[p] \in {"locked", "serving", "stopping", "closing"} => lock = p
    /\ (enq.at # "none" \/ \E w \in Workers : worker[w] # NoThread) =>
            \E p \in Procs : lock = p /\ addr = p /\ proc[p] \in {"serving", "stopping"}

\* A stop command that has got the lock it waits for (IPC.cpp:818-847) finds the
\* process it asked for its id gone, threads and all, although that lock is not
\* this process's only; after a wait without a limit it stays gone.  When the time
\* is over the command sends a kill and goes on while the process may still live.
StopMeansGone ==
    \A k \in Commands :
        (cmd[k].at = "waited" \/ (cmd[k].at = "stopped" /\ cmd[k].wait = "forever")) =>
            proc[cmd[k].pid] = "none"

\* A file that can be read is moved on, whatever is killed, stopped or crashes
\* on the way and however often it was queued: the monitor finds the lock free,
\* a new process scans the directory again, and a file that cannot be read holds
\* nobody up.  Also when a restart finds the lock still with the process it has
\* killed, and starts nothing (IPC.cpp:850, 1000).
FilesMoveOn == \A f \in Files \ Broken : <>(dir[f] = "next")

=============================================================================
