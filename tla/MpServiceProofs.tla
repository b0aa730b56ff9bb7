-------------------------- MODULE MpServiceProofs --------------------------
(***************************************************************************)
(* For any number of processes, commands, files and workers, and any       *)
(* number of crashes: at most one process serves and only its threads work *)
(* on the files, and a stop that gets the lock it waits for leaves the     *)
(* process it asked gone.                                                  *)
(***************************************************************************)
EXTENDS MpService, TLAPS

-----------------------------------------------------------------------------
(* The inductive invariant *)

HasLock == {"locked", "serving", "stopping", "closing"}
Probing == {"monitorProbed", "probed", "waited"}
KnowsPid == {"send", "sent", "wait", "waited", "stopped"}

\* Who is behind tryacquire() has the lock, a process or a command.
HoldersHold ==
    /\ \A p \in Procs : proc[p] \in HasLock => lock = p
    /\ \A k \in Commands : cmd[k].at \in Probing => lock = k

\* Nobody binds the address while a process serves.
ServesAtAddress == \A p \in Procs : proc[p] \in {"serving", "stopping"} => addr = p

\* The process that answered a command does not start again under the same id.
NotStartedAgain == \A k \in Commands : cmd[k].at \in KnowsPid => proc[cmd[k].pid] # "new"

ServiceInv ==
    /\ ServiceTypeOK
    /\ HoldersHold
    /\ ServesAtAddress
    /\ NotStartedAgain
    /\ StopMeansGone

ThreadsTypeOK ==
    /\ dir \in [Files -> {"path", "next"}]
    /\ queue \in Seq(Files) /\ Len(queue) <= QueueLimit
    /\ active \in BOOLEAN /\ stop \in BOOLEAN
    /\ enq \in [at : {"none", "loop", "scan", "drain"}, todo : SUBSET Files]
    /\ worker \in [Workers -> [at : {"none", "dequeue", "import", "rename"}, f : Files \cup {NoOne}]]

\* Threads run only in a process that serves or stops.
ThreadsRun == enq.at # "none" \/ \E w \in Workers : worker[w] # NoThread
ThreadsHaveAProcess == ThreadsRun => \E p \in Procs : proc[p] \in {"serving", "stopping"}

IInv == ServiceInv /\ ThreadsTypeOK /\ ThreadsHaveAProcess

-----------------------------------------------------------------------------
(* The service's steps *)

LEMMA Names ==
  /\ Svm \in Commands /\ NoOne \notin Procs /\ NoOne \notin Commands
  /\ Procs \cap Commands = {}
  BY NamesAssumption DEF Commands

\* A process comes, goes or moves on, and no command does.
LEMMA ProcessMoves ==
  ASSUME ServiceInv, NEW p \in Procs,
         \/ Lock(p) \/ Open(p) \/ OpenFails(p) \/ Close(p) \/ Exit(p) \/ Crash(p)
         \/ KillArrives(p)
  PROVE  ServiceInv'
<1> USE Names
<1>0. cmd' = cmd /\ commands' = commands
  BY DEF Lock, Open, OpenFails, Close, Exit, Crash, KillArrives, Gone
<1>1. ServiceTypeOK'
  BY <1>0, BoundsAssumption DEF ServiceInv, ServiceTypeOK, ProcStates, Lock, Open, OpenFails, Close, Exit, Crash, KillArrives, Gone
<1>2. HoldersHold'
  BY <1>0 DEF ServiceInv, ServiceTypeOK, HoldersHold, HasLock, Probing, Lock, Open, OpenFails, Close, Exit, Crash, KillArrives, Gone
<1>3. ServesAtAddress'
  BY <1>0 DEF ServiceInv, ServiceTypeOK, HoldersHold, HasLock, ServesAtAddress, Lock, Open, OpenFails, Close, Exit, Crash, KillArrives, Gone
<1>4. NotStartedAgain'
  BY <1>0 DEF ServiceInv, ServiceTypeOK, NotStartedAgain, KnowsPid, Lock, Open, OpenFails, Close, Exit, Crash, KillArrives, Gone
<1>5. StopMeansGone'
  BY <1>0 DEF ServiceInv, ServiceTypeOK, StopMeansGone, Lock, Open, OpenFails, Close, Exit, Crash, KillArrives, Gone
<1> QED
  BY <1>1, <1>2, <1>3, <1>4, <1>5 DEF ServiceInv

\* A command moves on, and no process does.
LEMMA CommandMoves ==
  ASSUME ServiceInv, NEW k \in Commands,
         \/ GiveCommand(k) \/ Probe(k) \/ ReleaseProbe(k) \/ StartSeen(k)
         \/ AskPid(k) \/ PidAnswered(k) \/ SendStop(k) \/ StopUnanswered(k)
         \/ AwaitStop(k) \/ ReleaseWait(k) \/ Terminate(k) \/ AfterStop(k)
  PROVE  ServiceInv'
<1> USE Names
<1>0. proc' = proc /\ addr' = addr /\ faults' = faults
  BY DEF GiveCommand, Probe, ReleaseProbe, StartSeen, AskPid, PidAnswered, SendStop,
     StopUnanswered, AwaitStop, ReleaseWait, Terminate, AfterStop
<1>1. ServiceTypeOK'
  <2> USE DEF ServiceInv, ServiceTypeOK, CommandRecord, WaitModes, At
  <2>1. CASE GiveCommand(k)
    BY <2>1, BoundsAssumption DEF GiveCommand, Command
  <2>2. CASE Probe(k) \/ ReleaseProbe(k) \/ StartSeen(k)
    BY <2>2 DEF Probe, ReleaseProbe, StartSeen, Goto, Done, Command, NoCommand
  <2>3. CASE AskPid(k) \/ PidAnswered(k)
    BY <2>3 DEF AskPid, PidAnswered, NotRunning, Done, Command, NoCommand, Reachable, Answers
  <2>4. CASE SendStop(k) \/ StopUnanswered(k)
    BY <2>4 DEF SendStop, StopUnanswered, AfterSend, Reachable
  <2>5. CASE AwaitStop(k) \/ ReleaseWait(k) \/ AfterStop(k)
    BY <2>5 DEF AwaitStop, ReleaseWait, AfterStop, NotRunning, Done, Goto, Command, NoCommand
  <2>6. CASE Terminate(k)
    BY <2>6 DEF Terminate, Goto
  <2> QED
    BY <2>1, <2>2, <2>3, <2>4, <2>5, <2>6
<1>2. HoldersHold' /\ ServesAtAddress'
  <2> USE DEF ServiceInv, ServiceTypeOK, HoldersHold, ServesAtAddress, HasLock, Probing, At
  <2>1. CASE GiveCommand(k)
    BY <2>1, <1>0 DEF GiveCommand, Command
  <2>2. CASE Probe(k) \/ ReleaseProbe(k) \/ StartSeen(k)
    <3>1. CASE Probe(k)
      BY <3>1, <1>0 DEF Probe, Goto, Done, Command, NoCommand, CommandRecord
    <3>2. CASE ReleaseProbe(k) \/ StartSeen(k)
      BY <3>2, <1>0 DEF ReleaseProbe, StartSeen, Goto, Done, Command, NoCommand, CommandRecord
    <3> QED
      BY <2>2, <3>1, <3>2
  <2>3. CASE AskPid(k) \/ PidAnswered(k)
    <3>1. lock' = lock /\ cmd'[k].at \notin Probing
      BY <2>3 DEF AskPid, PidAnswered, NotRunning, Done, Command, NoCommand, CommandRecord
    <3>2. \A j \in Commands : j # k => cmd'[j] = cmd[j]
      BY <2>3 DEF AskPid, PidAnswered, NotRunning, Done
    <3> QED
      BY <3>1, <3>2, <1>0
  <2>4. CASE SendStop(k) \/ StopUnanswered(k)
    BY <2>4, <1>0 DEF SendStop, StopUnanswered, AfterSend, CommandRecord
  <2>5. CASE AwaitStop(k) \/ ReleaseWait(k) \/ AfterStop(k)
    <3>1. CASE AwaitStop(k) \/ ReleaseWait(k)
      BY <3>1, <1>0 DEF AwaitStop, ReleaseWait, Goto, CommandRecord
    <3>2. CASE AfterStop(k)
      BY <3>2, <1>0 DEF AfterStop, NotRunning, Done, Command, NoCommand, CommandRecord
    <3> QED
      BY <2>5, <3>1, <3>2
  <2>6. CASE Terminate(k)
    BY <2>6, <1>0 DEF Terminate, Goto, CommandRecord
  <2> QED
    BY <2>1, <2>2, <2>3, <2>4, <2>5, <2>6
<1>3. NotStartedAgain' /\ StopMeansGone'
  <2> USE DEF ServiceInv, ServiceTypeOK, NotStartedAgain, StopMeansGone, KnowsPid, At
  <2>1. CASE GiveCommand(k)
    BY <2>1, <1>0 DEF GiveCommand, Command
  <2>2. CASE Probe(k) \/ ReleaseProbe(k) \/ StartSeen(k)
    BY <2>2, <1>0 DEF Probe, ReleaseProbe, StartSeen, Goto, Done, Command, NoCommand, CommandRecord
  <2>3. CASE AskPid(k) \/ PidAnswered(k)
    BY <2>3, <1>0 DEF AskPid, PidAnswered, NotRunning, Done, Answers, Command, NoCommand, CommandRecord
  <2>4. CASE SendStop(k) \/ StopUnanswered(k)
    BY <2>4, <1>0 DEF SendStop, StopUnanswered, AfterSend, CommandRecord
  <2>5. CASE AwaitStop(k)
    \* The process had the lock, and did not come back.
    BY <2>5, <1>0 DEF AwaitStop, Goto, HoldersHold, HasLock, ProcStates, CommandRecord
  <2>6. CASE ReleaseWait(k) \/ AfterStop(k)
    BY <2>6, <1>0 DEF ReleaseWait, AfterStop, NotRunning, Done, Goto, Command, NoCommand, CommandRecord
  <2>7. CASE Terminate(k)
    BY <2>7, <1>0 DEF Terminate, Goto, CommandRecord
  <2> QED
    BY <2>1, <2>2, <2>3, <2>4, <2>5, <2>6, <2>7
<1> QED
  BY <1>1, <1>2, <1>3 DEF ServiceInv

\* A command starts a process, or hands it "stop".
LEMMA CommandsMoveProcesses ==
  ASSUME ServiceInv, NEW k \in Commands,
         SpawnService(k) \/ TakeStop(k)
  PROVE  ServiceInv'
<1> USE Names DEF At
<1>1. CASE SpawnService(k)
  <2> USE <1>1 DEF ServiceInv, ServiceTypeOK, SpawnService, Goto, Done, Command, NoCommand
  <2>1. ServiceTypeOK'
    BY DEF CommandRecord, WaitModes, ProcStates
  <2>2. HoldersHold' /\ ServesAtAddress'
    BY DEF HoldersHold, ServesAtAddress, HasLock, Probing, CommandRecord
  <2>3. NotStartedAgain' /\ StopMeansGone'
    BY DEF NotStartedAgain, StopMeansGone, KnowsPid, Remembered, CommandRecord
  <2> QED
    BY <2>1, <2>2, <2>3
<1>2. CASE TakeStop(k)
  <2> USE <1>2 DEF ServiceInv, ServiceTypeOK, TakeStop, AfterSend, Answers
  <2>1. ServiceTypeOK'
    BY DEF CommandRecord, WaitModes, ProcStates
  <2>2. HoldersHold' /\ ServesAtAddress'
    BY DEF HoldersHold, ServesAtAddress, HasLock, Probing, CommandRecord
  <2>3. NotStartedAgain' /\ StopMeansGone'
    BY DEF NotStartedAgain, StopMeansGone, KnowsPid, CommandRecord
  <2> QED
    BY <2>1, <2>2, <2>3
<1> QED
  BY <1>1, <1>2

LEMMA MonitorMoves ==
  ASSUME ServiceInv, MonitorProbe \/ MonitorStarts
  PROVE  ServiceInv'
<1> USE Names DEF At, ServiceInv, ServiceTypeOK, MonitorProbe, MonitorStarts, Command, Goto
<1>1. ServiceTypeOK'
  BY DEF CommandRecord, WaitModes
<1>2. HoldersHold' /\ ServesAtAddress'
  BY DEF HoldersHold, ServesAtAddress, HasLock, Probing, CommandRecord
<1>3. NotStartedAgain' /\ StopMeansGone'
  BY DEF NotStartedAgain, StopMeansGone, KnowsPid, CommandRecord
<1> QED
  BY <1>1, <1>2, <1>3

-----------------------------------------------------------------------------
(* The threads *)

\* What leaves the threads alone does not end the process they run in.
LEMMA ServingStays ==
  ASSUME ServiceInv, NEW q \in Procs, proc[q] \in {"serving", "stopping"},
         \/ \E p \in Procs : Lock(p) \/ Exit(p) \/ OpenFails(p)
         \/ \E k \in Commands : GiveCommand(k) \/ CommandStep(k)
         \/ MonitorProbe \/ MonitorStarts
  PROVE  proc'[q] \in {"serving", "stopping"}
<1> USE DEF ServiceInv, ServiceTypeOK
<1>1. CASE \E p \in Procs : Lock(p) \/ Exit(p) \/ OpenFails(p)
  BY <1>1 DEF Lock, Exit, OpenFails, Gone
<1>2. CASE \E k \in Commands : GiveCommand(k) \/ CommandStep(k)
  BY <1>2 DEF GiveCommand, CommandStep, Probe, ReleaseProbe, SpawnService, StartSeen, AskPid,
     PidAnswered, SendStop, StopUnanswered, AwaitStop, ReleaseWait, Terminate, AfterStop
<1>3. CASE MonitorProbe \/ MonitorStarts
  BY <1>3 DEF MonitorProbe, MonitorStarts
<1> QED
  BY <1>1, <1>2, <1>3

LEMMA ThreadsUntouched ==
  ASSUME ServiceInv, ThreadsTypeOK, ThreadsHaveAProcess, UNCHANGED mpVars,
         \/ \E p \in Procs : Lock(p) \/ Exit(p) \/ OpenFails(p)
         \/ \E k \in Commands : GiveCommand(k) \/ CommandStep(k)
         \/ MonitorProbe \/ MonitorStarts
  PROVE  ThreadsTypeOK' /\ ThreadsHaveAProcess'
<1>1. ThreadsTypeOK' /\ (ThreadsRun' <=> ThreadsRun)
  BY DEF ThreadsTypeOK, ThreadsRun, mpVars, diskVars, threadVars
<1> QED
  BY <1>1, ServingStays DEF ThreadsHaveAProcess

LEMMA NoThreadsRun ==
  ASSUME NoThreads, UNCHANGED dir, ThreadsTypeOK
  PROVE  ThreadsTypeOK' /\ ~ThreadsRun'
<1>1. <<>> \in Seq(Files) /\ Len(<<>>) <= QueueLimit
  BY QueueLimitAssumption
<1> QED
  BY <1>1 DEF NoThreads, NoThread, ThreadsTypeOK, ThreadsRun

LEMMA ThreadsDie ==
  ASSUME ServiceInv, ThreadsTypeOK, ThreadsHaveAProcess, NEW p,
         Dies(p, Gone(p))
  PROVE  ThreadsTypeOK' /\ ThreadsHaveAProcess'
<1>1. CASE proc[p] \in {"serving", "stopping"}
  BY <1>1, NoThreadsRun DEF Dies, diskVars, ThreadsHaveAProcess
<1>2. CASE proc[p] \notin {"serving", "stopping"}
  <2>1. ThreadsTypeOK' /\ (ThreadsRun' <=> ThreadsRun)
    BY <1>2 DEF Dies, threadVars, diskVars, ThreadsTypeOK, ThreadsRun
  <2>2. \A q \in Procs : q # p => proc'[q] = proc[q]
    BY DEF Dies, Gone, ServiceInv, ServiceTypeOK
  <2> QED
    BY <1>2, <2>1, <2>2 DEF ThreadsHaveAProcess
<1> QED
  BY <1>1, <1>2

\* The enqueuer and the workers.
LEMMA ThreadsWork ==
  ASSUME ThreadsTypeOK, ThreadsHaveAProcess, Enqueuer \/ \E w \in Workers : Work(w)
  PROVE  ThreadsTypeOK' /\ ThreadsHaveAProcess' /\ UNCHANGED serviceVars
<1> USE QueueLimitAssumption
<1>1. ThreadsRun /\ UNCHANGED serviceVars
  BY DEF ThreadsRun, ThreadsTypeOK, Enqueuer, BeginScan, ReadEntry, EndScan, Drained, Work, Dequeue, Import,
     Rename, Resting, NoThread
<1>2. ASSUME NEW f \in Files, Len(queue) < QueueLimit
      PROVE  Append(queue, f) \in Seq(Files) /\ Len(Append(queue, f)) <= QueueLimit
  BY <1>2 DEF ThreadsTypeOK
<1>3. queue # <<>> => Head(queue) \in Files /\ Tail(queue) \in Seq(Files) /\ Len(Tail(queue)) <= QueueLimit
  BY DEF ThreadsTypeOK
<1>4. ASSUME BeginScan \/ EndScan \/ Drained
      PROVE  ThreadsTypeOK'
  <2>1. enq' \in [at : {"none", "loop", "scan", "drain"}, todo : SUBSET Files]
    BY <1>4 DEF ThreadsTypeOK, BeginScan, EndScan, Drained, InPath
  <2> QED
    BY <1>4, <2>1 DEF ThreadsTypeOK, BeginScan, EndScan, Drained, diskVars
<1>5. ASSUME ReadEntry
      PROVE  ThreadsTypeOK'
  <2>1. PICK f \in enq.todo :
            /\ IF dir[f] = "path"
               THEN Len(queue) < QueueLimit /\ queue' = Append(queue, f)
               ELSE UNCHANGED queue
            /\ enq' = [enq EXCEPT !.todo = @ \ {f}]
    BY <1>5 DEF ReadEntry
  <2>2. f \in Files /\ enq' \in [at : {"none", "loop", "scan", "drain"}, todo : SUBSET Files]
    BY <2>1 DEF ThreadsTypeOK
  <2>3. queue' \in Seq(Files) /\ Len(queue') <= QueueLimit
    BY <2>1, <2>2, <1>2 DEF ThreadsTypeOK
  <2> QED
    BY <1>5, <2>2, <2>3 DEF ThreadsTypeOK, ReadEntry, diskVars
<1>6. ASSUME \E w \in Workers : Dequeue(w)
      PROVE  ThreadsTypeOK'
  <2>1. PICK w \in Workers : Dequeue(w)
    BY <1>6
  <2>2. \/ queue # <<>> /\ queue' = Tail(queue)
           /\ worker' = [worker EXCEPT ![w] = Holding(Head(queue), "import")]
        \/ queue' = queue /\ worker' = [worker EXCEPT ![w] = NoThread]
    BY <2>1 DEF Dequeue
  <2>3. queue' \in Seq(Files) /\ Len(queue') <= QueueLimit
    BY <2>2, <1>3 DEF ThreadsTypeOK
  <2>4. worker' \in [Workers -> [at : {"none", "dequeue", "import", "rename"}, f : Files \cup {NoOne}]]
    BY <2>2, <1>3 DEF ThreadsTypeOK, Holding, NoThread
  <2> QED
    BY <2>1, <2>3, <2>4 DEF ThreadsTypeOK, Dequeue, diskVars
<1>7. ASSUME \E w \in Workers : Import(w) \/ Rename(w)
      PROVE  ThreadsTypeOK'
  <2>1. PICK w \in Workers : Import(w) \/ Rename(w)
    BY <1>7
  <2>2. worker' \in [Workers -> [at : {"none", "dequeue", "import", "rename"}, f : Files \cup {NoOne}]]
    BY <2>1 DEF ThreadsTypeOK, Import, Rename, Holding, Resting
  <2>3. dir' \in [Files -> {"path", "next"}]
    BY <2>1 DEF ThreadsTypeOK, Import, Rename, diskVars
  <2> QED
    BY <2>1, <2>2, <2>3 DEF ThreadsTypeOK, Import, Rename
<1>8. ThreadsTypeOK'
  BY <1>4, <1>5, <1>6, <1>7 DEF Enqueuer, Work
<1> QED
  BY <1>1, <1>8 DEF ThreadsHaveAProcess, serviceVars

-----------------------------------------------------------------------------
(* The invariant *)

LEMMA InitHolds == Init => IInv
<1> SUFFICES ASSUME Init PROVE IInv
  OBVIOUS
<1> USE Names, BoundsAssumption, QueueLimitAssumption DEF Init, ServiceInit
<1>1. ServiceTypeOK
  BY DEF ServiceTypeOK, ProcStates, CommandRecord, WaitModes, NoCommand, Command
<1>2. HoldersHold /\ ServesAtAddress /\ NotStartedAgain /\ StopMeansGone
  BY DEF HoldersHold, HasLock, Probing, ServesAtAddress, NotStartedAgain, KnowsPid, StopMeansGone,
     NoCommand, Command
<1>3. ThreadsTypeOK
  <2>1. <<>> \in Seq(Files) /\ Len(<<>>) <= QueueLimit
    OBVIOUS
  <2> QED
    BY <2>1 DEF ThreadsTypeOK, NoThread
<1>4. ThreadsHaveAProcess
  BY DEF ThreadsHaveAProcess, ThreadsRun, NoThread
<1> QED
  BY <1>1, <1>2, <1>3, <1>4 DEF IInv, ServiceInv

LEMMA NextKeeps == IInv /\ [Next]_vars => IInv'
<1> SUFFICES ASSUME IInv, [Next]_vars PROVE IInv'
  OBVIOUS
<1> USE DEF IInv
<1>1. ASSUME NEW p \in Procs, ProcessStep(p)
      PROVE  IInv'
  <2>1. CASE (Lock(p) \/ Exit(p)) /\ UNCHANGED mpVars
    BY <2>1, ProcessMoves, ThreadsUntouched
  <2>2. CASE StartService(p)
    <3>1. ServiceInv' /\ proc'[p] = "serving"
      BY <2>2, ProcessMoves DEF StartService, Open, ServiceInv, ServiceTypeOK
    <3>2. <<>> \in Seq(Files) /\ Len(<<>>) <= QueueLimit
      BY QueueLimitAssumption
    <3>3. ThreadsTypeOK'
      BY <2>2, <3>2 DEF StartService, diskVars, ThreadsTypeOK, Resting
    <3> QED
      BY <3>1, <3>3 DEF ThreadsHaveAProcess
  <2>3. CASE StopWorkers(p)
    <3>1. ServiceInv'
      BY <2>3 DEF StopWorkers, serviceVars, ServiceInv, ServiceTypeOK, HoldersHold, ServesAtAddress,
         NotStartedAgain, StopMeansGone
    <3>2. ThreadsTypeOK' /\ ThreadsHaveAProcess'
      BY <2>3 DEF StopWorkers, serviceVars, diskVars, ThreadsTypeOK, ThreadsHaveAProcess, ThreadsRun
    <3> QED
      BY <3>1, <3>2
  <2>4. CASE EndService(p)
    BY <2>4, ProcessMoves, NoThreadsRun DEF EndService, diskVars, ThreadsHaveAProcess
  <2> QED
    BY <1>1, <2>1, <2>2, <2>3, <2>4 DEF ProcessStep
<1>2. ASSUME NEW p \in Procs, OpenFails(p) /\ UNCHANGED mpVars
      PROVE  IInv'
  BY <1>2, ProcessMoves, ThreadsUntouched
<1>3. ASSUME NEW p \in Procs, Dies(p, Crash(p)) \/ Dies(p, KillArrives(p))
      PROVE  IInv'
  <2>1. (Crash(p) \/ KillArrives(p)) /\ Dies(p, Gone(p))
    BY <1>3 DEF Dies, Crash, KillArrives
  <2> QED
    BY <2>1, ProcessMoves, ThreadsDie
<1>4. ASSUME NEW k \in Commands, GiveCommand(k) /\ UNCHANGED mpVars
      PROVE  IInv'
  BY <1>4, CommandMoves, ThreadsUntouched
<1>5. ASSUME NEW k \in Commands, Control(k)
      PROVE  IInv'
  <2>1. CommandStep(k) /\ UNCHANGED mpVars
    BY <1>5 DEF Control
  <2>2. ServiceInv'
    BY <2>1, CommandMoves, CommandsMoveProcesses DEF CommandStep
  <2> QED
    BY <2>1, <2>2, ThreadsUntouched
<1>6. ASSUME NEW k \in Commands, StopEnqueuer(k)
      PROVE  IInv'
  <2>1. ServiceInv'
    BY <1>6, CommandsMoveProcesses DEF StopEnqueuer
  <2>2. ThreadsTypeOK' /\ (ThreadsRun' <=> ThreadsRun)
    BY <1>6 DEF StopEnqueuer, diskVars, ThreadsTypeOK, ThreadsRun
  <2>3. \A q \in Procs : proc[q] \in {"serving", "stopping"} => proc'[q] \in {"serving", "stopping"}
    BY <1>6 DEF StopEnqueuer, TakeStop, ServiceInv, ServiceTypeOK
  <2> QED
    BY <2>1, <2>2, <2>3 DEF ThreadsHaveAProcess
<1>7. CASE Monitor
  BY <1>7, MonitorMoves, ThreadsUntouched DEF Monitor
<1>8. CASE Enqueuer \/ \E w \in Workers : Work(w)
  <2>1. ThreadsTypeOK' /\ ThreadsHaveAProcess' /\ UNCHANGED serviceVars
    BY <1>8, ThreadsWork
  <2>2. ServiceInv'
    BY <2>1 DEF serviceVars, ServiceInv, ServiceTypeOK, HoldersHold, ServesAtAddress, NotStartedAgain, StopMeansGone
  <2> QED
    BY <2>1, <2>2
<1>9. CASE UNCHANGED vars
  BY <1>9 DEF vars, mpVars, diskVars, threadVars, serviceVars, ServiceInv, ServiceTypeOK, HoldersHold,
     ServesAtAddress, NotStartedAgain, StopMeansGone, ThreadsTypeOK, ThreadsHaveAProcess, ThreadsRun
<1> QED
  BY <1>1, <1>2, <1>3, <1>4, <1>5, <1>6, <1>7, <1>8, <1>9 DEF Next, Commands

\* The inductive invariant holds in every reachable state.
THEOREM Invariance == Spec => []IInv
  BY InitHolds, NextKeeps, PTL DEF Spec

\* The processes, the commands and the threads stay within their types.
THEOREM Types == Spec => []TypeOK
<1>1. IInv => TypeOK
  BY DEF IInv, ServiceInv, ThreadsTypeOK, TypeOK
<1> QED
  BY <1>1, Invariance, PTL

\* At most one process serves, the one that has the lock, and only its threads
\* work on the files (Service_Process, IPC.cpp:305).
THEOREM OneServes == Spec => []OneInstance
<1>1. IInv => OneInstance
  BY DEF IInv, ServiceInv, HoldersHold, HasLock, ServesAtAddress, ThreadsHaveAProcess, ThreadsRun, OneInstance
<1> QED
  BY <1>1, Invariance, PTL

\* A stop that has got the lock it waits for finds the process it asked gone
\* (wait_for_stop, IPC.cpp:818-847), whoever had the lock in between.
THEOREM StoppedIsGone == Spec => []StopMeansGone
<1>1. IInv => StopMeansGone
  BY DEF IInv, ServiceInv
<1> QED
  BY <1>1, Invariance, PTL
=============================================================================
