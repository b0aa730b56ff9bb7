------------------------------- MODULE Service -------------------------------
(***************************************************************************)
(* A service of the framework and the programs that control it:            *)
(*   - the service's processes (class Service_Process and Local_Acceptor,  *)
(*     src/AOS/aos/IPC.cpp), of which the process lock lets one serve;     *)
(*   - the svc commands start, stop and restart (class Service_Control),   *)
(*     each a process of its own that talks to the service through its     *)
(*     local address and probes or waits for the lock;                     *)
(*   - svm (src/AOS/core/svm/Service_Monitor.cpp), which probes the lock    *)
(*     and runs "svc start" when it is free.                               *)
(*                                                                         *)
(* The lock is a semaphore of the system: whoever dies gives it back.  The *)
(* address is a socket in /tmp, which the next process replaces.  What a   *)
(* service does while it serves is MpService's.                            *)
(***************************************************************************)
EXTENDS Integers, FiniteSets

CONSTANTS
    Procs,        \* the process ids the service's processes can get
    Users,        \* svc commands that may run at a time
    Svm,          \* the monitor, with the svc command it waits for
    NoOne,
    MaxCommands,  \* bound: how many commands the users give
    MaxFaults     \* bound: how many crashes and failures to open happen

ASSUME NamesAssumption ==
    /\ Svm \notin Users /\ NoOne \notin Procs \cup Users \cup {Svm}
    /\ Procs \cap (Users \cup {Svm}) = {}
ASSUME BoundsAssumption == MaxCommands \in Nat /\ MaxFaults \in Nat

Commands == Users \cup {Svm}

VARIABLES
    proc,      \* how far each process is
    killed,    \* the processes that a kill is on its way to
    lock,      \* the holder of the process lock
    addr,      \* the process that bound the local address last
    cmd,       \* the svc commands under way
    commands,  \* commands given so far
    faults     \* faults so far

serviceVars == <<proc, killed, lock, addr, cmd, commands, faults>>

\* none: no such process; new: spawned; locked: has the lock; serving: accepts
\* commands; stopping: has taken "stop"; closing: its acceptor is closed.
ProcStates == {"none", "new", "locked", "serving", "stopping", "closing"}

Command(what, wait, at) == [at |-> at, what |-> what, wait |-> wait, pid |-> NoOne, peer |-> NoOne]
NoCommand == Command("none", "no", "idle")

\* time_to_wait: a negative number, seconds, or not given (start: 0).
WaitModes == {"no", "seconds", "forever"}

ServiceInit ==
    /\ proc = [p \in Procs |-> "none"]
    /\ killed = {}
    /\ lock = NoOne
    /\ addr = NoOne
    /\ cmd = [k \in Commands |-> NoCommand]
    /\ commands = 0
    /\ faults = 0

-----------------------------------------------------------------------------
(* Service_Process and Local_Acceptor *)

\* A process is gone, and the lock and a kill on its way with it.
Gone(p) ==
    /\ proc' = [proc EXCEPT ![p] = "none"]
    /\ lock' = IF lock = p THEN NoOne ELSE lock
    /\ killed' = killed \ {p}

\* Goes on without the lock.
LockUnchecked(p) ==
    /\ proc[p] = "new"
    /\ lock' = p
    /\ proc' = [proc EXCEPT ![p] = "locked"]
    /\ UNCHANGED <<addr, cmd, commands, faults, killed>>

\* mutex_->tryacquire(), or exit.
Lock(p) ==
    /\ proc[p] = "new"
    /\ IF lock = NoOne
       THEN lock' = p /\ proc' = [proc EXCEPT ![p] = "locked"] /\ UNCHANGED killed
       ELSE Gone(p)
    /\ UNCHANGED <<addr, cmd, commands, faults>>

\* unlink() whatever is there and bind.
Open(p) ==
    /\ proc[p] = "locked"
    /\ addr' = p
    /\ proc' = [proc EXCEPT ![p] = "serving"]
    /\ UNCHANGED <<lock, cmd, commands, faults, killed>>

\* The program returns at once; unlink() has been done.
OpenFails(p) ==
    /\ proc[p] = "locked"
    /\ faults < MaxFaults
    /\ faults' = faults + 1
    /\ addr' = NoOne
    /\ proc' = [proc EXCEPT ![p] = "closing"]
    /\ UNCHANGED <<lock, cmd, commands, killed>>

\* The destructors in the wrong order: the lock first.
CloseUnlocked(p) ==
    /\ proc[p] = "stopping"
    /\ proc' = [proc EXCEPT ![p] = "closing"]
    /\ lock' = NoOne
    /\ UNCHANGED <<addr, cmd, commands, faults, killed>>

\* acceptor.close(), once the service's threads have returned.
Close(p) ==
    /\ proc[p] = "stopping"
    /\ proc' = [proc EXCEPT ![p] = "closing"]
    /\ UNCHANGED <<lock, addr, cmd, commands, faults, killed>>

\* ~Service_Process
Exit(p) ==
    /\ proc[p] = "closing"
    /\ Gone(p)
    /\ UNCHANGED <<addr, cmd, commands, faults>>

Crash(p) ==
    /\ proc[p] # "none"
    /\ faults < MaxFaults
    /\ faults' = faults + 1
    /\ Gone(p)
    /\ UNCHANGED <<addr, cmd, commands>>

\* A kill arrives: until then the process goes on and keeps its lock.
KillArrives(p) ==
    /\ p \in killed
    /\ Gone(p)
    /\ UNCHANGED <<addr, cmd, commands, faults>>

-----------------------------------------------------------------------------
(* Service_Control: the svc commands *)

At(k, here) == cmd[k].at = here
Goto(k, there) == cmd' = [cmd EXCEPT ![k].at = there]
Done(k) == cmd' = [cmd EXCEPT ![k] = NoCommand]

GiveCommand(k) ==
    /\ At(k, "idle")
    /\ commands < MaxCommands
    /\ commands' = commands + 1
    /\ \E what \in {"start", "stop", "restart"}, wait \in WaitModes :
            cmd' = [cmd EXCEPT ![k] =
                        Command(what, wait, IF what = "start" THEN "probe" ELSE "ask")]
    /\ UNCHANGED <<proc, lock, addr, faults, killed>>

\* plock(): a service that is running ends a start.
Probe(k) ==
    /\ At(k, "probe")
    /\ IF lock = NoOne THEN lock' = k /\ Goto(k, "probed")
       ELSE Done(k) /\ UNCHANGED lock
    /\ UNCHANGED <<proc, addr, commands, faults, killed>>

\* plock() without its release.
KeepProbe(k) ==
    /\ At(k, "probed")
    /\ Goto(k, "spawn")
    /\ UNCHANGED <<proc, lock, addr, commands, faults, killed>>

ReleaseProbe(k) ==
    /\ At(k, "probed")
    /\ lock' = NoOne
    /\ Goto(k, "spawn")
    /\ UNCHANGED <<proc, addr, commands, faults, killed>>

\* The system does not give an id again that a command still remembers.
Remembered == { cmd[k].pid : k \in Commands } \cup { cmd[k].peer : k \in Commands }

\* start(): forks and spawns the service's program.
SpawnService(k) ==
    /\ At(k, "spawn")
    /\ \E p \in Procs \ Remembered :
            proc[p] = "none" /\ proc' = [proc EXCEPT ![p] = "new"]
    /\ IF cmd[k].wait = "no" THEN Done(k) ELSE Goto(k, "waitStart")
    /\ UNCHANGED <<lock, addr, commands, faults, killed>>

\* connect() reaches the process whose acceptor is open at the address; its
\* accept loop may be busy with "stop".
Answers(p) == p # NoOne /\ proc[p] = "serving"
Reachable(p) == p # NoOne /\ proc[p] \in {"serving", "stopping"}

\* wait_for_start(): pid() > 0, or the time is over.
StartSeen(k) ==
    /\ At(k, "waitStart")
    /\ Answers(addr) \/ cmd[k].wait = "seconds"
    /\ Done(k)
    /\ UNCHANGED <<proc, lock, addr, commands, faults, killed>>

\* pid() < 0 taken for an answer.
NotRunningGoesOn(k) == Goto(k, "send")

\* "service is not running!", or not any more: the end of a stop; a restart goes
\* on to start, with a time to wait of its own.
NotRunning(k) ==
    \/ cmd[k].what = "stop" /\ Done(k)
    \/ cmd[k].what = "restart" /\ \E wait \in WaitModes :
            cmd' = [cmd EXCEPT ![k] = Command("restart", wait, "probe")]

\* pid(): connects, sends "pid" ...
AskPid(k) ==
    /\ At(k, "ask")
    /\ IF Reachable(addr)
       THEN cmd' = [cmd EXCEPT ![k].at = "asked", ![k].peer = addr]
       ELSE NotRunning(k)
    /\ UNCHANGED <<proc, lock, addr, commands, faults, killed>>

\* ... and receives the answer, or nothing: the process closed its end.
PidAnswered(k) ==
    /\ At(k, "asked")
    /\ \/ /\ Answers(cmd[k].peer)
          /\ cmd' = [cmd EXCEPT ![k].at = "send", ![k].pid = cmd[k].peer, ![k].peer = NoOne]
       \/ ~Reachable(cmd[k].peer) /\ NotRunning(k)
    /\ UNCHANGED <<proc, lock, addr, commands, faults, killed>>

AfterSend(k) == IF cmd[k].wait = "no" THEN "stopped" ELSE "wait"

\* stop(): a second connection, to whoever has the address now.
SendStop(k) ==
    /\ At(k, "send")
    /\ cmd' = [cmd EXCEPT ![k].at = IF Reachable(addr) THEN "sent" ELSE AfterSend(k),
                          ![k].peer = IF Reachable(addr) THEN addr ELSE NoOne]
    /\ UNCHANGED <<proc, lock, addr, commands, faults, killed>>

\* The service reads "stop" and answers before it stops.
TakeStop(k) ==
    /\ At(k, "sent")
    /\ Answers(cmd[k].peer)
    /\ proc' = [proc EXCEPT ![cmd[k].peer] = "stopping"]
    /\ cmd' = [cmd EXCEPT ![k].at = AfterSend(k), ![k].peer = NoOne]
    /\ UNCHANGED <<lock, addr, commands, faults, killed>>

StopUnanswered(k) ==
    /\ At(k, "sent")
    /\ ~Reachable(cmd[k].peer)
    /\ cmd' = [cmd EXCEPT ![k].at = AfterSend(k), ![k].peer = NoOne]
    /\ UNCHANGED <<proc, lock, addr, commands, faults, killed>>

\* wait_for_stop(): acquires the lock ...
AwaitStop(k) ==
    /\ At(k, "wait")
    /\ lock = NoOne
    /\ lock' = k
    /\ Goto(k, "waited")
    /\ UNCHANGED <<proc, addr, commands, faults, killed>>

ReleaseWait(k) ==
    /\ At(k, "waited")
    /\ lock' = NoOne
    /\ Goto(k, "stopped")
    /\ UNCHANGED <<proc, addr, commands, faults, killed>>

\* ... or sends a kill to the process when the time is over, whoever has the
\* lock now, and goes on at once.
Terminate(k) ==
    /\ At(k, "wait") /\ cmd[k].wait = "seconds"
    /\ killed' = IF proc[cmd[k].pid] = "none" THEN killed ELSE killed \cup {cmd[k].pid}
    /\ Goto(k, "stopped")
    /\ UNCHANGED <<proc, lock, addr, commands, faults>>

AfterStop(k) ==
    /\ At(k, "stopped")
    /\ NotRunning(k)
    /\ UNCHANGED <<proc, lock, addr, commands, faults, killed>>

-----------------------------------------------------------------------------
(* Service_Monitor: one service of one round *)

\* plock(); "svc start" is run, and waited for, if the lock is free.
MonitorProbe ==
    /\ At(Svm, "idle")
    /\ lock = NoOne
    /\ lock' = Svm
    /\ cmd' = [cmd EXCEPT ![Svm] = Command("start", "no", "monitorProbed")]
    /\ UNCHANGED <<proc, addr, commands, faults, killed>>

MonitorStarts ==
    /\ At(Svm, "monitorProbed")
    /\ lock' = NoOne
    /\ Goto(Svm, "probe")
    /\ UNCHANGED <<proc, addr, commands, faults, killed>>

-----------------------------------------------------------------------------
(* What a command does on its own, and what changes a service's threads *)

CommandStep(k) ==
    \/ Probe(k) \/ ReleaseProbe(k) \/ SpawnService(k) \/ StartSeen(k)
    \/ AskPid(k) \/ PidAnswered(k) \/ SendStop(k) \/ StopUnanswered(k)
    \/ AwaitStop(k) \/ ReleaseWait(k) \/ Terminate(k) \/ AfterStop(k)

-----------------------------------------------------------------------------
(* Parts of the properties *)

CommandRecord ==
    [at : {"idle", "monitorProbed", "probe", "probed", "spawn", "waitStart", "ask", "asked",
           "send", "sent", "wait", "waited", "stopped"},
     what : {"none", "start", "stop", "restart"}, wait : WaitModes,
     pid : Procs \cup {NoOne}, peer : Procs \cup {NoOne}]

ServiceTypeOK ==
    /\ proc \in [Procs -> ProcStates]
    /\ killed \subseteq Procs
    /\ lock \in Procs \cup Commands \cup {NoOne}
    /\ addr \in Procs \cup {NoOne}
    /\ cmd \in [Commands -> CommandRecord]
    /\ \A k \in Commands : cmd[k].at \in {"send", "sent", "wait", "waited", "stopped"} =>
            cmd[k].pid \in Procs
    /\ commands \in 0 .. MaxCommands
    /\ faults \in 0 .. MaxFaults
=============================================================================
