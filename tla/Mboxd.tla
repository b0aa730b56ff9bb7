------------------------------- MODULE Mboxd -------------------------------
(***************************************************************************)
(* The mailbox daemon (src/AOS/home/mboxd): a scanner thread looks for     *)
(* "*.done" files in the spool and queues them; processor threads read     *)
(* which mails a file announces, move each to the user's mailbox, insert   *)
(* its summary into the user's database and move the file itself away.     *)
(*                                                                         *)
(* Directories and databases outlive the process, which may be stopped by  *)
(* its owner or crash at any moment and be started again.  Who writes to   *)
(* the spool is external: it puts the mails first and their file last.     *)
(***************************************************************************)
EXTENDS Integers, Sequences, FiniteSets, Functions

CONSTANTS
    Batches,      \* the *.done files
    Mails,        \* the mails
    MailsOf,      \* which mails each file announces, in the order of its lines
    Processors,   \* the threads of Mail_Processor
    QueueLimit,   \* the messages the queue holds before putq() waits
    MaxCrashes    \* bound: how often the process crashes

ASSUME MailsOfAssumption ==
    /\ MailsOf \in [Batches -> Seq(Mails)]
    /\ \A b, c \in Batches : b # c => Range(MailsOf[b]) \cap Range(MailsOf[c]) = {}
ASSUME ProcessorsAssumption == IsFiniteSet(Processors)
ASSUME BoundsAssumption == QueueLimit \in Nat \ {0} /\ MaxCrashes \in Nat

VARIABLES
    done,      \* of each *.done file: not there yet, in the spool, or backed up
    mail,      \* of each mail: not there yet, in the spool, or in the mailbox
    rows,      \* of each mail: its rows in the database
    stage,     \* what the program's main thread is doing
    posted,    \* the stop messages stop() has queued
    scanner,   \* of the scanner thread: where it is, what it has still to look
               \* at, and the file it is about to queue
    queue,     \* the message queue of Mail_Processor
    busy,      \* n_busy_thread_
    proc,      \* of each processor: where it is, its message, the mails left
    failed,    \* the files one of whose operations failed
    crashes    \* the crashes so far

disk == <<done, mail, rows, failed>>
threads == <<scanner, queue, busy, proc>>
vars == <<disk, stage, posted, threads, crashes>>

StopMessage == "stop"

ASSUME StopMessageAssumption == StopMessage \notin Batches

Resting(at) == [at |-> at, left |-> {}, file |-> StopMessage]
Waiting(at) == [at |-> at, msg |-> StopMessage, left |-> <<>>]

Init ==
    /\ done = [b \in Batches |-> "none"]
    /\ mail = [m \in Mails |-> "none"]
    /\ rows = [m \in Mails |-> 0]
    /\ failed = {}
    /\ stage = "down"
    /\ posted = 0
    /\ scanner = Resting("down")
    /\ queue = <<>>
    /\ busy = 0
    /\ proc = [p \in Processors |-> Waiting("down")]
    /\ crashes = 0

-----------------------------------------------------------------------------
(* The spool's writer and the process as a whole *)

Deliver(b) ==
    /\ done[b] = "none"
    /\ done' = [done EXCEPT ![b] = "spool"]
    /\ mail' = [m \in Mails |-> IF m \in Range(MailsOf[b]) THEN "spool" ELSE mail[m]]
    /\ UNCHANGED <<rows, failed, stage, posted, threads, crashes>>

\* mp.start(); scanner.start()
Start ==
    /\ stage = "down"
    /\ stage' = "serving"
    /\ scanner' = Resting("loop")
    /\ busy' = 0
    /\ proc' = [p \in Processors |-> Waiting("getq")]
    /\ UNCHANGED <<disk, posted, queue, crashes>>

\* What was in memory is gone.
Die ==
    /\ stage' = "down"
    /\ posted' = 0
    /\ scanner' = Resting("down")
    /\ queue' = <<>>
    /\ busy' = 0
    /\ proc' = [p \in Processors |-> Waiting("down")]

Crash ==
    /\ stage # "down"
    /\ crashes < MaxCrashes
    /\ crashes' = crashes + 1
    /\ Die
    /\ UNCHANGED disk

-----------------------------------------------------------------------------
(* Spool_Scanner::svc() *)

InSpool == { b \in Batches : done[b] = "spool" }

\* while( go_ ), and the directory is opened; go_ is 0 once stop() was called.
Loop ==
    /\ scanner.at = "loop"
    /\ scanner' = IF stage = "serving" THEN [scanner EXCEPT !.at = "scan", !.left = InSpool]
                                       ELSE Resting("down")
    /\ UNCHANGED <<disk, stage, posted, queue, busy, proc, crashes>>

\* A directory entry, if the file is still there.
ReadEntry ==
    /\ scanner.at = "scan"
    /\ \/ \E b \in scanner.left :
            scanner' = [scanner EXCEPT !.left = @ \ {b},
                                       !.at = IF b \in InSpool THEN "putq" ELSE "scan",
                                       !.file = IF b \in InSpool THEN b ELSE @]
       \/ scanner.left = {} /\ scanner' = Resting("sleep")
    /\ UNCHANGED <<disk, stage, posted, queue, busy, proc, crashes>>

putq ==
    /\ scanner.at = "putq"
    /\ Len(queue) < QueueLimit
    /\ queue' = Append(queue, scanner.file)
    /\ scanner' = [scanner EXCEPT !.at = "scan", !.file = StopMessage]
    /\ UNCHANGED <<disk, stage, posted, busy, proc, crashes>>

\* !is_empty() || busy(): the queue is looked at first, and the count after.
LookAtQueue ==
    /\ scanner.at = "sleep"
    /\ queue = <<>>
    /\ scanner' = [scanner EXCEPT !.at = "lookAtBusy"]
    /\ UNCHANGED <<disk, stage, posted, queue, busy, proc, crashes>>

LookAtBusy ==
    /\ scanner.at = "lookAtBusy"
    /\ scanner' = [scanner EXCEPT !.at = IF busy = 0 THEN "loop" ELSE "sleep"]
    /\ UNCHANGED <<disk, stage, posted, queue, busy, proc, crashes>>

-----------------------------------------------------------------------------
(* Mail_Processor::svc() *)

Become(p, x) == proc' = [proc EXCEPT ![p] = x]
Goes(p, at) == proc' = [proc EXCEPT ![p].at = at]

getq(p) ==
    /\ proc[p].at = "getq"
    /\ queue # <<>>
    /\ Become(p, [at |-> "count", msg |-> Head(queue), left |-> <<>>])
    /\ queue' = Tail(queue)
    /\ UNCHANGED <<disk, stage, posted, scanner, busy, crashes>>

CountBusy(p) ==
    /\ proc[p].at = "count"
    /\ busy' = busy + 1
    /\ Goes(p, "begin")
    /\ UNCHANGED <<disk, stage, posted, scanner, queue, crashes>>

\* The empty message: leave the loop.
Quit(p) ==
    /\ proc[p].at = "begin" /\ proc[p].msg = StopMessage
    /\ busy' = busy - 1
    /\ Become(p, Waiting("down"))
    /\ UNCHANGED <<disk, stage, posted, scanner, queue, crashes>>

\* Gives up on an exception without going on to the end of the loop's body.
OpenOrForget(p) ==
    LET b == proc[p].msg
    IN  /\ proc[p].at = "begin" /\ b # StopMessage
        /\ \/ /\ Become(p, Waiting("getq"))
              /\ failed' = failed \cup {b}
           \/ /\ done[b] = "spool"
              /\ Become(p, [proc[p] EXCEPT !.at = "line", !.left = MailsOf[b]])
              /\ UNCHANGED failed
        /\ UNCHANGED <<done, mail, rows, stage, posted, scanner, queue, busy, crashes>>

\* The database and the file are opened.  The database may throw; reading a file
\* that could not be opened is undefined, and ends the process or reads nothing.
Open(p) ==
    LET b == proc[p].msg
    IN  /\ proc[p].at = "begin" /\ b # StopMessage
        /\ \/ /\ Goes(p, "backup")
              /\ failed' = failed \cup {b}
              /\ UNCHANGED <<stage, posted, scanner, queue, busy>>
           \/ /\ done[b] = "spool"
              /\ Become(p, [proc[p] EXCEPT !.at = "line", !.left = MailsOf[b]])
              /\ UNCHANGED <<failed, stage, posted, scanner, queue, busy>>
           \/ /\ done[b] # "spool"
              /\ Goes(p, "backup")
              /\ UNCHANGED <<failed, stage, posted, scanner, queue, busy>>
           \/ done[b] # "spool" /\ Die /\ UNCHANGED failed
        /\ UNCHANGED <<done, mail, rows, crashes>>

\* Stops at the first mail that is not there any more.
ReadUntilGone(p) ==
    /\ proc[p].at = "line"
    /\ IF proc[p].left # <<>> /\ mail[Head(proc[p].left)] = "spool"
       THEN Goes(p, "move") ELSE Goes(p, "backup")
    /\ UNCHANGED <<disk, stage, posted, scanner, queue, busy, crashes>>

\* One line of the file: the mail is imported, or skipped if it cannot be read.
ReadLine(p) ==
    /\ proc[p].at = "line"
    /\ \/ /\ proc[p].left = <<>>
          /\ Goes(p, "backup")
          /\ UNCHANGED failed
       \/ /\ proc[p].left # <<>>
          /\ mail[Head(proc[p].left)] = "spool"
          /\ Goes(p, "move")
          /\ UNCHANGED failed
       \/ /\ proc[p].left # <<>>
          /\ Become(p, [proc[p] EXCEPT !.left = Tail(@)])
          /\ failed' = IF mail[Head(proc[p].left)] = "spool" THEN failed \cup {proc[p].msg}
                                                             ELSE failed
    /\ UNCHANGED <<done, mail, rows, stage, posted, scanner, queue, busy, crashes>>

\* Inserts the row whether or not the mail could be moved.
MoveUnchecked(p) ==
    /\ proc[p].at = "move"
    /\ mail' = [mail EXCEPT ![Head(proc[p].left)] = "user"]
    /\ Goes(p, "insert")
    /\ UNCHANGED <<done, rows, failed, stage, posted, scanner, queue, busy, crashes>>

\* rename() of the mail succeeds for one processor only.
MoveMail(p) ==
    LET m == Head(proc[p].left)
        next == [proc[p] EXCEPT !.at = "line", !.left = Tail(@)]
    IN  /\ proc[p].at = "move"
        /\ \/ /\ mail[m] = "spool"
              /\ mail' = [mail EXCEPT ![m] = "user"]
              /\ Goes(p, "insert")
              /\ UNCHANGED failed
           \/ /\ Become(p, next)
              /\ failed' = IF mail[m] = "spool" THEN failed \cup {proc[p].msg} ELSE failed
              /\ UNCHANGED mail
        /\ UNCHANGED <<done, rows, stage, posted, scanner, queue, busy, crashes>>

\* The insertion, or an exception that is swallowed.
Insert(p) ==
    LET m == Head(proc[p].left)
    IN  /\ proc[p].at = "insert"
        /\ \/ rows' = [rows EXCEPT ![m] = @ + 1] /\ UNCHANGED failed
           \/ failed' = failed \cup {proc[p].msg} /\ UNCHANGED rows
        /\ Become(p, [proc[p] EXCEPT !.at = "line", !.left = Tail(@)])
        /\ UNCHANGED <<done, mail, stage, posted, scanner, queue, busy, crashes>>

\* Another processor has the file open; on some systems it cannot be moved then.
OpenElsewhere(p, b) ==
    \E o \in Processors \ {p} : proc[o].msg = b /\ proc[o].at \in {"line", "move", "insert"}

\* Leaves the count of busy threads as it is.
BackUpStillBusy(p) ==
    /\ proc[p].at = "backup"
    /\ done' = [done EXCEPT ![proc[p].msg] = "backedUp"]
    /\ Become(p, Waiting("getq"))
    /\ UNCHANGED <<mail, rows, failed, stage, posted, scanner, queue, busy, crashes>>

\* Whatever happened, the file is moved to the mailbox, and n_busy_thread_ drops.
BackUp(p) ==
    LET b == proc[p].msg
    IN  /\ proc[p].at = "backup"
        /\ \/ done[b] = "spool" /\ done' = [done EXCEPT ![b] = "backedUp"]
           \/ (done[b] # "spool" \/ OpenElsewhere(p, b)) /\ UNCHANGED done
        /\ busy' = busy - 1
        /\ Become(p, Waiting("getq"))
        /\ UNCHANGED <<mail, rows, failed, stage, posted, scanner, queue, crashes>>

-----------------------------------------------------------------------------
(* The "stop" command: scanner.stop(); mp.stop() *)

Stop ==
    /\ stage = "serving"
    /\ stage' = "stopping"
    /\ UNCHANGED <<disk, posted, threads, crashes>>

ScannerStopped ==
    /\ stage = "stopping" /\ scanner.at = "down"
    /\ stage' = "posting"
    /\ UNCHANGED <<disk, posted, threads, crashes>>

\* A single empty message.
PostOne ==
    /\ stage = "posting"
    /\ posted < 1
    /\ Len(queue) < QueueLimit
    /\ queue' = Append(queue, StopMessage)
    /\ posted' = posted + 1
    /\ UNCHANGED <<disk, stage, scanner, busy, proc, crashes>>

\* One empty message for each thread.
PostStop ==
    /\ stage = "posting"
    /\ posted < Cardinality(Processors)
    /\ Len(queue) < QueueLimit
    /\ queue' = Append(queue, StopMessage)
    /\ posted' = posted + 1
    /\ UNCHANGED <<disk, stage, scanner, busy, proc, crashes>>

Stopped ==
    /\ stage = "posting"
    /\ \A p \in Processors : proc[p].at = "down"
    /\ stage' = "down"
    /\ posted' = 0
    /\ queue' = <<>>
    /\ busy' = 0
    /\ UNCHANGED <<disk, scanner, proc, crashes>>

Scan == Loop \/ ReadEntry \/ putq \/ LookAtQueue \/ LookAtBusy
Process(p) ==
    \/ getq(p) \/ CountBusy(p) \/ Quit(p) \/ Open(p) \/ ReadLine(p) \/ MoveMail(p)
    \/ Insert(p) \/ BackUp(p)

Next ==
    \/ \E b \in Batches : Deliver(b)
    \/ Start \/ Crash \/ Stop \/ ScannerStopped \/ PostStop \/ Stopped
    \/ Scan
    \/ \E p \in Processors : Process(p)

Spec == Init /\ [][Next]_vars

\* The threads are scheduled, and stop() is carried through.  Nobody is bound to
\* write to the spool or to start the daemon.
Fairness ==
    /\ WF_vars(Scan)
    /\ \A p \in Processors : WF_vars(Process(p))
    /\ WF_vars(ScannerStopped) /\ WF_vars(PostStop) /\ WF_vars(Stopped)

FairSpec == Spec /\ Fairness

-----------------------------------------------------------------------------
(* Properties *)

Messages == Batches \cup {StopMessage}

Places == {"down", "getq", "count", "begin", "line", "move", "insert", "backup"}

DiskTypeOK ==
    /\ done \in [Batches -> {"none", "spool", "backedUp"}]
    /\ mail \in [Mails -> {"none", "spool", "user"}]
    /\ rows \in [Mails -> Nat]
    /\ failed \subseteq Batches

ScannerStates == [at : {"down", "loop", "scan", "putq", "sleep", "lookAtBusy"},
                  left : SUBSET Batches, file : Messages]
ProcessorStates == [at : Places, msg : Messages, left : Seq(Mails)]

ThreadsTypeOK ==
    /\ scanner \in ScannerStates
    /\ queue \in Seq(Messages)
    /\ proc \in [Processors -> ProcessorStates]

\* What is on disk and in memory stays within its types, the queue within its
\* limit, and n_busy_thread_ is the number of processors that are counted.
TypeOK ==
    /\ DiskTypeOK
    /\ ThreadsTypeOK
    /\ stage \in {"down", "serving", "stopping", "posting"}
    /\ posted \in 0 .. Cardinality(Processors)
    /\ Len(queue) <= QueueLimit
    /\ busy = Cardinality({ p \in Processors : proc[p].at \notin {"down", "getq", "count"} })
    /\ crashes \in 0 .. MaxCrashes

\* A mail has one row at most, and only when it is in the mailbox, although a file
\* can be queued twice, two processors can work on one file, and the daemon can
\* crash and read the file again (Mail_Processor.cpp:132-154).
RowsFollowFiles ==
    \A m \in Mails : rows[m] <= 1 /\ (rows[m] = 1 => mail[m] = "user")

\* A file whose operations did not fail is only moved away when each mail it
\* announces is in the mailbox, whatever the crashes and whoever else has moved
\* some of them (Mail_Processor.cpp:85-99, 167-182).
NothingStranded ==
    \A b \in Batches : (done[b] = "backedUp" /\ b \notin failed) =>
        \A m \in Range(MailsOf[b]) : mail[m] = "user"

\* While the daemon runs, each file in the spool is dealt with: the scanner never
\* waits for ever for an empty queue and idle processors (Spool_Scanner.cpp:74-80).
SpoolIsServed ==
    \A b \in Batches : done[b] = "spool" ~> (done[b] = "backedUp" \/ stage = "down")

\* The stop command ends: the scanner leaves its loop, and each processor gets a
\* stop message of its own behind what is queued (Mail_Processor.cpp:25-35).
StopEnds == stage \in {"stopping", "posting"} ~> stage = "down"

-----------------------------------------------------------------------------
(* The invariant that makes the safety properties inductive *)

\* A file that is not there yet is in no thread's hands, and neither are its mails.
NothingEarly ==
    \A b \in Batches : done[b] = "none" =>
        /\ \A m \in Range(MailsOf[b]) : mail[m] = "none"
        /\ b \notin scanner.left /\ scanner.file # b
        /\ \A i \in DOMAIN queue : queue[i] # b
        /\ \A p \in Processors : proc[p].msg # b

\* The mails come before their file.
NothingMissing ==
    /\ \A b \in Batches : done[b] # "none" => \A m \in Range(MailsOf[b]) : mail[m] # "none"
    /\ \A p \in Processors : \A m \in Range(proc[p].left) : mail[m] # "none"

Reading == {"line", "move", "insert"}

WorkInHand ==
    \A p \in Processors :
        /\ proc[p].at \in Reading \cup {"backup"} => proc[p].msg \in Batches
        /\ proc[p].at \in {"move", "insert"} => proc[p].left # <<>>
        /\ proc[p].at \in {"count", "begin", "backup"} => proc[p].left = <<>>

\* A mail that was moved and has no row yet is inserted by one processor.
Inserting(p) == proc[p].at = "insert"
OneInserts ==
    \A p \in Processors : Inserting(p) =>
        /\ mail[Head(proc[p].left)] = "user" /\ rows[Head(proc[p].left)] = 0
        /\ \A o \in Processors \ {p} : Inserting(o) => Head(proc[o].left) # Head(proc[p].left)

\* What a processor has read of a file that met no failure is in the mailbox.
BehindIsStored ==
    \A p \in Processors :
        (/\ proc[p].at \in Reading \cup {"backup"}
         /\ proc[p].msg \notin failed /\ done[proc[p].msg] = "spool") =>
            \A m \in Range(MailsOf[proc[p].msg]) :
                m \in Range(proc[p].left) \/ mail[m] = "user"

\* What the disk, the messages in flight and the processors keep true together.
IInv ==
    /\ DiskTypeOK
    /\ ThreadsTypeOK
    /\ NothingEarly
    /\ NothingMissing
    /\ WorkInHand
    /\ OneInserts
    /\ BehindIsStored
    /\ RowsFollowFiles
    /\ NothingStranded
=============================================================================
