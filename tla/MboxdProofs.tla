---------------------------- MODULE MboxdProofs ----------------------------
(***************************************************************************)
(* For any number of files, mails and processors, and any number of        *)
(* crashes: no mail gets a second row, or one before it is stored, and no  *)
(* file is moved away while a mail it announces is left in the spool,      *)
(* unless one of its operations failed.                                    *)
(***************************************************************************)
EXTENDS Mboxd, FiniteSetTheorems, TLAPS

\* What a processor knows of the lines it has left.
LEMMA HeadAndTail ==
  ASSUME NEW S, NEW s \in Seq(S), s # <<>>
  PROVE  /\ Head(s) \in S
         /\ Tail(s) \in Seq(S)
         /\ \A x \in Range(s) : x = Head(s) \/ x \in Range(Tail(s))
         /\ Head(s) \in Range(s) /\ Range(Tail(s)) \subseteq Range(s)
<1>1. Len(s) \in Nat /\ Len(s) >= 1 /\ DOMAIN s = 1 .. Len(s)
  OBVIOUS
<1>2. Head(s) = s[1] /\ Head(s) \in S /\ Tail(s) \in Seq(S)
  BY <1>1
<1>3. DOMAIN Tail(s) = 1 .. Len(s) - 1
  BY <1>1
<1>4. \A i \in 1 .. Len(s) - 1 : Tail(s)[i] = s[i + 1]
  BY <1>1
<1>5. ASSUME NEW i \in 1 .. Len(s), i # 1
      PROVE  s[i] \in Range(Tail(s))
  <2>1. i - 1 \in 1 .. Len(s) - 1 /\ (i - 1) + 1 = i
    BY <1>1, <1>5
  <2> QED
    BY <2>1, <1>3, <1>4 DEF Range
<1>6. Range(Tail(s)) \subseteq Range(s)
  <2>1. \A i \in 1 .. Len(s) - 1 : i + 1 \in 1 .. Len(s)
    BY <1>1
  <2> QED
    BY <2>1, <1>1, <1>3, <1>4 DEF Range
<1> QED
  BY <1>1, <1>2, <1>5, <1>6 DEF Range

LEMMA NothingInEmpty ==
  Range(<<>>) = {} /\ <<>> \in Seq(Mails) /\ <<>> \in Seq(Messages)
  BY DEF Range

LEMMA InitHolds == Init => IInv
<1> SUFFICES ASSUME Init PROVE IInv
  OBVIOUS
<1> USE DEF Init
<1>1. DiskTypeOK /\ ThreadsTypeOK
  BY NothingInEmpty DEF DiskTypeOK, ThreadsTypeOK, ScannerStates, ProcessorStates,
     Messages, Places, Resting, Waiting
<1>2. NothingEarly
  <2>1. ASSUME NEW b \in Batches, NEW m \in Range(MailsOf[b])
        PROVE  m \in Mails
    BY MailsOfAssumption DEF Range
  <2> QED
    BY <2>1, StopMessageAssumption DEF NothingEarly, Resting, Waiting
<1>3. NothingMissing /\ WorkInHand /\ OneInserts /\ BehindIsStored
  BY NothingInEmpty DEF NothingMissing, WorkInHand, OneInserts, BehindIsStored, Inserting, Reading, Waiting
<1>4. RowsFollowFiles /\ NothingStranded
  BY DEF RowsFollowFiles, NothingStranded
<1> QED
  BY <1>1, <1>2, <1>3, <1>4 DEF IInv

-----------------------------------------------------------------------------
(* Steps that leave the disk alone *)

\* Steps of the scanner and of the main thread: what has to be looked at is what
\* they put in the queue or in the scanner's hands.
LEMMA QueueStep ==
  ASSUME IInv, UNCHANGED <<disk, proc>>, ThreadsTypeOK', NothingEarly'
  PROVE  IInv'
<1> USE DEF disk
<1>1. DiskTypeOK' /\ NothingMissing' /\ WorkInHand'
  BY DEF IInv, DiskTypeOK, NothingMissing, WorkInHand, Reading
<1>2. OneInserts'
  BY DEF IInv, OneInserts, Inserting
<1>3. BehindIsStored'
  BY DEF IInv, BehindIsStored, Reading
<1>4. RowsFollowFiles' /\ NothingStranded'
  BY DEF IInv, RowsFollowFiles, NothingStranded
<1> QED
  BY <1>1, <1>2, <1>3, <1>4 DEF IInv

\* The threads come into being, or end with the process.
LEMMA ThreadsReset ==
  ASSUME IInv, UNCHANGED disk,
         scanner' \in {Resting("down"), Resting("loop")},
         queue' \in {<<>>, queue},
         \/ proc' = [p \in Processors |-> Waiting("getq")]
         \/ proc' = [p \in Processors |-> Waiting("down")]
  PROVE  IInv'
<1>1. \A p \in Processors : /\ proc'[p].at \in {"getq", "down"}
                            /\ proc'[p].msg = StopMessage /\ proc'[p].left = <<>>
  BY DEF Waiting
<1>2. DiskTypeOK' /\ ThreadsTypeOK'
  <2>1. DiskTypeOK'
    BY DEF IInv, disk, DiskTypeOK
  <2>2. Waiting("getq") \in ProcessorStates /\ Waiting("down") \in ProcessorStates
    BY NothingInEmpty DEF ProcessorStates, Waiting, Messages, Places
  <2>3. Resting("down") \in ScannerStates /\ Resting("loop") \in ScannerStates
    BY DEF ScannerStates, Resting, Messages
  <2>4. queue' \in Seq(Messages)
    BY NothingInEmpty DEF IInv, ThreadsTypeOK
  <2> QED
    BY <2>1, <2>2, <2>3, <2>4 DEF ThreadsTypeOK
<1>3. NothingEarly'
  BY <1>1, StopMessageAssumption DEF IInv, disk, NothingEarly, Resting
<1>4. NothingMissing' /\ WorkInHand' /\ OneInserts' /\ BehindIsStored'
  BY <1>1, NothingInEmpty DEF IInv, disk, NothingMissing, WorkInHand, OneInserts, BehindIsStored, Inserting, Reading
<1>5. RowsFollowFiles' /\ NothingStranded'
  BY DEF IInv, disk, RowsFollowFiles, NothingStranded
<1> QED
  BY <1>2, <1>3, <1>4, <1>5 DEF IInv

LEMMA MainSteps ==
  ASSUME IInv, Start \/ Crash \/ Stop \/ ScannerStopped \/ PostStop \/ Stopped
  PROVE  IInv'
<1>1. CASE Start
  BY <1>1, ThreadsReset DEF Start
<1>2. CASE Crash
  BY <1>2, ThreadsReset DEF Crash, Die
<1>3. CASE Stop \/ ScannerStopped
  <2>1. UNCHANGED <<disk, proc>> /\ UNCHANGED <<scanner, queue>>
    BY <1>3 DEF Stop, ScannerStopped, threads
  <2>2. ThreadsTypeOK' /\ NothingEarly'
    BY <2>1 DEF IInv, disk, ThreadsTypeOK, NothingEarly
  <2> QED
    BY <2>1, <2>2, QueueStep
<1>4. CASE PostStop
  <2>1. UNCHANGED <<disk, proc, scanner>> /\ queue' = Append(queue, StopMessage)
    BY <1>4 DEF PostStop
  <2>2. queue \in Seq(Messages) /\ StopMessage \in Messages
    BY DEF IInv, ThreadsTypeOK, Messages
  <2>3. ThreadsTypeOK'
    BY <2>1, <2>2 DEF IInv, ThreadsTypeOK
  <2>4. \A i \in DOMAIN queue' : queue'[i] = StopMessage \/ (i \in DOMAIN queue /\ queue'[i] = queue[i])
    BY <2>1, <2>2
  <2>5. NothingEarly'
    BY <2>1, <2>4, StopMessageAssumption DEF IInv, disk, NothingEarly
  <2> QED
    BY <2>1, <2>3, <2>5, QueueStep
<1>5. CASE Stopped
  <2>1. UNCHANGED <<disk, proc, scanner>> /\ queue' = <<>>
    BY <1>5 DEF Stopped
  <2>2. ThreadsTypeOK' /\ NothingEarly'
    BY <2>1 DEF IInv, disk, ThreadsTypeOK, NothingEarly
  <2> QED
    BY <2>1, <2>2, QueueStep
<1> QED
  BY <1>1, <1>2, <1>3, <1>4, <1>5

LEMMA ScannerSteps ==
  ASSUME IInv, Scan
  PROVE  IInv'
<1>1. UNCHANGED <<disk, proc>>
  BY DEF Scan, Loop, ReadEntry, putq, LookAtQueue, LookAtBusy
<1>2. scanner \in ScannerStates
  BY DEF IInv, ThreadsTypeOK
<1>3. InSpool \subseteq Batches /\ StopMessage \in Messages /\ Batches \subseteq Messages
  BY DEF InSpool, Messages
<1>4. ThreadsTypeOK' /\ NothingEarly'
  <2>1. CASE Loop
    BY <2>1, <1>1, <1>2, <1>3, StopMessageAssumption
       DEF IInv, Loop, ThreadsTypeOK, ScannerStates, NothingEarly, disk, Resting, InSpool
  <2>2. CASE ReadEntry
    <3>1. UNCHANGED queue
      BY <2>2 DEF ReadEntry
    <3>2. CASE scanner.left = {} /\ scanner' = Resting("sleep")
      BY <3>1, <3>2, <1>1, <1>2, <1>3, StopMessageAssumption
         DEF IInv, ThreadsTypeOK, ScannerStates, NothingEarly, disk, Resting
    <3>3. ASSUME NEW b \in scanner.left,
                 scanner' = [scanner EXCEPT !.left = @ \ {b},
                                            !.at = IF b \in InSpool THEN "putq" ELSE "scan",
                                            !.file = IF b \in InSpool THEN b ELSE @]
          PROVE  ThreadsTypeOK' /\ NothingEarly'
      <4>1. scanner'.left \subseteq scanner.left /\ scanner'.left \subseteq Batches
        BY <3>3, <1>2 DEF ScannerStates
      <4>2. scanner'.file \in InSpool \cup {scanner.file}
        BY <3>3, <1>2 DEF ScannerStates
      <4>3. scanner' \in ScannerStates
        BY <3>3, <1>2, <1>3 DEF ScannerStates
      <4>4. ThreadsTypeOK'
        BY <4>3, <3>1, <1>1 DEF IInv, ThreadsTypeOK
      <4>5. NothingEarly'
        BY <4>1, <4>2, <3>1, <1>1 DEF IInv, NothingEarly, disk, InSpool
      <4> QED
        BY <4>4, <4>5
    <3> QED
      BY <2>2, <3>2, <3>3 DEF ReadEntry
  <2>3. CASE putq
    <3>1. queue' = Append(queue, scanner.file) /\ scanner' = [scanner EXCEPT !.at = "scan", !.file = StopMessage]
      BY <2>3 DEF putq
    <3>2. queue \in Seq(Messages) /\ scanner.file \in Messages
      BY <1>2 DEF IInv, ThreadsTypeOK, ScannerStates
    <3>3. \A i \in DOMAIN queue' : queue'[i] = scanner.file \/ (i \in DOMAIN queue /\ queue'[i] = queue[i])
      BY <3>1, <3>2
    <3>4. ThreadsTypeOK'
      <4>1. queue' \in Seq(Messages)
        BY <3>1, <3>2
      <4>2. scanner' \in ScannerStates
        BY <3>1, <1>2, <1>3 DEF ScannerStates
      <4> QED
        BY <4>1, <4>2, <1>1 DEF IInv, ThreadsTypeOK
    <3>5. NothingEarly'
      BY <3>1, <3>3, <1>1, <1>2, StopMessageAssumption
         DEF IInv, ScannerStates, NothingEarly, disk
    <3> QED
      BY <3>4, <3>5
  <2>4. CASE LookAtQueue \/ LookAtBusy
    BY <2>4, <1>1, <1>2
       DEF IInv, LookAtQueue, LookAtBusy, ThreadsTypeOK, ScannerStates, NothingEarly, disk
  <2> QED
    BY <2>1, <2>2, <2>3, <2>4 DEF Scan
<1> QED
  BY <1>1, <1>4, QueueStep

\* Mails appear in the spool with their file.
LEMMA DeliverStep ==
  ASSUME IInv, NEW b \in Batches, Deliver(b)
  PROVE  IInv'
<1>1. /\ done[b] = "none" /\ done' = [done EXCEPT ![b] = "spool"]
      /\ mail' = [m \in Mails |-> IF m \in Range(MailsOf[b]) THEN "spool" ELSE mail[m]]
      /\ UNCHANGED <<rows, failed, scanner, queue, proc>>
  BY DEF Deliver, threads
<1>2. \A c \in Batches : \A m \in Range(MailsOf[c]) : m \in Mails
  BY MailsOfAssumption DEF Range
<1>3. \A m \in Range(MailsOf[b]) : mail[m] = "none"
  BY <1>1 DEF IInv, NothingEarly
<1>4. \A m \in Mails : mail[m] = "user" => mail'[m] = "user"
  BY <1>1, <1>3
<1>5. \A c \in Batches \ {b} : done'[c] = done[c] /\ \A m \in Range(MailsOf[c]) : mail'[m] = mail[m]
  BY <1>1, <1>2, MailsOfAssumption DEF IInv, DiskTypeOK
<1>6. done'[b] = "spool"
  BY <1>1 DEF IInv, DiskTypeOK
<1>7. DiskTypeOK' /\ ThreadsTypeOK'
  BY <1>1 DEF IInv, DiskTypeOK, ThreadsTypeOK
<1>8. NothingEarly'
  BY <1>1, <1>5, <1>6 DEF IInv, NothingEarly
<1>9. NothingMissing' /\ WorkInHand'
  <2>1. \A m \in Mails : mail[m] # "none" => mail'[m] # "none"
    BY <1>1
  <2>2. \A p \in Processors : \A m \in Range(proc[p].left) : m \in Mails
    BY DEF IInv, ThreadsTypeOK, ProcessorStates, Range
  <2>3. \A m \in Range(MailsOf[b]) : mail'[m] # "none"
    BY <1>1, <1>2
  <2>4. NothingMissing'
    BY <2>1, <2>2, <2>3, <1>1, <1>2, <1>5 DEF IInv, NothingMissing
  <2> QED
    BY <2>4, <1>1 DEF IInv, WorkInHand, Reading
<1>10. OneInserts'
  <2>1. \A p \in Processors : Inserting(p) => Head(proc[p].left) \in Mails
    BY HeadAndTail DEF IInv, ThreadsTypeOK, ProcessorStates, WorkInHand, Inserting
  <2> QED
    BY <2>1, <1>1, <1>4 DEF IInv, OneInserts, Inserting
<1>11. BehindIsStored'
  <2>1. \A p \in Processors : proc[p].msg # b
    BY <1>1 DEF IInv, NothingEarly
  <2> QED
    BY <2>1, <1>1, <1>2, <1>4, <1>5 DEF IInv, WorkInHand, BehindIsStored, Reading
<1>12. RowsFollowFiles'
  BY <1>1, <1>4 DEF IInv, RowsFollowFiles
<1>13. NothingStranded'
  BY <1>1, <1>2, <1>4, <1>5, <1>6 DEF IInv, NothingStranded
<1> QED
  BY <1>7, <1>8, <1>9, <1>10, <1>11, <1>12, <1>13 DEF IInv

-----------------------------------------------------------------------------
(* A processor's steps *)

\* Steps that move no file and insert no row: what the processor has in hand
\* afterwards decides.
LEMMA ReadingStep ==
  ASSUME IInv, NEW p \in Processors, NEW x \in ProcessorStates,
         proc' = [proc EXCEPT ![p] = x],
         UNCHANGED <<done, mail, rows, scanner>>,
         failed \subseteq failed', failed' \subseteq Batches,
         queue' \in Seq(Messages),
         \A i \in DOMAIN queue' : \E j \in DOMAIN queue : queue'[i] = queue[j],
         x.msg \in Batches => done[x.msg] # "none",
         \A m \in Range(x.left) : mail[m] # "none",
         x.at \in Reading \cup {"backup"} => x.msg \in Batches,
         x.at # "insert",
         x.at = "move" => x.left # <<>>,
         x.at \in {"count", "begin", "backup"} => x.left = <<>>,
         (x.at \in Reading \cup {"backup"} /\ x.msg \notin failed' /\ done[x.msg] = "spool") =>
             \A m \in Range(MailsOf[x.msg]) : m \in Range(x.left) \/ mail[m] = "user"
  PROVE  IInv'
<1>1. proc \in [Processors -> ProcessorStates]
  BY DEF IInv, ThreadsTypeOK
<1>2. proc'[p] = x /\ \A o \in Processors \ {p} : proc'[o] = proc[o]
  BY <1>1
<1>3. DiskTypeOK'
  BY DEF IInv, DiskTypeOK
<1>4. ThreadsTypeOK'
  BY <1>1 DEF IInv, ThreadsTypeOK
<1>5. NothingEarly'
  BY <1>2 DEF IInv, NothingEarly
<1>6. NothingMissing'
  BY <1>2 DEF IInv, NothingMissing
<1>7. WorkInHand'
  BY <1>2 DEF IInv, WorkInHand, Reading
<1>8. OneInserts'
  BY <1>2 DEF IInv, OneInserts, Inserting
<1>9. BehindIsStored'
  BY <1>2 DEF IInv, BehindIsStored, Reading
<1>10. RowsFollowFiles' /\ NothingStranded'
  BY DEF IInv, RowsFollowFiles, NothingStranded
<1> QED
  BY <1>3, <1>4, <1>5, <1>6, <1>7, <1>8, <1>9, <1>10 DEF IInv

\* What a processor has in hand.
LEMMA InHand ==
  ASSUME IInv, NEW p \in Processors
  PROVE  /\ proc[p] \in ProcessorStates
         /\ proc[p].msg \in Batches => done[proc[p].msg] # "none"
         /\ queue \in Seq(Messages)
<1>1. proc \in [Processors -> ProcessorStates] /\ queue \in Seq(Messages)
  BY DEF IInv, ThreadsTypeOK
<1>2. proc[p] \in ProcessorStates
  BY <1>1
<1>3. proc[p].msg \in Batches => done[proc[p].msg] # "none"
  BY DEF IInv, NothingEarly
<1> QED
  BY <1>1, <1>2, <1>3

LEMMA AtRest ==
  \A at \in Places : /\ Waiting(at) \in ProcessorStates
                     /\ Waiting(at).at = at /\ Waiting(at).msg = StopMessage
                     /\ Waiting(at).left = <<>>
BY NothingInEmpty DEF Waiting, ProcessorStates, Messages

LEMMA GetqStep ==
  ASSUME IInv, NEW p \in Processors, getq(p)
  PROVE  IInv'
<1> DEFINE x == [at |-> "count", msg |-> Head(queue), left |-> <<>>]
<1>1. /\ queue # <<>> /\ queue' = Tail(queue) /\ proc' = [proc EXCEPT ![p] = x]
      /\ UNCHANGED <<done, mail, rows, failed, scanner>>
  BY DEF getq, Become, disk
<1>2. queue \in Seq(Messages)
  BY InHand
<1>3. Head(queue) \in Messages /\ Tail(queue) \in Seq(Messages)
  BY <1>1, <1>2
<1>4. \A i \in DOMAIN Tail(queue) : i + 1 \in DOMAIN queue /\ Tail(queue)[i] = queue[i + 1]
  BY <1>1, <1>2
<1>5. x \in ProcessorStates /\ x.at = "count" /\ x.msg = Head(queue) /\ x.left = <<>>
  BY <1>3, NothingInEmpty DEF ProcessorStates, Places
<1>6. Head(queue) \in Batches => done[Head(queue)] # "none"
  <2>1. 1 \in DOMAIN queue /\ Head(queue) = queue[1]
    BY <1>1, <1>2
  <2> QED
    BY <2>1 DEF IInv, NothingEarly
<1>7. failed \subseteq Batches
  BY DEF IInv, DiskTypeOK
<1> HIDE DEF x
<1> QED
  BY <1>1, <1>3, <1>4, <1>5, <1>6, <1>7, NothingInEmpty, ReadingStep DEF Reading

LEMMA CountBusyStep ==
  ASSUME IInv, NEW p \in Processors, CountBusy(p)
  PROVE  IInv'
<1> DEFINE x == [proc[p] EXCEPT !.at = "begin"]
<1>1. /\ proc[p].at = "count" /\ Goes(p, "begin")
      /\ UNCHANGED <<done, mail, rows, failed, scanner, queue>>
  BY DEF CountBusy, disk
<1>2. /\ x \in ProcessorStates /\ x.at = "begin" /\ x.msg = proc[p].msg
      /\ x.left = proc[p].left /\ proc' = [proc EXCEPT ![p] = x]
  BY <1>1, InHand DEF ProcessorStates, Places, Goes
<1>3. proc[p].left = <<>>
  BY <1>1 DEF IInv, WorkInHand
<1>4. failed \subseteq Batches
  BY DEF IInv, DiskTypeOK
<1> HIDE DEF x
<1> QED
  BY <1>1, <1>2, <1>3, <1>4, InHand, NothingInEmpty, ReadingStep DEF Reading

LEMMA QuitStep ==
  ASSUME IInv, NEW p \in Processors, Quit(p)
  PROVE  IInv'
<1>1. /\ proc' = [proc EXCEPT ![p] = Waiting("down")]
      /\ UNCHANGED <<done, mail, rows, failed, scanner, queue>>
  BY DEF Quit, Become, disk
<1>2. failed \subseteq Batches
  BY DEF IInv, DiskTypeOK
<1> QED
  BY <1>1, <1>2, InHand, AtRest, NothingInEmpty, StopMessageAssumption, ReadingStep
     DEF Reading, Places

LEMMA OpenStep ==
  ASSUME IInv, NEW p \in Processors, Open(p)
  PROVE  IInv'
<1> DEFINE b == proc[p].msg
           x == [proc[p] EXCEPT !.at = "backup"]
           y == [proc[p] EXCEPT !.at = "line", !.left = MailsOf[b]]
<1>1. proc[p].at = "begin" /\ b # StopMessage /\ UNCHANGED <<done, mail, rows>>
  BY DEF Open
<1>2. b \in Batches /\ proc[p].left = <<>> /\ done[b] # "none" /\ failed \subseteq Batches
  BY <1>1, InHand DEF IInv, WorkInHand, DiskTypeOK, ProcessorStates, Messages
<1>3. /\ x \in ProcessorStates /\ x.at = "backup" /\ x.msg = b /\ x.left = <<>>
      /\ Goes(p, "backup") => proc' = [proc EXCEPT ![p] = x]
  BY <1>2, InHand DEF ProcessorStates, Places, Goes
<1>4. y \in ProcessorStates /\ y.at = "line" /\ y.msg = b /\ y.left = MailsOf[b]
  BY <1>2, InHand, MailsOfAssumption DEF ProcessorStates, Places
<1>5. \A m \in Range(MailsOf[b]) : mail[m] # "none"
  BY <1>2 DEF IInv, NothingMissing
<1>6. CASE Goes(p, "backup") /\ failed' = failed \cup {b} /\ UNCHANGED <<scanner, queue>>
  <2>1. failed \subseteq failed' /\ failed' \subseteq Batches /\ b \in failed'
    BY <1>2, <1>6
  <2> HIDE DEF x, y, b
  <2> QED
    BY <2>1, <1>1, <1>2, <1>3, <1>6, InHand, NothingInEmpty, ReadingStep DEF Reading
<1>7. CASE Become(p, y) /\ UNCHANGED <<failed, scanner, queue>>
  <2> HIDE DEF x, y, b
  <2> QED
    BY <1>1, <1>2, <1>4, <1>5, <1>7, InHand, ReadingStep DEF Reading, Become
<1>8. CASE done[b] # "spool" /\ Goes(p, "backup") /\ UNCHANGED <<failed, scanner, queue>>
  <2> HIDE DEF x, y, b
  <2> QED
    BY <1>1, <1>2, <1>3, <1>8, InHand, NothingInEmpty, ReadingStep DEF Reading
<1>9. CASE Die /\ UNCHANGED failed
  BY <1>1, <1>9, ThreadsReset DEF Die, disk
<1> QED
  BY <1>6, <1>7, <1>8, <1>9 DEF Open

LEMMA ReadLineStep ==
  ASSUME IInv, NEW p \in Processors, ReadLine(p)
  PROVE  IInv'
<1> DEFINE b == proc[p].msg
           m == Head(proc[p].left)
           next == [proc[p] EXCEPT !.left = Tail(@)]
<1>1. proc[p].at = "line" /\ UNCHANGED <<done, mail, rows, scanner, queue>>
  BY DEF ReadLine
<1>2. b \in Batches /\ done[b] # "none" /\ failed \subseteq Batches
  BY <1>1, InHand DEF IInv, WorkInHand, DiskTypeOK, Reading
<1>3. proc[p].left \in Seq(Mails) /\ \A l \in Range(proc[p].left) : mail[l] # "none"
  BY InHand DEF IInv, NothingMissing, ProcessorStates
<1>4. (b \notin failed /\ done[b] = "spool") =>
          \A l \in Range(MailsOf[b]) : l \in Range(proc[p].left) \/ mail[l] = "user"
  BY <1>1 DEF IInv, BehindIsStored, Reading
<1>5. ASSUME NEW place \in {"move", "backup"}, Goes(p, place), UNCHANGED failed,
             place = "move" <=> proc[p].left # <<>>
      PROVE  IInv'
  <2> DEFINE x == [proc[p] EXCEPT !.at = place]
  <2>1. /\ x \in ProcessorStates /\ x.at = place /\ x.msg = b /\ x.left = proc[p].left
        /\ proc' = [proc EXCEPT ![p] = x]
    BY <1>5, InHand DEF ProcessorStates, Places, Goes
  <2> HIDE DEF x, b, m, next
  <2> QED
    BY <2>1, <1>1, <1>2, <1>3, <1>4, <1>5, InHand, NothingInEmpty, ReadingStep DEF Reading
<1>6. ASSUME proc[p].left # <<>>, Become(p, next),
             failed' = IF mail[m] = "spool" THEN failed \cup {b} ELSE failed
      PROVE  IInv'
  <2>1. /\ m \in Mails /\ m \in Range(proc[p].left) /\ Tail(proc[p].left) \in Seq(Mails)
        /\ Range(Tail(proc[p].left)) \subseteq Range(proc[p].left)
        /\ \A l \in Range(proc[p].left) : l = m \/ l \in Range(Tail(proc[p].left))
    BY <1>3, <1>6, HeadAndTail
  <2>2. /\ next \in ProcessorStates /\ next.at = "line" /\ next.msg = b
        /\ next.left = Tail(proc[p].left) /\ proc' = [proc EXCEPT ![p] = next]
    BY <2>1, <1>1, <1>6, InHand DEF ProcessorStates, Become
  <2>3. mail[m] = "spool" \/ mail[m] = "user"
    BY <2>1, <1>3 DEF IInv, DiskTypeOK
  <2>4. failed \subseteq failed' /\ failed' \subseteq Batches /\ (mail[m] = "spool" => b \in failed')
    BY <1>2, <1>6
  <2> HIDE DEF b, m, next
  <2>5. (b \notin failed' /\ done[b] = "spool") =>
            \A l \in Range(MailsOf[b]) : l \in Range(next.left) \/ mail[l] = "user"
    BY <2>1, <2>2, <2>3, <2>4, <1>4
  <2> QED
    BY <2>1, <2>2, <2>4, <2>5, <1>1, <1>2, <1>3, InHand, ReadingStep DEF Reading
<1> QED
  BY <1>5, <1>6 DEF ReadLine

\* The mail this processor moved was in nobody else's hands, and has no row.
LEMMA MoveMailStep ==
  ASSUME IInv, NEW p \in Processors, MoveMail(p)
  PROVE  IInv'
<1> DEFINE b == proc[p].msg
           m == Head(proc[p].left)
           next == [proc[p] EXCEPT !.at = "line", !.left = Tail(@)]
           x == [proc[p] EXCEPT !.at = "insert"]
<1>1. proc[p].at = "move" /\ UNCHANGED <<done, rows, scanner, queue>>
  BY DEF MoveMail
<1>2. /\ b \in Batches /\ done[b] # "none" /\ failed \subseteq Batches
      /\ proc[p].left # <<>> /\ proc[p].left \in Seq(Mails)
  BY <1>1, InHand DEF IInv, WorkInHand, DiskTypeOK, Reading, ProcessorStates
<1>3. /\ m \in Mails /\ m \in Range(proc[p].left) /\ Tail(proc[p].left) \in Seq(Mails)
      /\ Range(Tail(proc[p].left)) \subseteq Range(proc[p].left)
      /\ \A l \in Range(proc[p].left) : l = m \/ l \in Range(Tail(proc[p].left))
  BY <1>2, HeadAndTail
<1>4. \A l \in Range(proc[p].left) : mail[l] # "none"
  BY DEF IInv, NothingMissing
<1>5. (b \notin failed /\ done[b] = "spool") =>
          \A l \in Range(MailsOf[b]) : l \in Range(proc[p].left) \/ mail[l] = "user"
  BY <1>1 DEF IInv, BehindIsStored, Reading
<1>6. ASSUME Become(p, next), UNCHANGED mail,
             failed' = IF mail[m] = "spool" THEN failed \cup {b} ELSE failed
      PROVE  IInv'
  <2>1. /\ next \in ProcessorStates /\ next.at = "line" /\ next.msg = b
        /\ next.left = Tail(proc[p].left) /\ proc' = [proc EXCEPT ![p] = next]
    BY <1>3, <1>6, InHand DEF ProcessorStates, Places, Become
  <2>2. mail[m] = "spool" \/ mail[m] = "user"
    BY <1>3, <1>4 DEF IInv, DiskTypeOK
  <2>3. failed \subseteq failed' /\ failed' \subseteq Batches /\ (mail[m] = "spool" => b \in failed')
    BY <1>2, <1>6
  <2> HIDE DEF b, m, next, x
  <2>4. (b \notin failed' /\ done[b] = "spool") =>
            \A l \in Range(MailsOf[b]) : l \in Range(next.left) \/ mail[l] = "user"
    BY <1>3, <1>5, <2>1, <2>2, <2>3
  <2> QED
    BY <1>1, <1>2, <1>3, <1>4, <1>6, <2>1, <2>3, <2>4, InHand, ReadingStep DEF Reading
<1>7. ASSUME mail[m] = "spool", mail' = [mail EXCEPT ![m] = "user"], Goes(p, "insert"),
             UNCHANGED failed
      PROVE  IInv'
  <2>1. /\ x \in ProcessorStates /\ x.at = "insert" /\ x.msg = b /\ x.left = proc[p].left
        /\ proc' = [proc EXCEPT ![p] = x]
    BY <1>7, InHand DEF ProcessorStates, Places, Goes
  <2>2. proc \in [Processors -> ProcessorStates] /\ mail \in [Mails -> {"none", "spool", "user"}]
    BY DEF IInv, ThreadsTypeOK, DiskTypeOK
  <2>3. proc'[p] = x /\ \A o \in Processors \ {p} : proc'[o] = proc[o]
    BY <2>1, <2>2
  <2>4. mail'[m] = "user" /\ \A l \in Mails : l # m => mail'[l] = mail[l]
    BY <1>3, <1>7, <2>2
  <2>5. \A c \in Batches : \A l \in Range(MailsOf[c]) : l \in Mails
    BY MailsOfAssumption DEF Range
  <2>6. \A o \in Processors : \A l \in Range(proc[o].left) : l \in Mails
    BY DEF IInv, ThreadsTypeOK, ProcessorStates, Range
  <2>7. \A o \in Processors : Inserting(o) => Head(proc[o].left) # m /\ Head(proc[o].left) \in Mails
    <3>1. ASSUME NEW o \in Processors, Inserting(o)
          PROVE  Head(proc[o].left) # m /\ Head(proc[o].left) \in Mails
      <4>1. proc[o].left \in Seq(Mails) /\ proc[o].left # <<>>
        BY <3>1, <2>2 DEF IInv, WorkInHand, Inserting, ProcessorStates
      <4>2. Head(proc[o].left) \in Mails
        BY <4>1, HeadAndTail
      <4>3. mail[Head(proc[o].left)] = "user"
        BY <3>1 DEF IInv, OneInserts
      <4> QED
        BY <4>2, <4>3, <1>7
    <3> QED
      BY <3>1
  <2>8. rows[m] = 0
    BY <1>3, <1>7 DEF IInv, RowsFollowFiles, DiskTypeOK
  <2> HIDE DEF b, m, next, x
  <2>9. DiskTypeOK' /\ ThreadsTypeOK'
    BY <1>1, <1>3, <1>7, <2>1, <2>2 DEF IInv, DiskTypeOK, ThreadsTypeOK
  <2>10. NothingEarly'
    <3> SUFFICES ASSUME NEW c \in Batches, done[c] = "none"
                 PROVE  /\ \A l \in Range(MailsOf[c]) : mail'[l] = "none"
                        /\ c \notin scanner.left /\ scanner.file # c
                        /\ \A i \in DOMAIN queue : queue[i] # c
                        /\ \A o \in Processors : proc'[o].msg # c
      BY <1>1 DEF NothingEarly
    <3>1. /\ \A l \in Range(MailsOf[c]) : mail[l] = "none"
          /\ c \notin scanner.left /\ scanner.file # c
          /\ \A i \in DOMAIN queue : queue[i] # c
          /\ \A o \in Processors : proc[o].msg # c
      BY DEF IInv, NothingEarly
    <3>2. \A l \in Range(MailsOf[c]) : mail'[l] = "none"
      BY <3>1, <1>7, <2>4, <2>5
    <3>3. \A o \in Processors : proc'[o].msg # c
      BY <3>1, <1>2, <2>1, <2>3
    <3> QED
      BY <3>1, <3>2, <3>3
  <2>11. NothingMissing'
    BY <1>1, <2>1, <2>3, <2>4, <2>5, <2>6 DEF IInv, NothingMissing
  <2>12. WorkInHand'
    BY <1>1, <1>2, <2>1, <2>3 DEF IInv, WorkInHand, Reading
  <2>13. OneInserts'
    <3>1. Head(x.left) = m
      BY <2>1 DEF m
    <3>2. \A o \in Processors \ {p} : Inserting(o)' <=> Inserting(o)
      BY <2>3 DEF Inserting
    <3> QED
      BY <1>1, <2>3, <2>4, <2>7, <2>8, <3>1, <3>2 DEF IInv, OneInserts
  <2>14. BehindIsStored'
    BY <1>1, <1>2, <1>5, <1>7, <2>1, <2>3, <2>4, <2>5 DEF IInv, WorkInHand, BehindIsStored, Reading
  <2>15. RowsFollowFiles' /\ NothingStranded'
    BY <1>1, <1>7, <2>4, <2>5 DEF IInv, RowsFollowFiles, NothingStranded
  <2> QED
    BY <2>9, <2>10, <2>11, <2>12, <2>13, <2>14, <2>15 DEF IInv
<1> QED
  BY <1>6, <1>7 DEF MoveMail

\* The row is the mail's first, and this processor goes on behind it.
LEMMA InsertStep ==
  ASSUME IInv, NEW p \in Processors, Insert(p)
  PROVE  IInv'
<1> DEFINE b == proc[p].msg
           m == Head(proc[p].left)
           next == [proc[p] EXCEPT !.at = "line", !.left = Tail(@)]
<1>1. /\ proc[p].at = "insert" /\ UNCHANGED <<done, mail, scanner, queue>>
      /\ proc' = [proc EXCEPT ![p] = next]
  BY DEF Insert, Become
<1>2. /\ b \in Batches /\ done[b] # "none" /\ failed \subseteq Batches
      /\ proc[p].left # <<>> /\ proc[p].left \in Seq(Mails)
  BY <1>1, InHand DEF IInv, WorkInHand, DiskTypeOK, Reading, ProcessorStates
<1>3. /\ m \in Mails /\ m \in Range(proc[p].left) /\ Tail(proc[p].left) \in Seq(Mails)
      /\ Range(Tail(proc[p].left)) \subseteq Range(proc[p].left)
      /\ \A l \in Range(proc[p].left) : l = m \/ l \in Range(Tail(proc[p].left))
  BY <1>2, HeadAndTail
<1>4. \A l \in Range(proc[p].left) : mail[l] # "none"
  BY DEF IInv, NothingMissing
<1>5. (b \notin failed /\ done[b] = "spool") =>
          \A l \in Range(MailsOf[b]) : l \in Range(proc[p].left) \/ mail[l] = "user"
  BY <1>1 DEF IInv, BehindIsStored, Reading
<1>6. mail[m] = "user" /\ rows[m] = 0 /\ \A o \in Processors \ {p} : Inserting(o) => Head(proc[o].left) # m
  BY <1>1 DEF IInv, OneInserts, Inserting
<1>7. /\ next \in ProcessorStates /\ next.at = "line" /\ next.msg = b
      /\ next.left = Tail(proc[p].left)
  BY <1>3, InHand DEF ProcessorStates, Places
<1>8. CASE failed' = failed \cup {b} /\ UNCHANGED rows
  <2>1. failed \subseteq failed' /\ failed' \subseteq Batches /\ b \in failed'
    BY <1>2, <1>8
  <2> HIDE DEF b, m, next
  <2> QED
    BY <1>1, <1>2, <1>3, <1>4, <1>7, <1>8, <2>1, InHand, ReadingStep DEF Reading
<1>9. CASE rows' = [rows EXCEPT ![m] = @ + 1] /\ UNCHANGED failed
  <2>1. proc \in [Processors -> ProcessorStates] /\ rows \in [Mails -> Nat]
    BY DEF IInv, ThreadsTypeOK, DiskTypeOK
  <2>2. proc'[p] = next /\ \A o \in Processors \ {p} : proc'[o] = proc[o]
    BY <1>1, <2>1
  <2>3. rows'[m] = 1 /\ \A l \in Mails : l # m => rows'[l] = rows[l]
    BY <1>3, <1>6, <1>9, <2>1
  <2>4. \A o \in Processors : Inserting(o)' => o # p /\ Inserting(o) /\ proc'[o] = proc[o]
    BY <1>7, <2>2 DEF Inserting
  <2>5. \A o \in Processors : Inserting(o) => Head(proc[o].left) \in Mails
    BY HeadAndTail, <2>1 DEF IInv, WorkInHand, Inserting, ProcessorStates
  <2> HIDE DEF b, m, next
  <2>6. DiskTypeOK' /\ ThreadsTypeOK'
    BY <1>1, <1>3, <1>7, <1>9, <2>1 DEF IInv, DiskTypeOK, ThreadsTypeOK
  <2>7. NothingEarly' /\ NothingMissing'
    BY <1>1, <1>2, <1>3, <1>4, <1>7, <2>2 DEF IInv, NothingEarly, NothingMissing
  <2>8. WorkInHand'
    BY <1>1, <1>2, <1>7, <2>2 DEF IInv, WorkInHand, Reading
  <2>9. OneInserts'
    BY <1>1, <1>6, <2>3, <2>4, <2>5 DEF IInv, OneInserts
  <2>10. BehindIsStored'
    BY <1>1, <1>2, <1>3, <1>5, <1>6, <1>7, <1>9, <2>2 DEF IInv, BehindIsStored, Reading
  <2>11. RowsFollowFiles'
    BY <1>1, <1>6, <2>3 DEF IInv, RowsFollowFiles
  <2>12. NothingStranded'
    BY <1>1, <1>9 DEF IInv, NothingStranded
  <2> QED
    BY <2>6, <2>7, <2>8, <2>9, <2>10, <2>11, <2>12 DEF IInv
<1> QED
  BY <1>8, <1>9 DEF Insert

\* What is moved away has been read to its end.
LEMMA BackUpStep ==
  ASSUME IInv, NEW p \in Processors, BackUp(p)
  PROVE  IInv'
<1> DEFINE b == proc[p].msg
<1>1. /\ proc[p].at = "backup" /\ UNCHANGED <<mail, rows, failed, scanner, queue>>
      /\ proc' = [proc EXCEPT ![p] = Waiting("getq")]
  BY DEF BackUp, Become
<1>2. /\ b \in Batches /\ done[b] # "none" /\ failed \subseteq Batches /\ proc[p].left = <<>>
  BY <1>1, InHand DEF IInv, WorkInHand, DiskTypeOK
<1>3. /\ Waiting("getq") \in ProcessorStates /\ Waiting("getq").at = "getq"
      /\ Waiting("getq").msg = StopMessage /\ Waiting("getq").left = <<>>
  BY AtRest DEF Places
<1>4. CASE UNCHANGED done
  BY <1>1, <1>2, <1>3, <1>4, InHand, NothingInEmpty, StopMessageAssumption, ReadingStep
     DEF Reading
<1>5. CASE done[b] = "spool" /\ done' = [done EXCEPT ![b] = "backedUp"]
  <2>1. proc \in [Processors -> ProcessorStates] /\ done \in [Batches -> {"none", "spool", "backedUp"}]
    BY DEF IInv, ThreadsTypeOK, DiskTypeOK
  <2>2. proc'[p] = Waiting("getq") /\ \A o \in Processors \ {p} : proc'[o] = proc[o]
    BY <1>1, <2>1
  <2>3. done'[b] = "backedUp" /\ \A c \in Batches : c # b => done'[c] = done[c]
    BY <1>2, <1>5, <2>1
  <2>4. b \notin failed => \A m \in Range(MailsOf[b]) : mail[m] = "user"
    BY <1>1, <1>2, <1>5, NothingInEmpty DEF IInv, BehindIsStored
  <2> HIDE DEF b
  <2>5. DiskTypeOK' /\ ThreadsTypeOK'
    BY <1>1, <1>2, <1>3, <1>5, <2>1 DEF IInv, DiskTypeOK, ThreadsTypeOK
  <2>6. NothingEarly' /\ NothingMissing'
    BY <1>1, <1>2, <1>3, <2>2, <2>3, NothingInEmpty, StopMessageAssumption
       DEF IInv, NothingEarly, NothingMissing
  <2>7. WorkInHand'
    BY <1>1, <1>3, <2>2 DEF IInv, WorkInHand, Reading
  <2>8. OneInserts'
    BY <1>1, <1>3, <2>2 DEF IInv, OneInserts, Inserting
  <2>9. BehindIsStored'
    BY <1>1, <1>3, <2>2, <2>3 DEF IInv, WorkInHand, BehindIsStored, Reading
  <2>10. RowsFollowFiles' /\ NothingStranded'
    BY <1>1, <2>3, <2>4 DEF IInv, RowsFollowFiles, NothingStranded
  <2> QED
    BY <2>5, <2>6, <2>7, <2>8, <2>9, <2>10 DEF IInv
<1> QED
  BY <1>4, <1>5 DEF BackUp

-----------------------------------------------------------------------------
(* The theorems *)

\* IInv holds whatever is delivered, however the threads interleave and wherever
\* the process crashes.
THEOREM Invariance == Spec => []IInv
<1>1. IInv /\ [Next]_vars => IInv'
  <2> SUFFICES ASSUME IInv, [Next]_vars PROVE IInv'
    OBVIOUS
  <2>1. ASSUME NEW b \in Batches, Deliver(b) PROVE IInv'
    BY <2>1, DeliverStep
  <2>2. CASE Start \/ Crash \/ Stop \/ ScannerStopped \/ PostStop \/ Stopped
    BY <2>2, MainSteps
  <2>3. CASE Scan
    BY <2>3, ScannerSteps
  <2>4. ASSUME NEW p \in Processors, Process(p) PROVE IInv'
    BY <2>4, GetqStep, CountBusyStep, QuitStep, OpenStep, ReadLineStep, MoveMailStep,
       InsertStep, BackUpStep DEF Process
  <2>5. CASE UNCHANGED vars
    <3>1. UNCHANGED <<disk, proc, scanner, queue>>
      BY <2>5 DEF vars, threads
    <3>2. ThreadsTypeOK' /\ NothingEarly'
      BY <3>1 DEF IInv, ThreadsTypeOK, NothingEarly, disk
    <3> QED
      BY <3>1, <3>2, QueueStep
  <2> QED
    BY <2>1, <2>2, <2>3, <2>4, <2>5 DEF Next
<1> QED
  BY InitHolds, <1>1, PTL DEF Spec

\* A mail has one row at most, and only when it is in the mailbox.
THEOREM RowsOnce == Spec => []RowsFollowFiles
<1>1. IInv => RowsFollowFiles
  BY DEF IInv
<1> QED
  BY <1>1, Invariance, PTL

\* A file none of whose operations failed is moved away only when each mail it
\* announces is in the mailbox.
THEOREM NoneStranded == Spec => []NothingStranded
<1>1. IInv => NothingStranded
  BY DEF IInv
<1> QED
  BY <1>1, Invariance, PTL

-----------------------------------------------------------------------------
(* What is counted: n_busy_thread_, the messages queued and the stop messages *)

Idle == {"down", "getq", "count"}
Counted(f) == { p \in Processors : f[p].at \notin Idle }

CountsOK ==
    /\ stage \in {"down", "serving", "stopping", "posting"}
    /\ posted \in 0 .. Cardinality(Processors)
    /\ Len(queue) <= QueueLimit
    /\ busy = Cardinality(Counted(proc))
    /\ crashes \in 0 .. MaxCrashes

\* The processors are finitely many, and so are those that are counted.
LEMMA CountedIsFinite ==
  ASSUME NEW f
  PROVE  IsFiniteSet(Counted(f)) /\ Cardinality(Counted(f)) \in Nat
<1>1. Counted(f) \subseteq Processors
  BY DEF Counted
<1>2. IsFiniteSet(Counted(f))
  BY <1>1, ProcessorsAssumption, FS_Subset
<1> QED
  BY <1>2, FS_CardinalityType

\* Nobody is counted before it has taken a message.
LEMMA NobodyCounted ==
  ASSUME NEW f, \A p \in Processors : f[p].at \in Idle
  PROVE  Cardinality(Counted(f)) = 0
<1>1. Counted(f) = {}
  BY DEF Counted
<1> QED
  BY <1>1, FS_EmptySet

\* One processor's step moves the count by that processor alone.
LEMMA OneMoves ==
  ASSUME NEW f, NEW g, NEW p \in Processors, \A o \in Processors \ {p} : g[o] = f[o]
  PROVE  /\ (f[p].at \in Idle <=> g[p].at \in Idle) =>
                Cardinality(Counted(g)) = Cardinality(Counted(f))
         /\ (f[p].at \in Idle /\ g[p].at \notin Idle) =>
                Cardinality(Counted(g)) = Cardinality(Counted(f)) + 1
         /\ (f[p].at \notin Idle /\ g[p].at \in Idle) =>
                Cardinality(Counted(g)) = Cardinality(Counted(f)) - 1
<1>1. (f[p].at \in Idle <=> g[p].at \in Idle) => Counted(g) = Counted(f)
  BY DEF Counted
<1>2. f[p].at \in Idle <=> p \notin Counted(f)
  BY DEF Counted
<1>3. (f[p].at \in Idle /\ g[p].at \notin Idle) => Counted(g) = Counted(f) \cup {p}
  BY DEF Counted
<1>4. (f[p].at \notin Idle /\ g[p].at \in Idle) => Counted(g) = Counted(f) \ {p}
  BY DEF Counted
<1>5. IsFiniteSet(Counted(f))
  BY CountedIsFinite
<1>6. /\ p \notin Counted(f) => Cardinality(Counted(f) \cup {p}) = Cardinality(Counted(f)) + 1
      /\ p \in Counted(f) => Cardinality(Counted(f) \ {p}) = Cardinality(Counted(f)) - 1
  BY <1>5, FS_AddElement, FS_RemoveElement
<1> QED
  BY <1>1, <1>2, <1>3, <1>4, <1>6

\* Taking a message from the head of the queue, or leaving the queue as it is.
LEMMA QueueShrinks ==
  ASSUME IInv, CountsOK, queue # <<>>, queue' = Tail(queue)
  PROVE  Len(queue') <= QueueLimit
<1>1. queue \in Seq(Messages) /\ Len(queue) <= QueueLimit
  BY DEF IInv, ThreadsTypeOK, CountsOK
<1>2. Len(queue') = Len(queue) - 1 /\ Len(queue) \in Nat
  BY <1>1
<1> QED
  BY <1>1, <1>2, BoundsAssumption

\* A queue that was not full has room for one message.
LEMMA QueueGrows ==
  ASSUME IInv, NEW x \in Messages, Len(queue) < QueueLimit, queue' = Append(queue, x)
  PROVE  Len(queue') <= QueueLimit
<1>1. queue \in Seq(Messages)
  BY DEF IInv, ThreadsTypeOK
<1>2. Len(queue') = Len(queue) + 1 /\ Len(queue) \in Nat
  BY <1>1
<1> QED
  BY <1>2, BoundsAssumption

\* The threads begin or end with nothing counted.
LEMMA CountsReset ==
  ASSUME CountsOK, busy' = 0, queue' \in {<<>>, queue}, posted' \in {0, posted},
         stage' \in {"down", "serving"}, crashes' \in 0 .. MaxCrashes,
         \A p \in Processors : proc'[p].at \in Idle
  PROVE  CountsOK'
<1>1. Cardinality(Counted(proc')) = 0
  BY NobodyCounted
<1>2. Len(queue') <= QueueLimit
  BY BoundsAssumption DEF CountsOK
<1>3. Cardinality(Processors) \in Nat
  BY ProcessorsAssumption, FS_CardinalityType
<1>4. posted' \in 0 .. Cardinality(Processors)
  BY <1>3 DEF CountsOK
<1> QED
  BY <1>1, <1>2, <1>4 DEF CountsOK

LEMMA InitCounts == Init => CountsOK
<1> SUFFICES ASSUME Init PROVE CountsOK
  OBVIOUS
<1>1. Cardinality(Processors) \in Nat
  BY ProcessorsAssumption, FS_CardinalityType
<1>2. \A p \in Processors : proc[p].at \in Idle
  BY DEF Init, Waiting, Idle
<1>3. Cardinality(Counted(proc)) = 0
  BY <1>2, NobodyCounted
<1> QED
  BY <1>1, <1>3, BoundsAssumption DEF Init, CountsOK

LEMMA MainCounts ==
  ASSUME IInv, CountsOK, Start \/ Crash \/ Stop \/ ScannerStopped \/ PostStop \/ Stopped
  PROVE  CountsOK'
<1>1. \A p \in Processors : Waiting("getq").at \in Idle /\ Waiting("down").at \in Idle
  BY DEF Waiting, Idle
<1>2. crashes \in 0 .. MaxCrashes
  BY DEF CountsOK
<1>3. CASE Start
  BY <1>1, <1>2, <1>3, CountsReset DEF Start
<1>4. CASE Crash
  <2>1. crashes' \in 0 .. MaxCrashes
    BY <1>2, <1>4, BoundsAssumption DEF Crash
  <2> QED
    BY <1>1, <1>4, <2>1, CountsReset DEF Crash, Die
<1>5. CASE Stop \/ ScannerStopped
  BY <1>5 DEF Stop, ScannerStopped, threads, CountsOK
<1>6. CASE PostStop
  <2>1. StopMessage \in Messages
    BY DEF Messages
  <2>2. Len(queue') <= QueueLimit
    BY <1>6, <2>1, QueueGrows DEF PostStop
  <2>3. Cardinality(Processors) \in Nat
    BY ProcessorsAssumption, FS_CardinalityType
  <2>4. posted' \in 0 .. Cardinality(Processors)
    BY <1>6, <2>3 DEF PostStop, CountsOK
  <2> QED
    BY <1>6, <2>2, <2>4 DEF PostStop, CountsOK
<1>7. CASE Stopped
  <2>1. \A p \in Processors : proc'[p].at \in Idle
    BY <1>7 DEF Stopped, Idle
  <2> QED
    BY <1>2, <1>7, <2>1, CountsReset DEF Stopped
<1> QED
  BY <1>3, <1>4, <1>5, <1>6, <1>7

LEMMA ScannerCounts ==
  ASSUME IInv, CountsOK, Scan
  PROVE  CountsOK'
<1>1. CASE Loop \/ ReadEntry \/ LookAtQueue \/ LookAtBusy
  BY <1>1 DEF Loop, ReadEntry, LookAtQueue, LookAtBusy, CountsOK
<1>2. CASE putq
  <2>1. scanner.file \in Messages
    BY DEF IInv, ThreadsTypeOK, ScannerStates
  <2>2. Len(queue') <= QueueLimit
    BY <1>2, <2>1, QueueGrows DEF putq
  <2> QED
    BY <1>2, <2>2 DEF putq, CountsOK
<1> QED
  BY <1>1, <1>2 DEF Scan

\* A processor counts itself once, between its message and its work, and off again
\* when it leaves the loop or has moved its file (Mail_Processor.cpp:52-60, 183).
LEMMA ProcessorCounts ==
  ASSUME IInv, CountsOK, NEW p \in Processors, Process(p)
  PROVE  CountsOK'
<1>1. Waiting("getq").at \in Idle /\ Waiting("down").at \in Idle
  BY DEF Waiting, Idle
<1>2. proc \in [Processors -> ProcessorStates]
  BY DEF IInv, ThreadsTypeOK
<1>3. Cardinality(Counted(proc)) \in Nat /\ busy = Cardinality(Counted(proc))
  BY CountedIsFinite DEF CountsOK
<1>4. ASSUME NEW x, proc' = [proc EXCEPT ![p] = x]
      PROVE  proc'[p] = x /\ \A o \in Processors \ {p} : proc'[o] = proc[o]
  BY <1>2, <1>4
<1>5. ASSUME NEW x, proc' = [proc EXCEPT ![p] = x], x.at \in Idle <=> proc[p].at \in Idle,
             UNCHANGED <<stage, posted, busy, crashes>>, Len(queue') <= QueueLimit
      PROVE  CountsOK'
  BY <1>4, <1>5, OneMoves DEF CountsOK
<1>6. Len(queue) <= QueueLimit
  BY DEF CountsOK
<1>7. CASE getq(p)
  <2>1. Len(queue') <= QueueLimit
    BY <1>7, QueueShrinks DEF getq
  <2> DEFINE x == [at |-> "count", msg |-> Head(queue), left |-> <<>>]
  <2>2. x.at \in Idle /\ proc[p].at \in Idle /\ proc' = [proc EXCEPT ![p] = x]
    BY <1>7 DEF getq, Become, Idle
  <2> HIDE DEF x
  <2> QED
    BY <1>5, <1>7, <2>1, <2>2 DEF getq
<1>8. CASE CountBusy(p)
  <2>1. proc[p].at \in Idle /\ proc'[p].at \notin Idle /\ \A o \in Processors \ {p} : proc'[o] = proc[o]
    BY <1>2, <1>8 DEF CountBusy, Goes, Idle, ProcessorStates
  <2>2. Cardinality(Counted(proc')) = Cardinality(Counted(proc)) + 1
    BY <2>1, OneMoves
  <2> QED
    BY <1>3, <1>8, <2>2 DEF CountBusy, CountsOK
<1>9. CASE Quit(p) \/ BackUp(p)
  <2>1. proc[p].at \notin Idle /\ proc'[p].at \in Idle /\ \A o \in Processors \ {p} : proc'[o] = proc[o]
    BY <1>1, <1>2, <1>9 DEF Quit, BackUp, Become, Idle
  <2>2. Cardinality(Counted(proc')) = Cardinality(Counted(proc)) - 1
    BY <2>1, OneMoves
  <2> QED
    BY <1>3, <1>9, <2>2 DEF Quit, BackUp, CountsOK
<1>10. CASE Open(p)
  <2>1. CASE UNCHANGED <<stage, posted, scanner, queue, busy>>
    <3>1. proc[p].at \notin Idle /\ proc'[p].at \notin Idle /\ \A o \in Processors \ {p} : proc'[o] = proc[o]
      <4>1. proc[p].at = "begin"
        BY <1>10 DEF Open
      <4>2. CASE Goes(p, "backup")
        BY <1>2, <4>1, <4>2 DEF Goes, Idle, ProcessorStates
      <4>3. CASE Become(p, [proc[p] EXCEPT !.at = "line", !.left = MailsOf[proc[p].msg]])
        BY <1>2, <4>1, <4>3 DEF Become, Idle, ProcessorStates
      <4>4. CASE Die
        <5>1. busy' = 0 /\ \A o \in Processors : proc'[o].at \in Idle
          BY <1>1, <4>4 DEF Die
        <5>2. p \in Counted(proc)
          BY <4>1 DEF Counted, Idle
        <5>3. Cardinality(Counted(proc)) # 0
          BY <5>2, CountedIsFinite, FS_EmptySet
        <5> QED
          BY <1>3, <2>1, <5>1, <5>3
      <4> QED
        BY <1>10, <4>2, <4>3, <4>4 DEF Open
    <3> QED
      BY <1>6, <1>10, <2>1, <3>1, OneMoves DEF Open, CountsOK
  <2>2. CASE Die
    <3>1. \A o \in Processors : proc'[o].at \in Idle
      BY <1>1, <2>2 DEF Die
    <3> QED
      BY <1>10, <2>2, <3>1, CountsReset DEF Die, Open, CountsOK
  <2> QED
    BY <1>10, <2>1, <2>2 DEF Open
<1>11. CASE ReadLine(p) \/ MoveMail(p) \/ Insert(p)
  <2>1. proc[p].at \notin Idle /\ proc'[p].at \notin Idle /\ \A o \in Processors \ {p} : proc'[o] = proc[o]
    <3>1. proc[p].at \notin Idle
      BY <1>11 DEF ReadLine, MoveMail, Insert, Idle
    <3>2. PICK at \in {"line", "move", "insert", "backup"} : \E l :
              proc' = [proc EXCEPT ![p] = [proc[p] EXCEPT !.at = at, !.left = l]]
                \/ proc' = [proc EXCEPT ![p].at = at]
                \/ proc' = [proc EXCEPT ![p].left = l]
      BY <1>11 DEF ReadLine, MoveMail, Insert, Become, Goes
    <3> QED
      BY <1>2, <3>1, <3>2 DEF Idle, ProcessorStates
  <2> QED
    BY <1>6, <1>11, <2>1, OneMoves DEF ReadLine, MoveMail, Insert, CountsOK
<1> QED
  BY <1>7, <1>8, <1>9, <1>10, <1>11 DEF Process

\* What is on disk and in memory keeps its type, the queue its limit, and
\* n_busy_thread_ is the number of processors at work on a message, whatever the
\* threads, the crashes and the stop command do.
THEOREM Types == Spec => []TypeOK
<1>1. IInv /\ CountsOK /\ [Next]_vars => CountsOK'
  <2> SUFFICES ASSUME IInv, CountsOK, [Next]_vars PROVE CountsOK'
    OBVIOUS
  <2>1. ASSUME NEW b \in Batches, Deliver(b) PROVE CountsOK'
    BY <2>1 DEF Deliver, threads, CountsOK
  <2>2. CASE Start \/ Crash \/ Stop \/ ScannerStopped \/ PostStop \/ Stopped
    BY <2>2, MainCounts
  <2>3. CASE Scan
    BY <2>3, ScannerCounts
  <2>4. ASSUME NEW p \in Processors, Process(p) PROVE CountsOK'
    BY <2>4, ProcessorCounts
  <2>5. CASE UNCHANGED vars
    BY <2>5 DEF vars, threads, CountsOK
  <2> QED
    BY <2>1, <2>2, <2>3, <2>4, <2>5 DEF Next
<1>2. IInv /\ CountsOK => TypeOK
  <2>1. Counted(proc) = { p \in Processors : proc[p].at \notin {"down", "getq", "count"} }
    BY DEF Counted, Idle
  <2> QED
    BY <2>1 DEF IInv, CountsOK, TypeOK
<1> QED
  BY InitCounts, Invariance, <1>1, <1>2, PTL DEF Spec
=============================================================================
