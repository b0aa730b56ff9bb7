----------------------------- MODULE AioProofs -----------------------------
(***************************************************************************)
(* For any number of sessions, threads and accepts or connects: the table  *)
(* lists the allocated sessions, a session is in one hand at a time, and   *)
(* the counters that decide when it is deleted agree with what the         *)
(* proactor owes it.  Raising the limit moves the table under the threads  *)
(* that point into it; the first two hold until one of those uses such a   *)
(* pointer, and no thread does when the limit is never raised.  The        *)
(* acceptor and the connector repeat the same code, so one argument serves *)
(* both.                                                                   *)
(***************************************************************************)
EXTENDS AioAcceptor, FiniteSetTheorems, TLAPS

CONSTANT MaxConnects
Connector == INSTANCE AioConnector

-----------------------------------------------------------------------------
(* The inductive invariant *)

One(b) == IF b THEN 1 ELSE 0

\* Counts what is owed, and as many times eight as the session was paused.
CountsWith(x, k) == x.r = 8 * k + One(x.rd) /\ x.w = 8 * k + One(x.wr)
Counts(x) == \E k \in Nat : CountsWith(x, k)

\* The counters keep their -1 until the stream is open.
Unopened(x) == x.r = -1 /\ x.w = -1 /\ ~x.rd /\ ~x.wr

SessionOK(x) ==
    /\ x \in SessionRecord
    /\ Unopened(x) \/ Counts(x)
    /\ x.stream = "new" => Unopened(x)

TableInv ==
    /\ maxConn \in Nat \ {0}
    /\ slots \in [0 .. maxConn - 1 -> Sessions \cup {NoSession}]
    /\ live \subseteq Sessions
    /\ ListsTheSessions

MembersOK ==
    /\ nOp \in Nat /\ cancelling \in BOOLEAN
    /\ timer \in {"none", "scheduled", "firing"} /\ hasTimeout \in BOOLEAN
    /\ stage \in Stages /\ signals \in {0, 1}
    /\ astray = FALSE

Thread == [at : Places, s : Sessions \cup {NoSession}, i : Nat, then : {"idle", "reissue"},
           old : BOOLEAN]

\* A thread that opens, destroys or checks has a session, no other has; a walk
\* stays in the table; and a table is moved under those that point into it, by
\* raising the limit.
ThreadOK(p) ==
    /\ p \in Thread
    /\ p.s \in Sessions <=> p.at \in {"open", "check"} \cup Destroying
    /\ p.at \in {"walk", "look"} => p.i < maxConn
    /\ p.old => p.at \in Pointing /\ Limits # {}

Handles(t, s) == pc[t].s = s /\ pc[t].at # "check"
NothingOwed(x) == ~x.rd /\ ~x.wr /\ ~IsPaused(x)

OneHandler ==
    \A t, u \in Threads : \A s \in Sessions : Handles(t, s) /\ Handles(u, s) => t = u
HandledHasNothingOwed ==
    \A t \in Threads : \A s \in Sessions : Handles(t, s) => s \in live /\ NothingOwed(sess[s])
NothingOwedIsHandled ==
    \A s \in live : NothingOwed(sess[s]) => \E t \in Threads : Handles(t, s)
FreedOwesNothing ==
    \A s \in Sessions \ live : ~sess[s].rd /\ ~sess[s].wr

\* What destroy_session saw without the lock still holds when it has the lock:
\* only the thread that destroys a session frees its slot.
SlotSeenIsKept ==
    /\ \A s \in live : sess[s].index \in 0 .. maxConn - 1
    /\ \A t \in Threads : pc[t].at = "destroyAt" => slots[sess[pc[t].s].index] = pc[t].s
    /\ \A t \in Threads : pc[t].at = "scan" =>
            pc[t].i \in 0 .. maxConn - 1 /\ slots[pc[t].i] = pc[t].s

HandsInv ==
    /\ sess \in [Sessions -> SessionRecord]
    /\ \A s \in Sessions : SessionOK(sess[s])
    /\ pc \in [Threads -> Thread]
    /\ \A t \in Threads : ThreadOK(pc[t])
    /\ OneHandler
    /\ HandledHasNothingOwed
    /\ NothingOwedIsHandled
    /\ FreedOwesNothing
    /\ SlotSeenIsKept

IInv == TableInv /\ MembersOK /\ HandsInv

\* What is left once a thread has used a pointer into the freed table.
StrayInv == astray /\ Limits # {} /\ TypeOK /\ CountsArePending

AInv == IInv \/ StrayInv

-----------------------------------------------------------------------------
(* A session's record with one field changed *)

SetR(x, v) == [x EXCEPT !.r = v]
SetW(x, v) == [x EXCEPT !.w = v]
SetRd(x, v) == [x EXCEPT !.rd = v]
SetWr(x, v) == [x EXCEPT !.wr = v]
SetStream(x, v) == [x EXCEPT !.stream = v]
SetIndex(x, v) == [x EXCEPT !.index = v]

LEMMA FieldTypes ==
  \A x \in SessionRecord :
    x.r \in Int /\ x.w \in Int /\ x.rd \in BOOLEAN /\ x.wr \in BOOLEAN /\ x.index \in Int
  BY DEF SessionRecord

LEMMA SettingR == \A x \in SessionRecord : \A v \in Int :
    /\ SetR(x, v) \in SessionRecord /\ SetR(x, v).r = v
    /\ SetR(x, v).w = x.w /\ SetR(x, v).rd = x.rd /\ SetR(x, v).wr = x.wr
    /\ SetR(x, v).stream = x.stream /\ SetR(x, v).index = x.index
<1> TAKE x \in SessionRecord
<1> TAKE v \in Int
<1> USE DEF SetR, SessionRecord
<1>1. SetR(x, v) \in SessionRecord
  OBVIOUS
<1>2. SetR(x, v).r = v
  OBVIOUS
<1>3. SetR(x, v).w = x.w /\ SetR(x, v).rd = x.rd
  OBVIOUS
<1>4. SetR(x, v).wr = x.wr
  OBVIOUS
<1>5. SetR(x, v).stream = x.stream /\ SetR(x, v).index = x.index
  OBVIOUS
<1> QED
  BY <1>1, <1>2, <1>3, <1>4, <1>5

LEMMA SettingW == \A x \in SessionRecord : \A v \in Int :
    /\ SetW(x, v) \in SessionRecord /\ SetW(x, v).w = v
    /\ SetW(x, v).r = x.r /\ SetW(x, v).rd = x.rd /\ SetW(x, v).wr = x.wr
    /\ SetW(x, v).stream = x.stream /\ SetW(x, v).index = x.index
<1> TAKE x \in SessionRecord
<1> TAKE v \in Int
<1> USE DEF SetW, SessionRecord
<1>1. SetW(x, v) \in SessionRecord
  OBVIOUS
<1>2. SetW(x, v).w = v
  OBVIOUS
<1>3. SetW(x, v).r = x.r /\ SetW(x, v).rd = x.rd
  OBVIOUS
<1>4. SetW(x, v).wr = x.wr
  OBVIOUS
<1>5. SetW(x, v).stream = x.stream /\ SetW(x, v).index = x.index
  OBVIOUS
<1> QED
  BY <1>1, <1>2, <1>3, <1>4, <1>5

LEMMA SettingRd == \A x \in SessionRecord : \A v \in BOOLEAN :
    /\ SetRd(x, v) \in SessionRecord /\ SetRd(x, v).rd = v
    /\ SetRd(x, v).r = x.r /\ SetRd(x, v).w = x.w /\ SetRd(x, v).wr = x.wr
    /\ SetRd(x, v).stream = x.stream /\ SetRd(x, v).index = x.index
<1> TAKE x \in SessionRecord
<1> TAKE v \in BOOLEAN
<1> USE DEF SetRd, SessionRecord
<1>1. SetRd(x, v) \in SessionRecord
  OBVIOUS
<1>2. SetRd(x, v).rd = v
  OBVIOUS
<1>3. SetRd(x, v).r = x.r /\ SetRd(x, v).w = x.w
  OBVIOUS
<1>4. SetRd(x, v).wr = x.wr
  OBVIOUS
<1>5. SetRd(x, v).stream = x.stream /\ SetRd(x, v).index = x.index
  OBVIOUS
<1> QED
  BY <1>1, <1>2, <1>3, <1>4, <1>5

LEMMA SettingWr == \A x \in SessionRecord : \A v \in BOOLEAN :
    /\ SetWr(x, v) \in SessionRecord /\ SetWr(x, v).wr = v
    /\ SetWr(x, v).r = x.r /\ SetWr(x, v).w = x.w /\ SetWr(x, v).rd = x.rd
    /\ SetWr(x, v).stream = x.stream /\ SetWr(x, v).index = x.index
<1> TAKE x \in SessionRecord
<1> TAKE v \in BOOLEAN
<1> USE DEF SetWr, SessionRecord
<1>1. SetWr(x, v) \in SessionRecord
  OBVIOUS
<1>2. SetWr(x, v).wr = v
  OBVIOUS
<1>3. SetWr(x, v).r = x.r /\ SetWr(x, v).w = x.w
  OBVIOUS
<1>4. SetWr(x, v).rd = x.rd
  OBVIOUS
<1>5. SetWr(x, v).stream = x.stream /\ SetWr(x, v).index = x.index
  OBVIOUS
<1> QED
  BY <1>1, <1>2, <1>3, <1>4, <1>5

LEMMA SettingStream == \A x \in SessionRecord : \A v \in {"new", "open", "closed"} :
    /\ SetStream(x, v) \in SessionRecord /\ SetStream(x, v).stream = v
    /\ SetStream(x, v).r = x.r /\ SetStream(x, v).w = x.w /\ SetStream(x, v).rd = x.rd
    /\ SetStream(x, v).wr = x.wr /\ SetStream(x, v).index = x.index
<1> TAKE x \in SessionRecord
<1> TAKE v \in {"new", "open", "closed"}
<1> USE DEF SetStream, SessionRecord
<1>1. SetStream(x, v) \in SessionRecord
  OBVIOUS
<1>2. SetStream(x, v).stream = v
  OBVIOUS
<1>3. SetStream(x, v).r = x.r /\ SetStream(x, v).w = x.w
  OBVIOUS
<1>4. SetStream(x, v).rd = x.rd
  OBVIOUS
<1>5. SetStream(x, v).wr = x.wr /\ SetStream(x, v).index = x.index
  OBVIOUS
<1> QED
  BY <1>1, <1>2, <1>3, <1>4, <1>5

LEMMA SettingIndex == \A x \in SessionRecord : \A v \in Int :
    /\ SetIndex(x, v) \in SessionRecord /\ SetIndex(x, v).index = v
    /\ SetIndex(x, v).r = x.r /\ SetIndex(x, v).w = x.w /\ SetIndex(x, v).rd = x.rd
    /\ SetIndex(x, v).wr = x.wr /\ SetIndex(x, v).stream = x.stream
<1> TAKE x \in SessionRecord
<1> TAKE v \in Int
<1> USE DEF SetIndex, SessionRecord
<1>1. SetIndex(x, v) \in SessionRecord
  OBVIOUS
<1>2. SetIndex(x, v).index = v
  OBVIOUS
<1>3. SetIndex(x, v).r = x.r /\ SetIndex(x, v).w = x.w
  OBVIOUS
<1>4. SetIndex(x, v).rd = x.rd
  OBVIOUS
<1>5. SetIndex(x, v).wr = x.wr /\ SetIndex(x, v).stream = x.stream
  OBVIOUS
<1> QED
  BY <1>1, <1>2, <1>3, <1>4, <1>5

\* Both counters changed, as the pauses do.
LEMMA SettingRW ==
  ASSUME NEW x \in SessionRecord, NEW v \in Int, NEW u \in Int,
         NEW y, y = SetW(SetR(x, v), u)
  PROVE  /\ y \in SessionRecord /\ y.index = x.index /\ y.stream = x.stream
         /\ y.r = v /\ y.w = u /\ y.rd = x.rd /\ y.wr = x.wr
<1> DEFINE z == SetR(x, v)
<1>1. /\ z \in SessionRecord /\ z.index = x.index /\ z.stream = x.stream
      /\ z.r = v /\ z.w = x.w /\ z.rd = x.rd /\ z.wr = x.wr
  BY SettingR
<1>2. y = SetW(z, u)
  OBVIOUS
<1> HIDE DEF z
<1> QED
  BY <1>1, <1>2, SettingW

-----------------------------------------------------------------------------
(* The session's methods *)

\* Between two calls of its user an open session counts what it is owed.
Opened(x) == x \in SessionRecord /\ x.stream # "new" /\ Counts(x)

LEMMA OpenedIsOK == \A x : Opened(x) => SessionOK(x)
  BY DEF Opened, SessionOK

\* A record with other counters and flags, and the same index.
LEMMA OpenedAgain ==
  ASSUME NEW x, NEW y \in SessionRecord, NEW k \in Nat,
         CountsWith(y, k), y.stream # "new", y.index = x.index
  PROVE  Opened(y) /\ y.index = x.index
  BY DEF Opened, Counts

LEMMA CloseStreamKeeps ==
  ASSUME NEW x \in SessionRecord
  PROVE  /\ CloseStream(x) \in SessionRecord
         /\ CloseStream(x).index = x.index
         /\ CloseStream(x).rd = x.rd /\ CloseStream(x).wr = x.wr
         /\ CloseStream(x).r = x.r /\ CloseStream(x).w = x.w
         /\ SessionOK(x) => SessionOK(CloseStream(x))
         /\ Opened(x) => Opened(CloseStream(x))
<1>1. CloseStream(x) = SetStream(x, "closed")
  BY DEF CloseStream, SetStream
<1>2. /\ CloseStream(x) \in SessionRecord /\ CloseStream(x).stream = "closed"
      /\ CloseStream(x).index = x.index
      /\ CloseStream(x).rd = x.rd /\ CloseStream(x).wr = x.wr
      /\ CloseStream(x).r = x.r /\ CloseStream(x).w = x.w
  BY <1>1, SettingStream, FieldTypes
<1>3. Counts(x) => Counts(CloseStream(x))
  BY <1>2 DEF Counts, CountsWith
<1>4. Unopened(x) => Unopened(CloseStream(x))
  BY <1>2 DEF Unopened
<1> QED
  BY <1>2, <1>3, <1>4 DEF SessionOK, Opened

LEMMA ReadKeeps ==
  ASSUME NEW x, Opened(x), NEW y \in read(x)
  PROVE  Opened(y) /\ y.index = x.index
<1> PICK k \in Nat : CountsWith(x, k)
  BY DEF Opened, Counts
<1>1. x \in SessionRecord /\ x.stream # "new"
  BY DEF Opened
<1>2. CASE y = x
  BY <1>2
<1>3. CASE y = CloseStream(x)
  BY <1>1, <1>3, CloseStreamKeeps
<1>4. CASE x.r = 0 /\ y = ReadStarted(x)
  <2>1. k = 0
    BY <1>1, <1>4, FieldTypes DEF CountsWith, One
  <2>2. ~x.rd
    BY <2>1, <1>4 DEF CountsWith, One
  <2>3. y = SetR(SetRd(x, TRUE), x.r + 1)
    BY <1>4 DEF ReadStarted, SetR, SetRd
  <2>4. /\ y \in SessionRecord /\ y.index = x.index /\ y.stream = x.stream
        /\ y.r = x.r + 1 /\ y.w = x.w /\ y.rd = TRUE /\ y.wr = x.wr
    <3> DEFINE z == SetRd(x, TRUE)
    <3>1. /\ z \in SessionRecord /\ z.index = x.index /\ z.stream = x.stream
          /\ z.r = x.r /\ z.w = x.w /\ z.rd = TRUE /\ z.wr = x.wr
      BY <1>1, SettingRd
    <3>2. y = SetR(z, x.r + 1) /\ x.r + 1 \in Int
      BY <1>1, <2>3, FieldTypes
    <3> HIDE DEF z
    <3> QED
      BY <3>1, <3>2, SettingR
  <2>5. CountsWith(y, 0)
    BY <1>4, <2>1, <2>4 DEF CountsWith, One
  <2> QED
    BY <1>1, <2>4, <2>5, OpenedAgain
<1> QED
  BY <1>2, <1>3, <1>4 DEF read

LEMMA WriteKeeps ==
  ASSUME NEW x, Opened(x), NEW y \in write(x)
  PROVE  Opened(y) /\ y.index = x.index
<1> PICK k \in Nat : CountsWith(x, k)
  BY DEF Opened, Counts
<1>1. x \in SessionRecord /\ x.stream # "new"
  BY DEF Opened
<1>2. CASE y = x
  BY <1>2
<1>3. CASE y = CloseStream(x)
  BY <1>1, <1>3, CloseStreamKeeps
<1>4. CASE x.w = 0 /\ y = WriteStarted(x)
  <2>1. k = 0
    BY <1>1, <1>4, FieldTypes DEF CountsWith, One
  <2>2. ~x.wr
    BY <2>1, <1>4 DEF CountsWith, One
  <2>3. y = SetW(SetWr(x, TRUE), x.w + 1)
    BY <1>4 DEF WriteStarted, SetW, SetWr
  <2>4. /\ y \in SessionRecord /\ y.index = x.index /\ y.stream = x.stream
        /\ y.w = x.w + 1 /\ y.r = x.r /\ y.wr = TRUE /\ y.rd = x.rd
    <3> DEFINE z == SetWr(x, TRUE)
    <3>1. /\ z \in SessionRecord /\ z.index = x.index /\ z.stream = x.stream
          /\ z.r = x.r /\ z.w = x.w /\ z.wr = TRUE /\ z.rd = x.rd
      BY <1>1, SettingWr
    <3>2. y = SetW(z, x.w + 1) /\ x.w + 1 \in Int
      BY <1>1, <2>3, FieldTypes
    <3> HIDE DEF z
    <3> QED
      BY <3>1, <3>2, SettingW
  <2>5. CountsWith(y, 0)
    BY <1>4, <2>1, <2>4 DEF CountsWith, One
  <2> QED
    BY <1>1, <2>4, <2>5, OpenedAgain
<1> QED
  BY <1>2, <1>3, <1>4 DEF write

LEMMA PauseKeeps ==
  ASSUME NEW x, Opened(x)
  PROVE  Opened(pause(x)) /\ pause(x).index = x.index
<1> PICK k \in Nat : CountsWith(x, k)
  BY DEF Opened, Counts
<1>1. x \in SessionRecord /\ x.stream # "new"
  BY DEF Opened
<1>2. pause(x) = SetW(SetR(x, x.r + 8), x.w + 8)
  BY DEF pause, SetR, SetW
<1>3. x.r + 8 \in Int /\ x.w + 8 \in Int
  BY <1>1, FieldTypes
<1>4. /\ pause(x) \in SessionRecord /\ pause(x).index = x.index /\ pause(x).stream = x.stream
      /\ pause(x).r = x.r + 8 /\ pause(x).w = x.w + 8
      /\ pause(x).rd = x.rd /\ pause(x).wr = x.wr
  BY <1>1, <1>2, <1>3, SettingRW
<1>5. CountsWith(pause(x), k + 1)
  BY <1>4 DEF CountsWith, One
<1> QED
  BY <1>1, <1>4, <1>5, OpenedAgain

LEMMA UserStepKeeps ==
  ASSUME NEW x, Opened(x), NEW y \in UserStep(x)
  PROVE  Opened(y) /\ y.index = x.index
<1> DEFINE R == IF "read" \in SessionCalls THEN {x} \cup UNION { read(z) : z \in {x} } ELSE {x}
           W == IF "write" \in SessionCalls THEN R \cup UNION { write(z) : z \in R } ELSE R
           P == IF "pause" \in SessionCalls THEN W \cup { pause(z) : z \in W } ELSE W
<1>1. UserStep(x) = P
  BY DEF UserStep
<1>2. \A z \in R : Opened(z) /\ z.index = x.index
  BY ReadKeeps
<1> HIDE DEF R
<1>3. \A z \in W : Opened(z) /\ z.index = x.index
  BY <1>2, WriteKeeps
<1> HIDE DEF W
<1>4. \A z \in P : Opened(z) /\ z.index = x.index
  BY <1>3, PauseKeeps
<1> QED
  BY <1>1, <1>4

LEMMA OpenKeeps ==
  ASSUME NEW x, SessionOK(x), NEW y \in open(x)
  PROVE  SessionOK(y) /\ y.index = x.index
<1>1. CASE y = x
  BY <1>1
<1>2. CASE y # x
  <2> DEFINE z == [x EXCEPT !.stream = "open", !.r = 0, !.w = 0]
  <2>1. x.stream = "new" /\ y \in UserStep(z)
    BY <1>2 DEF open
  <2>2. z = SetW(SetR(SetStream(x, "open"), 0), 0)
    BY DEF SetStream, SetR, SetW
  <2> HIDE DEF z
  <2>3. x \in SessionRecord /\ ~x.rd /\ ~x.wr
    BY <2>1 DEF SessionOK, Unopened
  <2>4. /\ SetStream(x, "open") \in SessionRecord
        /\ SetR(SetStream(x, "open"), 0) \in SessionRecord
    BY <2>3, SettingStream, SettingR
  <2>5. /\ z \in SessionRecord /\ z.index = x.index /\ z.stream = "open"
        /\ z.r = 0 /\ z.w = 0 /\ z.rd = x.rd /\ z.wr = x.wr
    BY <2>2, <2>3, <2>4, SettingStream, SettingRW
  <2>6. CountsWith(z, 0)
    BY <2>3, <2>5 DEF CountsWith, One
  <2>7. Opened(z)
    BY <2>5, <2>6, OpenedAgain
  <2> QED
    BY <2>1, <2>5, <2>7, UserStepKeeps, OpenedIsOK
<1> QED
  BY <1>1, <1>2

LEMMA ReadCompletionKeeps ==
  ASSUME NEW x, SessionOK(x), x.rd, NEW y \in handle_read_stream(x)
  PROVE  SessionOK(y) /\ y.index = x.index
<1> DEFINE done == [x EXCEPT !.rd = FALSE, !.r = @ - 1]
<1>1. x \in SessionRecord /\ x.stream # "new" /\ Counts(x)
  BY DEF SessionOK, Unopened
<1> PICK k \in Nat : CountsWith(x, k)
  BY <1>1 DEF Counts
<1>2. done = SetR(SetRd(x, FALSE), x.r - 1)
  BY DEF SetR, SetRd
<1>3. y \in UserStep(done) \cup {done, CloseStream(done)}
  BY DEF handle_read_stream
<1> HIDE DEF done
<1>4. x.r - 1 \in Int
  BY <1>1, FieldTypes
<1>5. /\ done \in SessionRecord /\ done.index = x.index /\ done.stream = x.stream
      /\ done.r = x.r - 1 /\ done.w = x.w /\ done.rd = FALSE /\ done.wr = x.wr
  <2> DEFINE z == SetRd(x, FALSE)
  <2>1. /\ z \in SessionRecord /\ z.index = x.index /\ z.stream = x.stream
        /\ z.r = x.r /\ z.w = x.w /\ z.rd = FALSE /\ z.wr = x.wr
    BY <1>1, SettingRd
  <2>2. done = SetR(z, x.r - 1)
    BY <1>2
  <2> HIDE DEF z
  <2> QED
    BY <1>4, <2>1, <2>2, SettingR
<1>6. CountsWith(done, k)
  BY <1>5 DEF CountsWith, One
<1>7. Opened(done) /\ done.index = x.index
  BY <1>1, <1>5, <1>6, OpenedAgain
<1> QED
  BY <1>3, <1>5, <1>7, UserStepKeeps, OpenedIsOK, CloseStreamKeeps

LEMMA WriteCompletionKeeps ==
  ASSUME NEW x, SessionOK(x), x.wr, NEW y \in handle_write_stream(x)
  PROVE  SessionOK(y) /\ y.index = x.index
<1> DEFINE done == [x EXCEPT !.wr = FALSE, !.w = @ - 1]
<1>1. x \in SessionRecord /\ x.stream # "new" /\ Counts(x)
  BY DEF SessionOK, Unopened
<1> PICK k \in Nat : CountsWith(x, k)
  BY <1>1 DEF Counts
<1>2. done = SetW(SetWr(x, FALSE), x.w - 1)
  BY DEF SetW, SetWr
<1>3. y \in UserStep(done) \cup {CloseStream(done)}
  BY DEF handle_write_stream
<1> HIDE DEF done
<1>4. x.w - 1 \in Int
  BY <1>1, FieldTypes
<1>5. /\ done \in SessionRecord /\ done.index = x.index /\ done.stream = x.stream
      /\ done.w = x.w - 1 /\ done.r = x.r /\ done.wr = FALSE /\ done.rd = x.rd
  <2> DEFINE z == SetWr(x, FALSE)
  <2>1. /\ z \in SessionRecord /\ z.index = x.index /\ z.stream = x.stream
        /\ z.r = x.r /\ z.w = x.w /\ z.wr = FALSE /\ z.rd = x.rd
    BY <1>1, SettingWr
  <2>2. done = SetW(z, x.w - 1)
    BY <1>2
  <2> HIDE DEF z
  <2> QED
    BY <1>4, <2>1, <2>2, SettingW
<1>6. CountsWith(done, k)
  BY <1>5 DEF CountsWith, One
<1>7. Opened(done) /\ done.index = x.index
  BY <1>1, <1>5, <1>6, OpenedAgain
<1> QED
  BY <1>3, <1>5, <1>7, UserStepKeeps, OpenedIsOK, CloseStreamKeeps

LEMMA ResumeKeeps ==
  ASSUME NEW x, SessionOK(x), IsPaused(x), NEW y \in resume(x)
  PROVE  SessionOK(y) /\ y.index = x.index
<1> DEFINE z == [x EXCEPT !.r = @ - 8, !.w = @ - 8]
<1>1. x \in SessionRecord /\ x.stream # "new" /\ Counts(x)
  BY DEF SessionOK, Unopened, IsPaused
<1> PICK k \in Nat : CountsWith(x, k)
  BY <1>1 DEF Counts
<1>2. z = SetW(SetR(x, x.r - 8), x.w - 8)
  BY DEF SetR, SetW
<1>3. y \in UserStep(z)
  BY DEF resume
<1> HIDE DEF z
<1>4. x.r - 8 \in Int /\ x.w - 8 \in Int
  BY <1>1, FieldTypes
<1>5. /\ z \in SessionRecord /\ z.index = x.index /\ z.stream = x.stream
      /\ z.r = x.r - 8 /\ z.w = x.w - 8 /\ z.rd = x.rd /\ z.wr = x.wr
  BY <1>1, <1>2, <1>4, SettingRW
<1>6. k - 1 \in Nat
  BY <1>1, FieldTypes DEF CountsWith, One, IsPaused
<1>7. CountsWith(z, k - 1)
  BY <1>5 DEF CountsWith, One
<1>8. Opened(z) /\ z.index = x.index
  BY <1>1, <1>5, <1>6, <1>7, OpenedAgain
<1> QED
  BY <1>3, <1>8, UserStepKeeps, OpenedIsOK

-----------------------------------------------------------------------------
(* The table *)

LEMMA Remainder == \A a \in Nat, b \in Nat \ {0} : a % b \in 0 .. b - 1
  OBVIOUS

LEMMA OccupiedIsFinite ==
  ASSUME TableInv
  PROVE  /\ IsFiniteSet(Occupied) /\ Cardinality(Occupied) \in Nat
         /\ curr \in 0 .. maxConn
<1>1. IsFiniteSet(0 .. maxConn - 1) /\ Cardinality(0 .. maxConn - 1) = maxConn
  BY FS_Interval DEF TableInv
<1>2. Occupied \in SUBSET (0 .. maxConn - 1)
  BY DEF Occupied
<1>3. IsFiniteSet(Occupied) /\ Cardinality(Occupied) <= maxConn
  BY <1>1, <1>2, FS_Subset
<1>4. Cardinality(Occupied) \in Nat
  BY <1>3, FS_CardinalityType
<1> QED
  BY <1>3, <1>4 DEF TableInv, ListsTheSessions

LEMMA TableStays ==
  ASSUME TableInv, UNCHANGED <<slots, curr, maxConn, live>>
  PROVE  TableInv'
  BY DEF TableInv, ListsTheSessions, Occupied

\* make_handler puts an object that is in no slot into a free one.
LEMMA TableInserts ==
  ASSUME TableInv, NEW slot \in 0 .. maxConn - 1, NEW s \in Sessions \ live,
         Free(slot), slots' = [slots EXCEPT ![slot] = s], live' = live \cup {s},
         curr' = curr + 1, maxConn' = maxConn
  PROVE  TableInv'
<1>1. Occupied' = Occupied \cup {slot} /\ slot \notin Occupied
  BY SessionsAssumption DEF TableInv, Occupied, Free
<1>2. Cardinality(Occupied') = Cardinality(Occupied) + 1
  BY <1>1, OccupiedIsFinite, FS_AddElement
<1>3. \A i \in Occupied : slots'[i] = slots[i] /\ slots[i] \in live
  BY <1>1 DEF TableInv, ListsTheSessions, Occupied
<1>4. slots'[slot] = s
  BY DEF TableInv
<1>5. live' = { slots'[i] : i \in Occupied' }
  BY <1>1, <1>3, <1>4 DEF TableInv, ListsTheSessions
<1>6. \A i, j \in Occupied' : slots'[i] = slots'[j] => i = j
  BY <1>1, <1>3, <1>4 DEF TableInv, ListsTheSessions
<1>7. slots' \in [0 .. maxConn' - 1 -> Sessions \cup {NoSession}] /\ live' \subseteq Sessions
  BY DEF TableInv
<1> QED
  BY <1>2, <1>5, <1>6, <1>7 DEF TableInv, ListsTheSessions

\* destroy_session empties the slot of the object it deletes.
LEMMA TableRemoves ==
  ASSUME TableInv, NEW slot \in Occupied,
         slots' = [slots EXCEPT ![slot] = NoSession], live' = live \ {slots[slot]},
         curr' = curr - 1, maxConn' = maxConn
  PROVE  TableInv'
<1>1. Occupied' = Occupied \ {slot}
  BY DEF TableInv, Occupied
<1>2. Cardinality(Occupied') = Cardinality(Occupied) - 1
  BY <1>1, OccupiedIsFinite, FS_RemoveElement
<1>3. \A i \in Occupied' : slots'[i] = slots[i] /\ slots[i] # slots[slot]
  BY <1>1 DEF TableInv, ListsTheSessions, Occupied
<1>4. live' = { slots'[i] : i \in Occupied' }
  BY <1>1, <1>3 DEF TableInv, ListsTheSessions
<1>5. \A i, j \in Occupied' : slots'[i] = slots'[j] => i = j
  BY <1>1, <1>3 DEF TableInv, ListsTheSessions
<1>6. slots' \in [0 .. maxConn' - 1 -> Sessions \cup {NoSession}] /\ live' \subseteq Sessions
  BY DEF TableInv
<1> QED
  BY <1>2, <1>4, <1>5, <1>6 DEF TableInv, ListsTheSessions

\* max_session(int) keeps every slot when it grows the table.
LEMMA TableGrows ==
  ASSUME TableInv, NEW m \in Limits, m > maxConn, max_session(m)
  PROVE  TableInv'
<1>1. m \in Nat \ {0} /\ maxConn' = m /\ live' = live /\ curr' = curr
  BY LimitsAssumption DEF max_session
<1>2. DOMAIN slots \cup maxConn .. m - 1 = 0 .. m - 1
  BY <1>1 DEF TableInv
<1>3. slots' = [i \in 0 .. m - 1 |-> IF i < maxConn THEN slots[i] ELSE NoSession]
  BY <1>2 DEF max_session
<1>4. \A i \in 0 .. maxConn - 1 : i \in 0 .. m - 1 /\ slots'[i] = slots[i]
  BY <1>1, <1>3 DEF TableInv
<1>5. \A i \in 0 .. m - 1 : i \notin 0 .. maxConn - 1 => slots'[i] = NoSession
  BY <1>1, <1>3 DEF TableInv
<1>6. Occupied' = Occupied
  BY <1>1, <1>4, <1>5 DEF Occupied
<1>7. slots' \in [0 .. maxConn' - 1 -> Sessions \cup {NoSession}]
  BY <1>1, <1>3 DEF TableInv
<1>8. \A i \in Occupied : slots'[i] = slots[i]
  BY <1>4 DEF Occupied
<1>9. ListsTheSessions'
  <2>1. curr' = Cardinality(Occupied')
    BY <1>1, <1>6 DEF TableInv, ListsTheSessions
  <2>2. live' = { slots'[i] : i \in Occupied' }
    BY <1>1, <1>6, <1>8 DEF TableInv, ListsTheSessions
  <2>3. \A i, j \in Occupied' : slots'[i] = slots'[j] => i = j
    BY <1>1, <1>6, <1>8 DEF TableInv, ListsTheSessions
  <2> QED
    BY <2>1, <2>2, <2>3 DEF ListsTheSessions
<1> QED
  BY <1>1, <1>7, <1>9 DEF TableInv

-----------------------------------------------------------------------------
(* Where a thread goes, and a session that was never opened *)

LEMMA GoRecord ==
  \A at : Go(at) = [at |-> at, s |-> NoSession, i |-> 0, then |-> "idle", old |-> FALSE]
<1>1. ASSUME NEW at, NEW old
      PROVE  [[at |-> "idle", s |-> NoSession, i |-> 0, then |-> "idle", old |-> old] EXCEPT !.at = at]
                = [at |-> at, s |-> NoSession, i |-> 0, then |-> "idle", old |-> old]
  OBVIOUS
<1> QED
  BY <1>1, Zenon DEF Go, Idle

LEMMA GoFields ==
  \A at \in Places : /\ Go(at) \in Thread /\ Go(at).at = at /\ Go(at).s = NoSession
                     /\ Go(at).i = 0 /\ Go(at).then = "idle" /\ Go(at).old = FALSE
<1> TAKE at \in Places
<1>1. Go(at) = [at |-> at, s |-> NoSession, i |-> 0, then |-> "idle", old |-> FALSE]
  BY GoRecord
<1> QED
  BY <1>1 DEF Thread

LEMMA NewSessionIsOK ==
  /\ NewSession \in SessionRecord /\ Unopened(NewSession)
  /\ SessionOK(NewSession) /\ NothingOwed(NewSession)
<1>1. NewSession \in SessionRecord
  BY DEF NewSession, SessionRecord
<1>2. Unopened(NewSession)
  BY DEF NewSession, Unopened
<1> QED
  BY <1>1, <1>2 DEF SessionOK, NothingOwed, IsPaused, Unopened

LEMMA NewSessionAt ==
  ASSUME NEW i \in Int
  PROVE  LET x == [NewSession EXCEPT !.index = i]
         IN  SessionOK(x) /\ NothingOwed(x) /\ x.index = i
<1> DEFINE x == SetIndex(NewSession, i)
<1>1. /\ x \in SessionRecord /\ x.index = i /\ x.r = NewSession.r /\ x.w = NewSession.w
      /\ x.rd = NewSession.rd /\ x.wr = NewSession.wr
  BY NewSessionIsOK, SettingIndex
<1> HIDE DEF x
<1>2. Unopened(x)
  BY <1>1, NewSessionIsOK DEF Unopened
<1>3. SessionOK(x) /\ NothingOwed(x) /\ x.index = i
  BY <1>1, <1>2 DEF SessionOK, NothingOwed, IsPaused, Unopened
<1> QED
  BY <1>3 DEF x, SetIndex

\* The counters alone decide whether a session is destroyed, and rightly so.
LEMMA PendingIsOwed ==
  ASSUME NEW x, SessionOK(x)
  PROVE  HasPending(x) <=> ~NothingOwed(x)
<1>1. CASE Unopened(x)
  BY <1>1 DEF Unopened, HasPending, NothingOwed, IsPaused
<1>2. CASE Counts(x)
  <2> PICK k \in Nat : CountsWith(x, k)
    BY <1>2 DEF Counts
  <2>1. CASE k = 0
    BY <2>1 DEF CountsWith, One, HasPending, NothingOwed, IsPaused
  <2>2. CASE k > 0
    <3>1. x.r >= 8 /\ x.r \in Int
      BY <2>2 DEF CountsWith, One
    <3> QED
      BY <3>1 DEF HasPending, NothingOwed, IsPaused
  <2> QED
    BY <2>1, <2>2
<1> QED
  BY <1>1, <1>2 DEF SessionOK

-----------------------------------------------------------------------------
(* The hands a session is in *)

Busy == {"open"} \cup Destroying

LEMMA HandlingIsBusy ==
  ASSUME HandsInv, NEW t \in Threads, NEW s \in Sessions
  PROVE  Handles(t, s) <=> pc[t].s = s /\ pc[t].at \in Busy
  BY SessionsAssumption DEF HandsInv, ThreadOK, Handles, Busy, Destroying

\* A step after which every busy thread is where it was, and that closes
\* streams at most.
LEMMA HandsStay ==
  ASSUME TableInv, HandsInv, UNCHANGED <<slots, maxConn, live>>,
         sess' \in [Sessions -> SessionRecord],
         \A s \in Sessions : sess'[s] \in {sess[s], CloseStream(sess[s])},
         pc' \in [Threads -> Thread],
         \A t \in Threads : ThreadOK(pc'[t]),
         \A t \in Threads :
            \/ pc'[t] = pc[t]
            \/ pc[t].at \notin Busy /\ pc'[t].at \notin Busy
  PROVE  HandsInv'
<1>1. \A s \in Sessions :
        /\ SessionOK(sess'[s]) /\ sess'[s].index = sess[s].index
        /\ sess'[s].rd = sess[s].rd /\ sess'[s].wr = sess[s].wr
        /\ sess'[s].r = sess[s].r /\ sess'[s].w = sess[s].w
  BY CloseStreamKeeps DEF HandsInv
<1>2. \A s \in Sessions : NothingOwed(sess'[s]) <=> NothingOwed(sess[s])
  BY <1>1 DEF NothingOwed, IsPaused
<1>3. \A t \in Threads : \A s \in Sessions : Handles(t, s)' <=> Handles(t, s)
  <2> TAKE t \in Threads
  <2> TAKE s \in Sessions
  <2>1. Handles(t, s) <=> pc[t].s = s /\ pc[t].at \in Busy
    BY HandlingIsBusy
  <2>2. Handles(t, s)' <=> pc'[t].s = s /\ pc'[t].at \in Busy
    BY SessionsAssumption DEF ThreadOK, Handles, Busy, Destroying
  <2> QED
    BY <2>1, <2>2
<1>4. OneHandler'
  BY <1>3 DEF HandsInv, OneHandler
<1>5. HandledHasNothingOwed'
  BY <1>2, <1>3 DEF HandsInv, HandledHasNothingOwed
<1>6. NothingOwedIsHandled'
  <2> SUFFICES ASSUME NEW s \in live, s \in Sessions, NothingOwed(sess'[s])
               PROVE  \E t \in Threads : Handles(t, s)'
    BY DEF TableInv, NothingOwedIsHandled
  <2> QED
    BY <1>2, <1>3 DEF HandsInv, NothingOwedIsHandled
<1>7. FreedOwesNothing'
  BY <1>1 DEF HandsInv, FreedOwesNothing
<1>8. SlotSeenIsKept'
  <2>1. \A s \in live : sess'[s].index \in 0 .. maxConn - 1
    BY <1>1 DEF TableInv, HandsInv, SlotSeenIsKept
  <2>2. ASSUME NEW t \in Threads, pc'[t].at = "destroyAt"
        PROVE  slots[sess'[pc'[t].s].index] = pc'[t].s
    <3>1. pc'[t] = pc[t] /\ pc[t].s \in Sessions
      BY <2>2 DEF HandsInv, ThreadOK, Busy, Destroying
    <3> QED
      BY <1>1, <2>2, <3>1 DEF HandsInv, SlotSeenIsKept
  <2>3. ASSUME NEW t \in Threads, pc'[t].at = "scan"
        PROVE  pc'[t].i \in 0 .. maxConn - 1 /\ slots[pc'[t].i] = pc'[t].s
    <3>1. pc'[t] = pc[t]
      BY <2>3 DEF Busy, Destroying
    <3> QED
      BY <2>3, <3>1 DEF HandsInv, SlotSeenIsKept
  <2> QED
    BY <2>1, <2>2, <2>3 DEF SlotSeenIsKept
<1> QED
  BY <1>1, <1>4, <1>5, <1>6, <1>7, <1>8 DEF HandsInv, ThreadOK

\* The end of a session's method: it still counts what it is owed, or the
\* thread that called the method is the one that destroys it.
LEMMA HandsConclude ==
  ASSUME TableInv, HandsInv, NEW t \in Threads, NEW s \in live, NEW x,
         NEW then \in {"idle", "reissue"}, Conclude(t, s, x, then),
         SessionOK(x), x.index = sess[s].index,
         \/ pc[t].at = "open" /\ pc[t].s = s
         \/ pc[t].at = "idle" /\ ~NothingOwed(sess[s])
  PROVE  HandsInv'
<1> DEFINE v == IF HasPending(x) THEN Go(then)
                ELSE [at |-> "destroy", s |-> s, i |-> 0, then |-> then, old |-> FALSE]
<1>1. /\ sess' = [sess EXCEPT ![s] = x] /\ pc' = [pc EXCEPT ![t] = v]
      /\ UNCHANGED <<slots, maxConn, live>>
  BY DEF Conclude
<1>2. s \in Sessions /\ then \in Places
  BY DEF TableInv, Places
<1>3. /\ v \in Thread /\ v.old = FALSE
      /\ HasPending(x) => v.at = then /\ v.s = NoSession
      /\ ~HasPending(x) => v.at = "destroy" /\ v.s = s
  <2>1. CASE HasPending(x)
    BY <1>2, <2>1, GoFields
  <2>2. CASE ~HasPending(x)
    BY <1>2, <2>2 DEF Thread, Places
  <2> QED
    BY <2>1, <2>2
<1> HIDE DEF v
<1>4. /\ pc' \in [Threads -> Thread] /\ pc'[t] = v
      /\ \A u \in Threads \ {t} : pc'[u] = pc[u]
  BY <1>1, <1>3 DEF HandsInv
<1>5. /\ sess' \in [Sessions -> SessionRecord] /\ sess'[s] = x
      /\ \A r \in Sessions \ {s} : sess'[r] = sess[r]
  BY <1>1, <1>2 DEF HandsInv, SessionOK
<1>6. \A u \in Threads : ThreadOK(pc'[u])
  <2>1. ThreadOK(v)
    BY <1>2, <1>3, SessionsAssumption DEF ThreadOK, Destroying
  <2>2. \A u \in Threads \ {t} : ThreadOK(pc[u])
    BY <1>1 DEF HandsInv, ThreadOK
  <2> QED
    BY <1>4, <2>1, <2>2
<1>7. \A u \in Threads \ {t} : ~Handles(u, s)
  BY <1>2 DEF HandsInv, OneHandler, HandledHasNothingOwed, Handles
<1>8. \A r \in Sessions : Handles(t, r) => r = s
  BY SessionsAssumption DEF HandsInv, ThreadOK, Handles, Destroying
<1>9. \A u \in Threads \ {t} : \A r \in Sessions : Handles(u, r)' <=> Handles(u, r)
  BY <1>4 DEF Handles
<1>10. \A r \in Sessions : Handles(t, r)' <=> ~HasPending(x) /\ r = s
  BY <1>2, <1>3, <1>4, SessionsAssumption DEF Handles
<1>11. HasPending(x) <=> ~NothingOwed(x)
  BY PendingIsOwed
<1>12. OneHandler'
  BY <1>7, <1>9, <1>10 DEF HandsInv, OneHandler
<1>13. HandledHasNothingOwed'
  <2>1. ASSUME NEW u \in Threads \ {t}, NEW r \in Sessions, Handles(u, r)
        PROVE  r \in live /\ NothingOwed(sess'[r])
    BY <1>5, <1>7, <2>1 DEF HandsInv, HandledHasNothingOwed
  <2> QED
    BY <1>1, <1>5, <1>9, <1>10, <1>11, <2>1 DEF HandledHasNothingOwed
<1>14. NothingOwedIsHandled'
  <2>1. ASSUME NEW r \in live \ {s}, NothingOwed(sess'[r])
        PROVE  \E u \in Threads : Handles(u, r)'
    <3>1. r \in Sessions /\ sess'[r] = sess[r]
      BY <1>5, <2>1 DEF TableInv
    <3>2. PICK u \in Threads : Handles(u, r)
      BY <2>1, <3>1 DEF HandsInv, NothingOwedIsHandled
    <3> QED
      BY <1>8, <1>9, <3>1, <3>2
  <2>2. NothingOwed(sess'[s]) => Handles(t, s)'
    BY <1>2, <1>5, <1>10, <1>11
  <2> QED
    BY <1>1, <2>1, <2>2 DEF NothingOwedIsHandled
<1>15. FreedOwesNothing'
  BY <1>1, <1>5 DEF HandsInv, FreedOwesNothing
<1>16. SlotSeenIsKept'
  <2>1. \A r \in live : sess'[r].index = sess[r].index
    BY <1>5 DEF TableInv
  <2>2. ASSUME NEW u \in Threads, pc'[u].at = "destroyAt"
        PROVE  slots[sess'[pc'[u].s].index] = pc'[u].s
    <3>1. u # t /\ pc'[u] = pc[u]
      BY <1>3, <1>4, <2>2
    <3>2. pc[u].s \in Sessions /\ Handles(u, pc[u].s)
      BY <2>2, <3>1 DEF HandsInv, ThreadOK, Destroying, Handles
    <3>3. sess'[pc[u].s] = sess[pc[u].s]
      BY <1>5, <1>7, <3>1, <3>2
    <3> QED
      BY <2>2, <3>1, <3>3 DEF HandsInv, SlotSeenIsKept
  <2>3. \A r \in live : sess'[r].index \in 0 .. maxConn - 1
    BY <2>1 DEF HandsInv, SlotSeenIsKept
  <2>4. ASSUME NEW u \in Threads, pc'[u].at = "scan"
        PROVE  pc'[u].i \in 0 .. maxConn - 1 /\ slots[pc'[u].i] = pc'[u].s
    <3>1. u # t /\ pc'[u] = pc[u]
      BY <1>3, <1>4, <2>4
    <3> QED
      BY <2>4, <3>1 DEF HandsInv, SlotSeenIsKept
  <2> QED
    BY <1>1, <2>2, <2>3, <2>4 DEF SlotSeenIsKept
<1>17. \A r \in Sessions : SessionOK(sess'[r])
  BY <1>5 DEF HandsInv
<1> QED
  BY <1>1, <1>4, <1>5, <1>6, <1>12, <1>13, <1>14, <1>15, <1>16, <1>17 DEF HandsInv, ThreadOK

\* A new session is in the hands of the thread that opens it.
LEMMA HandsInsert ==
  ASSUME TableInv, HandsInv, NEW t \in Threads, NEW s \in Sessions \ live,
         NEW slot \in 0 .. maxConn - 1, NEW i \in 0 .. maxConn - 1, Free(slot),
         slots' = [slots EXCEPT ![slot] = s], live' = live \cup {s}, maxConn' = maxConn,
         sess' = [sess EXCEPT ![s] = [NewSession EXCEPT !.index = i]],
         pc[t].at = "validated", pc' \in [Threads -> Thread],
         pc'[t].at = "open", pc'[t].s = s, ~pc'[t].old,
         \A u \in Threads \ {t} : pc'[u] = pc[u]
  PROVE  HandsInv'
<1> DEFINE x == [NewSession EXCEPT !.index = i]
<1>1. SessionOK(x) /\ NothingOwed(x) /\ x.index = i
  BY NewSessionAt
<1> HIDE DEF x
<1>2. /\ sess' \in [Sessions -> SessionRecord] /\ sess'[s] = x
      /\ \A r \in Sessions \ {s} : sess'[r] = sess[r]
  BY <1>1 DEF HandsInv, SessionOK, x
<1>3. \A u \in Threads : ThreadOK(pc'[u])
  BY DEF HandsInv, ThreadOK, Destroying
<1>4. \A u \in Threads : ~Handles(u, s)
  BY DEF HandsInv, HandledHasNothingOwed
<1>5. \A r \in Sessions : ~Handles(t, r)
  BY SessionsAssumption DEF HandsInv, ThreadOK, Handles, Destroying
<1>6. \A u \in Threads \ {t} : \A r \in Sessions : Handles(u, r)' <=> Handles(u, r)
  BY DEF Handles
<1>7. \A r \in Sessions : Handles(t, r)' <=> r = s
  BY DEF Handles
<1>8. OneHandler'
  BY <1>4, <1>6, <1>7 DEF HandsInv, OneHandler
<1>9. HandledHasNothingOwed'
  <2>1. ASSUME NEW u \in Threads \ {t}, NEW r \in Sessions, Handles(u, r)
        PROVE  r \in live /\ NothingOwed(sess'[r])
    BY <1>2, <1>4, <2>1 DEF HandsInv, HandledHasNothingOwed
  <2> QED
    BY <1>1, <1>2, <1>6, <1>7, <2>1 DEF HandledHasNothingOwed
<1>10. NothingOwedIsHandled'
  <2>1. ASSUME NEW r \in live, NothingOwed(sess'[r])
        PROVE  \E u \in Threads : Handles(u, r)'
    <3>1. r \in Sessions /\ sess'[r] = sess[r]
      BY <1>2, <2>1 DEF TableInv
    <3>2. PICK u \in Threads : Handles(u, r)
      BY <2>1, <3>1 DEF HandsInv, NothingOwedIsHandled
    <3> QED
      BY <1>5, <1>6, <3>1, <3>2
  <2> QED
    BY <1>7, <2>1 DEF NothingOwedIsHandled
<1>11. FreedOwesNothing'
  BY <1>2 DEF HandsInv, FreedOwesNothing
<1>12. SlotSeenIsKept'
  <2>1. \A r \in live' : sess'[r].index \in 0 .. maxConn - 1
    BY <1>1, <1>2 DEF TableInv, HandsInv, SlotSeenIsKept
  <2>2. ASSUME NEW u \in Threads, pc'[u].at = "destroyAt"
        PROVE  slots'[sess'[pc'[u].s].index] = pc'[u].s
    <3>1. u # t /\ pc'[u] = pc[u]
      BY <2>2
    <3>2. pc[u].s \in Sessions /\ Handles(u, pc[u].s)
      BY <2>2, <3>1 DEF HandsInv, ThreadOK, Destroying, Handles
    <3>3. pc[u].s \in live /\ sess'[pc[u].s] = sess[pc[u].s]
      BY <1>2, <1>4, <3>2 DEF HandsInv, HandledHasNothingOwed
    <3> DEFINE k == sess[pc[u].s].index
    <3>4. k \in 0 .. maxConn - 1 /\ slots[k] = pc[u].s
      BY <2>2, <3>1, <3>3 DEF HandsInv, SlotSeenIsKept
    <3>5. slots'[k] = slots[k]
      BY <3>2, <3>4, SessionsAssumption DEF TableInv, Free
    <3> QED
      BY <3>1, <3>3, <3>4, <3>5
  <2>3. ASSUME NEW u \in Threads, pc'[u].at = "scan"
        PROVE  pc'[u].i \in 0 .. maxConn - 1 /\ slots'[pc'[u].i] = pc'[u].s
    <3>1. u # t /\ pc'[u] = pc[u]
      BY <2>3
    <3> DEFINE k == pc[u].i
    <3>2. k \in 0 .. maxConn - 1 /\ slots[k] = pc[u].s
      BY <2>3, <3>1 DEF HandsInv, SlotSeenIsKept
    <3>3. pc[u].s \in Sessions
      BY <2>3, <3>1 DEF HandsInv, ThreadOK, Destroying
    <3>4. slots'[k] = slots[k]
      BY <3>2, <3>3, SessionsAssumption DEF TableInv, Free
    <3> QED
      BY <3>1, <3>2, <3>4
  <2> QED
    BY <2>1, <2>2, <2>3 DEF SlotSeenIsKept
<1>13. \A r \in Sessions : SessionOK(sess'[r])
  BY <1>1, <1>2 DEF HandsInv
<1> QED
  BY <1>2, <1>3, <1>8, <1>9, <1>10, <1>11, <1>12, <1>13 DEF HandsInv, ThreadOK

\* A step on the way of a thread to the slot of the session it destroys.
LEMMA HandsLook ==
  ASSUME TableInv, HandsInv, NEW t \in Threads, pc[t].at \in Destroying,
         NEW p \in Thread, p.at \in Destroying, p.s = pc[t].s, ~p.old,
         p.at = "destroyAt" => slots[sess[p.s].index] = p.s,
         p.at = "scan" => p.i \in 0 .. maxConn - 1 /\ slots[p.i] = p.s,
         pc' = [pc EXCEPT ![t] = p], UNCHANGED <<slots, curr, maxConn, live, sess>>
  PROVE  TableInv' /\ HandsInv'
<1>1. TableInv'
  BY TableStays
<1>2. /\ pc' \in [Threads -> Thread] /\ pc'[t] = p
      /\ \A u \in Threads \ {t} : pc'[u] = pc[u]
  BY DEF HandsInv
<1>3. \A u \in Threads : ThreadOK(pc'[u])
  BY <1>2 DEF HandsInv, ThreadOK, Destroying
<1>4. \A u \in Threads : \A r \in Sessions : Handles(u, r)' <=> Handles(u, r)
  BY <1>2 DEF Handles, Destroying
<1>5. OneHandler' /\ HandledHasNothingOwed'
  BY <1>4 DEF HandsInv, OneHandler, HandledHasNothingOwed
<1>6. NothingOwedIsHandled' /\ FreedOwesNothing'
  BY <1>4 DEF TableInv, HandsInv, NothingOwedIsHandled, FreedOwesNothing
<1>7. SlotSeenIsKept'
  BY <1>2 DEF HandsInv, SlotSeenIsKept
<1>8. HandsInv'
  BY <1>2, <1>3, <1>5, <1>6, <1>7 DEF HandsInv, ThreadOK
<1> QED
  BY <1>1, <1>8

\* The thread that has a session deletes it, and the session of no other.
LEMMA HandsRelease ==
  ASSUME TableInv, HandsInv, NEW t \in Threads, NEW slot \in 0 .. maxConn - 1,
         pc[t].at \in Destroying, slots[slot] = pc[t].s, Release(t, slot)
  PROVE  TableInv' /\ HandsInv'
<1> DEFINE s == pc[t].s
           v == Go(pc[t].then)
<1>1. s \in Sessions /\ pc[t].then \in {"idle", "reissue"}
  BY DEF HandsInv, ThreadOK, Thread
<1>2. /\ slots' = [slots EXCEPT ![slot] = NoSession] /\ live' = live \ {s}
      /\ curr' = curr - 1 /\ maxConn' = maxConn
      /\ sess' = [sess EXCEPT ![s] = NewSession] /\ pc' = [pc EXCEPT ![t] = v]
  BY DEF Release
<1>3. slot \in Occupied
  BY <1>1, SessionsAssumption DEF Occupied
<1>4. TableInv'
  BY <1>2, <1>3, TableRemoves
<1>5. v \in Thread /\ v.at \in {"idle", "reissue"} /\ v.s = NoSession /\ v.old = FALSE
  BY <1>1, GoFields DEF Places
<1> HIDE DEF v
<1>6. /\ pc' \in [Threads -> Thread] /\ pc'[t] = v
      /\ \A u \in Threads \ {t} : pc'[u] = pc[u]
  BY <1>2, <1>5 DEF HandsInv
<1>7. /\ sess' \in [Sessions -> SessionRecord] /\ sess'[s] = NewSession
      /\ \A r \in Sessions \ {s} : sess'[r] = sess[r]
  BY <1>1, <1>2, NewSessionIsOK DEF HandsInv
<1>8. \A u \in Threads : ThreadOK(pc'[u])
  <2>1. ThreadOK(v)
    BY <1>5, SessionsAssumption DEF ThreadOK, Destroying
  <2> QED
    BY <1>6, <2>1 DEF HandsInv
<1>9. Handles(t, s) /\ \A r \in Sessions : Handles(t, r) => r = s
  BY DEF Handles, Destroying
<1>10. \A u \in Threads \ {t} : ~Handles(u, s)
  BY <1>1, <1>9 DEF HandsInv, OneHandler
<1>11. \A u \in Threads \ {t} : \A r \in Sessions : Handles(u, r)' <=> Handles(u, r)
  BY <1>6 DEF Handles
<1>12. \A r \in Sessions : ~Handles(t, r)'
  BY <1>5, <1>6, SessionsAssumption DEF Handles
<1>13. OneHandler'
  BY <1>11, <1>12 DEF HandsInv, OneHandler
<1>14. HandledHasNothingOwed'
  <2>1. ASSUME NEW u \in Threads \ {t}, NEW r \in Sessions, Handles(u, r)
        PROVE  r \in live' /\ NothingOwed(sess'[r])
    BY <1>2, <1>7, <1>10, <2>1 DEF HandsInv, HandledHasNothingOwed
  <2> QED
    BY <1>11, <1>12, <2>1 DEF HandledHasNothingOwed
<1>15. NothingOwedIsHandled'
  <2>1. ASSUME NEW r \in live', NothingOwed(sess'[r])
        PROVE  \E u \in Threads : Handles(u, r)'
    <3>1. r \in live /\ r \in Sessions /\ r # s /\ sess'[r] = sess[r]
      BY <1>2, <1>7, <2>1 DEF TableInv
    <3>2. PICK u \in Threads : Handles(u, r)
      BY <2>1, <3>1 DEF HandsInv, NothingOwedIsHandled
    <3> QED
      BY <1>9, <1>11, <3>1, <3>2
  <2> QED
    BY <2>1 DEF NothingOwedIsHandled
<1>16. FreedOwesNothing'
  BY <1>2, <1>7, NewSessionIsOK DEF HandsInv, FreedOwesNothing, Unopened
<1>17. SlotSeenIsKept'
  <2>1. \A r \in live' : sess'[r].index \in 0 .. maxConn - 1
    BY <1>2, <1>7 DEF TableInv, HandsInv, SlotSeenIsKept
  <2>2. ASSUME NEW u \in Threads, pc'[u].at = "destroyAt"
        PROVE  slots'[sess'[pc'[u].s].index] = pc'[u].s
    <3>1. u # t /\ pc'[u] = pc[u]
      BY <1>5, <1>6, <2>2
    <3>2. pc[u].s \in Sessions /\ Handles(u, pc[u].s)
      BY <2>2, <3>1 DEF HandsInv, ThreadOK, Destroying, Handles
    <3>3. pc[u].s # s /\ pc[u].s \in live /\ sess'[pc[u].s] = sess[pc[u].s]
      BY <1>7, <1>10, <3>1, <3>2 DEF HandsInv, HandledHasNothingOwed
    <3> DEFINE k == sess[pc[u].s].index
    <3>4. k \in 0 .. maxConn - 1 /\ slots[k] = pc[u].s
      BY <2>2, <3>1, <3>3 DEF HandsInv, SlotSeenIsKept
    <3>5. slots'[k] = slots[k]
      BY <1>2, <3>3, <3>4 DEF TableInv
    <3> QED
      BY <3>1, <3>3, <3>4, <3>5
  <2>3. ASSUME NEW u \in Threads, pc'[u].at = "scan"
        PROVE  pc'[u].i \in 0 .. maxConn - 1 /\ slots'[pc'[u].i] = pc'[u].s
    <3>1. u # t /\ pc'[u] = pc[u]
      BY <1>5, <1>6, <2>3
    <3> DEFINE k == pc[u].i
    <3>2. k \in 0 .. maxConn - 1 /\ slots[k] = pc[u].s
      BY <2>3, <3>1 DEF HandsInv, SlotSeenIsKept
    <3>3. pc[u].s # s
      BY <1>10, <2>3, <3>1 DEF Handles
    <3>4. slots'[k] = slots[k]
      BY <1>2, <3>2, <3>3 DEF TableInv
    <3> QED
      BY <3>1, <3>2, <3>4
  <2> QED
    BY <1>2, <2>1, <2>2, <2>3 DEF SlotSeenIsKept
<1>18. \A r \in Sessions : SessionOK(sess'[r])
  BY <1>7, NewSessionIsOK DEF HandsInv
<1>19. HandsInv'
  BY <1>2, <1>6, <1>7, <1>8, <1>13, <1>14, <1>15, <1>16, <1>17, <1>18 DEF HandsInv, ThreadOK
<1> QED
  BY <1>4, <1>19

\* Raising the limit marks the threads that point into the table.
LEMMA HandsGrow ==
  ASSUME TableInv, HandsInv, NEW m \in Limits, m > maxConn, max_session(m)
  PROVE  HandsInv'
<1>1. /\ m \in Nat /\ maxConn' = m /\ maxConn \in Nat
      /\ live' = live /\ sess' = sess
  BY LimitsAssumption DEF max_session, TableInv
<1>2. \A i \in 0 .. maxConn - 1 : slots'[i] = slots[i]
  <2>1. slots' = [i \in DOMAIN slots \cup maxConn .. m - 1 |->
                    IF i < maxConn THEN slots[i] ELSE NoSession]
    BY DEF max_session
  <2>2. \A i \in 0 .. maxConn - 1 : i \in DOMAIN slots /\ i < maxConn
    BY DEF TableInv
  <2> QED
    BY <2>1, <2>2
<1>3. /\ pc' \in [Threads -> Thread]
      /\ \A u \in Threads :
            /\ pc'[u].at = pc[u].at /\ pc'[u].s = pc[u].s /\ pc'[u].i = pc[u].i
            /\ pc'[u].old => pc[u].old \/ pc[u].at \in Pointing
  <2>1. CASE pc' = pc
    BY <2>1 DEF HandsInv
  <2>2. CASE pc' = [u \in Threads |-> IF pc[u].at \in Pointing
                                     THEN [pc[u] EXCEPT !.old = TRUE] ELSE pc[u]]
    <3> DEFINE Moved(u) == [pc[u] EXCEPT !.old = TRUE]
    <3>1. ASSUME NEW u \in Threads
          PROVE  /\ Moved(u) \in Thread /\ Moved(u).at = pc[u].at
                 /\ Moved(u).s = pc[u].s /\ Moved(u).i = pc[u].i
      BY DEF HandsInv, Thread
    <3>2. \A u \in Threads : pc'[u] = IF pc[u].at \in Pointing THEN Moved(u) ELSE pc[u]
      BY <2>2
    <3>3. pc' \in [Threads -> Thread]
      <4>1. \A u \in Threads : (IF pc[u].at \in Pointing THEN Moved(u) ELSE pc[u]) \in Thread
        BY <3>1 DEF HandsInv
      <4> QED
        BY <2>2, <4>1
    <3> HIDE DEF Moved
    <3> QED
      BY <3>1, <3>2, <3>3
  <2> QED
    BY <2>1, <2>2 DEF max_session
<1>4. \A u \in Threads : ThreadOK(pc[u])'
  <2> SUFFICES ASSUME NEW u \in Threads
               PROVE  ThreadOK(pc[u])'
    OBVIOUS
  <2>1. ThreadOK(pc[u]) /\ pc'[u] \in Thread
    BY <1>3 DEF HandsInv
  <2>2. pc[u].i \in Nat
    BY <2>1 DEF ThreadOK, Thread
  <2> QED
    BY <1>1, <1>3, <2>1, <2>2 DEF ThreadOK
<1>5. \A u \in Threads : \A s \in Sessions : Handles(u, s)' <=> Handles(u, s)
  BY <1>3 DEF Handles
<1>6. OneHandler' /\ HandledHasNothingOwed' /\ FreedOwesNothing'
  BY <1>1, <1>5 DEF HandsInv, OneHandler, HandledHasNothingOwed, FreedOwesNothing
<1>7. NothingOwedIsHandled'
  BY <1>1, <1>5 DEF TableInv, HandsInv, NothingOwedIsHandled
<1>8. SlotSeenIsKept'
  <2>1. \A s \in live : sess[s].index \in 0 .. m - 1
    BY <1>1 DEF HandsInv, SlotSeenIsKept
  <2>2. ASSUME NEW t \in Threads, pc[t].at = "destroyAt"
        PROVE  slots'[sess[pc[t].s].index] = pc[t].s
    <3>1. pc[t].s \in live
      BY <2>2 DEF HandsInv, ThreadOK, Destroying, HandledHasNothingOwed, Handles
    <3> QED
      BY <1>2, <2>2, <3>1 DEF HandsInv, SlotSeenIsKept
  <2>3. ASSUME NEW t \in Threads, pc[t].at = "scan"
        PROVE  pc[t].i \in 0 .. m - 1 /\ slots'[pc[t].i] = pc[t].s
    BY <1>1, <1>2, <2>3 DEF HandsInv, SlotSeenIsKept
  <2> QED
    BY <1>1, <1>3, <2>1, <2>2, <2>3 DEF SlotSeenIsKept
<1> QED
  BY <1>1, <1>3, <1>4, <1>6, <1>7, <1>8 DEF HandsInv

-----------------------------------------------------------------------------
(* The actions both sides share *)

StreamsCloseAtMost ==
    /\ sess' \in [Sessions -> SessionRecord]
    /\ \A s \in Sessions : sess'[s] \in {sess[s], CloseStream(sess[s])}

LEMMA SessionsStay ==
  ASSUME HandsInv, sess' = sess
  PROVE  StreamsCloseAtMost
  BY DEF HandsInv, StreamsCloseAtMost

LEMMA CheckTimeoutCloses ==
  ASSUME TableInv, HandsInv, NEW s, check_timeout(s)
  PROVE  StreamsCloseAtMost
<1>1. CASE sess' = sess
  BY <1>1, SessionsStay
<1>2. CASE s \in live /\ sess' = [sess EXCEPT ![s] = CloseStream(@)]
  <2>1. s \in Sessions /\ CloseStream(sess[s]) \in SessionRecord
    BY <1>2, CloseStreamKeeps DEF TableInv, HandsInv
  <2> QED
    BY <1>2, <2>1 DEF HandsInv, StreamsCloseAtMost
<1> QED
  BY <1>1, <1>2 DEF check_timeout

LEMMA NobodyMoves ==
  ASSUME TableInv, HandsInv, UNCHANGED <<slots, curr, maxConn, live, pc>>, StreamsCloseAtMost
  PROVE  TableInv' /\ HandsInv'
<1>1. TableInv'
  BY TableStays
<1>2. /\ sess' \in [Sessions -> SessionRecord]
      /\ \A s \in Sessions : sess'[s] \in {sess[s], CloseStream(sess[s])}
  BY DEF StreamsCloseAtMost
<1>3. pc' \in [Threads -> Thread] /\ \A t \in Threads : ThreadOK(pc'[t]) /\ pc'[t] = pc[t]
  BY DEF HandsInv
<1> QED
  BY <1>1, <1>2, <1>3, HandsStay

LEMMA NothingMoves ==
  ASSUME TableInv, HandsInv, UNCHANGED <<tableVars, pc>>
  PROVE  TableInv' /\ HandsInv'
  BY SessionsStay, NobodyMoves DEF tableVars

\* A thread that has no session goes where it will have none.
LEMMA ThreadMoves ==
  ASSUME TableInv, HandsInv, NEW t \in Threads, NEW p, ThreadOK(p),
         pc' = [pc EXCEPT ![t] = p], p.at \notin Busy, pc[t].at \notin Busy,
         UNCHANGED <<slots, curr, maxConn, live>>, StreamsCloseAtMost
  PROVE  TableInv' /\ HandsInv'
<1>1. pc' \in [Threads -> Thread]
  BY DEF HandsInv, ThreadOK
<1>2. pc'[t] = p /\ \A u \in Threads \ {t} : pc'[u] = pc[u]
  BY DEF HandsInv
<1>3. \A u \in Threads : ThreadOK(pc'[u])
  BY <1>2 DEF HandsInv
<1>4. \A u \in Threads : \/ pc'[u] = pc[u]
                         \/ pc[u].at \notin Busy /\ pc'[u].at \notin Busy
  BY <1>2
<1>5. TableInv'
  BY TableStays
<1>6. /\ sess' \in [Sessions -> SessionRecord]
      /\ \A s \in Sessions : sess'[s] \in {sess[s], CloseStream(sess[s])}
  BY DEF StreamsCloseAtMost
<1> QED
  BY <1>1, <1>3, <1>4, <1>5, <1>6, HandsStay

Restful == {"idle", "validated", "reissue", "walked"}

LEMMA RestfulOK ==
  \A at \in Restful : ThreadOK(Go(at)) /\ Go(at).at = at /\ at \notin Busy
<1> TAKE at \in Restful
<1>1. at \in Places
  BY DEF Restful, Places
<1>2. Go(at) \in Thread /\ Go(at).at = at /\ Go(at).s = NoSession /\ Go(at).old = FALSE
  BY <1>1, GoFields
<1> QED
  BY <1>2, SessionsAssumption DEF ThreadOK, Restful, Busy, Destroying

LEMMA IdleIsRestful == Idle = Go("idle") /\ ThreadOK(Idle) /\ Idle.at = "idle"
<1>1. Idle = Go("idle")
  BY GoRecord DEF Idle
<1> QED
  BY <1>1, RestfulOK DEF Restful

LEMMA make_handlerKeeps ==
  ASSUME TableInv, HandsInv, NEW t \in Threads, make_handler(t)
  PROVE  TableInv' /\ HandsInv'
<1>1. pc[t].at = "validated" /\ pc[t] \in Thread /\ maxConn' = maxConn /\ maxConn \in Nat \ {0}
  BY DEF make_handler, HandsInv, TableInv
<1>2. CASE \E s \in Sessions \ live : \E i \in 0 .. maxConn - 1 :
            LET slot == (curr + i) % maxConn
            IN  /\ Free(slot)
                /\ slots' = [slots EXCEPT ![slot] = s]
                /\ live' = live \cup {s}
                /\ sess' = [sess EXCEPT ![s] = [NewSession EXCEPT !.index = i]]
                /\ pc' = [pc EXCEPT ![t].at = "open", ![t].s = s]
                /\ curr' = curr + 1
  <2> PICK s \in Sessions \ live, i \in 0 .. maxConn - 1 :
            LET slot == (curr + i) % maxConn
            IN  /\ Free(slot)
                /\ slots' = [slots EXCEPT ![slot] = s]
                /\ live' = live \cup {s}
                /\ sess' = [sess EXCEPT ![s] = [NewSession EXCEPT !.index = i]]
                /\ pc' = [pc EXCEPT ![t].at = "open", ![t].s = s]
                /\ curr' = curr + 1
    BY <1>2
  <2> DEFINE slot == (curr + i) % maxConn
  <2>1. slot \in 0 .. maxConn - 1
    BY <1>1, OccupiedIsFinite, Remainder
  <2> HIDE DEF slot
  <2>2. /\ pc' \in [Threads -> Thread] /\ pc'[t].at = "open" /\ pc'[t].s = s /\ ~pc'[t].old
        /\ \A u \in Threads \ {t} : pc'[u] = pc[u]
    <3> DEFINE a == [pc EXCEPT ![t] = [pc[t] EXCEPT !.at = "open"]]
               p == [a[t] EXCEPT !.s = s]
    <3>1. a \in [Threads -> Thread] /\ a[t].at = "open" /\ \A u \in Threads \ {t} : a[u] = pc[u]
      BY <1>1 DEF HandsInv, Thread, Places
    <3>0. ~a[t].old
      <4>1. ~pc[t].old
        BY <1>1 DEF HandsInv, ThreadOK, Pointing
      <4> QED
        BY <1>1, <4>1 DEF HandsInv, Thread
    <3>2. pc' = [a EXCEPT ![t] = p]
      OBVIOUS
    <3> HIDE DEF a
    <3>3. p \in Thread /\ p.at = "open" /\ p.s = s /\ ~p.old
      BY <3>0, <3>1 DEF Thread
    <3> HIDE DEF p
    <3> QED
      BY <3>1, <3>2, <3>3
  <2>3. /\ Free(slot) /\ slots' = [slots EXCEPT ![slot] = s] /\ live' = live \cup {s}
        /\ sess' = [sess EXCEPT ![s] = [NewSession EXCEPT !.index = i]]
        /\ curr' = curr + 1
    BY DEF slot
  <2>4. TableInv'
    BY <1>1, <2>1, <2>3, TableInserts
  <2>5. HandsInv'
    BY <1>1, <2>1, <2>2, <2>3, HandsInsert, ZenonT(60)
  <2> QED
    BY <2>4, <2>5
<1>3. CASE /\ pc' = [pc EXCEPT ![t] = Go(pc[t].then)]
           /\ UNCHANGED <<slots, curr, live, sess>>
  <2>1. pc[t].then \in Restful /\ pc[t].at \notin Busy
    BY <1>1 DEF Thread, Restful, Busy, Destroying
  <2> QED
    BY <1>1, <1>3, <2>1, RestfulOK, SessionsStay, ThreadMoves
<1> QED
  BY <1>2, <1>3 DEF make_handler

LEMMA SessionMethodsKeep ==
  ASSUME TableInv, HandsInv, NEW t \in Threads,
         OpenSession(t) \/ \E s \in Sessions : SessionEvent(t, s)
  PROVE  TableInv' /\ HandsInv'
<1>1. ASSUME NEW s \in live, NEW x, NEW then \in {"idle", "reissue"}, Conclude(t, s, x, then),
             SessionOK(x) /\ x.index = sess[s].index,
             \/ pc[t].at = "open" /\ pc[t].s = s
             \/ pc[t].at = "idle" /\ ~NothingOwed(sess[s])
      PROVE  TableInv' /\ HandsInv'
  <2>1. TableInv'
    BY <1>1, TableStays DEF Conclude
  <2> QED
    BY <1>1, <2>1, HandsConclude
<1>2. CASE OpenSession(t)
  <2>1. PICK x \in open(sess[pc[t].s]) : Conclude(t, pc[t].s, x, pc[t].then)
    BY <1>2 DEF OpenSession
  <2>2. pc[t].at = "open" /\ pc[t].s \in Sessions /\ pc[t].then \in {"idle", "reissue"}
    BY <1>2 DEF OpenSession, HandsInv, ThreadOK, Thread
  <2>3. pc[t].s \in live
    BY <2>2 DEF HandsInv, HandledHasNothingOwed, Handles
  <2>4. SessionOK(x) /\ x.index = sess[pc[t].s].index
    BY <2>2, OpenKeeps DEF HandsInv
  <2> QED
    BY <1>1, <2>1, <2>2, <2>3, <2>4
<1>3. ASSUME NEW s \in Sessions, SessionEvent(t, s)
      PROVE  TableInv' /\ HandsInv'
  <2>1. pc[t].at = "idle" /\ s \in live /\ SessionOK(sess[s])
    BY <1>3 DEF SessionEvent, CompleteRead, CompleteWrite, ResumeSession, HandsInv
  <2>2. CASE CompleteRead(t, s)
    <3>1. PICK x \in handle_read_stream(sess[s]) : Conclude(t, s, x, "idle")
      BY <2>2 DEF CompleteRead
    <3>2. sess[s].rd /\ ~NothingOwed(sess[s])
      BY <2>2 DEF CompleteRead, NothingOwed
    <3>3. SessionOK(x) /\ x.index = sess[s].index
      BY <2>1, <3>2, ReadCompletionKeeps
    <3> QED
      BY <1>1, <2>1, <3>1, <3>2, <3>3
  <2>3. CASE CompleteWrite(t, s)
    <3>1. PICK x \in handle_write_stream(sess[s]) : Conclude(t, s, x, "idle")
      BY <2>3 DEF CompleteWrite
    <3>2. sess[s].wr /\ ~NothingOwed(sess[s])
      BY <2>3 DEF CompleteWrite, NothingOwed
    <3>3. SessionOK(x) /\ x.index = sess[s].index
      BY <2>1, <3>2, WriteCompletionKeeps
    <3> QED
      BY <1>1, <2>1, <3>1, <3>2, <3>3
  <2>4. CASE ResumeSession(t, s)
    <3>1. PICK x \in resume(sess[s]) : Conclude(t, s, x, "idle")
      BY <2>4 DEF ResumeSession
    <3>2. IsPaused(sess[s]) /\ ~NothingOwed(sess[s])
      BY <2>4 DEF ResumeSession, NothingOwed
    <3>3. SessionOK(x) /\ x.index = sess[s].index
      BY <2>1, <3>2, ResumeKeeps
    <3> QED
      BY <1>1, <2>1, <3>1, <3>2, <3>3
  <2> QED
    BY <1>3, <2>2, <2>3, <2>4 DEF SessionEvent
<1> QED
  BY <1>2, <1>3

\* A session in the hands of a thread that destroys it is in the table, so
\* neither way of finding it comes back with nothing.
LEMMA DestructionKeeps ==
  ASSUME TableInv, HandsInv, NEW t \in Threads,
         \/ destroy_session(t) \/ CompareSlot(t) \/ DestroyAt(t)
         \/ DestroyScan(t) \/ ScanSlot(t)
  PROVE  TableInv' /\ HandsInv'
<1> DEFINE To(at) == [pc[t] EXCEPT !.at = at]
<1>1. pc[t].at \in Destroying /\ pc[t] \in Thread
  BY DEF destroy_session, CompareSlot, DestroyAt, DestroyScan, ScanSlot, Destroying, HandsInv
<1>2. pc[t].s \in Sessions /\ pc[t].s \in live
  BY <1>1 DEF HandsInv, ThreadOK, HandledHasNothingOwed, Handles, Destroying
<1>3. pc[t].at \in {"destroy", "destroyScan"} => ~pc[t].old
  BY DEF HandsInv, ThreadOK, Pointing
<1>4. ASSUME NEW at \in Places, ~pc[t].old
      PROVE  To(at) \in Thread /\ To(at).at = at /\ To(at).s = pc[t].s /\ ~To(at).old
  <2>1. To(at) \in Thread /\ To(at).at = at
    BY <1>1 DEF Thread
  <2>2. To(at).s = pc[t].s /\ To(at).old = pc[t].old
    BY <1>1 DEF Thread
  <2> QED
    BY <1>4, <2>1, <2>2
<1>5. CASE destroy_session(t)
  <2>1. /\ pc' = [pc EXCEPT ![t] = To("compare")] /\ ~pc[t].old
        /\ UNCHANGED <<slots, curr, maxConn, live, sess>>
    BY <1>3, <1>5 DEF destroy_session, tableVars
  <2> DEFINE p == To("compare")
  <2>2. p \in Thread /\ p.at = "compare" /\ p.s = pc[t].s /\ ~p.old
    BY <1>4, <2>1 DEF Places, Pointing
  <2>3. pc' = [pc EXCEPT ![t] = p]
    BY <2>1
  <2> HIDE DEF p, To
  <2>4. p.at \in Destroying /\ p.at # "destroyAt" /\ p.at # "scan"
    BY <2>2 DEF Destroying
  <2> QED
    BY <1>1, <2>1, <2>2, <2>3, <2>4, HandsLook
<1>6. CASE CompareSlot(t)
  <2> DEFINE seen == IF slots[sess[pc[t].s].index] = pc[t].s THEN "destroyAt" ELSE "destroyScan"
             p == To(seen)
  <2>1. /\ pc' = [pc EXCEPT ![t] = p] /\ ~pc[t].old
        /\ UNCHANGED <<slots, curr, maxConn, live, sess>>
    BY <1>6 DEF CompareSlot, tableVars
  <2>2. /\ seen \in {"destroyAt", "destroyScan"}
        /\ seen = "destroyAt" => slots[sess[pc[t].s].index] = pc[t].s
    OBVIOUS
  <2> HIDE DEF seen
  <2>3. p \in Thread /\ p.at = seen /\ p.s = pc[t].s /\ ~p.old
    <3>1. seen \in Places
      BY <2>2 DEF Places
    <3> QED
      BY <1>4, <2>1, <3>1
  <2> HIDE DEF p, To
  <2>4. p.at \in Destroying /\ p.at # "scan"
    BY <2>2, <2>3 DEF Destroying
  <2>5. p.at = "destroyAt" => slots[sess[p.s].index] = p.s
    BY <2>2, <2>3
  <2> QED
    BY <1>1, <2>1, <2>3, <2>4, <2>5, HandsLook
<1>7. CASE DestroyAt(t)
  <2> DEFINE i == sess[pc[t].s].index
  <2>1. i \in 0 .. maxConn - 1 /\ slots[i] = pc[t].s /\ ~Free(i)
    BY <1>2, <1>7, SessionsAssumption DEF DestroyAt, HandsInv, SlotSeenIsKept, Free
  <2>2. Release(t, i)
    BY <1>7, <2>1 DEF DestroyAt
  <2> HIDE DEF i
  <2> QED
    BY <1>1, <2>1, <2>2, HandsRelease
<1>8. CASE DestroyScan(t)
  <2>1. \E i \in 0 .. maxConn - 1 : slots[i] = pc[t].s
    BY <1>2 DEF TableInv, ListsTheSessions, Occupied
  <2>2. PICK i \in 0 .. maxConn - 1 : /\ slots[i] = pc[t].s
                                     /\ pc' = [pc EXCEPT ![t].at = "scan", ![t].i = i]
    BY <1>8, <2>1 DEF DestroyScan
  <2>3. UNCHANGED <<slots, curr, maxConn, live, sess>> /\ ~pc[t].old
    BY <1>3, <1>8 DEF DestroyScan, tableVars
  <2> DEFINE a == [pc EXCEPT ![t] = To("scan")]
             p == [a[t] EXCEPT !.i = i]
  <2>4. pc' = [a EXCEPT ![t] = p]
    BY <2>2
  <2>5. a[t] = To("scan")
    BY DEF HandsInv
  <2> HIDE DEF a
  <2>6. a[t] \in Thread /\ a[t].at = "scan" /\ a[t].s = pc[t].s /\ ~a[t].old
    <3>1. "scan" \in Places
      BY DEF Places, Pointing
    <3> HIDE DEF To
    <3> QED
      BY <1>4, <2>3, <2>5, <3>1
  <2>7. i \in Nat
    BY DEF TableInv
  <2>8. pc' = [pc EXCEPT ![t] = p]
    BY <2>4 DEF HandsInv, a
  <2> HIDE DEF To
  <2>9. p \in Thread /\ p.at = "scan" /\ p.s = pc[t].s
    BY <2>6, <2>7 DEF Thread
  <2>10. ~p.old /\ p.i = i
    BY <2>6, <2>7 DEF Thread
  <2> HIDE DEF p
  <2>11. p.at \in Destroying /\ p.at # "destroyAt"
    BY <2>9 DEF Destroying
  <2>12. p.i \in 0 .. maxConn - 1 /\ slots[p.i] = p.s
    BY <2>2, <2>9, <2>10
  <2> QED
    BY <1>1, <2>3, <2>8, <2>9, <2>10, <2>11, <2>12, HandsLook
<1>9. CASE ScanSlot(t)
  <2>1. pc[t].i \in 0 .. maxConn - 1 /\ slots[pc[t].i] = pc[t].s
    BY <1>9 DEF ScanSlot, HandsInv, SlotSeenIsKept
  <2>2. Release(t, pc[t].i)
    BY <1>9, <2>1 DEF ScanSlot
  <2> QED
    BY <1>1, <2>1, <2>2, HandsRelease
<1> QED
  BY <1>5, <1>6, <1>7, <1>8, <1>9

\* The walk over the table ends streams and never takes a session.
LEMMA TimerKeeps ==
  ASSUME TableInv, HandsInv, NEW t \in Threads,
         TimerFires(t) \/ PointAtSlot(t) \/ WalkUnlocked(t) \/ WalkLocked(t) \/ WalkEnds(t)
  PROVE  TableInv' /\ HandsInv'
<1>1. pc[t] \in Thread /\ ThreadOK(pc[t]) /\ maxConn \in Nat \ {0}
  BY DEF HandsInv, TableInv
<1>2. ASSUME NEW i \in Nat, i < maxConn
      PROVE  /\ [Go("walk") EXCEPT !.i = i] \in Thread
             /\ [Go("walk") EXCEPT !.i = i].at = "walk"
             /\ [Go("walk") EXCEPT !.i = i].i = i
             /\ [Go("walk") EXCEPT !.i = i].s = NoSession
             /\ [Go("walk") EXCEPT !.i = i].old = FALSE
  <2> DEFINE g == Go("walk")
  <2>1. g \in Thread /\ g.at = "walk" /\ g.s = NoSession /\ g.old = FALSE
    BY GoFields DEF Places
  <2> HIDE DEF g
  <2>2. [g EXCEPT !.i = i] \in Thread
    BY <2>1 DEF Thread
  <2>3. [g EXCEPT !.i = i].at = "walk" /\ [g EXCEPT !.i = i].s = NoSession
    BY <2>1 DEF Thread
  <2>4. [g EXCEPT !.i = i].i = i /\ [g EXCEPT !.i = i].old = FALSE
    BY <2>1 DEF Thread
  <2> QED
    BY <2>2, <2>3, <2>4 DEF g
<1>3. ASSUME NEW i \in Nat, i < maxConn
      PROVE  ThreadOK([Go("walk") EXCEPT !.i = i])
  BY <1>2, <1>3, SessionsAssumption DEF ThreadOK, Destroying
<1>4. ThreadOK(Go("walked")) /\ Go("walked").at \notin Busy
  BY RestfulOK DEF Restful
<1>5. ThreadOK(Go("walk")) /\ Go("walk").at \notin Busy
  <2>1. /\ Go("walk") \in Thread /\ Go("walk").at = "walk" /\ Go("walk").s = NoSession
        /\ Go("walk").i = 0 /\ Go("walk").old = FALSE
    BY GoFields DEF Places
  <2> QED
    BY <1>1, <2>1, SessionsAssumption DEF ThreadOK, Busy, Destroying
<1>6. ThreadOK(NextSlot(t)) /\ NextSlot(t).at \notin Busy
  <2>1. CASE pc[t].i + 1 < maxConn
    <3>1. pc[t].i + 1 \in Nat
      BY <1>1 DEF Thread
    <3>2. NextSlot(t) = [Go("walk") EXCEPT !.i = pc[t].i + 1]
      BY <2>1 DEF NextSlot
    <3> DEFINE p == [Go("walk") EXCEPT !.i = pc[t].i + 1]
    <3>3. ThreadOK(p) /\ p.at = "walk"
      BY <1>2, <1>3, <2>1, <3>1
    <3> HIDE DEF p
    <3> QED
      BY <3>2, <3>3 DEF Busy, Destroying, p
  <2>2. CASE ~(pc[t].i + 1 < maxConn)
    BY <1>4, <2>2 DEF NextSlot
  <2> QED
    BY <2>1, <2>2
<1>7. CASE TimerFires(t)
  <2>1. /\ pc[t].at \notin Busy /\ sess' = sess /\ UNCHANGED <<slots, curr, maxConn, live>>
        /\ \/ pc' = [pc EXCEPT ![t] = Go("walk")]
           \/ pc' = [pc EXCEPT ![t] = Go("walked")]
    BY <1>7 DEF TimerFires, tableVars, Busy, Destroying
  <2> QED
    BY <1>4, <1>5, <2>1, SessionsStay, ThreadMoves
<1>8. CASE WalkUnlocked(t)
  <2> UNCHANGED <<slots, curr, maxConn, live>>
    BY <1>8 DEF WalkUnlocked
  <2>1. CASE pc[t].at = "look" /\ pc' = [pc EXCEPT ![t] = NextSlot(t)] /\ UNCHANGED sess
    <3>1. pc[t].at \notin Busy
      BY <2>1 DEF Busy, Destroying
    <3> QED
      BY <1>6, <2>1, <3>1, SessionsStay, ThreadMoves
  <2>2. CASE /\ pc[t].at = "look" /\ ~pc[t].old /\ ~Free(pc[t].i)
             /\ pc' = [pc EXCEPT ![t].at = "check", ![t].s = slots[pc[t].i]]
             /\ UNCHANGED sess
    <3>1. pc[t].i \in 0 .. maxConn - 1
      BY <1>1, <2>2 DEF ThreadOK, Thread
    <3>2. slots[pc[t].i] \in Sessions
      BY <2>2, <3>1 DEF TableInv, Free
    <3> DEFINE r == slots[pc[t].i]
               a == [pc EXCEPT ![t] = [pc[t] EXCEPT !.at = "check"]]
               p == [a[t] EXCEPT !.s = r]
    <3>3. pc' = [a EXCEPT ![t] = p]
      BY <2>2
    <3>4. a[t] \in Thread /\ a[t].at = "check" /\ a[t].old = pc[t].old
      BY <1>1 DEF HandsInv, Thread, Places
    <3>5. a \in [Threads -> Thread]
      BY <1>1 DEF HandsInv, Thread, Places
    <3>6. r \in Sessions
      BY <3>2
    <3> HIDE DEF a, r
    <3>7. p \in Thread /\ p.at = "check" /\ p.s = r /\ ~p.old
      BY <2>2, <3>4, <3>6 DEF Thread
    <3> HIDE DEF p
    <3>8. ThreadOK(p) /\ p.at \notin Busy /\ pc[t].at \notin Busy
      BY <2>2, <3>6, <3>7 DEF ThreadOK, Busy, Destroying
    <3>9. pc' = [pc EXCEPT ![t] = p]
      BY <3>3 DEF HandsInv, a
    <3> QED
      BY <2>2, <3>8, <3>9, SessionsStay, ThreadMoves
  <2>3. CASE /\ pc[t].at = "check" /\ check_timeout(pc[t].s)
             /\ pc' = [pc EXCEPT ![t] = NextSlot(t)]
    <3>1. pc[t].at \notin Busy
      BY <2>3 DEF Busy, Destroying
    <3> QED
      BY <1>6, <2>3, <3>1, CheckTimeoutCloses, ThreadMoves
  <2> QED
    BY <1>8, <2>1, <2>2, <2>3 DEF WalkUnlocked
<1>11. CASE PointAtSlot(t)
  <2> DEFINE p == [pc[t] EXCEPT !.at = "look"]
  <2>1. /\ pc[t].at = "walk" /\ pc' = [pc EXCEPT ![t] = p]
        /\ sess' = sess /\ UNCHANGED <<slots, curr, maxConn, live>>
    BY <1>11 DEF PointAtSlot, tableVars
  <2>2. p \in Thread /\ p.at = "look" /\ p.s = pc[t].s
    BY <1>1 DEF Thread, Places, Pointing
  <2>3. p.i = pc[t].i /\ p.old = pc[t].old
    BY <1>1 DEF Thread
  <2> HIDE DEF p
  <2>4. ThreadOK(p) /\ p.at \notin Busy /\ pc[t].at \notin Busy
    BY <1>1, <2>1, <2>2, <2>3 DEF ThreadOK, Busy, Destroying, Pointing
  <2> QED
    BY <2>1, <2>4, SessionsStay, ThreadMoves
<1>9. CASE WalkLocked(t)
  <2>1. pc[t].at \notin Busy /\ UNCHANGED <<slots, curr, maxConn, live>>
    BY <1>9 DEF WalkLocked, Busy, Destroying
  <2>2. StreamsCloseAtMost
    BY <1>9, SessionsStay, CheckTimeoutCloses DEF WalkLocked
  <2> QED
    BY <1>6, <1>9, <2>1, <2>2, ThreadMoves DEF WalkLocked
<1>10. CASE WalkEnds(t)
  <2>1. /\ pc[t].at \notin Busy /\ sess' = sess /\ UNCHANGED <<slots, curr, maxConn, live>>
        /\ pc' = [pc EXCEPT ![t] = Idle]
    BY <1>10 DEF WalkEnds, tableVars, Busy, Destroying
  <2>2. Idle.at \notin Busy
    BY IdleIsRestful DEF Busy, Destroying
  <2> QED
    BY <2>1, <2>2, IdleIsRestful, SessionsStay, ThreadMoves
<1> QED
  BY <1>7, <1>8, <1>9, <1>10, <1>11

LEMMA ThreadStepKeeps ==
  ASSUME TableInv, HandsInv, NEW t \in Threads, ThreadStep(t)
  PROVE  TableInv' /\ HandsInv'
  BY make_handlerKeeps, SessionMethodsKeep, DestructionKeeps, TimerKeeps DEF ThreadStep

\* The owner grows the table and closes the streams of the sessions in it.
LEMMA OwnerKeeps ==
  ASSUME TableInv, HandsInv,
         \/ SetTimeout \/ RaiseLimit \/ CancelAllReturns \/ WakeUp
         \/ \E n \in Stages : Cancel(n) \/ CancelAll(n) \/ AllGone(n) \/ AwaitSafe(n)
  PROVE  TableInv' /\ HandsInv'
<1>1. CASE RaiseLimit
  <2>1. PICK m \in Limits : m > maxConn /\ max_session(m)
    BY <1>1 DEF RaiseLimit
  <2> QED
    BY <2>1, TableGrows, HandsGrow
<1>2. ASSUME NEW n \in Stages, CancelAll(n)
      PROVE  TableInv' /\ HandsInv'
  <2> DEFINE listed == { slots[i] : i \in Occupied }
  <2>1. /\ sess' = [s \in Sessions |-> IF s \in listed THEN CloseStream(sess[s]) ELSE sess[s]]
        /\ UNCHANGED <<slots, curr, maxConn, live, pc>>
    BY <1>2 DEF CancelAll, cancel_all_session
  <2> HIDE DEF listed
  <2>2. \A s \in Sessions : sess[s] \in SessionRecord /\ CloseStream(sess[s]) \in SessionRecord
    BY CloseStreamKeeps DEF HandsInv
  <2>3. StreamsCloseAtMost
    BY <2>1, <2>2 DEF StreamsCloseAtMost
  <2> QED
    BY <2>1, <2>3, NobodyMoves
<1>3. CASE \/ SetTimeout \/ CancelAllReturns \/ WakeUp
           \/ \E n \in Stages : Cancel(n) \/ AllGone(n) \/ AwaitSafe(n)
  <2>1. UNCHANGED <<tableVars, pc>>
    BY <1>3 DEF SetTimeout, CancelAllReturns, WakeUp, Cancel, AllGone, AwaitSafe
  <2> QED
    BY <2>1, NothingMoves
<1> QED
  BY <1>1, <1>2, <1>3

LEMMA ManagerInitOK ==
  ASSUME ManagerInit
  PROVE  IInv
<1> USE DEF ManagerInit
<1>1. TableInv
  <2>1. Occupied = {}
    BY DEF Occupied
  <2>2. ListsTheSessions
    BY <2>1, FS_EmptySet DEF ListsTheSessions
  <2> QED
    BY <2>2, LimitsAssumption DEF TableInv
<1>2. MembersOK
  BY DEF MembersOK, Stages
<1>3. HandsInv
  <2>1. /\ sess \in [Sessions -> SessionRecord] /\ \A s \in Sessions : SessionOK(sess[s])
        /\ \A s \in Sessions : ~sess[s].rd /\ ~sess[s].wr
    BY NewSessionIsOK DEF Unopened
  <2>2. \A t \in Threads : pc[t] = Idle /\ ThreadOK(pc[t]) /\ pc[t].at = "idle" /\ pc[t].s = NoSession
    BY IdleIsRestful, GoFields DEF Places
  <2>3. pc \in [Threads -> Thread]
    BY <2>2 DEF ThreadOK
  <2>4. \A t \in Threads : \A s \in Sessions : ~Handles(t, s)
    BY <2>2, SessionsAssumption DEF Handles
  <2>5. OneHandler /\ HandledHasNothingOwed /\ NothingOwedIsHandled /\ FreedOwesNothing
    BY <2>1, <2>4 DEF OneHandler, HandledHasNothingOwed, NothingOwedIsHandled, FreedOwesNothing
  <2>6. SlotSeenIsKept
    BY <2>2 DEF SlotSeenIsKept
  <2> QED
    BY <2>1, <2>2, <2>3, <2>5, <2>6 DEF HandsInv
<1> QED
  BY <1>1, <1>2, <1>3 DEF IInv

\* What the members not in the table hold.
LEMMA SharedMembers ==
  ASSUME MembersOK,
         \/ \E t \in Threads : \/ ThreadStep(t) \/ TimerFires(t)
                               \/ \E s \in Sessions : SessionEvent(t, s)
         \/ SetTimeout \/ RaiseLimit \/ CancelAllReturns \/ WakeUp
  PROVE  MembersOK'
<1> USE DEF MembersOK, Stages
<1>1. ASSUME NEW t \in Threads,
             \/ make_handler(t) \/ OpenSession(t) \/ destroy_session(t) \/ CompareSlot(t)
             \/ DestroyAt(t) \/ DestroyScan(t) \/ ScanSlot(t)
             \/ PointAtSlot(t) \/ WalkUnlocked(t) \/ WalkLocked(t)
             \/ \E s \in Sessions : SessionEvent(t, s)
      PROVE  MembersOK'
  <2>1. UNCHANGED <<astray, timerVars, opVars, stage>>
    BY <1>1 DEF make_handler, OpenSession, Conclude, destroy_session, CompareSlot, DestroyAt,
       DestroyScan, ScanSlot, Release, tableVars, PointAtSlot, WalkUnlocked, WalkLocked, SessionEvent, CompleteRead, CompleteWrite, ResumeSession
  <2> QED
    BY <2>1 DEF timerVars, opVars
<1>2. ASSUME NEW t \in Threads, WalkEnds(t) \/ TimerFires(t)
      PROVE  MembersOK'
  BY <1>2 DEF WalkEnds, TimerFires, start_timer, Signal, tableVars, timerVars, opVars
<1>3. CASE SetTimeout
  BY <1>3 DEF SetTimeout, start_timer, Signal, tableVars
<1>4. CASE RaiseLimit \/ CancelAllReturns \/ WakeUp
  BY <1>4 DEF RaiseLimit, max_session, CancelAllReturns, WakeUp, tableVars, timerVars, opVars
<1> QED
  BY <1>1, <1>2, <1>3, <1>4 DEF ThreadStep

LEMMA StageMembers ==
  ASSUME MembersOK, NEW n \in Stages, Cancel(n) \/ CancelAll(n) \/ AllGone(n) \/ AwaitSafe(n)
  PROVE  MembersOK'
  BY DEF MembersOK, Stages, Cancel, CancelAll, cancel_all_session, AllGone, AwaitSafe,
     tableVars, timerVars, opVars

-----------------------------------------------------------------------------
(* What the inductive invariant says *)

LEMMA InvTypes == IInv => TypeOK
<1> SUFFICES ASSUME IInv PROVE TypeOK
  OBVIOUS
<1>1. curr \in 0 .. maxConn
  BY OccupiedIsFinite DEF IInv
<1> QED
  BY <1>1 DEF IInv, TableInv, MembersOK, HandsInv, Thread, TypeOK

LEMMA InvTable == IInv => TableIsExact
  BY DEF IInv, TableInv, TableIsExact

LEMMA InvHands == IInv => InOneHand
<1> SUFFICES ASSUME IInv, NEW s \in Sessions
             PROVE  /\ Cardinality(Handling(s)) =
                            IF s \in live /\ ~sess[s].rd /\ ~sess[s].wr /\ ~IsPaused(sess[s])
                            THEN 1 ELSE 0
                    /\ s \notin live => ~sess[s].rd /\ ~sess[s].wr
  BY DEF InOneHand, InHand
<1> USE DEF IInv, HandsInv
<1>1. Handling(s) = { t \in Threads : Handles(t, s) }
  BY DEF Handling, Handles
<1>2. CASE s \in live /\ NothingOwed(sess[s])
  <2>1. PICK t \in Threads : Handles(t, s)
    BY <1>2 DEF NothingOwedIsHandled
  <2>2. Handling(s) = {t}
    BY <1>1, <2>1 DEF OneHandler
  <2>3. Cardinality(Handling(s)) = 1
    BY <2>2, FS_Singleton
  <2> QED
    BY <1>2, <2>3 DEF NothingOwed
<1>3. CASE ~(s \in live /\ NothingOwed(sess[s]))
  <2>1. Handling(s) = {}
    BY <1>1, <1>3 DEF HandledHasNothingOwed
  <2>2. Cardinality(Handling(s)) = 0
    BY <2>1, FS_EmptySet
  <2> QED
    BY <1>3, <2>2 DEF NothingOwed, FreedOwesNothing
<1> QED
  BY <1>2, <1>3

LEMMA Eighths == \A k \in Nat : (8 * k) \div 8 = k /\ (8 * k + 1) \div 8 = k
  OBVIOUS

LEMMA InvCounts == IInv => CountsArePending
<1> SUFFICES ASSUME IInv, NEW s \in live, sess[s].r # -1
             PROVE  LET paused == 8 * (sess[s].r \div 8)
                    IN  /\ sess[s].r = paused + (IF sess[s].rd THEN 1 ELSE 0)
                        /\ sess[s].w = paused + (IF sess[s].wr THEN 1 ELSE 0)
  BY DEF CountsArePending
<1>1. SessionOK(sess[s]) /\ ~Unopened(sess[s])
  BY DEF IInv, TableInv, HandsInv, Unopened
<1> PICK k \in Nat : CountsWith(sess[s], k)
  BY <1>1 DEF SessionOK, Counts
<1>2. sess[s].r \div 8 = k
  BY Eighths DEF CountsWith, One
<1> QED
  BY <1>2 DEF CountsWith, One

-----------------------------------------------------------------------------
(* The steps both sides share, and the acceptor's own *)

SharedStep ==
    \/ SetTimeout \/ RaiseLimit \/ CancelAllReturns \/ WakeUp
    \/ \E n \in Stages : Cancel(n) \/ CancelAll(n) \/ AllGone(n) \/ AwaitSafe(n)
    \/ \E t \in Threads : \/ TimerFires(t) \/ ThreadStep(t)
                          \/ \E s \in Sessions : SessionEvent(t, s)

LEMMA SharedStepKeeps ==
  ASSUME IInv, SharedStep
  PROVE  IInv'
<1> USE DEF IInv
<1>1. TableInv' /\ HandsInv'
  BY OwnerKeeps, TimerKeeps, ThreadStepKeeps, SessionMethodsKeep DEF SharedStep
<1>2. MembersOK'
  BY SharedMembers, StageMembers DEF SharedStep
<1> QED
  BY <1>1, <1>2

\* A thread that answers an accept or a connect, or the owner that starts one.
LEMMA OwnStepKeeps ==
  ASSUME IInv, MembersOK',
         \/ UNCHANGED <<tableVars, pc>>
         \/ \E t \in Threads : \E p : /\ UNCHANGED tableVars
                                      /\ pc[t].at \in Restful
                                      /\ pc' = [pc EXCEPT ![t] = p]
                                      /\ ThreadOK(p) /\ p.at \in Restful
  PROVE  IInv'
<1> USE DEF IInv
<1>1. CASE UNCHANGED <<tableVars, pc>>
  BY <1>1, NothingMoves
<1>2. ASSUME NEW t \in Threads, NEW p,
             /\ UNCHANGED tableVars
             /\ pc[t].at \in Restful
             /\ pc' = [pc EXCEPT ![t] = p]
             /\ ThreadOK(p) /\ p.at \in Restful
      PROVE  IInv'
  <2>1. p.at \notin Busy /\ pc[t].at \notin Busy
    BY <1>2 DEF Restful, Busy, Destroying
  <2>2. sess' = sess /\ UNCHANGED <<slots, curr, maxConn, live>>
    BY <1>2 DEF tableVars
  <2> QED
    BY <1>2, <2>1, <2>2, SessionsStay, ThreadMoves
<1> QED
  BY <1>1, <1>2

\* A thread that uses a pointer into the freed table leaves the table as it is, or
\* deletes its session behind the table's back.
LEMMA StrayStep ==
  ASSUME IInv, NEW t \in Threads, UseFreedTable(t)
  PROVE  StrayInv'
<1>1. TypeOK /\ CountsArePending
  BY InvTypes, InvCounts
<1>2. astray' = TRUE /\ Limits # {}
  BY DEF UseFreedTable, IInv, HandsInv, ThreadOK
<1>3. UNCHANGED <<slots, maxConn, sess, timerVars, opVars, stage>>
  BY DEF UseFreedTable
<1>4. pc' \in [Threads -> Thread]
  <2>1. pc[t] \in Thread /\ pc \in [Threads -> Thread] /\ pc[t].then \in Places
    BY DEF IInv, HandsInv, Thread, Places
  <2>2. ASSUME NEW at \in {"destroyAt", "destroyScan"}
        PROVE  [pc[t] EXCEPT !.at = at] \in Thread
    BY <2>1 DEF Thread, Places
  <2>3. Go(pc[t].then) \in Thread
    BY <2>1, GoFields
  <2>4. \A p \in Thread : [pc EXCEPT ![t] = p] \in [Threads -> Thread]
    BY <2>1
  <2>5. CASE \E at \in {"destroyAt", "destroyScan"} : pc' = [pc EXCEPT ![t].at = at]
    <3>1. PICK at \in {"destroyAt", "destroyScan"} : pc' = [pc EXCEPT ![t].at = at]
      BY <2>5
    <3> DEFINE p == [pc[t] EXCEPT !.at = at]
    <3>2. pc' = [pc EXCEPT ![t] = p] /\ p \in Thread
      BY <2>2, <3>1
    <3> HIDE DEF p
    <3> QED
      BY <2>4, <3>2
  <2>6. CASE pc' = [pc EXCEPT ![t] = Go(pc[t].then)]
    BY <2>3, <2>4, <2>6
  <2> QED
    BY <2>5, <2>6 DEF UseFreedTable
<1>5. live' \subseteq live /\ curr' \in 0 .. maxConn
  <2>1. CASE UNCHANGED <<curr, live>>
    BY <1>1, <2>1 DEF TypeOK
  <2>2. CASE pc[t].at = "scan" /\ live' = live \ {pc[t].s} /\ curr' = curr - 1
    <3>1. pc[t].i \in Occupied
      <4>1. pc[t].i \in 0 .. maxConn - 1 /\ slots[pc[t].i] = pc[t].s /\ pc[t].s \in Sessions
        BY <2>2 DEF IInv, HandsInv, SlotSeenIsKept, ThreadOK, Destroying
      <4> QED
        BY <4>1, SessionsAssumption DEF Occupied
    <3>2. Cardinality(Occupied) # 0 /\ Cardinality(Occupied) \in Nat
      BY <3>1, OccupiedIsFinite, FS_EmptySet DEF IInv
    <3>3. curr \in 0 .. maxConn /\ curr # 0
      BY <1>1, <3>2 DEF TypeOK, IInv, TableInv, ListsTheSessions
    <3>4. maxConn \in Nat
      BY <1>1 DEF TypeOK
    <3> QED
      BY <2>2, <3>3, <3>4
  <2> QED
    BY <2>1, <2>2 DEF UseFreedTable
<1>6. TypeOK'
  BY <1>1, <1>2, <1>3, <1>4, <1>5 DEF TypeOK, Thread, timerVars, opVars
<1>7. CountsArePending'
  BY <1>1, <1>3, <1>5 DEF CountsArePending
<1> QED
  BY <1>2, <1>6, <1>7 DEF StrayInv

LEMMA StrayStays ==
  ASSUME StrayInv, UNCHANGED <<tableVars, timerVars, opVars, pc, stage>>
  PROVE  StrayInv'
<1> USE DEF tableVars, timerVars, opVars
<1>1. TypeOK'
  BY DEF StrayInv, TypeOK
<1>2. CountsArePending'
  BY DEF StrayInv, CountsArePending
<1> QED
  BY <1>1, <1>2 DEF StrayInv

LEMMA AcceptorStep ==
  ASSUME IInv, [Next]_vars
  PROVE  AInv'
<1>1. CASE SharedStep
  BY <1>1, SharedStepKeeps DEF AInv
<1>2. CASE start
  <2>1. UNCHANGED <<tableVars, pc>>
    BY <1>2 DEF start
  <2>2. MembersOK'
    <3>1. /\ nOp' \in Nat /\ cancelling' = cancelling /\ stage' = stage
          /\ hasTimeout' = hasTimeout /\ astray' = astray
      BY <1>2, InitialAcceptsAssumption DEF start, IInv, MembersOK, tableVars
    <3>2. timer' \in {"none", "scheduled", "firing"} /\ signals' \in {0, 1}
      BY <1>2 DEF start, start_timer, Signal, IInv, MembersOK
    <3> QED
      BY <3>1, <3>2 DEF IInv, MembersOK
  <2> QED
    BY <2>1, <2>2, OwnStepKeeps DEF AInv
<1>3. ASSUME NEW t \in Threads, validate_connection(t)
      PROVE  AInv'
  <2>1. MembersOK'
    BY <1>3 DEF validate_connection, IInv, MembersOK, tableVars, timerVars
  <2>2. /\ UNCHANGED tableVars /\ pc[t].at \in Restful
        /\ \/ pc' = [pc EXCEPT ![t] = [Go("validated") EXCEPT !.then = "reissue"]]
           \/ pc' = [pc EXCEPT ![t] = Go("reissue")]
    BY <1>3 DEF validate_connection, Restful
  <2>3. ThreadOK(Go("reissue")) /\ Go("reissue").at \in Restful
    BY RestfulOK DEF Restful
  <2> DEFINE g == Go("validated")
             p == [g EXCEPT !.then = "reissue"]
  <2>4. g \in Thread /\ g.at = "validated" /\ g.s = NoSession /\ g.old = FALSE
    BY GoFields DEF Places
  <2> HIDE DEF g
  <2>5. p \in Thread /\ p.at = "validated" /\ p.s = NoSession /\ p.old = FALSE
    BY <2>4 DEF Thread
  <2>6. ThreadOK(p) /\ p.at \in Restful
    BY <2>5, SessionsAssumption DEF ThreadOK, Restful, Destroying
  <2> QED
    BY <2>1, <2>2, <2>3, <2>6, OwnStepKeeps DEF AInv, g
<1>4. ASSUME NEW t \in Threads, should_reissue_accept(t)
      PROVE  AInv'
  <2>1. MembersOK'
    BY <1>4 DEF should_reissue_accept, Signal, IInv, MembersOK, tableVars, timerVars
  <2>2. UNCHANGED tableVars /\ pc[t].at \in Restful /\ pc' = [pc EXCEPT ![t] = Idle]
    BY <1>4 DEF should_reissue_accept, Restful
  <2>3. ThreadOK(Idle) /\ Idle.at \in Restful
    BY IdleIsRestful DEF Restful
  <2> QED
    BY <2>1, <2>2, <2>3, OwnStepKeeps DEF AInv
<1>5. CASE UNCHANGED vars
  <2>1. UNCHANGED <<tableVars, pc>> /\ MembersOK'
    BY <1>5 DEF vars, tableVars, timerVars, opVars, IInv, MembersOK
  <2> QED
    BY <2>1, OwnStepKeeps DEF AInv
<1>6. Shutdown => SharedStep
  BY DEF Shutdown, SharedStep, Stages
<1>7. ASSUME NEW t \in Threads, UseFreedTable(t)
      PROVE  StrayInv'
  BY <1>7, StrayStep
<1> QED
  BY <1>1, <1>2, <1>3, <1>4, <1>5, <1>6, <1>7 DEF Next, Finished, SharedStep, AInv

LEMMA AcceptorInv == Spec => []AInv
<1>1. ManagerInit => AInv
  BY ManagerInitOK DEF AInv
<1>2. StrayInv /\ [Next]_vars => StrayInv'
  <2> SUFFICES ASSUME StrayInv, [Next]_vars
               PROVE  StrayInv'
    OBVIOUS
  <2>1. UNCHANGED vars
    BY DEF StrayInv, Next, Finished
  <2> QED
    BY <2>1, StrayStays DEF vars
<1>3. AInv /\ [Next]_vars => AInv'
  BY <1>2, AcceptorStep DEF AInv
<1> QED
  BY <1>1, <1>3, PTL DEF Spec

-----------------------------------------------------------------------------
(* The connector: the same steps under other names *)

LEMMA Same_make_handler == \A t : Connector!make_handler(t) => make_handler(t)
  BY DEF Connector!make_handler, make_handler, Connector!LockFree, LockFree, Connector!Free, Free,
     Connector!NewSession, NewSession, Connector!Go, Go, Connector!Idle, Idle, Connector!tableVars,
     tableVars, Connector!timerVars, timerVars, Connector!opVars, opVars

LEMMA Same_OpenSession == \A t : Connector!OpenSession(t) => OpenSession(t)
  BY DEF Connector!OpenSession, OpenSession, Connector!open, open, Connector!UserStep, UserStep,
     Connector!read, read, Connector!write, write, Connector!pause, pause, Connector!ReadStarted,
     ReadStarted, Connector!WriteStarted, WriteStarted, Connector!CloseStream, CloseStream,
     Connector!Conclude, Conclude, Connector!HasPending, HasPending, Connector!Go, Go,
     Connector!Idle, Idle, Connector!tableVars, tableVars, Connector!timerVars, timerVars,
     Connector!opVars, opVars

LEMMA Same_destroy_session == \A t : Connector!destroy_session(t) => destroy_session(t)
  BY DEF Connector!destroy_session, destroy_session, Connector!tableVars, tableVars,
     Connector!timerVars, timerVars, Connector!opVars, opVars

LEMMA Same_Release == \A t, slot : Connector!Release(t, slot) => Release(t, slot)
  BY DEF Connector!Release, Release, Connector!NewSession, NewSession, Connector!Go, Go,
     Connector!Idle, Idle, Connector!tableVars, tableVars, Connector!timerVars, timerVars,
     Connector!opVars, opVars

LEMMA Same_DestroyAt == \A t : Connector!DestroyAt(t) => DestroyAt(t)
  BY Same_Release DEF Connector!DestroyAt, DestroyAt, Connector!LockFree, LockFree, Connector!Free, Free,
     Connector!Go, Go, Connector!Idle, Idle, Connector!tableVars, tableVars,
     Connector!timerVars, timerVars, Connector!opVars, opVars

LEMMA Same_CompareSlot == \A t : Connector!CompareSlot(t) => CompareSlot(t)
  BY DEF Connector!CompareSlot, CompareSlot, Connector!tableVars, tableVars,
     Connector!timerVars, timerVars, Connector!opVars, opVars

LEMMA Same_DestroyScan == \A t : Connector!DestroyScan(t) => DestroyScan(t)
  BY DEF Connector!DestroyScan, DestroyScan, Connector!Go, Go, Connector!Idle, Idle,
     Connector!tableVars, tableVars,
     Connector!timerVars, timerVars, Connector!opVars, opVars

LEMMA Same_ScanSlot == \A t : Connector!ScanSlot(t) => ScanSlot(t)
  BY Same_Release DEF Connector!ScanSlot, ScanSlot, Connector!LockFree, LockFree, Connector!Go, Go,
     Connector!Idle, Idle, Connector!tableVars, tableVars,
     Connector!timerVars, timerVars, Connector!opVars, opVars

LEMMA Same_PointAtSlot == \A t : Connector!PointAtSlot(t) => PointAtSlot(t)
  BY DEF Connector!PointAtSlot, PointAtSlot, Connector!tableVars, tableVars,
     Connector!timerVars, timerVars, Connector!opVars, opVars

LEMMA Same_UseFreedTable == \A t : Connector!UseFreedTable(t) => UseFreedTable(t)
  BY DEF Connector!UseFreedTable, UseFreedTable, Connector!LockFree, LockFree, Connector!Go, Go,
     Connector!Idle, Idle, Connector!timerVars, timerVars, Connector!opVars, opVars

LEMMA Same_WalkUnlocked == \A t : Connector!WalkUnlocked(t) => WalkUnlocked(t)
  BY DEF Connector!WalkUnlocked, WalkUnlocked, Connector!Free, Free, Connector!NextSlot, NextSlot,
     Connector!check_timeout, check_timeout, Connector!CloseStream, CloseStream, Connector!Go, Go,
     Connector!Idle, Idle, Connector!tableVars, tableVars, Connector!timerVars, timerVars,
     Connector!opVars, opVars

LEMMA Same_WalkLocked == \A t : Connector!WalkLocked(t) => WalkLocked(t)
  BY DEF Connector!WalkLocked, WalkLocked, Connector!LockFree, LockFree, Connector!Free, Free,
     Connector!HasPending, HasPending, Connector!NextSlot, NextSlot, Connector!check_timeout,
     check_timeout, Connector!CloseStream, CloseStream, Connector!Go, Go, Connector!Idle, Idle,
     Connector!tableVars, tableVars, Connector!timerVars, timerVars, Connector!opVars, opVars

LEMMA Same_WalkEnds == \A t : Connector!WalkEnds(t) => WalkEnds(t)
  BY DEF Connector!WalkEnds, WalkEnds, Connector!LockFree, LockFree, Connector!start_timer,
     start_timer, Connector!Signal, Signal, Connector!Idle, Idle, Connector!tableVars, tableVars

LEMMA Same_TimerFires == \A t : Connector!TimerFires(t) => TimerFires(t)
  BY DEF Connector!TimerFires, TimerFires, Connector!Go, Go, Connector!Idle, Idle,
     Connector!tableVars, tableVars, Connector!timerVars, timerVars, Connector!opVars, opVars

LEMMA Same_CompleteRead == \A t, s : Connector!CompleteRead(t, s) => CompleteRead(t, s)
  BY ZenonT(60) DEF Connector!CompleteRead, CompleteRead, Connector!handle_read_stream, handle_read_stream,
     Connector!UserStep, UserStep, Connector!read, read, Connector!write, write, Connector!pause,
     pause, Connector!ReadStarted, ReadStarted, Connector!WriteStarted, WriteStarted,
     Connector!CloseStream, CloseStream, Connector!Conclude, Conclude, Connector!HasPending,
     HasPending, Connector!Go, Go, Connector!Idle, Idle, Connector!tableVars, tableVars,
     Connector!timerVars, timerVars, Connector!opVars, opVars

LEMMA Same_CompleteWrite == \A t, s : Connector!CompleteWrite(t, s) => CompleteWrite(t, s)
  BY ZenonT(60) DEF Connector!CompleteWrite, CompleteWrite, Connector!handle_write_stream, handle_write_stream,
     Connector!UserStep, UserStep, Connector!read, read, Connector!write, write, Connector!pause,
     pause, Connector!ReadStarted, ReadStarted, Connector!WriteStarted, WriteStarted,
     Connector!CloseStream, CloseStream, Connector!Conclude, Conclude, Connector!HasPending,
     HasPending, Connector!Go, Go, Connector!Idle, Idle, Connector!tableVars, tableVars,
     Connector!timerVars, timerVars, Connector!opVars, opVars

LEMMA Same_ResumeSession == \A t, s : Connector!ResumeSession(t, s) => ResumeSession(t, s)
  BY ZenonT(60) DEF Connector!ResumeSession, ResumeSession, Connector!IsPaused, IsPaused, Connector!resume,
     resume, Connector!UserStep, UserStep, Connector!read, read, Connector!write, write,
     Connector!pause, pause, Connector!ReadStarted, ReadStarted, Connector!WriteStarted,
     WriteStarted, Connector!CloseStream, CloseStream, Connector!Conclude, Conclude,
     Connector!HasPending, HasPending, Connector!Go, Go, Connector!Idle, Idle, Connector!tableVars,
     tableVars, Connector!timerVars, timerVars, Connector!opVars, opVars

LEMMA Same_SetTimeout == Connector!SetTimeout => SetTimeout
  BY DEF Connector!SetTimeout, SetTimeout, Connector!LockFree, LockFree, Connector!start_timer,
     start_timer, Connector!Signal, Signal, Connector!tableVars, tableVars

LEMMA Same_RaiseLimit == Connector!RaiseLimit => RaiseLimit
  BY DEF Connector!RaiseLimit, RaiseLimit, Connector!max_session, max_session, Connector!LockFree,
     LockFree, Connector!Pointing, Pointing, Connector!timerVars, timerVars, Connector!opVars, opVars

LEMMA Same_CancelAll == \A n : Connector!CancelAll(n) => CancelAll(n)
  BY DEF Connector!CancelAll, CancelAll, Connector!cancel_all_session, cancel_all_session,
     Connector!Occupied, Occupied, Connector!CloseStream, CloseStream, Connector!opVars, opVars

LEMMA Same_CancelAllReturns == Connector!CancelAllReturns => CancelAllReturns
  BY DEF Connector!CancelAllReturns, CancelAllReturns, Connector!tableVars, tableVars,
     Connector!timerVars, timerVars, Connector!opVars, opVars

LEMMA Same_AllGone == \A n : Connector!AllGone(n) => AllGone(n)
  BY DEF Connector!AllGone, AllGone, Connector!tableVars, tableVars, Connector!timerVars, timerVars,
     Connector!opVars, opVars

LEMMA Same_AwaitSafe == \A n : Connector!AwaitSafe(n) => AwaitSafe(n)
  BY DEF Connector!AwaitSafe, AwaitSafe, Connector!tableVars, tableVars, Connector!timerVars,
     timerVars, Connector!opVars, opVars

LEMMA Same_Cancel == \A n : Connector!Cancel(n) => Cancel(n)
  BY DEF Connector!Cancel, Cancel, Connector!tableVars, tableVars, Connector!timerVars, timerVars

LEMMA Same_WakeUp == Connector!WakeUp => WakeUp
  BY DEF Connector!WakeUp, WakeUp, Connector!tableVars, tableVars, Connector!timerVars, timerVars

LEMMA SharedByConnector ==
  ASSUME \/ Connector!SetTimeout \/ Connector!RaiseLimit \/ Connector!Shutdown
         \/ \E t \in Threads : \/ Connector!TimerFires(t) \/ Connector!ThreadStep(t)
                               \/ \E s \in Sessions : Connector!SessionEvent(t, s)
  PROVE  SharedStep
<1>1. CASE Connector!SetTimeout \/ Connector!RaiseLimit
  BY <1>1, Same_SetTimeout, Same_RaiseLimit DEF SharedStep
<1>2. CASE Connector!Shutdown
  BY <1>2, Same_CancelAll, Same_CancelAllReturns, Same_AllGone, Same_AwaitSafe, Same_Cancel, Same_WakeUp
     DEF Connector!Shutdown, SharedStep, Stages
<1>3. ASSUME NEW t \in Threads, Connector!TimerFires(t) \/ Connector!ThreadStep(t)
      PROVE  SharedStep
  BY <1>3, Same_make_handler, Same_OpenSession, Same_destroy_session, Same_CompareSlot, Same_DestroyAt,
     Same_DestroyScan, Same_ScanSlot, Same_PointAtSlot, Same_WalkUnlocked, Same_WalkLocked, Same_WalkEnds, Same_TimerFires
     DEF Connector!ThreadStep, ThreadStep, SharedStep
<1>4. ASSUME NEW t \in Threads, NEW s \in Sessions, Connector!SessionEvent(t, s)
      PROVE  SharedStep
  BY <1>4, Same_CompleteRead, Same_CompleteWrite, Same_ResumeSession
     DEF Connector!SessionEvent, SessionEvent, SharedStep
<1> QED
  BY <1>1, <1>2, <1>3, <1>4

LEMMA ConnectorStep ==
  ASSUME IInv, [Connector!Next]_(Connector!vars)
  PROVE  AInv'
<1>1. CASE Connector!start
  <2>1. UNCHANGED <<tableVars, pc>>
    BY <1>1 DEF Connector!start, Connector!tableVars, tableVars
  <2>2. MembersOK'
    BY <1>1 DEF Connector!start, Connector!start_timer, Connector!Signal, Connector!tableVars,
       IInv, MembersOK
  <2> QED
    BY <2>1, <2>2, OwnStepKeeps DEF AInv
<1>2. CASE Connector!connect
  <2>1. UNCHANGED <<tableVars, pc>>
    BY <1>2 DEF Connector!connect, Connector!tableVars, tableVars
  <2>2. MembersOK'
    <3>1. PICK n \in 1 .. maxConn - curr : nOp' = nOp + n
      BY <1>2 DEF Connector!connect
    <3>2. maxConn - curr \in Int /\ nOp' \in Nat
      BY <3>1, OccupiedIsFinite DEF IInv, TableInv, MembersOK
    <3> QED
      BY <1>2, <3>2 DEF Connector!connect, Connector!tableVars, Connector!timerVars, IInv, MembersOK
  <2> QED
    BY <2>1, <2>2, OwnStepKeeps DEF AInv
<1>3. ASSUME NEW t \in Threads, Connector!validate_connection(t)
      PROVE  AInv'
  <2>1. MembersOK'
    BY <1>3 DEF Connector!validate_connection, Connector!Signal, Connector!tableVars,
       Connector!timerVars, IInv, MembersOK
  <2>2. /\ UNCHANGED tableVars /\ pc[t].at \in Restful
        /\ \/ pc' = [pc EXCEPT ![t] = Go("validated")]
           \/ UNCHANGED pc
    BY <1>3 DEF Connector!validate_connection, Connector!Go, Go, Connector!Idle, Idle,
       Connector!tableVars, tableVars, Restful
  <2>3. ThreadOK(Go("validated")) /\ Go("validated").at \in Restful
    BY RestfulOK DEF Restful
  <2> QED
    BY <2>1, <2>2, <2>3, OwnStepKeeps DEF AInv
<1>4. CASE UNCHANGED Connector!vars
  <2>1. UNCHANGED <<tableVars, pc>> /\ MembersOK'
    BY <1>4 DEF Connector!vars, Connector!tableVars, tableVars, Connector!timerVars, Connector!opVars,
       IInv, MembersOK
  <2> QED
    BY <2>1, OwnStepKeeps DEF AInv
<1>5. ASSUME NEW t \in Threads, Connector!UseFreedTable(t)
      PROVE  StrayInv'
  BY <1>5, Same_UseFreedTable, StrayStep
<1> QED
  BY <1>1, <1>2, <1>3, <1>4, <1>5, SharedByConnector, SharedStepKeeps
     DEF Connector!Next, Connector!Stopped, AInv

LEMMA ConnectorInv == Connector!Spec => []AInv
<1>1. Connector!ManagerInit => AInv
  BY ManagerInitOK DEF AInv, Connector!ManagerInit, ManagerInit, Connector!NewSession, NewSession,
     Connector!Idle, Idle
<1>2. StrayInv /\ [Connector!Next]_(Connector!vars) => StrayInv'
  <2> SUFFICES ASSUME StrayInv, [Connector!Next]_(Connector!vars)
               PROVE  StrayInv'
    OBVIOUS
  <2>1. UNCHANGED Connector!vars
    BY DEF StrayInv, Connector!Next, Connector!Stopped
  <2> QED
    BY <2>1, StrayStays DEF Connector!vars, Connector!tableVars, tableVars, Connector!timerVars,
       timerVars, Connector!opVars, opVars
<1>3. AInv /\ [Connector!Next]_(Connector!vars) => AInv'
  BY <1>2, ConnectorStep DEF AInv
<1> QED
  BY <1>1, <1>3, PTL DEF Connector!Spec

-----------------------------------------------------------------------------
(* The theorems *)

LEMMA AInvSays ==
  AInv => TypeOK /\ TableIsExact /\ InOneHand /\ CountsArePending /\ (astray => Limits # {})
<1>1. IInv => ~astray
  BY DEF IInv, MembersOK
<1>2. StrayInv => TableIsExact /\ InOneHand
  BY DEF StrayInv, TableIsExact, InOneHand
<1> QED
  BY <1>1, <1>2, InvTypes, InvTable, InvHands, InvCounts DEF AInv, StrayInv

\* The members of AIO_Acceptor and AIO_Connector keep their types; curr_conn_
\* never exceeds max_conn_, which make_handler compares it with.
THEOREM Types == (Spec => []TypeOK) /\ (Connector!Spec => []TypeOK)
  BY AcceptorInv, ConnectorInv, AInvSays, PTL

\* The table lists exactly the allocated sessions and curr_conn_ is their
\* number, although destroy_session looks for its slot without the lock and
\* max_session grows the table meanwhile, until a thread uses a pointer into a
\* table that max_session moved.
THEOREM Table == (Spec => []TableIsExact) /\ (Connector!Spec => []TableIsExact)
  BY AcceptorInv, ConnectorInv, AInvSays, PTL

\* A session has something pending or is in the hands of exactly one thread, so
\* destroy_session deletes it exactly once and no completion finds it deleted,
\* until a thread uses a pointer into a table that max_session moved.
THEOREM Hands == (Spec => []InOneHand) /\ (Connector!Spec => []InOneHand)
  BY AcceptorInv, ConnectorInv, AInvSays, PTL

\* n_op_r_ and n_op_w_, which decide when a session is destroyed, count what the
\* proactor owes it, however often it was paused and resumed.
THEOREM PendingCounts == (Spec => []CountsArePending) /\ (Connector!Spec => []CountsArePending)
  BY AcceptorInv, ConnectorInv, AInvSays, PTL

\* A program that raises the limit before it starts and not again, as those of
\* aos_test do, uses no freed table: there the two above hold without their condition.
THEOREM NeverAstray ==
  ASSUME Limits = {}
  PROVE  /\ Spec => [](ListsTheSessions /\ \A s \in Sessions : InHand(s))
         /\ Connector!Spec => [](ListsTheSessions /\ \A s \in Sessions : InHand(s))
<1>1. AInv => ListsTheSessions /\ \A s \in Sessions : InHand(s)
  BY AInvSays DEF TableIsExact, InOneHand
<1> QED
  BY <1>1, AcceptorInv, ConnectorInv, PTL

=============================================================================
