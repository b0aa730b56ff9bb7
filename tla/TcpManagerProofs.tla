-------------------------- MODULE TcpManagerProofs --------------------------
(***************************************************************************)
(* What every manager of connections keeps, the server and the client: the *)
(* lemmas from which TcpServerProofs and TcpClientProofs prove theirs.     *)
(*                                                                         *)
(* The invariant is Conserved: the objects in hand, pooled and parked are  *)
(* apart, and each pooled connection has exactly one thing that moves it   *)
(* on.  Handlers are counted by Pending over the queue and the threads, so *)
(* a handler that is taken, run or posted changes a count by one.          *)
(***************************************************************************)
EXTENDS TcpManager, FiniteSetTheorems, SequenceTheorems, TLAPS

One(b) == IF b THEN 1 ELSE 0

-----------------------------------------------------------------------------
(* How many handlers of a set a sequence, or the threads, have *)

Hits(s, A) == Cardinality({ i \in DOMAIN s : s[i] \in A })
HeldHits(h, A) == Cardinality({ t \in Threads : h[t] \in A })
Pending(s, h, A) == Hits(s, A) + HeldHits(h, A)

\* The positions counted by Hits are finitely many.
LEMMA PositionsAreFinite ==
  ASSUME NEW H, NEW s \in Seq(H), NEW A
  PROVE  IsFiniteSet({ i \in DOMAIN s : s[i] \in A }) /\ Hits(s, A) \in Nat
<1>1. DOMAIN s = 1 .. Len(s) /\ Len(s) \in Nat
  BY LenProperties
<1>2. IsFiniteSet(1 .. Len(s))
  BY <1>1, FS_Interval
<1>3. IsFiniteSet({ i \in DOMAIN s : s[i] \in A })
  BY <1>1, <1>2, FS_Subset
<1> QED
  BY <1>3, FS_CardinalityType DEF Hits

\* The empty sequence has no handler.
LEMMA HitsInNone == \A A : Hits(<<>>, A) = 0
<1> TAKE A
<1>1. { i \in DOMAIN <<>> : <<>>[i] \in A } = {}
  OBVIOUS
<1> QED
  BY <1>1, FS_EmptySet DEF Hits

\* A count of zero says that there is none.
LEMMA NoHits ==
  ASSUME NEW H, NEW s \in Seq(H), NEW A
  PROVE  Hits(s, A) = 0 <=> \A i \in DOMAIN s : s[i] \notin A
<1> DEFINE X == { i \in DOMAIN s : s[i] \in A }
<1>1. IsFiniteSet(X) /\ Hits(s, A) = Cardinality(X)
  BY PositionsAreFinite DEF Hits
<1> HIDE DEF X
<1>2. Hits(s, A) = 0 <=> X = {}
  BY <1>1, FS_EmptySet
<1> QED
  BY <1>2 DEF X

\* The hits of a concatenation: the second half is counted through a bijection.
LEMMA HitsInConcat ==
  ASSUME NEW H, NEW s \in Seq(H), NEW u \in Seq(H), NEW A
  PROVE  Hits(s \o u, A) = Hits(s, A) + Hits(u, A)
<1> DEFINE w == s \o u
           P == { i \in DOMAIN s : s[i] \in A }
           Q == { i \in DOMAIN u : u[i] \in A }
           R == { i \in DOMAIN w : w[i] \in A }
           S == R \ P
           f == [i \in Q |-> i + Len(s)]
<1>1. /\ w \in Seq(H) /\ Len(w) = Len(s) + Len(u) /\ Len(s) \in Nat /\ Len(u) \in Nat
      /\ DOMAIN w = 1 .. Len(w) /\ DOMAIN s = 1 .. Len(s) /\ DOMAIN u = 1 .. Len(u)
  BY ConcatProperties, LenProperties
<1>2. \A i \in 1 .. Len(w) : w[i] = IF i <= Len(s) THEN s[i] ELSE u[i - Len(s)]
  BY <1>1, ConcatProperties
<1>3. IsFiniteSet(P) /\ IsFiniteSet(Q) /\ IsFiniteSet(R)
  BY <1>1, PositionsAreFinite
<1>4. P \subseteq R
  BY <1>1, <1>2
<1>5. \A i \in S : i - Len(s) \in Q /\ i \in Int
  BY <1>1, <1>2
<1>6. \A i \in Q : i + Len(s) \in S /\ i \in Int
  BY <1>1, <1>2
<1>7. f \in Bijection(Q, S)
  <2>1. f \in [Q -> S]
    BY <1>6
  <2>2. \A i, j \in Q : f[i] = f[j] => i = j
    BY <1>1, <1>6
  <2>3. \A k \in S : \E i \in Q : f[i] = k
    <3> TAKE k \in S
    <3>1. k - Len(s) \in Q /\ f[k - Len(s)] = k
      BY <1>1, <1>5
    <3> QED
      BY <3>1
  <2> QED
    BY <2>1, <2>2, <2>3 DEF Bijection, Injection, Surjection, IsInjective
<1>8. Cardinality(S) = Cardinality(Q) /\ IsFiniteSet(S)
  BY <1>3, <1>7, FS_Bijection DEF ExistsBijection
<1>9. R = P \cup S /\ P \cap S = {}
  BY <1>4
<1>10. Cardinality(R) = Cardinality(P) + Cardinality(S) - Cardinality(P \cap S)
  BY <1>3, <1>8, <1>9, FS_Union
<1>11. Cardinality(P \cap S) = 0
  BY <1>9, FS_EmptySet
<1>12. Cardinality(P) \in Nat /\ Cardinality(Q) \in Nat
  BY <1>3, FS_CardinalityType
<1>13. Cardinality(R) = Cardinality(P) + Cardinality(Q)
  <2> HIDE DEF P, Q, R, S
  <2> QED
    BY <1>8, <1>10, <1>11, <1>12
<1> QED
  BY <1>13 DEF Hits

\* A sequence of one handler.
LEMMA HitsInOne ==
  ASSUME NEW h, NEW A
  PROVE  Hits(<<h>>, A) = One(h \in A)
<1>1. { i \in DOMAIN <<h>> : <<h>>[i] \in A } = IF h \in A THEN {1} ELSE {}
  OBVIOUS
<1> QED
  BY <1>1, FS_EmptySet, FS_Singleton DEF Hits, One

\* Posting one handler.
LEMMA HitsInAppend ==
  ASSUME NEW H, NEW s \in Seq(H), NEW h \in H, NEW A
  PROVE  Hits(Append(s, h), A) = Hits(s, A) + One(h \in A)
<1>1. Append(s, h) = s \o <<h>> /\ <<h>> \in Seq(H)
  BY AppendIsConcat
<1>2. Hits(s \o <<h>>, A) = Hits(s, A) + Hits(<<h>>, A)
  BY <1>1, HitsInConcat
<1>3. Hits(<<h>>, A) = One(h \in A)
  BY HitsInOne
<1>4. Hits(Append(s, h), A) = Hits(s \o <<h>>, A)
  BY <1>1
<1> QED
  BY <1>2, <1>3, <1>4

\* Taking the oldest handler.
LEMMA HitsInTail ==
  ASSUME NEW H, NEW s \in Seq(H), s # <<>>, NEW A
  PROVE  /\ Hits(Tail(s), A) = Hits(s, A) - One(Head(s) \in A)
         /\ Tail(s) \in Seq(H) /\ Head(s) \in H
<1>1. Head(s) \in H /\ Tail(s) \in Seq(H) /\ <<Head(s)>> \in Seq(H)
  BY HeadTailProperties
<1>2. s = <<Head(s)>> \o Tail(s)
  <2> DEFINE w == <<Head(s)>> \o Tail(s)
  <2>1. /\ Len(<<Head(s)>>) = 1 /\ Len(Tail(s)) = Len(s) - 1 /\ Len(s) \in Nat /\ Len(Tail(s)) \in Nat
        /\ \A i \in 1 .. Len(Tail(s)) : Tail(s)[i] = s[i+1]
    BY <1>1, HeadTailProperties, LenProperties
  <2>2. /\ w \in Seq(H) /\ Len(w) = Len(s)
        /\ \A i \in 1 .. Len(s) : w[i] = IF i <= 1 THEN <<Head(s)>>[i] ELSE Tail(s)[i - 1]
    BY <1>1, <2>1, ConcatProperties
  <2>3. \A i \in 1 .. Len(s) : w[i] = s[i]
    <3> TAKE i \in 1 .. Len(s)
    <3>1. CASE i = 1
      BY <2>1, <2>2, <3>1
    <3>2. CASE i # 1
      <4>1. i - 1 \in 1 .. Len(Tail(s)) /\ (i - 1) + 1 = i /\ ~(i <= 1)
        BY <2>1, <3>2
      <4>2. w[i] = Tail(s)[i - 1]
        BY <2>2, <4>1
      <4> QED
        BY <2>1, <4>1, <4>2
    <3> QED
      BY <3>1, <3>2
  <2> HIDE DEF w
  <2>4. s = w
    BY <2>2, <2>3, SeqEqual
  <2> QED
    BY <2>4 DEF w
<1>3. Hits(s, A) = One(Head(s) \in A) + Hits(Tail(s), A)
  <2>1. Hits(<<Head(s)>> \o Tail(s), A) = Hits(<<Head(s)>>, A) + Hits(Tail(s), A)
    BY <1>1, HitsInConcat
  <2>2. Hits(<<Head(s)>>, A) = One(Head(s) \in A)
    BY HitsInOne
  <2>3. Hits(s, A) = Hits(<<Head(s)>> \o Tail(s), A)
    BY <1>2
  <2> QED
    BY <2>1, <2>2, <2>3
<1>4. Hits(Tail(s), A) \in Nat
  BY <1>1, PositionsAreFinite
<1> QED
  BY <1>1, <1>3, <1>4 DEF One

\* The threads counted by HeldHits are finitely many.
LEMMA ThreadsAreFinite ==
  ASSUME NEW h, NEW A
  PROVE  IsFiniteSet({ t \in Threads : h[t] \in A }) /\ HeldHits(h, A) \in Nat
<1>1. IsFiniteSet({ t \in Threads : h[t] \in A })
  BY ThreadsAssumption, FS_Subset
<1> QED
  BY <1>1, FS_CardinalityType DEF HeldHits

\* A count of zero says that no thread has one.
LEMMA NoneHeld ==
  ASSUME NEW h, NEW A
  PROVE  HeldHits(h, A) = 0 <=> \A t \in Threads : h[t] \notin A
<1>1. HeldHits(h, A) = 0 <=> { t \in Threads : h[t] \in A } = {}
  BY ThreadsAreFinite, FS_EmptySet DEF HeldHits
<1> QED
  BY <1>1

\* What the threads but one have.
OtherHits(h, t, A) == Cardinality({ u \in Threads \ {t} : h[u] \in A })

\* One thread told apart from the others.
LEMMA HeldSplits ==
  ASSUME NEW h, NEW t \in Threads, NEW A
  PROVE  OtherHits(h, t, A) \in Nat /\ HeldHits(h, A) = OtherHits(h, t, A) + One(h[t] \in A)
<1> DEFINE P == { u \in Threads : h[u] \in A }
           O == { u \in Threads \ {t} : h[u] \in A }
<1>1. IsFiniteSet(O) /\ Cardinality(O) \in Nat
  <2>1. IsFiniteSet(P) /\ O \subseteq P
    BY ThreadsAreFinite
  <2>2. IsFiniteSet(O)
    BY <2>1, FS_Subset
  <2> QED
    BY <2>2, FS_CardinalityType
<1>2. t \notin O
  OBVIOUS
<1>3. P = IF h[t] \in A THEN O \cup {t} ELSE O
  OBVIOUS
<1>4. HeldHits(h, A) = Cardinality(P) /\ OtherHits(h, t, A) = Cardinality(O)
  BY DEF HeldHits, OtherHits
<1> HIDE DEF P, O
<1>5. Cardinality(O \cup {t}) = Cardinality(O) + 1
  BY <1>1, <1>2, FS_AddElement
<1> QED
  BY <1>1, <1>3, <1>4, <1>5 DEF One

\* A step of one thread leaves the count of the others.
LEMMA OthersHold ==
  ASSUME NEW h, NEW g, NEW t \in Threads, \A u \in Threads \ {t} : g[u] = h[u], NEW A
  PROVE  OtherHits(g, t, A) = OtherHits(h, t, A)
<1>1. { u \in Threads \ {t} : g[u] \in A } = { u \in Threads \ {t} : h[u] \in A }
  OBVIOUS
<1> QED
  BY <1>1 DEF OtherHits

\* The counts are natural numbers.
LEMMA PendingIsANumber ==
  ASSUME NEW H, NEW s \in Seq(H), NEW h, NEW A
  PROVE  Pending(s, h, A) \in Nat /\ Hits(s, A) \in Nat /\ HeldHits(h, A) \in Nat
<1>1. Hits(s, A) \in Nat
  BY PositionsAreFinite
<1>2. HeldHits(h, A) \in Nat
  BY ThreadsAreFinite
<1> QED
  BY <1>1, <1>2 DEF Pending

\* Nothing is pending when neither the queue nor a thread has it.
LEMMA NothingPending ==
  ASSUME NEW H, NEW s \in Seq(H), NEW h, NEW A
  PROVE  Pending(s, h, A) = 0 <=>
            (\A i \in DOMAIN s : s[i] \notin A) /\ (\A t \in Threads : h[t] \notin A)
<1>1. Pending(s, h, A) = 0 <=> Hits(s, A) = 0 /\ HeldHits(h, A) = 0
  BY PendingIsANumber DEF Pending
<1> QED
  BY <1>1, NoHits, NoneHeld

\* An enumeration of a set has each of its elements once.
LEMMA HitsInOrder ==
  ASSUME NEW S, IsFiniteSet(S), NEW order \in SetToSeqs(S), NEW H, NEW s, NEW A, NEW c,
         DOMAIN s = DOMAIN order, s \in Seq(H),
         \A i \in DOMAIN order : s[i] \in A <=> order[i] = c
  PROVE  Hits(s, A) = One(c \in S)
<1> DEFINE n == Cardinality(S)
           P == { i \in DOMAIN s : s[i] \in A }
<1>1. n \in Nat
  BY FS_CardinalityType
<1>2. order \in [1 .. n -> S] /\ \A i, j \in 1 .. n : i # j => order[i] # order[j]
  BY DEF SetToSeqs
<1>3. order \in Injection(1 .. n, S)
  BY <1>2 DEF Injection, IsInjective
<1>4. IsFiniteSet(1 .. n) /\ Cardinality(1 .. n) = n
  BY <1>1, FS_Interval
<1>5. order \in Surjection(1 .. n, S)
  BY <1>3, <1>4, FS_Injection
<1>6. \A x \in S : \E i \in 1 .. n : order[i] = x
  BY <1>5 DEF Surjection
<1>7. CASE c \in S
  <2> PICK i \in 1 .. n : order[i] = c
    BY <1>6, <1>7
  <2>1. P = {i}
    BY <1>2
  <2> QED
    BY <1>7, <2>1, FS_Singleton DEF Hits, One
<1>8. CASE c \notin S
  <2>1. P = {}
    BY <1>2, <1>8
  <2> QED
    BY <1>8, <2>1, FS_EmptySet DEF Hits, One
<1> QED
  BY <1>7, <1>8

-----------------------------------------------------------------------------
(* The handlers of a connection *)

\* All of them, those that move it on, and handle_destroy.
HandlersOf(c) == { h \in ConnectionHandlers : h.c = c }
Moving(c) == { h \in ConnectionHandlers : Continues(h, c) }
Destroys(c) == { h \in ConnectionHandlers : h.k = "timer" /\ h.c = c /\ h.w = "DESTROY" }

\* The handler of an operation moves its connection on.
LEMMA OpHandlerIs ==
  ASSUME NEW c \in Conns, NEW w \in Operations, NEW err \in BOOLEAN
  PROVE  /\ OpHandler(c, w, err) \in HandlersOf(c)
         /\ OpHandler(c, w, err) \in Moving(c)
         /\ OpHandler(c, w, err) \notin Destroys(c)
  BY DEF OpHandler, HandlersOf, Moving, Destroys, ConnectionHandlers, Continues, Of

\* The handler of a wait does so if the wait was for handle_destroy.
LEMMA TimerHandlerIs ==
  ASSUME NEW c \in Conns, NEW w \in Waits, NEW err \in BOOLEAN
  PROVE  /\ TimerHandler(c, w, err) \in HandlersOf(c)
         /\ TimerHandler(c, w, err) \in Moving(c) <=> w = "DESTROY"
         /\ TimerHandler(c, w, err) \in Destroys(c) <=> w = "DESTROY"
  BY DEF TimerHandler, HandlersOf, Moving, Destroys, ConnectionHandlers, Continues, Of

\* How the sets of handlers of a connection lie.
LEMMA HandlerSets ==
  ASSUME NEW c
  PROVE  /\ Destroys(c) \subseteq Moving(c) /\ Moving(c) \subseteq HandlersOf(c)
         /\ HandlersOf(c) \subseteq ConnectionHandlers /\ NoHandler \notin HandlersOf(c)
         /\ \A d : d # c => HandlersOf(c) \cap HandlersOf(d) = {}
  BY DEF HandlersOf, Moving, Destroys, ConnectionHandlers, Continues, Of, NoHandler

\* A subset has no more hits.
LEMMA FewerHits ==
  ASSUME NEW H, NEW s \in Seq(H), NEW A, NEW B, A \subseteq B
  PROVE  Hits(s, A) <= Hits(s, B)
<1> DEFINE P == { i \in DOMAIN s : s[i] \in A }
           R == { i \in DOMAIN s : s[i] \in B }
<1>1. P \subseteq R /\ IsFiniteSet(R)
  BY PositionsAreFinite
<1>2. Cardinality(P) <= Cardinality(R)
  BY <1>1, FS_Subset
<1> QED
  BY <1>2 DEF Hits

-----------------------------------------------------------------------------
(* A connection's record and a work item with some of their fields changed *)

\* A socket marked as ssl was used for it.
CleanRecord == { r \in ConnectionRecord : r.ssl => r.sslUsed }

Items(c) == [c : {c}, r : CleanRecord, out : Seq(HandlersOf(c))]

WithSock(r, v) == [r EXCEPT !.sock = v]
WithOp(r, v) == [r EXCEPT !.op = v]
WithTimer(r, v) == [r EXCEPT !.timer = v]

SameBut(r, y, f) ==
    /\ f # "sock" => y.sock = r.sock
    /\ f # "op" => y.op = r.op
    /\ f # "timer" => y.timer = r.timer
    /\ y.ssl = r.ssl /\ y.sslUsed = r.sslUsed

\* The fields of a record.
LEMMA RecordFields ==
  \A r \in CleanRecord :
    /\ r \in ConnectionRecord /\ r.sock \in {"open", "closed"}
    /\ r.ssl \in BOOLEAN /\ r.sslUsed \in BOOLEAN /\ (r.ssl => r.sslUsed)
    /\ r.op \in Operations \cup {"none"} /\ r.timer \in Waits \cup {"none"}
  BY DEF CleanRecord, ConnectionRecord

\* Setting one field keeps the others and the type.
LEMMA SettingSock == \A r \in CleanRecord : \A v \in {"open", "closed"} :
    /\ WithSock(r, v) \in CleanRecord /\ WithSock(r, v).sock = v
    /\ SameBut(r, WithSock(r, v), "sock")
<1> TAKE r \in CleanRecord
<1> TAKE v \in {"open", "closed"}
<1> USE DEF WithSock, CleanRecord, ConnectionRecord
<1>1. WithSock(r, v) \in ConnectionRecord
  OBVIOUS
<1>2. WithSock(r, v).sock = v
  OBVIOUS
<1>3. WithSock(r, v).op = r.op /\ WithSock(r, v).timer = r.timer
  OBVIOUS
<1>4. WithSock(r, v).ssl = r.ssl /\ WithSock(r, v).sslUsed = r.sslUsed
  OBVIOUS
<1> QED
  BY <1>1, <1>2, <1>3, <1>4 DEF SameBut

\* The same for the pending operation.
LEMMA SettingOp == \A r \in CleanRecord : \A v \in Operations \cup {"none"} :
    /\ WithOp(r, v) \in CleanRecord /\ WithOp(r, v).op = v
    /\ SameBut(r, WithOp(r, v), "op")
<1> TAKE r \in CleanRecord
<1> TAKE v \in Operations \cup {"none"}
<1> USE DEF WithOp, CleanRecord, ConnectionRecord
<1>1. WithOp(r, v) \in ConnectionRecord
  OBVIOUS
<1>2. WithOp(r, v).op = v
  OBVIOUS
<1>3. WithOp(r, v).sock = r.sock /\ WithOp(r, v).timer = r.timer
  OBVIOUS
<1>4. WithOp(r, v).ssl = r.ssl /\ WithOp(r, v).sslUsed = r.sslUsed
  OBVIOUS
<1> QED
  BY <1>1, <1>2, <1>3, <1>4 DEF SameBut

\* The same for the pending wait.
LEMMA SettingTimer == \A r \in CleanRecord : \A v \in Waits \cup {"none"} :
    /\ WithTimer(r, v) \in CleanRecord /\ WithTimer(r, v).timer = v
    /\ SameBut(r, WithTimer(r, v), "timer")
<1> TAKE r \in CleanRecord
<1> TAKE v \in Waits \cup {"none"}
<1> USE DEF WithTimer, CleanRecord, ConnectionRecord
<1>1. WithTimer(r, v) \in ConnectionRecord
  OBVIOUS
<1>2. WithTimer(r, v).timer = v
  OBVIOUS
<1>3. WithTimer(r, v).sock = r.sock /\ WithTimer(r, v).op = r.op
  OBVIOUS
<1>4. WithTimer(r, v).ssl = r.ssl /\ WithTimer(r, v).sslUsed = r.sslUsed
  OBVIOUS
<1> QED
  BY <1>1, <1>2, <1>3, <1>4 DEF SameBut

\* The fields of a work item.
LEMMA ItemFields ==
  ASSUME NEW c, NEW s \in Items(c)
  PROVE  s.c = c /\ s.r \in CleanRecord /\ s.out \in Seq(HandlersOf(c))
  BY DEF Items

\* The item with another record and a handler posted.
Post(s, r, h) == [[s EXCEPT !.r = r] EXCEPT !.out = Append(s.out, h)]

\* A work item that posts one handler more.
LEMMA Posting ==
  ASSUME NEW c, NEW s \in Items(c), NEW r \in CleanRecord, NEW h \in HandlersOf(c), NEW y,
         y = Post(s, r, h)
  PROVE  /\ y \in Items(c) /\ y.r = r
         /\ \A A : Hits(y.out, A) = Hits(s.out, A) + One(h \in A)
<1>1. Append(s.out, h) \in Seq(HandlersOf(c))
  BY ItemFields, AppendProperties
<1>2. y \in Items(c) /\ y.r = r /\ y.out = Append(s.out, h)
  BY <1>1 DEF Items, Post
<1>3. \A A : Hits(Append(s.out, h), A) = Hits(s.out, A) + One(h \in A)
  BY ItemFields, HitsInAppend
<1> QED
  BY <1>2, <1>3

-----------------------------------------------------------------------------
(* What asio does for a connection *)

\* A connection that nothing moves on: a handler of it runs, or its first
\* method is called.
Fresh(s, c) ==
    /\ s \in Items(c)
    /\ s.r.op = "none" /\ s.r.timer # "DESTROY"
    /\ Hits(s.out, Moving(c)) = 0

\* One thing moves it on, and if that is the wait for handle_destroy, or was,
\* the socket is closed.
Moved(s, c) ==
    /\ s \in Items(c)
    /\ One(s.r.op # "none") + One(s.r.timer = "DESTROY") + Hits(s.out, Moving(c)) = 1
    /\ Hits(s.out, Destroys(c)) = 0
    /\ s.r.timer = "DESTROY" => s.r.sock = "closed"

\* A work item at the start of a method or handler.
LEMMA NewItem ==
  ASSUME NEW c, NEW r \in CleanRecord
  PROVE  /\ Item(c, r) \in Items(c) /\ Item(c, r).c = c /\ Item(c, r).r = r /\ Item(c, r).out = <<>>
         /\ (r.op = "none" /\ r.timer # "DESTROY") => Fresh(Item(c, r), c)
<1>1. /\ Item(c, r) \in Items(c) /\ Item(c, r).c = c /\ Item(c, r).r = r
      /\ Item(c, r).out = <<>>
  BY EmptySeq DEF Item, Items
<1> QED
  BY <1>1, HitsInNone DEF Fresh

\* timer_.cancel: the aborted wait was not the one for handle_destroy.
LEMMA CancelKeeps ==
  ASSUME NEW c \in Conns, NEW s, Fresh(s, c), NEW y, y = CancelTimer(s)
  PROVE  Fresh(y, c) /\ y.r.timer = "none" /\ SameBut(s.r, y.r, "timer")
<1>1. s \in Items(c) /\ s.r \in CleanRecord /\ s.c = c
  BY ItemFields DEF Fresh
<1>2. CASE s.r.timer = "none"
  BY <1>2 DEF Fresh, CancelTimer, SameBut
<1>3. CASE s.r.timer # "none"
  <2> DEFINE r == WithTimer(s.r, "none")
             h == TimerHandler(c, s.r.timer, TRUE)
  <2>1. r \in CleanRecord /\ r.timer = "none" /\ SameBut(s.r, r, "timer")
    BY <1>1, SettingTimer
  <2>2. s.r.timer \in Waits /\ s.r.timer # "DESTROY"
    BY <1>1, <1>3, RecordFields DEF Fresh
  <2>3. h \in HandlersOf(c) /\ h \notin Moving(c)
    BY <2>2, TimerHandlerIs
  <2>4. y = Post(s, r, h)
    BY <1>1, <1>3 DEF CancelTimer, WithTimer, Items, Post
  <2> HIDE DEF r, h
  <2>5. /\ y \in Items(c) /\ y.r = r
        /\ \A A : Hits(y.out, A) = Hits(s.out, A) + One(h \in A)
    BY <1>1, <2>1, <2>3, <2>4, Posting
  <2> QED
    BY <2>1, <2>3, <2>5 DEF Fresh, One, SameBut
<1> QED
  BY <1>2, <1>3

\* The timer is armed: the wait replaces the one before it.
LEMMA ArmKeeps ==
  ASSUME NEW c \in Conns, NEW s, Fresh(s, c), NEW w \in Waits, NEW y, y = ArmTimer(s, w)
  PROVE  /\ y \in Items(c) /\ y.r.timer = w /\ SameBut(s.r, y.r, "timer")
         /\ Hits(y.out, Moving(c)) = 0
<1> DEFINE z == CancelTimer(s)
<1>1. Fresh(z, c) /\ SameBut(s.r, z.r, "timer")
  BY CancelKeeps
<1>2. y = [z EXCEPT !.r = WithTimer(z.r, w)]
  BY DEF ArmTimer, WithTimer
<1> HIDE DEF z
<1>3. z \in Items(c) /\ z.r \in CleanRecord
  BY <1>1, ItemFields DEF Fresh
<1>4. /\ WithTimer(z.r, w) \in CleanRecord /\ WithTimer(z.r, w).timer = w
      /\ SameBut(z.r, WithTimer(z.r, w), "timer")
  BY <1>3, SettingTimer
<1>5. y \in Items(c) /\ y.r = WithTimer(z.r, w) /\ y.out = z.out
  BY <1>2, <1>3, <1>4 DEF Items
<1> QED
  BY <1>1, <1>4, <1>5 DEF Fresh, SameBut

\* The wait for a socket timeout moves nothing on.
LEMMA ArmTimeoutKeeps ==
  ASSUME NEW c \in Conns, NEW s, Fresh(s, c), NEW w \in Waits \ {"DESTROY"},
         NEW y, y = ArmTimeout(s, w) \/ y = ArmTimer(s, w)
  PROVE  Fresh(y, c) /\ SameBut(s.r, y.r, "timer")
<1>1. CASE y = s
  BY <1>1 DEF SameBut
<1>2. CASE y = ArmTimer(s, w)
  <2>1. /\ y \in Items(c) /\ y.r.timer = w /\ SameBut(s.r, y.r, "timer")
        /\ Hits(y.out, Moving(c)) = 0
    BY <1>2, ArmKeeps
  <2> QED
    BY <2>1 DEF Fresh, SameBut
<1> QED
  BY <1>1, <1>2 DEF ArmTimeout

\* An operation starts, or fails at once.
LEMMA StartMoves ==
  ASSUME NEW c \in Conns, NEW s, Fresh(s, c), NEW w \in Operations, NEW y, y = StartOp(s, w)
  PROVE  Moved(y, c)
<1>1. s \in Items(c) /\ s.r \in CleanRecord /\ s.c = c
  BY ItemFields DEF Fresh
<1>2. CASE s.r.sock = "open"
  <2>1. y = [s EXCEPT !.r = WithOp(s.r, w)]
    BY <1>2 DEF StartOp, WithOp
  <2>2. /\ WithOp(s.r, w) \in CleanRecord /\ WithOp(s.r, w).op = w
        /\ SameBut(s.r, WithOp(s.r, w), "op")
    BY <1>1, SettingOp
  <2>3. y \in Items(c) /\ y.r = WithOp(s.r, w) /\ y.out = s.out
    BY <1>1, <2>1, <2>2 DEF Items
  <2>4. Hits(y.out, Destroys(c)) <= Hits(y.out, Moving(c)) /\ Hits(y.out, Destroys(c)) \in Nat
    BY <2>3, ItemFields, FewerHits, HandlerSets, PositionsAreFinite
  <2>5. w # "none"
    BY DEF Operations, Connects
  <2> QED
    BY <2>2, <2>3, <2>4, <2>5 DEF Fresh, Moved, One, SameBut
<1>3. CASE s.r.sock # "open"
  <2> DEFINE h == OpHandler(c, w, TRUE)
  <2>1. h \in HandlersOf(c) /\ h \in Moving(c) /\ h \notin Destroys(c)
    BY OpHandlerIs
  <2>2. y = Post(s, s.r, h)
    BY <1>1, <1>3 DEF StartOp, Items, Post
  <2> HIDE DEF h
  <2>3. /\ y \in Items(c) /\ y.r = s.r
        /\ \A A : Hits(y.out, A) = Hits(s.out, A) + One(h \in A)
    BY <1>1, <2>1, <2>2, Posting
  <2>4. Hits(s.out, Destroys(c)) <= Hits(s.out, Moving(c)) /\ Hits(s.out, Destroys(c)) \in Nat
    BY <1>1, ItemFields, FewerHits, HandlerSets, PositionsAreFinite
  <2> QED
    BY <2>1, <2>3, <2>4 DEF Fresh, Moved, One
<1> QED
  BY <1>2, <1>3

\* Closing a socket turns its operation into the handler of a failed one.
LEMMA CloseKeeps ==
  ASSUME NEW c \in Conns, NEW s \in Items(c), NEW y, y = CloseSocket(s)
  PROVE  /\ y \in Items(c)
         /\ y.r.sock = "closed" /\ y.r.op = "none" /\ y.r.timer = s.r.timer
         /\ y.r.ssl = s.r.ssl /\ y.r.sslUsed = s.r.sslUsed
         /\ Hits(y.out, Moving(c)) = Hits(s.out, Moving(c)) + One(s.r.op # "none")
         /\ Hits(y.out, Destroys(c)) = Hits(s.out, Destroys(c))
         /\ s.r.op = "none" => y.out = s.out /\ y.r = WithSock(s.r, "closed")
<1> DEFINE r == WithSock(s.r, "closed")
<1>1. s.r \in CleanRecord /\ s.c = c /\ s.out \in Seq(HandlersOf(c))
  BY ItemFields
<1>2. r \in CleanRecord /\ r.sock = "closed" /\ SameBut(s.r, r, "sock")
  BY <1>1, SettingSock
<1>3. Hits(s.out, Moving(c)) \in Nat /\ Hits(s.out, Destroys(c)) \in Nat
  BY <1>1, PositionsAreFinite
<1>4. CASE s.r.op = "none"
  <2>1. y = [s EXCEPT !.r = r]
    BY <1>4 DEF CloseSocket, WithSock
  <2> HIDE DEF r
  <2>2. y \in Items(c) /\ y.r = r /\ y.out = s.out
    BY <1>1, <1>2, <2>1 DEF Items
  <2> QED
    BY <1>2, <1>3, <1>4, <2>2 DEF One, SameBut, r
<1>5. CASE s.r.op # "none"
  <2> DEFINE p == WithOp(r, "none")
             h == OpHandler(c, s.r.op, TRUE)
  <2>1. y = Post(s, p, h)
    BY <1>1, <1>5 DEF CloseSocket, WithSock, WithOp, Post, Items
  <2>2. s.r.op \in Operations
    BY <1>1, <1>5, RecordFields
  <2>3. h \in HandlersOf(c) /\ h \in Moving(c) /\ h \notin Destroys(c)
    BY <2>2, OpHandlerIs
  <2> HIDE DEF r, h
  <2>4. p \in CleanRecord /\ p.op = "none" /\ SameBut(r, p, "op")
    BY <1>2, SettingOp
  <2> HIDE DEF p
  <2>5. /\ y \in Items(c) /\ y.r = p
        /\ \A A : Hits(y.out, A) = Hits(s.out, A) + One(h \in A)
    BY <2>1, <2>3, <2>4, Posting
  <2>6. /\ Hits(y.out, Moving(c)) = Hits(s.out, Moving(c)) + 1
        /\ Hits(y.out, Destroys(c)) = Hits(s.out, Destroys(c))
    BY <1>3, <2>3, <2>5 DEF One
  <2> QED
    BY <1>2, <1>5, <2>4, <2>5, <2>6 DEF One, SameBut
<1> QED
  BY <1>4, <1>5

\* close() with nothing pending only closes the socket.
LEMMA CloseFresh ==
  ASSUME NEW c \in Conns, NEW s, Fresh(s, c), NEW y, y = CloseSocket(s)
  PROVE  Fresh(y, c) /\ y.r.sock = "closed" /\ y.r.timer = s.r.timer
<1>1. s \in Items(c) /\ Hits(s.out, Moving(c)) = 0 /\ s.r.op = "none" /\ s.r.timer # "DESTROY"
  BY DEF Fresh
<1>2. /\ y \in Items(c)
      /\ y.r.sock = "closed" /\ y.r.op = "none" /\ y.r.timer = s.r.timer
      /\ Hits(y.out, Moving(c)) = Hits(s.out, Moving(c)) + One(s.r.op # "none")
  BY <1>1, CloseKeeps
<1> QED
  BY <1>1, <1>2 DEF Fresh, One

\* The wait that ends in handle_destroy moves a closed connection on.
LEMMA CloseAndDestroyMoves ==
  ASSUME NEW c \in Conns, NEW s, Fresh(s, c), NEW y, y = CloseAndDestroy(s)
  PROVE  Moved(y, c)
<1> DEFINE z == CloseSocket(s)
<1>1. Fresh(z, c) /\ z.r.sock = "closed"
  BY CloseFresh
<1>2. y = ArmTimer(z, "DESTROY") /\ "DESTROY" \in Waits
  BY DEF CloseAndDestroy, Waits
<1> HIDE DEF z
<1>3. /\ y \in Items(c) /\ y.r.timer = "DESTROY" /\ SameBut(z.r, y.r, "timer")
      /\ Hits(y.out, Moving(c)) = 0
  BY <1>1, <1>2, ArmKeeps
<1>4. y.r.op = "none" /\ y.r.sock = "closed"
  BY <1>1, <1>3 DEF SameBut, Fresh
<1>5. Hits(y.out, Destroys(c)) = 0
  <2>1. y.out \in Seq(HandlersOf(c))
    BY <1>3, ItemFields
  <2>2. Hits(y.out, Destroys(c)) <= Hits(y.out, Moving(c))
    BY <2>1, HandlerSets, FewerHits
  <2>3. Hits(y.out, Destroys(c)) \in Nat
    BY <2>1, PositionsAreFinite
  <2> QED
    BY <1>3, <2>2, <2>3
<1> QED
  BY <1>3, <1>4, <1>5 DEF Moved, One

-----------------------------------------------------------------------------
(* The connection's methods and handlers *)

\* The names that the methods give their operations and waits are the known ones.
LEMMA Names ==
  /\ {"READ", "WRITE", "SSL_HANDSHAKE", "SSL_SHUTDOWN", "SSL_CLOSE", "CONNECT", "CONNECT_SSL"}
        \subseteq Operations
  /\ {"READ", "WRITE", "SSL_HANDSHAKE", "SSL_SHUTDOWN", "CONNECT"} \subseteq Waits \ {"DESTROY"}
  /\ "DESTROY" \in Waits /\ "none" \notin Operations
  BY DEF Operations, Connects, Waits

\* Reads and writes leave one continuation.
LEMMA ReadMoves ==
  ASSUME NEW c \in Conns, NEW s, Fresh(s, c)
  PROVE  Moved(read(s), c) /\ Moved(write(s), c) /\ Moved(ssl_shutdown(s), c)
<1>1. ASSUME NEW w \in {"READ", "WRITE", "SSL_SHUTDOWN"}
      PROVE  Moved(StartOp(ArmTimeout(s, w), w), c)
  <2> DEFINE z == ArmTimeout(s, w)
  <2>1. w \in Operations /\ w \in Waits \ {"DESTROY"}
    BY Names
  <2>2. Fresh(z, c)
    BY <2>1, ArmTimeoutKeeps
  <2> HIDE DEF z
  <2>3. Moved(StartOp(z, w), c)
    BY <2>1, <2>2, StartMoves
  <2> QED
    BY <2>3 DEF z
<1> QED
  BY <1>1 DEF read, write, ssl_shutdown

\* So does a handshake.
LEMMA HandshakeMoves ==
  ASSUME NEW c \in Conns, NEW s, Fresh(s, c)
  PROVE  Moved(ssl_handshake(s), c)
<1> DEFINE m == [s EXCEPT !.r.ssl = TRUE, !.r.sslUsed = TRUE]
           z == ArmTimeout(m, "SSL_HANDSHAKE")
<1>1. s \in Items(c) /\ s.r \in CleanRecord /\ s.c = c
  BY ItemFields DEF Fresh
<1>2. m = [s EXCEPT !.r = [[s.r EXCEPT !.ssl = TRUE] EXCEPT !.sslUsed = TRUE]]
  OBVIOUS
<1>3. /\ [[s.r EXCEPT !.ssl = TRUE] EXCEPT !.sslUsed = TRUE] \in CleanRecord
      /\ [[s.r EXCEPT !.ssl = TRUE] EXCEPT !.sslUsed = TRUE].op = s.r.op
      /\ [[s.r EXCEPT !.ssl = TRUE] EXCEPT !.sslUsed = TRUE].timer = s.r.timer
  BY <1>1 DEF CleanRecord, ConnectionRecord
<1>4. /\ m \in Items(c) /\ m.out = s.out
      /\ m.r = [[s.r EXCEPT !.ssl = TRUE] EXCEPT !.sslUsed = TRUE]
  BY <1>1, <1>2, <1>3 DEF Items
<1>5. Fresh(m, c)
  BY <1>3, <1>4 DEF Fresh
<1> HIDE DEF m
<1>6. Fresh(z, c)
  BY <1>5, Names, ArmTimeoutKeeps
<1> HIDE DEF z
<1>7. Moved(StartOp(z, "SSL_HANDSHAKE"), c)
  BY <1>6, Names, StartMoves
<1> QED
  BY <1>7 DEF m, z, ssl_handshake

\* So does close(), which aborts nothing when nothing is pending.
LEMMA CloseMoves ==
  ASSUME NEW c \in Conns, NEW s, Fresh(s, c)
  PROVE  Moved(close(s), c)
<1>1. CASE s.r.ssl
  <2> DEFINE z == ArmTimer(s, "SSL_SHUTDOWN")
  <2>1. Fresh(z, c)
    BY Names, ArmTimeoutKeeps
  <2> HIDE DEF z
  <2>2. Moved(StartOp(z, "SSL_CLOSE"), c)
    BY <2>1, Names, StartMoves
  <2> QED
    BY <1>1, <2>2 DEF z, close
<1>2. CASE ~s.r.ssl
  BY <1>2, CloseAndDestroyMoves DEF close
<1> QED
  BY <1>1, <1>2

\* So does every call the user may make.
LEMMA UserStepMoves ==
  ASSUME NEW c \in Conns, NEW s, Fresh(s, c), NEW y \in UserStep(s)
  PROVE  Moved(y, c)
<1>1. \/ y = read(s) \/ y = write(s) \/ y = close(s)
      \/ y = ssl_handshake(s) \/ y = ssl_shutdown(s)
  BY UserCallsAssumption DEF UserStep
<1> QED
  BY <1>1, ReadMoves, CloseMoves, HandshakeMoves

\* So does open() of an accepted connection.
LEMMA OpenMoves ==
  ASSUME NEW c \in Conns, NEW s, Fresh(s, c), NEW sslConnect, NEW y \in open(s, sslConnect)
  PROVE  Moved(y, c)
  BY HandshakeMoves, UserStepMoves DEF open

\* So does connect() of a client connection.
LEMMA ConnectMoves ==
  ASSUME NEW c \in Conns, NEW s, Fresh(s, c), NEW sslConnect
  PROVE  Moved(connect(s, sslConnect), c)
<1> DEFINE a == ArmTimeout(s, "CONNECT")
           z == [a EXCEPT !.r.sock = "open"]
           w == IF sslConnect THEN "CONNECT_SSL" ELSE "CONNECT"
<1>1. Fresh(a, c)
  BY Names, ArmTimeoutKeeps
<1>2. z = [a EXCEPT !.r = WithSock(a.r, "open")]
  BY DEF WithSock
<1>3. w \in Operations
  BY Names
<1>4. connect(s, sslConnect) = StartOp(z, w)
  BY DEF connect
<1> HIDE DEF a, w
<1>5. a \in Items(c) /\ a.r \in CleanRecord
  BY <1>1, ItemFields DEF Fresh
<1>6. WithSock(a.r, "open") \in CleanRecord /\ SameBut(a.r, WithSock(a.r, "open"), "sock")
  BY <1>5, SettingSock
<1>7. z \in Items(c) /\ z.r = WithSock(a.r, "open") /\ z.out = a.out
  BY <1>2, <1>5, <1>6 DEF Items
<1>8. Fresh(z, c)
  BY <1>1, <1>6, <1>7 DEF Fresh, SameBut
<1> HIDE DEF z
<1> QED
  BY <1>3, <1>4, <1>8, StartMoves

\* So does the handler of an operation, whatever its result.
LEMMA HandleOpMoves ==
  ASSUME NEW c \in Conns, NEW s, Fresh(s, c), NEW w, NEW err, NEW y \in HandleOp(s, w, err)
  PROVE  Moved(y, c)
<1> DEFINE z == CancelTimer(s)
<1>1. Fresh(z, c)
  BY CancelKeeps
<1>2. CASE y = close(z)
  <2> HIDE DEF z
  <2> QED
    BY <1>1, <1>2, CloseMoves
<1>3. CASE y \in UserStep(z)
  <2> HIDE DEF z
  <2> QED
    BY <1>1, <1>3, UserStepMoves
<1>4. ASSUME NEW b, y \in open(z, b)
      PROVE  Moved(y, c)
  <2> HIDE DEF z
  <2> QED
    BY <1>1, <1>4, OpenMoves
<1>5. CASE y \in HandleShutdown(s, w, err)
  <2> DEFINE u == IF err THEN s ELSE [s EXCEPT !.r.ssl = FALSE]
  <2>1. Fresh(u, c)
    <3>1. s \in Items(c) /\ s.r \in CleanRecord /\ s.out \in Seq(HandlersOf(c))
      BY ItemFields DEF Fresh
    <3>2. /\ [s.r EXCEPT !.ssl = FALSE] \in CleanRecord
          /\ [s.r EXCEPT !.ssl = FALSE].op = s.r.op
          /\ [s.r EXCEPT !.ssl = FALSE].timer = s.r.timer
      BY <3>1 DEF CleanRecord, ConnectionRecord
    <3>3. CASE ~err
      <4>1. u = [s EXCEPT !.r = [s.r EXCEPT !.ssl = FALSE]]
        BY <3>3
      <4>2. u \in Items(c) /\ u.r = [s.r EXCEPT !.ssl = FALSE] /\ u.out = s.out
        BY <3>1, <3>2, <4>1 DEF Items
      <4> QED
        BY <3>2, <4>2 DEF Fresh
    <3>4. CASE err
      BY <3>4
    <3> QED
      BY <3>3, <3>4
  <2>2. y = CloseAndDestroy(u) \/ y \in UserStep(u)
    BY <1>5 DEF HandleShutdown
  <2> HIDE DEF u
  <2> QED
    BY <2>1, <2>2, CloseAndDestroyMoves, UserStepMoves
<1>6. \/ y \in HandleShutdown(s, w, err) \/ y = close(z) \/ y \in UserStep(z)
      \/ y \in open(z, w = "CONNECT_SSL")
  BY DEF HandleOp, HandleConnect, HandleCompletion
<1> QED
  BY <1>2, <1>3, <1>4, <1>5, <1>6

\* The destructor of a connection that nothing moves on and no wait is for.
LEMMA DeleteQuiet ==
  ASSUME NEW c \in Conns, NEW r \in CleanRecord, r.op = "none", r.timer = "none"
  PROVE  /\ Delete(Item(c, r)).out = <<>> /\ Delete(Item(c, r)).r = WithSock(r, "closed")
         /\ WithSock(r, "closed") \in CleanRecord /\ WithSock(r, "closed").sock = "closed"
         /\ SameBut(r, WithSock(r, "closed"), "sock")
<1>1. Item(c, r) \in Items(c) /\ Item(c, r).r = r /\ Item(c, r).out = <<>>
  BY NewItem
<1>2. CancelTimer(Item(c, r)) = Item(c, r)
  BY <1>1 DEF CancelTimer
<1> DEFINE z == Item(c, r)
<1> HIDE DEF z
<1>3. CloseSocket(z).out = z.out /\ CloseSocket(z).r = WithSock(z.r, "closed")
  BY <1>1, CloseKeeps DEF z
<1> QED
  BY <1>1, <1>2, <1>3, SettingSock DEF z, Delete

-----------------------------------------------------------------------------
(* Who owns the objects *)

NoDuplicates(s) == \A i, j \in 1 .. Len(s) : s[i] = s[j] => i = j

\* Without duplicates the length is the number of items.
LEMMA DistinctItems ==
  ASSUME NEW S, NEW s \in Seq(S)
  PROVE  NoDuplicates(s) <=> Cardinality(Range(s)) = Len(s)
<1>1. s \in [1 .. Len(s) -> S] /\ Len(s) \in Nat /\ DOMAIN s = 1 .. Len(s)
  BY LenProperties
<1>2. s \in Surjection(1 .. Len(s), Range(s))
  BY <1>1 DEF Surjection, Range
<1>3. IsFiniteSet(1 .. Len(s)) /\ Cardinality(1 .. Len(s)) = Len(s)
  <2> DEFINE n == Len(s)
  <2>1. n \in Nat
    BY <1>1
  <2> HIDE DEF n
  <2>2. IsFiniteSet(1 .. n) /\ Cardinality(1 .. n) = n
    BY <2>1, FS_Interval
  <2> QED
    BY <2>2 DEF n
<1>4. Cardinality(Range(s)) = Len(s) <=> s \in Injection(1 .. Len(s), Range(s))
  BY <1>2, <1>3, FS_Surjection
<1>5. s \in Injection(1 .. Len(s), Range(s)) <=> NoDuplicates(s)
  BY <1>1, <1>2 DEF Injection, IsInjective, Surjection, NoDuplicates
<1> QED
  BY <1>4, <1>5

\* Parking an object that is not parked.
LEMMA AppendDistinct ==
  ASSUME NEW S, NEW s \in Seq(S), NoDuplicates(s), NEW x \in S, x \notin Range(s)
  PROVE  /\ Append(s, x) \in Seq(S) /\ NoDuplicates(Append(s, x))
         /\ Range(Append(s, x)) = Range(s) \cup {x} /\ Len(Append(s, x)) = Len(s) + 1
<1> DEFINE u == Append(s, x)
<1>1. /\ u \in Seq(S) /\ Len(u) = Len(s) + 1 /\ Len(s) \in Nat
      /\ DOMAIN s = 1 .. Len(s) /\ DOMAIN u = 1 .. Len(u)
      /\ \A i \in 1 .. Len(s) : u[i] = s[i] /\ s[i] \in Range(s)
      /\ u[Len(s) + 1] = x
  <2>1. Len(s) \in Nat /\ DOMAIN s = 1 .. Len(s)
    BY LenProperties
  <2>2. u \in Seq(S) /\ Len(u) = Len(s) + 1
    BY AppendProperties
  <2>3. DOMAIN u = 1 .. Len(u)
    BY <2>2, LenProperties
  <2>4. \A i \in 1 .. Len(s) : u[i] = s[i]
    BY AppendProperties
  <2>5. u[Len(s) + 1] = x
    BY AppendProperties
  <2> QED
    BY <2>1, <2>2, <2>3, <2>4, <2>5 DEF Range
<1> HIDE DEF u
<1>2. NoDuplicates(u)
  <2> SUFFICES ASSUME NEW i \in 1 .. Len(u), NEW j \in 1 .. Len(u), u[i] = u[j]
               PROVE  i = j
    BY DEF NoDuplicates
  <2>1. CASE i \in 1 .. Len(s) /\ j \in 1 .. Len(s)
    BY <1>1, <2>1 DEF NoDuplicates
  <2>2. CASE i = Len(s) + 1 \/ j = Len(s) + 1
    BY <1>1, <2>2
  <2> QED
    BY <1>1, <2>1, <2>2
<1>3. Range(u) = Range(s) \cup {x}
  <2>1. \A y \in Range(u) : y \in Range(s) \cup {x}
    <3> TAKE y \in Range(u)
    <3> PICK i \in 1 .. Len(u) : y = u[i]
      BY <1>1 DEF Range
    <3> QED
      BY <1>1
  <2>2. \A y \in Range(s) : y \in Range(u)
    <3> TAKE y \in Range(s)
    <3> PICK i \in 1 .. Len(s) : y = s[i]
      BY <1>1 DEF Range
    <3>1. u[i] = y /\ i \in DOMAIN u
      BY <1>1
    <3> QED
      BY <3>1 DEF Range
  <2>3. x \in Range(u)
    BY <1>1 DEF Range
  <2> QED
    BY <2>1, <2>2, <2>3
<1> QED
  BY <1>1, <1>2, <1>3 DEF u

\* Taking the newest parked object.
LEMMA PopDistinct ==
  ASSUME NEW S, NEW s \in Seq(S), NoDuplicates(s), s # <<>>
  PROVE  /\ Front(s) \in Seq(S) /\ NoDuplicates(Front(s)) /\ Len(Front(s)) = Len(s) - 1
         /\ Last(s) \in S /\ Last(s) \in Range(s)
         /\ Range(Front(s)) = Range(s) \ {Last(s)}
<1> DEFINE u == Front(s)
           n == Len(s)
<1>1. n \in Nat \ {0} /\ DOMAIN s = 1 .. n /\ s \in [1 .. n -> S]
  BY LenProperties, EmptySeq
<1>2. /\ u \in Seq(S) /\ Len(u) = n - 1
      /\ \A i \in 1 .. n - 1 : u[i] = s[i]
  <2>1. u = SubSeq(s, 1, n - 1)
    BY DEF Front
  <2>2. \A i \in 1 .. n - 1 : s[i] \in S
    BY <1>1
  <2>3. /\ SubSeq(s, 1, n - 1) \in Seq(S)
        /\ Len(SubSeq(s, 1, n - 1)) = IF 1 <= n - 1 THEN (n - 1) - 1 + 1 ELSE 0
        /\ \A i \in 1 .. (n - 1) - 1 + 1 : SubSeq(s, 1, n - 1)[i] = s[1 + i - 1]
    BY <1>1, <2>2, SubSeqProperties
  <2> HIDE DEF u, n
  <2>4. Len(u) = n - 1
    BY <1>1, <2>1, <2>3
  <2>5. \A i \in 1 .. n - 1 : u[i] = s[i]
    <3> TAKE i \in 1 .. n - 1
    <3>1. i \in 1 .. (n - 1) - 1 + 1 /\ 1 + i - 1 = i
      BY <1>1
    <3>2. SubSeq(s, 1, n - 1)[i] = s[1 + i - 1]
      BY <2>3, <3>1
    <3> QED
      BY <2>1, <3>1, <3>2
  <2> QED
    BY <2>1, <2>3, <2>4, <2>5
<1>3. Last(s) = s[n] /\ Last(s) \in S /\ Last(s) \in Range(s)
  BY <1>1 DEF Last, Range
<1>4. DOMAIN u = 1 .. n - 1
  BY <1>1, <1>2, LenProperties
<1> HIDE DEF u, n
<1>5. NoDuplicates(u)
  BY <1>1, <1>2 DEF NoDuplicates, n
<1>6. \A y \in Range(u) : y \in Range(s) \ {Last(s)}
  <2> TAKE y \in Range(u)
  <2> PICK i \in 1 .. n - 1 : y = u[i]
    BY <1>4 DEF Range
  <2>1. y = s[i] /\ i \in 1 .. n /\ n \in 1 .. n /\ i # n
    BY <1>1, <1>2
  <2>2. s[i] # s[n]
    BY <2>1 DEF NoDuplicates, n
  <2> QED
    BY <1>1, <1>3, <2>1, <2>2 DEF Range
<1>7. \A y \in Range(s) \ {Last(s)} : y \in Range(u)
  <2> TAKE y \in Range(s) \ {Last(s)}
  <2> PICK i \in 1 .. n : y = s[i]
    BY <1>1 DEF Range
  <2>1. i \in 1 .. n - 1
    BY <1>1, <1>3
  <2> QED
    BY <1>2, <1>4, <2>1 DEF Range
<1> QED
  BY <1>2, <1>3, <1>5, <1>6, <1>7 DEF u, n

\* The objects in somebody's hands, in the pool, and parked.
Owned(hands, pl, ru, lv) ==
    /\ hands \subseteq Conns /\ pl \subseteq Conns
    /\ ru \in Seq(Conns) /\ NoDuplicates(ru) /\ Len(ru) <= MaxReuse
    /\ hands \cap pl = {} /\ hands \cap Range(ru) = {} /\ pl \cap Range(ru) = {}
    /\ lv = hands \cup pl \cup Range(ru)

\* What is neither pooled nor in somebody's hands has no open socket.
RestClosed(hands, pl, cn) == \A c \in Conns \ (hands \cup pl) : cn[c].sock = "closed"

\* What is parked are connection objects.
LEMMA ParkedAreConns ==
  ASSUME NEW ru \in Seq(Conns)
  PROVE  Range(ru) \subseteq Conns
  BY RangeOfSeq

\* Nor has it anything pending.
RestIdle(pl, cn) == \A c \in Conns \ pl : cn[c].op = "none" /\ cn[c].timer = "none"

\* What create_connection() promises of its result n.
Created(n, hands, pl, ru, cn) ==
    /\ n.c \in Conns \ (hands \cup pl)
    /\ Owned(hands \cup {n.c}, pl, n.reuse, n.live)
    /\ Range(n.reuse) = Range(ru) \ {n.c}
    /\ n.conn \in [Conns -> CleanRecord]
    /\ \A d \in Conns \ {n.c} : n.conn[d] = cn[d]
    /\ n.conn[n.c].op = "none" /\ n.conn[n.c].timer = "none"
    /\ n.conn[n.c].sock = "closed" /\ ~n.conn[n.c].ssl /\ ~n.conn[n.c].sslUsed

\* create_connection() gives an object that nobody has, clean and with nothing pending.
LEMMA Creates ==
  ASSUME NEW hands, NEW pl, NEW ru, NEW lv, Owned(hands, pl, ru, lv),
         NEW cn, cn \in [Conns -> CleanRecord], RestClosed(hands, pl, cn), RestIdle(pl, cn),
         NEW n, n \in create_connection(ru, lv, cn)
  PROVE  Created(n, hands, pl, ru, cn)
<1>1. /\ NewConnection \in CleanRecord /\ NewConnection.op = "none" /\ NewConnection.timer = "none"
      /\ NewConnection.sock = "closed" /\ ~NewConnection.ssl /\ ~NewConnection.sslUsed
  BY DEF NewConnection, CleanRecord, ConnectionRecord
<1>2. Range(ru) \subseteq Conns /\ ru \in Seq(Conns)
  BY ParkedAreConns DEF Owned
<1>3. CASE ru # <<>>
  <2> DEFINE c == Last(ru)
  <2>1. n.c = c /\ n.reuse = Front(ru) /\ n.live = lv /\ n.conn = [cn EXCEPT ![c] = reset_socket(cn[c])]
    BY <1>3 DEF create_connection
  <2>2. /\ Front(ru) \in Seq(Conns) /\ NoDuplicates(Front(ru)) /\ Len(Front(ru)) = Len(ru) - 1
        /\ c \in Conns /\ c \in Range(ru) /\ Range(Front(ru)) = Range(ru) \ {c}
    BY <1>3, PopDistinct DEF Owned
  <2>3. Len(ru) \in Nat
    BY <1>2, LenProperties
  <2> HIDE DEF c
  <2>4. c \notin hands \cup pl
    BY <2>2 DEF Owned
  <2>5. Owned(hands \cup {c}, pl, Front(ru), lv)
    BY <2>2, <2>3, <2>4, LimitsAssumption DEF Owned
  <2>6. cn[c] \in CleanRecord /\ cn[c].op = "none" /\ cn[c].timer = "none" /\ cn[c].sock = "closed"
    BY <2>2, <2>4 DEF RestClosed, RestIdle, Owned
  <2>7. /\ reset_socket(cn[c]) \in CleanRecord
        /\ reset_socket(cn[c]).op = "none" /\ reset_socket(cn[c]).timer = "none"
        /\ reset_socket(cn[c]).sock = "closed" /\ ~reset_socket(cn[c]).ssl
        /\ ~reset_socket(cn[c]).sslUsed
    <3>1. CASE cn[c].sslUsed
      BY <1>1, <3>1 DEF reset_socket
    <3>2. CASE ~cn[c].sslUsed
      BY <2>6, <3>2, RecordFields DEF reset_socket
    <3> QED
      BY <3>1, <3>2
  <2>8. n.conn \in [Conns -> CleanRecord] /\ n.conn[c] = reset_socket(cn[c])
    BY <2>1, <2>2, <2>7
  <2>9. \A d \in Conns \ {c} : n.conn[d] = cn[d]
    BY <2>1
  <2> QED
    BY <2>1, <2>2, <2>4, <2>5, <2>7, <2>8, <2>9 DEF Created
<1>4. CASE ru = <<>>
  <2> PICK c \in Conns \ lv :
            n = [c |-> c, reuse |-> ru, live |-> lv \cup {c}, conn |-> [cn EXCEPT ![c] = NewConnection]]
    BY <1>4 DEF create_connection
  <2>1. n.c = c /\ n.reuse = ru /\ n.live = lv \cup {c} /\ n.conn = [cn EXCEPT ![c] = NewConnection]
    OBVIOUS
  <2>2. c \notin hands /\ c \notin pl /\ c \notin Range(ru)
    BY DEF Owned
  <2>3. Owned(hands \cup {c}, pl, ru, lv \cup {c})
    BY <2>2 DEF Owned
  <2>4. n.conn \in [Conns -> CleanRecord] /\ n.conn[c] = NewConnection
    BY <1>1, <2>1
  <2>5. \A d \in Conns \ {c} : n.conn[d] = cn[d]
    BY <2>1
  <2>6. Range(n.reuse) = Range(ru) \ {c}
    BY <2>1, <2>2
  <2> QED
    BY <1>1, <2>1, <2>2, <2>3, <2>4, <2>5, <2>6 DEF Created
<1> QED
  BY <1>3, <1>4

-----------------------------------------------------------------------------
(* What moves the connections on *)

\* A connection: in the pool or not, its record, the number of its handlers that
\* are pending and move it on, those of them that destroy it, and whether a
\* caller of connect() has it.  In the pool one thing moves it on, out of it
\* nothing.  The socket is closed before handle_destroy is pending, and the
\* timer has no other use then.
Good(pooled, r, moving, destroys, waits) ==
    /\ r \in CleanRecord
    /\ moving \in Nat /\ destroys \in Nat /\ destroys <= moving
    /\ pooled => One(r.op # "none") + One(r.timer = "DESTROY") + moving + One(waits) = 1
    /\ ~pooled => r.op = "none" /\ r.timer = "none" /\ moving = 0 /\ ~waits
    /\ r.timer = "DESTROY" => r.sock = "closed"
    /\ destroys # 0 => r.sock = "closed" /\ r.timer = "none"

GoodConn(c, pl, cn, s, h, W) ==
    Good(c \in pl, cn[c], Pending(s, h, Moving(c)), Pending(s, h, Destroys(c)), c \in W)

GoodConns(pl, cn, s, h, W) == \A c \in Conns : GoodConn(c, pl, cn, s, h, W)
OthersGood(c, pl, cn, s, h, W) == \A d \in Conns \ {c} : GoodConn(d, pl, cn, s, h, W)

\* What is posted for one connection does not move another.
LEMMA PostedElsewhere ==
  ASSUME NEW c, NEW d, d # c, NEW H, HandlersOf(c) \subseteq H,
         NEW s \in Seq(H), NEW u \in Seq(HandlersOf(c)), NEW h
  PROVE  /\ s \o u \in Seq(H)
         /\ Pending(s \o u, h, Moving(d)) = Pending(s, h, Moving(d))
         /\ Pending(s \o u, h, Destroys(d)) = Pending(s, h, Destroys(d))
<1>1. u \in Seq(H)
  BY SeqMonotonic
<1>2. \A i \in DOMAIN u : u[i] \in HandlersOf(c)
  BY LenProperties, ElementOfSeq
<1>3. \A i \in DOMAIN u : u[i] \notin Moving(d) /\ u[i] \notin Destroys(d)
  BY <1>2, HandlerSets
<1>4. Hits(u, Moving(d)) = 0 /\ Hits(u, Destroys(d)) = 0
  BY <1>1, <1>3, NoHits
<1>5. /\ Hits(s \o u, Moving(d)) = Hits(s, Moving(d)) + Hits(u, Moving(d))
      /\ Hits(s \o u, Destroys(d)) = Hits(s, Destroys(d)) + Hits(u, Destroys(d))
  BY <1>1, HitsInConcat
<1>6. s \o u \in Seq(H)
  BY <1>1, ConcatProperties
<1>7. Hits(s, Moving(d)) \in Nat /\ Hits(s, Destroys(d)) \in Nat
  BY PositionsAreFinite
<1> QED
  BY <1>4, <1>5, <1>6, <1>7 DEF Pending

\* What is posted for a connection is counted for it.
LEMMA PostedHere ==
  ASSUME NEW c, NEW H, HandlersOf(c) \subseteq H,
         NEW s \in Seq(H), NEW u \in Seq(HandlersOf(c)), NEW h, NEW A
  PROVE  /\ Pending(s \o u, h, A) = Pending(s, h, A) + Hits(u, A)
         /\ Pending(s, h, A) \in Nat /\ Hits(u, A) \in Nat
<1>1. u \in Seq(H)
  BY SeqMonotonic
<1>2. Hits(s \o u, A) = Hits(s, A) + Hits(u, A)
  BY <1>1, HitsInConcat
<1>3. Hits(s, A) \in Nat /\ Hits(u, A) \in Nat /\ HeldHits(h, A) \in Nat
  BY <1>1, PositionsAreFinite, ThreadsAreFinite
<1> QED
  BY <1>2, <1>3 DEF Pending

\* The method or handler of one connection is done: its record and what it
\* posted are in place.
LEMMA ConnectionWorks ==
  ASSUME NEW c \in Conns, NEW H, ConnectionHandlers \subseteq H,
         NEW s \in Seq(H), NEW h, NEW cn \in [Conns -> CleanRecord],
         NEW pl, NEW pl2, c \in pl2, pl2 \ {c} = pl \ {c},
         NEW W, NEW W2, c \notin W2, W2 \ {c} = W \ {c},
         OthersGood(c, pl, cn, s, h, W),
         Pending(s, h, Moving(c)) = 0,
         NEW y, Moved(y, c)
  PROVE  /\ s \o y.out \in Seq(H)
         /\ [cn EXCEPT ![c] = y.r] \in [Conns -> CleanRecord]
         /\ GoodConns(pl2, [cn EXCEPT ![c] = y.r], s \o y.out, h, W2)
<1> DEFINE cn2 == [cn EXCEPT ![c] = y.r]
           s2 == s \o y.out
<1>1. y \in Items(c) /\ y.r \in CleanRecord /\ y.out \in Seq(HandlersOf(c))
  BY ItemFields DEF Moved
<1>2. HandlersOf(c) \subseteq H
  BY HandlerSets
<1>3. s2 \in Seq(H)
  <2>1. y.out \in Seq(H)
    BY <1>1, <1>2, SeqMonotonic
  <2> QED
    BY <2>1, ConcatProperties
<1>4. cn2 \in [Conns -> CleanRecord] /\ cn2[c] = y.r /\ \A d \in Conns \ {c} : cn2[d] = cn[d]
  BY <1>1
<1>5. GoodConn(c, pl2, cn2, s2, h, W2)
  <2>1. /\ Pending(s2, h, Moving(c)) = Pending(s, h, Moving(c)) + Hits(y.out, Moving(c))
        /\ Hits(y.out, Moving(c)) \in Nat
    BY <1>1, <1>2, PostedHere
  <2>2. /\ Pending(s2, h, Destroys(c)) = Pending(s, h, Destroys(c)) + Hits(y.out, Destroys(c))
        /\ Pending(s, h, Destroys(c)) \in Nat
    BY <1>1, <1>2, PostedHere
  <2>3. Pending(s, h, Destroys(c)) = 0
    <3>1. \A i \in DOMAIN s : s[i] \notin Moving(c)
      BY NothingPending
    <3>2. \A t \in Threads : h[t] \notin Moving(c)
      BY NothingPending
    <3>3. Destroys(c) \subseteq Moving(c)
      BY HandlerSets
    <3> QED
      BY <3>1, <3>2, <3>3, NothingPending
  <2> HIDE DEF s2, cn2
  <2>4. /\ Pending(s2, h, Moving(c)) = Hits(y.out, Moving(c)) /\ Pending(s2, h, Destroys(c)) = 0
        /\ Pending(s2, h, Moving(c)) \in Nat
    BY <2>1, <2>2, <2>3 DEF Moved
  <2> QED
    BY <1>1, <1>4, <2>4 DEF GoodConn, Good, Moved, One
<1>6. ASSUME NEW d \in Conns \ {c}
      PROVE  GoodConn(d, pl2, cn2, s2, h, W2)
  <2>1. /\ Pending(s2, h, Moving(d)) = Pending(s, h, Moving(d))
        /\ Pending(s2, h, Destroys(d)) = Pending(s, h, Destroys(d))
    <3>1. d # c
      OBVIOUS
    <3> DEFINE u == y.out
    <3>2. u \in Seq(HandlersOf(c))
      BY <1>1
    <3> HIDE DEF u
    <3>3. /\ Pending(s \o u, h, Moving(d)) = Pending(s, h, Moving(d))
          /\ Pending(s \o u, h, Destroys(d)) = Pending(s, h, Destroys(d))
      BY <1>2, <3>1, <3>2, PostedElsewhere
    <3> QED
      BY <3>3 DEF u
  <2>2. (d \in pl2 <=> d \in pl) /\ (d \in W2 <=> d \in W)
    OBVIOUS
  <2>3. GoodConn(d, pl, cn, s, h, W)
    BY DEF OthersGood
  <2> HIDE DEF s2, cn2
  <2> QED
    BY <1>4, <2>1, <2>2, <2>3 DEF GoodConn
<1> QED
  BY <1>3, <1>4, <1>5, <1>6 DEF GoodConns

-----------------------------------------------------------------------------
(* Handlers are taken and run *)

\* Handler x leaves what is pending.
Consumes(x, s, h, s2, h2) ==
    \A A : NoHandler \notin A => Pending(s2, h2, A) = Pending(s, h, A) - One(x \in A)

\* A thread runs what it holds.
LEMMA RunConsumes ==
  ASSUME NEW H, NEW s \in Seq(H), NEW h, NEW g, NEW t \in Threads,
         \A u \in Threads \ {t} : g[u] = h[u], g[t] = NoHandler
  PROVE  Consumes(h[t], s, h, s, g)
<1> SUFFICES ASSUME NEW A, NoHandler \notin A
             PROVE  Pending(s, g, A) = Pending(s, h, A) - One(h[t] \in A)
  BY DEF Consumes
<1>2. OtherHits(g, t, A) = OtherHits(h, t, A)
  BY OthersHold
<1>3. HeldHits(h, A) = OtherHits(h, t, A) + One(h[t] \in A) /\ OtherHits(h, t, A) \in Nat
  BY HeldSplits
<1>4. HeldHits(g, A) = OtherHits(g, t, A) + One(g[t] \in A)
  BY HeldSplits
<1>5. Hits(s, A) \in Nat
  BY PositionsAreFinite
<1> QED
  BY <1>2, <1>3, <1>4, <1>5 DEF Pending, One

\* The loop of stop() runs the oldest handler.
LEMMA HeadConsumes ==
  ASSUME NEW H, NEW s \in Seq(H), s # <<>>, NEW h
  PROVE  Consumes(Head(s), s, h, Tail(s), h) /\ Head(s) \in H /\ Tail(s) \in Seq(H)
<1>1. Head(s) \in H /\ Tail(s) \in Seq(H)
  BY HeadTailProperties
<1>2. ASSUME NEW A
      PROVE  Pending(Tail(s), h, A) = Pending(s, h, A) - One(Head(s) \in A)
  <2>1. Hits(Tail(s), A) = Hits(s, A) - One(Head(s) \in A)
    BY HitsInTail
  <2>2. Hits(s, A) \in Nat /\ HeldHits(h, A) \in Nat
    BY PositionsAreFinite, ThreadsAreFinite
  <2> QED
    BY <2>1, <2>2 DEF Pending, One
<1> QED
  BY <1>1, <1>2 DEF Consumes

\* A thread takes the oldest handler: it stays pending.
LEMMA TakingKeeps ==
  ASSUME NEW H, NEW s \in Seq(H), s # <<>>, NEW h, NEW g, NEW t \in Threads,
         \A u \in Threads \ {t} : g[u] = h[u], h[t] = NoHandler, g[t] = Head(s),
         NEW A, NoHandler \notin A
  PROVE  Pending(Tail(s), g, A) = Pending(s, h, A)
<1>1. Hits(Tail(s), A) = Hits(s, A) - One(Head(s) \in A)
  BY HitsInTail
<1>3. OtherHits(g, t, A) = OtherHits(h, t, A)
  BY OthersHold
<1>4. HeldHits(h, A) = OtherHits(h, t, A) + One(h[t] \in A) /\ OtherHits(h, t, A) \in Nat
  BY HeldSplits
<1>5. HeldHits(g, A) = OtherHits(g, t, A) + One(g[t] \in A)
  BY HeldSplits
<1>6. Hits(s, A) \in Nat
  BY PositionsAreFinite
<1> QED
  BY <1>1, <1>3, <1>4, <1>5, <1>6 DEF Pending, One

\* One handler more is pending.
LEMMA PostingOne ==
  ASSUME NEW H, NEW s \in Seq(H), NEW x \in H, NEW h
  PROVE  /\ Append(s, x) \in Seq(H)
         /\ \A A : Pending(Append(s, x), h, A) = Pending(s, h, A) + One(x \in A)
<1>1. Append(s, x) \in Seq(H)
  BY AppendProperties
<1>2. ASSUME NEW A
      PROVE  Pending(Append(s, x), h, A) = Pending(s, h, A) + One(x \in A)
  <2>1. Hits(Append(s, x), A) = Hits(s, A) + One(x \in A)
    BY HitsInAppend
  <2>2. Hits(s, A) \in Nat /\ HeldHits(h, A) \in Nat
    BY PositionsAreFinite, ThreadsAreFinite
  <2> QED
    BY <2>1, <2>2 DEF Pending, One
<1> QED
  BY <1>1, <1>2

\* A handler of one connection leaves the counts of the others.
LEMMA OthersUntouched ==
  ASSUME NEW c, NEW x \in HandlersOf(c), NEW H, NEW H2, NEW s \in Seq(H), NEW s2 \in Seq(H2),
         NEW h, NEW h2, NEW pl, NEW cn, NEW W,
         Consumes(x, s, h, s2, h2), GoodConns(pl, cn, s, h, W)
  PROVE  OthersGood(c, pl, cn, s2, h2, W)
<1> SUFFICES ASSUME NEW d \in Conns \ {c}
             PROVE  GoodConn(d, pl, cn, s2, h2, W)
  BY DEF OthersGood
<1>1. x \notin Moving(d) /\ x \notin Destroys(d) /\ NoHandler \notin Moving(d) /\ NoHandler \notin Destroys(d)
  BY HandlerSets
<1>2. /\ Pending(s2, h2, Moving(d)) = Pending(s, h, Moving(d)) - One(x \in Moving(d))
      /\ Pending(s2, h2, Destroys(d)) = Pending(s, h, Destroys(d)) - One(x \in Destroys(d))
  BY <1>1 DEF Consumes
<1>3. Pending(s, h, Moving(d)) \in Nat /\ Pending(s, h, Destroys(d)) \in Nat
  BY PendingIsANumber
<1>4. /\ Pending(s2, h2, Moving(d)) = Pending(s, h, Moving(d))
      /\ Pending(s2, h2, Destroys(d)) = Pending(s, h, Destroys(d))
  BY <1>1, <1>2, <1>3 DEF One
<1> QED
  BY <1>4 DEF GoodConns, GoodConn

\* The handlers of a connection, told apart.
LEMMA HandlerIs ==
  ASSUME NEW x \in ConnectionHandlers
  PROVE  /\ x.c \in Conns /\ x.err \in BOOLEAN /\ x \in HandlersOf(x.c) /\ x.k \in {"op", "timer"}
         /\ x.k = "op" => x \in Moving(x.c) /\ x \notin Destroys(x.c)
         /\ x.k = "timer" /\ x.w # "DESTROY" => x \notin Moving(x.c) /\ x \notin Destroys(x.c)
         /\ x.k = "timer" /\ x.w = "DESTROY" => x \in Moving(x.c) /\ x \in Destroys(x.c)
  BY DEF ConnectionHandlers, HandlersOf, Moving, Destroys, Continues, Of

\* What a handler finds: one that moves its connection on is the only such, and
\* the connection is in the pool.
LEMMA HandlerFinds ==
  ASSUME NEW x \in ConnectionHandlers, NEW c, c = x.c,
         NEW H, NEW H2, NEW s \in Seq(H), NEW s2 \in Seq(H2),
         NEW h, NEW h2, NEW pl, NEW cn, NEW W,
         Consumes(x, s, h, s2, h2), GoodConns(pl, cn, s, h, W)
  PROVE  /\ x \in Moving(c) => /\ c \in pl /\ c \notin W
                               /\ cn[c].op = "none" /\ cn[c].timer # "DESTROY"
                               /\ Pending(s2, h2, Moving(c)) = 0 /\ Pending(s2, h2, Destroys(c)) = 0
         /\ x \in Destroys(c) => cn[c].timer = "none" /\ cn[c].sock = "closed"
         /\ x \notin Moving(c) =>
                /\ Pending(s2, h2, Moving(c)) = Pending(s, h, Moving(c))
                /\ Pending(s2, h2, Destroys(c)) = Pending(s, h, Destroys(c))
<1>1. c \in Conns /\ GoodConn(c, pl, cn, s, h, W)
  BY HandlerIs DEF GoodConns
<1>2. Destroys(c) \subseteq Moving(c) /\ NoHandler \notin Moving(c) /\ NoHandler \notin Destroys(c)
  BY HandlerSets
<1>3. /\ Pending(s2, h2, Moving(c)) = Pending(s, h, Moving(c)) - One(x \in Moving(c))
      /\ Pending(s2, h2, Destroys(c)) = Pending(s, h, Destroys(c)) - One(x \in Destroys(c))
  BY <1>2 DEF Consumes
<1>4. /\ Pending(s2, h2, Moving(c)) \in Nat /\ Pending(s2, h2, Destroys(c)) \in Nat
      /\ Pending(s, h, Moving(c)) \in Nat /\ Pending(s, h, Destroys(c)) \in Nat
  BY PendingIsANumber
<1>5. x \notin Moving(c) =>
                /\ Pending(s2, h2, Moving(c)) = Pending(s, h, Moving(c))
                /\ Pending(s2, h2, Destroys(c)) = Pending(s, h, Destroys(c))
  BY <1>2, <1>3, <1>4 DEF One
<1>6. x \in Destroys(c) => cn[c].timer = "none" /\ cn[c].sock = "closed"
  BY <1>1, <1>3, <1>4 DEF GoodConn, Good, One
<1>7. ASSUME x \in Moving(c)
      PROVE  /\ c \in pl /\ c \notin W
             /\ cn[c].op = "none" /\ cn[c].timer # "DESTROY"
             /\ Pending(s2, h2, Moving(c)) = 0
  <2>1. Pending(s2, h2, Moving(c)) = Pending(s, h, Moving(c)) - 1
    BY <1>3, <1>7 DEF One
  <2>2. Pending(s, h, Moving(c)) # 0
    BY <1>4, <2>1
  <2>3. c \in pl
    BY <1>1, <2>2 DEF GoodConn, Good
  <2>4. One(cn[c].op # "none") + One(cn[c].timer = "DESTROY") + Pending(s, h, Moving(c)) + One(c \in W) = 1
    BY <1>1, <2>3 DEF GoodConn, Good
  <2>5. /\ One(cn[c].op # "none") = 0 /\ One(cn[c].timer = "DESTROY") = 0 /\ One(c \in W) = 0
        /\ Pending(s, h, Moving(c)) = 1
    BY <1>4, <2>2, <2>4 DEF One
  <2> QED
    BY <2>1, <2>3, <2>5 DEF One
<1>8. ASSUME x \in Moving(c)
      PROVE  Pending(s2, h2, Destroys(c)) = 0
  <2>1. \A i \in DOMAIN s2 : s2[i] \notin Moving(c)
    BY <1>7, <1>8, NothingPending
  <2>2. \A t \in Threads : h2[t] \notin Moving(c)
    BY <1>7, <1>8, NothingPending
  <2> QED
    BY <1>2, <2>1, <2>2, NothingPending
<1> QED
  BY <1>5, <1>6, <1>7, <1>8

-----------------------------------------------------------------------------
(* A handler of a connection keeps what holds of the connections *)

\* What the manager's steps keep of every connection, wherever the handlers are.
Conserved(hands, pl, ru, lv, cn, s, h, W, H) ==
    /\ Owned(hands, pl, ru, lv)
    /\ cn \in [Conns -> CleanRecord]
    /\ RestClosed(hands, pl, cn)
    /\ s \in Seq(H)
    /\ GoodConns(pl, cn, s, h, W)

\* A connection that leaves the pool has its socket closed and is parked or
\* freed; nothing else leaves the pool or is parked.
PoolGivesBack ==
    /\ pool' \subseteq pool
    /\ \A c \in pool \ pool' : conn[c].sock = "closed"
    /\ Range(reuse) \subseteq Range(reuse')
    /\ Range(reuse') \subseteq Range(reuse) \cup (pool \ pool')

\* Out of the pool a socket may only be closed.
OutsideOnlyCloses ==
    \A c \in Conns \ pool :
        /\ conn'[c].ssl = conn[c].ssl /\ conn'[c].sslUsed = conn[c].sslUsed
        /\ conn[c].sock = "closed" => conn'[c].sock = "closed"

\* Handlers of connections are posted, and no others.
Posts(s, s2) == \E u \in Seq(ConnectionHandlers) : s2 = s \o u

\* Posting nothing, the handlers of one connection, or one handler.
LEMMA PostsNothing == ASSUME NEW H, NEW s \in Seq(H) PROVE Posts(s, s)
<1>1. s = s \o <<>> /\ <<>> \in Seq(ConnectionHandlers)
  BY ConcatEmptySeq, EmptySeq
<1> QED
  BY <1>1 DEF Posts

LEMMA PostsSome ==
  ASSUME NEW s, NEW c, NEW u \in Seq(HandlersOf(c)), NEW s2, s2 = s \o u
  PROVE  Posts(s, s2)
<1>1. u \in Seq(ConnectionHandlers)
  BY HandlerSets, SeqMonotonic
<1> QED
  BY <1>1 DEF Posts

LEMMA PostsOne ==
  ASSUME NEW H, NEW s \in Seq(H), NEW x \in ConnectionHandlers, x \in H, NEW s2, s2 = Append(s, x)
  PROVE  Posts(s, s2)
<1>1. s2 = s \o <<x>> /\ <<x>> \in Seq(ConnectionHandlers)
  BY AppendIsConcat
<1> QED
  BY <1>1 DEF Posts

\* Handlers that are not of connections are not touched by what connections post.
LEMMA PostsElsewhere ==
  ASSUME NEW H, ConnectionHandlers \subseteq H, NEW s \in Seq(H), NEW s2, Posts(s, s2),
         NEW h, NEW A, A \cap ConnectionHandlers = {}
  PROVE  Pending(s2, h, A) = Pending(s, h, A)
<1> PICK u \in Seq(ConnectionHandlers) : s2 = s \o u
  BY DEF Posts
<1>1. u \in Seq(H)
  BY SeqMonotonic
<1>2. \A i \in DOMAIN u : u[i] \notin A
  BY LenProperties, ElementOfSeq
<1>3. Hits(u, A) = 0
  BY <1>2, NoHits
<1>4. Hits(s \o u, A) = Hits(s, A) + Hits(u, A) /\ Hits(s, A) \in Nat /\ HeldHits(h, A) \in Nat
  BY <1>1, HitsInConcat, PositionsAreFinite, ThreadsAreFinite
<1> QED
  BY <1>3, <1>4 DEF Pending

\* The handler of an operation runs.
LEMMA OpHandled ==
  ASSUME NEW H, ConnectionHandlers \subseteq H, NEW hands, NEW W, NEW x \in ConnectionHandlers,
         NEW rest \in Seq(H), NEW later,
         Conserved(hands, pool, reuse, live, conn, q, held, W, H),
         Consumes(x, q, held, rest, later), x.k = "op",
         ConnectionStep(HandleOp(Item(x.c, conn[x.c]), x.w, x.err), rest)
  PROVE  /\ Conserved(hands, pool', reuse', live', conn', q', later, W, H)
         /\ PoolGivesBack /\ OutsideOnlyCloses /\ Posts(rest, q')
<1> DEFINE c == x.c
<1>1. /\ c \in Conns /\ x \in HandlersOf(c) /\ x \in Moving(c) /\ conn[c] \in CleanRecord
      /\ conn \in [Conns -> CleanRecord] /\ q \in Seq(H) /\ GoodConns(pool, conn, q, held, W)
  BY HandlerIs DEF Conserved
<1>2. /\ c \in pool /\ c \notin W /\ conn[c].op = "none" /\ conn[c].timer # "DESTROY"
      /\ Pending(rest, later, Moving(c)) = 0
  BY <1>1, HandlerFinds
<1>3. OthersGood(c, pool, conn, rest, later, W)
  BY <1>1, OthersUntouched
<1> DEFINE i == Item(c, conn[c])
<1>4. Fresh(i, c)
  BY <1>1, <1>2, NewItem
<1>5. PICK y \in HandleOp(i, x.w, x.err) :
        conn' = [conn EXCEPT ![y.c] = y.r] /\ q' = rest \o y.out
  BY DEF ConnectionStep
<1>6. UNCHANGED <<pool, reuse, live>>
  BY DEF ConnectionStep
<1> HIDE DEF i, c
<1>7. Moved(y, c)
  BY <1>1, <1>4, HandleOpMoves
<1>8. y.c = c
  BY <1>7, ItemFields DEF Moved
<1>9. /\ rest \o y.out \in Seq(H)
      /\ [conn EXCEPT ![c] = y.r] \in [Conns -> CleanRecord]
      /\ GoodConns(pool, [conn EXCEPT ![c] = y.r], rest \o y.out, later, W)
  BY <1>1, <1>2, <1>3, <1>7, ConnectionWorks
<1>10. \A d \in Conns \ pool : conn'[d] = conn[d]
  BY <1>1, <1>2, <1>5, <1>8
<1>11. RestClosed(hands, pool, conn')
  BY <1>10 DEF Conserved, RestClosed
<1>12. Conserved(hands, pool', reuse', live', conn', q', later, W, H)
  BY <1>5, <1>6, <1>8, <1>9, <1>11 DEF Conserved
<1>13. y.out \in Seq(HandlersOf(c))
  BY <1>7, ItemFields DEF Moved
<1>14. Posts(rest, q')
  BY <1>5, <1>13, PostsSome
<1> QED
  BY <1>6, <1>10, <1>12, <1>14 DEF PoolGivesBack, OutsideOnlyCloses

\* The handler of a socket timeout runs: it closes the socket, and the abort it may
\* cause takes the place of the operation.
LEMMA TimeoutHandled ==
  ASSUME NEW H, ConnectionHandlers \subseteq H, NEW hands, NEW W, NEW x \in ConnectionHandlers,
         NEW rest \in Seq(H), NEW later,
         Conserved(hands, pool, reuse, live, conn, q, held, W, H),
         Consumes(x, q, held, rest, later), x.k = "timer", x.w # "DESTROY",
         ConnectionStep({handle_socket_timeout(Item(x.c, conn[x.c]), x.err)}, rest)
  PROVE  /\ Conserved(hands, pool', reuse', live', conn', q', later, W, H)
         /\ PoolGivesBack /\ OutsideOnlyCloses /\ Posts(rest, q')
<1> DEFINE c == x.c
           i == Item(c, conn[c])
           y == handle_socket_timeout(i, x.err)
<1>1. /\ c \in Conns /\ x \in HandlersOf(c) /\ x \notin Moving(c) /\ conn[c] \in CleanRecord
      /\ conn \in [Conns -> CleanRecord] /\ q \in Seq(H) /\ GoodConns(pool, conn, q, held, W)
  BY HandlerIs DEF Conserved
<1>2. /\ Pending(rest, later, Moving(c)) = Pending(q, held, Moving(c))
      /\ Pending(rest, later, Destroys(c)) = Pending(q, held, Destroys(c))
  BY <1>1, HandlerFinds
<1>3. OthersGood(c, pool, conn, rest, later, W)
  BY <1>1, OthersUntouched
<1>4. conn' = [conn EXCEPT ![y.c] = y.r] /\ q' = rest \o y.out
  BY DEF ConnectionStep
<1>5. UNCHANGED <<pool, reuse, live>>
  BY DEF ConnectionStep
<1>6. i \in Items(c) /\ i.r = conn[c] /\ i.out = <<>>
  BY <1>1, NewItem
<1>7. /\ y \in Items(c)
      /\ y.r.sock = conn[c].sock \/ y.r.sock = "closed"
      /\ y.r.timer = conn[c].timer
      /\ y.r.ssl = conn[c].ssl /\ y.r.sslUsed = conn[c].sslUsed
      /\ One(y.r.op # "none") + Hits(y.out, Moving(c)) = One(conn[c].op # "none")
      /\ Hits(y.out, Destroys(c)) = 0
      /\ conn[c].op = "none" => y.r.op = "none"
  <2>1. CASE x.err
    <3>1. y = i
      BY <2>1 DEF handle_socket_timeout
    <3> HIDE DEF i, y
    <3> QED
      BY <1>6, <3>1, HitsInNone DEF One
  <2>2. CASE ~x.err
    <3>1. y = CloseSocket(i)
      BY <2>2 DEF handle_socket_timeout
    <3> HIDE DEF i, y, c
    <3>2. /\ y \in Items(c)
          /\ y.r.sock = "closed" /\ y.r.op = "none" /\ y.r.timer = i.r.timer
          /\ y.r.ssl = i.r.ssl /\ y.r.sslUsed = i.r.sslUsed
          /\ Hits(y.out, Moving(c)) = Hits(i.out, Moving(c)) + One(i.r.op # "none")
          /\ Hits(y.out, Destroys(c)) = Hits(i.out, Destroys(c))
      BY <1>1, <1>6, <3>1, CloseKeeps
    <3>3. Hits(i.out, Moving(c)) = 0 /\ Hits(i.out, Destroys(c)) = 0
      BY <1>6, HitsInNone
    <3> QED
      BY <1>6, <3>2, <3>3 DEF One
  <2> QED
    BY <2>1, <2>2
<1> HIDE DEF i, y, c
<1>8. y.c = c /\ y.r \in CleanRecord /\ y.out \in Seq(HandlersOf(c))
  BY <1>7, ItemFields
<1>9. /\ conn' \in [Conns -> CleanRecord] /\ conn'[c] = y.r
      /\ \A d \in Conns \ {c} : conn'[d] = conn[d]
  BY <1>1, <1>4, <1>8
<1>10. HandlersOf(c) \subseteq H
  BY HandlerSets
<1>11. q' \in Seq(H)
  <2>1. y.out \in Seq(H)
    BY <1>8, <1>10, SeqMonotonic
  <2> QED
    BY <1>4, <2>1, ConcatProperties
<1>12. GoodConn(c, pool, conn', q', later, W)
  <2> DEFINE u == y.out
  <2>0. u \in Seq(HandlersOf(c)) /\ q' = rest \o u
    BY <1>4, <1>8
  <2> HIDE DEF u
  <2>a. \A A : /\ Pending(rest \o u, later, A) = Pending(rest, later, A) + Hits(u, A)
               /\ Pending(rest, later, A) \in Nat /\ Hits(u, A) \in Nat
    BY <1>4, <1>10, <2>0, PostedHere
  <2>b. \A A : /\ Pending(q', later, A) = Pending(rest, later, A) + Hits(u, A)
               /\ Pending(rest, later, A) \in Nat /\ Hits(u, A) \in Nat
    BY <2>0, <2>a
  <2>1. /\ Pending(q', later, Moving(c)) = Pending(rest, later, Moving(c)) + Hits(u, Moving(c))
        /\ Hits(u, Moving(c)) \in Nat
    BY <2>b
  <2>2. /\ Pending(q', later, Destroys(c)) = Pending(rest, later, Destroys(c)) + Hits(u, Destroys(c))
        /\ Pending(rest, later, Destroys(c)) \in Nat
    BY <2>b
  <2> USE DEF u
  <2>3. GoodConn(c, pool, conn, q, held, W)
    BY <1>1 DEF GoodConns
  <2>4. Pending(q', later, Destroys(c)) = Pending(q, held, Destroys(c))
    BY <1>2, <1>7, <2>2
  <2>5. Pending(q', later, Moving(c)) = Pending(q, held, Moving(c)) + Hits(y.out, Moving(c))
    BY <1>2, <2>1
  <2>6. /\ One(y.r.op # "none") \in Nat /\ One(conn[c].op # "none") \in Nat
        /\ One(y.r.timer = "DESTROY") = One(conn[c].timer = "DESTROY")
        /\ One(conn[c].timer = "DESTROY") \in Nat /\ One(c \in W) \in Nat
    BY <1>7 DEF One
  <2>7. Hits(y.out, Moving(c)) = One(conn[c].op # "none") - One(y.r.op # "none")
    BY <1>7, <2>1, <2>6
  <2>8. One(y.r.op # "none") + Pending(q', later, Moving(c))
            = One(conn[c].op # "none") + Pending(q, held, Moving(c))
    BY <2>3, <2>5, <2>6, <2>7 DEF GoodConn, Good
  <2>9. c \notin pool => Hits(y.out, Moving(c)) = 0
    BY <1>7, <2>3, <2>1 DEF GoodConn, Good, One
  <2>10. c \in pool => One(y.r.op # "none") + One(y.r.timer = "DESTROY")
                          + Pending(q', later, Moving(c)) + One(c \in W) = 1
    BY <2>1, <2>3, <2>5, <2>6, <2>8 DEF GoodConn, Good
  <2>11. c \notin pool => y.r.op = "none" /\ Pending(q', later, Moving(c)) = 0
    BY <1>7, <2>3, <2>5, <2>9 DEF GoodConn, Good
  <2> QED
    BY <1>7, <1>8, <1>9, <2>1, <2>3, <2>4, <2>5, <2>10, <2>11 DEF GoodConn, Good
<1>13. ASSUME NEW d \in Conns \ {c}
       PROVE  GoodConn(d, pool, conn', q', later, W)
  <2>1. /\ Pending(q', later, Moving(d)) = Pending(rest, later, Moving(d))
        /\ Pending(q', later, Destroys(d)) = Pending(rest, later, Destroys(d))
    <3>1. d # c
      OBVIOUS
    <3> DEFINE u == y.out
    <3>2. u \in Seq(HandlersOf(c)) /\ q' = rest \o u
      BY <1>4, <1>8
    <3> HIDE DEF u
    <3>3. /\ Pending(rest \o u, later, Moving(d)) = Pending(rest, later, Moving(d))
          /\ Pending(rest \o u, later, Destroys(d)) = Pending(rest, later, Destroys(d))
      BY <1>10, <3>1, <3>2, PostedElsewhere
    <3> QED
      BY <3>2, <3>3
  <2>2. GoodConn(d, pool, conn, rest, later, W)
    BY <1>3 DEF OthersGood
  <2> QED
    BY <1>9, <2>1, <2>2 DEF GoodConn
<1>14. OutsideOnlyCloses
  BY <1>7, <1>9 DEF OutsideOnlyCloses
<1>15. RestClosed(hands, pool, conn')
  BY <1>7, <1>9 DEF Conserved, RestClosed
<1>16. Conserved(hands, pool', reuse', live', conn', q', later, W, H)
  BY <1>5, <1>9, <1>11, <1>12, <1>13, <1>15 DEF Conserved, GoodConns
<1>17. Posts(rest, q')
  BY <1>4, <1>8, PostsSome
<1> QED
  BY <1>5, <1>14, <1>16, <1>17 DEF PoolGivesBack

\* handle_destroy runs: its connection has a closed socket and nothing pending, and
\* goes from the pool to the parked ones or is deleted.
LEMMA DestroyHandled ==
  ASSUME NEW H, ConnectionHandlers \subseteq H, NEW hands, NEW W, NEW x \in ConnectionHandlers,
         NEW rest \in Seq(H), NEW later,
         Conserved(hands, pool, reuse, live, conn, q, held, W, H),
         Consumes(x, q, held, rest, later), x.k = "timer", x.w = "DESTROY",
         destroy_connection(x.c, rest)
  PROVE  /\ Conserved(hands, pool', reuse', live', conn', q', later, W, H)
         /\ PoolGivesBack /\ OutsideOnlyCloses /\ Posts(rest, q')
<1> DEFINE c == x.c
<1>1. /\ c \in Conns /\ x \in HandlersOf(c) /\ x \in Moving(c) /\ x \in Destroys(c)
      /\ conn[c] \in CleanRecord
      /\ conn \in [Conns -> CleanRecord] /\ q \in Seq(H) /\ GoodConns(pool, conn, q, held, W)
      /\ Owned(hands, pool, reuse, live)
  BY HandlerIs DEF Conserved
<1>2. /\ c \in pool /\ c \notin W /\ conn[c].op = "none" /\ conn[c].timer = "none"
      /\ conn[c].sock = "closed"
      /\ Pending(rest, later, Moving(c)) = 0 /\ Pending(rest, later, Destroys(c)) = 0
  BY <1>1, HandlerFinds
<1>3. OthersGood(c, pool, conn, rest, later, W)
  BY <1>1, OthersUntouched
<1>4. c \notin Range(reuse) /\ c \notin hands /\ reuse \in Seq(Conns) /\ NoDuplicates(reuse)
  BY <1>1, <1>2 DEF Owned
<1>5. pool' = pool \ {c}
  BY DEF destroy_connection, on_destroy_connection
<1>6. Len(reuse) \in Nat /\ MaxReuse \in Nat
  BY <1>4, LenProperties, LimitsAssumption
<1>7. /\ q' = rest
      /\ conn' \in [Conns -> CleanRecord] /\ \A d \in Conns \ {c} : conn'[d] = conn[d]
      /\ SameBut(conn[c], conn'[c], "sock") /\ conn'[c].sock = "closed"
      /\ Owned(hands, pool', reuse', live')
      /\ Range(reuse) \subseteq Range(reuse') /\ Range(reuse') \subseteq Range(reuse) \cup {c}
  <2>1. CASE Len(reuse) < MaxReuse
    <3>1. reuse' = Append(reuse, c) /\ q' = rest /\ UNCHANGED <<live, conn>>
      BY <2>1 DEF destroy_connection
    <3>2. /\ Append(reuse, c) \in Seq(Conns) /\ NoDuplicates(Append(reuse, c))
          /\ Range(Append(reuse, c)) = Range(reuse) \cup {c} /\ Len(Append(reuse, c)) = Len(reuse) + 1
      BY <1>1, <1>4, AppendDistinct
    <3> HIDE DEF c
    <3>3. Owned(hands, pool', reuse', live')
      BY <1>1, <1>2, <1>4, <1>5, <1>6, <2>1, <3>1, <3>2 DEF Owned
    <3> QED
      BY <1>1, <1>2, <3>1, <3>2, <3>3 DEF SameBut
  <2>2. CASE ~(Len(reuse) < MaxReuse)
    <3> DEFINE gone == Delete(Item(c, conn[c]))
    <3>1. /\ live' = live \ {c} /\ conn' = [conn EXCEPT ![c] = gone.r] /\ q' = rest \o gone.out
          /\ reuse' = reuse
      BY <2>2 DEF destroy_connection
    <3>2. /\ gone.out = <<>> /\ gone.r \in CleanRecord /\ gone.r.sock = "closed"
          /\ SameBut(conn[c], gone.r, "sock")
      BY <1>1, <1>2, DeleteQuiet
    <3> HIDE DEF gone, c
    <3>3. q' = rest
      BY <3>1, <3>2, ConcatEmptySeq
    <3>4. Owned(hands, pool', reuse', live')
      BY <1>1, <1>2, <1>4, <1>5, <3>1 DEF Owned
    <3>5. conn' \in [Conns -> CleanRecord] /\ conn'[c] = gone.r /\ \A d \in Conns \ {c} : conn'[d] = conn[d]
      BY <1>1, <3>1, <3>2
    <3> QED
      BY <3>1, <3>2, <3>3, <3>4, <3>5
  <2> QED
    BY <2>1, <2>2
<1> HIDE DEF c
<1>8. GoodConn(c, pool', conn', q', later, W)
  BY <1>1, <1>2, <1>5, <1>7 DEF GoodConn, Good, SameBut
<1>9. ASSUME NEW d \in Conns \ {c}
      PROVE  GoodConn(d, pool', conn', q', later, W)
  <2>1. GoodConn(d, pool, conn, rest, later, W)
    BY <1>3 DEF OthersGood
  <2> QED
    BY <1>5, <1>7, <2>1 DEF GoodConn
<1>10. RestClosed(hands, pool', conn')
  BY <1>5, <1>7 DEF Conserved, RestClosed
<1>11. Conserved(hands, pool', reuse', live', conn', q', later, W, H)
  BY <1>7, <1>8, <1>9, <1>10 DEF Conserved, GoodConns
<1>12. OutsideOnlyCloses
  BY <1>2, <1>7 DEF OutsideOnlyCloses
<1>13. Posts(rest, q')
  BY <1>7, PostsNothing
<1> QED
  BY <1>2, <1>5, <1>7, <1>11, <1>12, <1>13 DEF PoolGivesBack

\* Whatever handler of a connection runs, what is conserved is kept.
LEMMA HandleKeeps ==
  ASSUME NEW H, ConnectionHandlers \subseteq H, NEW hands, NEW W, NEW x \in ConnectionHandlers,
         NEW rest \in Seq(H), NEW later,
         Conserved(hands, pool, reuse, live, conn, q, held, W, H),
         Consumes(x, q, held, rest, later), HandleConnection(x, rest)
  PROVE  /\ Conserved(hands, pool', reuse', live', conn', q', later, W, H)
         /\ PoolGivesBack /\ OutsideOnlyCloses /\ Posts(rest, q')
<1>1. \/ x.k = "op" /\ ConnectionStep(HandleOp(Item(x.c, conn[x.c]), x.w, x.err), rest)
      \/ /\ x.k = "timer" /\ x.w # "DESTROY"
         /\ ConnectionStep({handle_socket_timeout(Item(x.c, conn[x.c]), x.err)}, rest)
      \/ x.k = "timer" /\ x.w = "DESTROY" /\ destroy_connection(x.c, rest)
  BY DEF HandleConnection
<1>2. CASE x.k = "op" /\ ConnectionStep(HandleOp(Item(x.c, conn[x.c]), x.w, x.err), rest)
  BY <1>2, OpHandled
<1>3. CASE /\ x.k = "timer" /\ x.w # "DESTROY"
           /\ ConnectionStep({handle_socket_timeout(Item(x.c, conn[x.c]), x.err)}, rest)
  BY <1>3, TimeoutHandled
<1>4. CASE x.k = "timer" /\ x.w = "DESTROY" /\ destroy_connection(x.c, rest)
  BY <1>4, DestroyHandled
<1> QED
  BY <1>1, <1>2, <1>3, <1>4

-----------------------------------------------------------------------------
(* The steps of asio and of the owner *)

\* A handler of one connection is posted for what it had under way.
LEMMA CompletionPosts ==
  ASSUME NEW H, ConnectionHandlers \subseteq H, NEW hands, NEW W, NEW c \in Conns,
         Conserved(hands, pool, reuse, live, conn, q, held, W, H),
         NEW x \in HandlersOf(c), NEW r \in CleanRecord,
         q' = Append(q, x), conn' = [conn EXCEPT ![c] = r],
         SameBut(conn[c], r, "op") \/ SameBut(conn[c], r, "timer"),
         One(r.op # "none") + One(r.timer = "DESTROY") + One(x \in Moving(c))
            = One(conn[c].op # "none") + One(conn[c].timer = "DESTROY"),
         x \in Destroys(c) => conn[c].timer = "DESTROY",
         r.timer \in {conn[c].timer, "none"},
         UNCHANGED <<pool, reuse, live>>
  PROVE  /\ Conserved(hands, pool', reuse', live', conn', q', held, W, H)
         /\ OutsideOnlyCloses
         /\ Posts(q, q')
<1>1. /\ conn \in [Conns -> CleanRecord] /\ q \in Seq(H) /\ GoodConns(pool, conn, q, held, W)
      /\ x \in H
  BY HandlerSets DEF Conserved
<1>2. conn' \in [Conns -> CleanRecord] /\ conn'[c] = r /\ \A d \in Conns \ {c} : conn'[d] = conn[d]
  BY <1>1
<1>3. /\ q' \in Seq(H)
      /\ \A A : Pending(q', held, A) = Pending(q, held, A) + One(x \in A)
  BY <1>1, PostingOne
<1>4. GoodConn(c, pool, conn', q', held, W)
  <2>1. GoodConn(c, pool, conn, q, held, W)
    BY <1>1 DEF GoodConns
  <2>2. Destroys(c) \subseteq Moving(c)
    BY HandlerSets
  <2>3. /\ Pending(q', held, Moving(c)) = Pending(q, held, Moving(c)) + One(x \in Moving(c))
        /\ Pending(q', held, Destroys(c)) = Pending(q, held, Destroys(c)) + One(x \in Destroys(c))
    BY <1>3
  <2>4. /\ One(x \in Moving(c)) \in Nat /\ One(x \in Destroys(c)) \in Nat
        /\ One(x \in Destroys(c)) <= One(x \in Moving(c))
        /\ One(r.op # "none") \in Nat /\ One(r.timer = "DESTROY") \in Nat
        /\ One(conn[c].op # "none") \in Nat /\ One(conn[c].timer = "DESTROY") \in Nat
        /\ One(c \in W) \in Nat
    BY <2>2 DEF One
  <2>5. c \in pool => One(r.op # "none") + One(r.timer = "DESTROY")
                        + Pending(q', held, Moving(c)) + One(c \in W) = 1
    BY <2>1, <2>3, <2>4 DEF GoodConn, Good
  <2>6. c \notin pool => r.op = "none" /\ r.timer = "none" /\ Pending(q', held, Moving(c)) = 0
    BY <2>1, <2>3, <2>4 DEF GoodConn, Good, One
  <2>7. ASSUME x \in Destroys(c)
        PROVE  r.timer = "none" /\ r.sock = "closed"
    <3>1. x \in Moving(c) /\ conn[c].timer = "DESTROY"
      BY <2>2, <2>7
    <3>2. c \in pool
      BY <2>1, <3>1 DEF GoodConn, Good
    <3>3. One(x \in Moving(c)) = 1 /\ One(conn[c].timer = "DESTROY") = 1
      BY <3>1 DEF One
    <3>4. Pending(q', held, Moving(c)) # 0
      BY <2>1, <2>3, <3>3 DEF GoodConn, Good
    <3>5. One(r.timer = "DESTROY") = 0
      <4>1. Pending(q', held, Moving(c)) \in Nat
        BY <1>3, PendingIsANumber
      <4> QED
        BY <2>4, <2>5, <3>2, <3>4, <4>1
    <3>6. r.timer = "none"
      BY <3>1, <3>5 DEF One
    <3> QED
      BY <2>1, <3>1, <3>6 DEF GoodConn, Good, SameBut
  <2>8. r.sock = conn[c].sock
    BY DEF SameBut
  <2>9. Pending(q', held, Destroys(c)) # 0 => r.sock = "closed" /\ r.timer = "none"
    BY <2>1, <2>3, <2>4, <2>7, <2>8 DEF GoodConn, Good, One
  <2>10. r.timer = "DESTROY" => r.sock = "closed"
    BY <2>1, <2>8 DEF GoodConn, Good
  <2>11. /\ Pending(q', held, Moving(c)) \in Nat /\ Pending(q', held, Destroys(c)) \in Nat
         /\ Pending(q', held, Destroys(c)) <= Pending(q', held, Moving(c))
    <3>1. /\ Pending(q, held, Moving(c)) \in Nat /\ Pending(q, held, Destroys(c)) \in Nat
          /\ Pending(q, held, Destroys(c)) <= Pending(q, held, Moving(c))
      BY <2>1 DEF GoodConn, Good
    <3> DEFINE m == Pending(q, held, Moving(c))
               d == Pending(q, held, Destroys(c))
               a == One(x \in Moving(c))
               b == One(x \in Destroys(c))
    <3>2. /\ Pending(q', held, Moving(c)) = m + a /\ Pending(q', held, Destroys(c)) = d + b
          /\ m \in Nat /\ d \in Nat /\ d <= m /\ a \in Nat /\ b \in Nat /\ b <= a
      BY <2>3, <2>4, <3>1
    <3> HIDE DEF m, d, a, b
    <3> QED
      BY <3>2
  <2>12. c \notin pool => c \notin W
    BY <2>1 DEF GoodConn, Good
  <2>13. Good(c \in pool, r, Pending(q', held, Moving(c)), Pending(q', held, Destroys(c)), c \in W)
    BY <2>5, <2>6, <2>9, <2>10, <2>11, <2>12 DEF Good
  <2> QED
    BY <1>2, <2>13 DEF GoodConn
<1>5. ASSUME NEW d \in Conns \ {c}
      PROVE  GoodConn(d, pool, conn', q', held, W)
  <2>1. x \notin Moving(d) /\ x \notin Destroys(d)
    BY HandlerSets
  <2>2. GoodConn(d, pool, conn, q, held, W)
    BY <1>1 DEF GoodConns
  <2>3. /\ Pending(q', held, Moving(d)) = Pending(q, held, Moving(d))
        /\ Pending(q', held, Destroys(d)) = Pending(q, held, Destroys(d))
    BY <1>3, <2>1, <2>2 DEF One, GoodConn, Good
  <2> QED
    BY <1>2, <2>2, <2>3 DEF GoodConn
<1>6. \A d \in Conns : conn'[d].sock = conn[d].sock /\ conn'[d].ssl = conn[d].ssl
                        /\ conn'[d].sslUsed = conn[d].sslUsed
  BY <1>2 DEF SameBut
<1>7. RestClosed(hands, pool, conn')
  BY <1>6 DEF Conserved, RestClosed
<1>8. Posts(q, q')
  BY <1>1, HandlerSets, PostsOne
<1> QED
  BY <1>2, <1>3, <1>4, <1>5, <1>6, <1>7, <1>8 DEF Conserved, GoodConns, OutsideOnlyCloses

\* An operation completes.
LEMMA OpCompletesKeeps ==
  ASSUME NEW H, ConnectionHandlers \subseteq H, NEW hands, NEW W, NEW c \in Conns,
         Conserved(hands, pool, reuse, live, conn, q, held, W, H), OpCompletes(c)
  PROVE  /\ Conserved(hands, pool', reuse', live', conn', q', held, W, H)
         /\ OutsideOnlyCloses /\ Posts(q, q')
<1>1. conn \in [Conns -> CleanRecord] /\ conn[c] \in CleanRecord
  BY DEF Conserved
<1>2. PICK err \in BOOLEAN : q' = Append(q, OpHandler(c, conn[c].op, err))
  BY DEF OpCompletes
<1>3. conn[c].op \in Operations
  BY <1>1, RecordFields DEF OpCompletes
<1> DEFINE x == OpHandler(c, conn[c].op, err)
           r == WithOp(conn[c], "none")
<1>4. x \in HandlersOf(c) /\ x \in Moving(c) /\ x \notin Destroys(c)
  BY <1>3, OpHandlerIs
<1>5. r \in CleanRecord /\ r.op = "none" /\ SameBut(conn[c], r, "op")
  BY <1>1, SettingOp
<1>6. conn' = [conn EXCEPT ![c] = r] /\ q' = Append(q, x)
  BY <1>2 DEF OpCompletes, WithOp
<1> HIDE DEF x, r
<1>7. One(r.op # "none") + One(r.timer = "DESTROY") + One(x \in Moving(c))
        = One(conn[c].op # "none") + One(conn[c].timer = "DESTROY")
  BY <1>3, <1>4, <1>5, Names DEF One, SameBut
<1>8. r.timer = conn[c].timer
  BY <1>5 DEF SameBut
<1>9. UNCHANGED <<pool, reuse, live>>
  BY DEF OpCompletes
<1> QED
  BY <1>4, <1>5, <1>6, <1>7, <1>8, <1>9, CompletionPosts

\* A wait ends.
LEMMA TimerExpiresKeeps ==
  ASSUME NEW H, ConnectionHandlers \subseteq H, NEW hands, NEW W, NEW c \in Conns,
         Conserved(hands, pool, reuse, live, conn, q, held, W, H), TimerExpires(c)
  PROVE  /\ Conserved(hands, pool', reuse', live', conn', q', held, W, H)
         /\ OutsideOnlyCloses /\ Posts(q, q')
<1>1. conn \in [Conns -> CleanRecord] /\ conn[c] \in CleanRecord
  BY DEF Conserved
<1>3. conn[c].timer \in Waits
  BY <1>1, RecordFields DEF TimerExpires
<1> DEFINE x == TimerHandler(c, conn[c].timer, FALSE)
           r == WithTimer(conn[c], "none")
<1>4. /\ x \in HandlersOf(c)
      /\ (x \in Moving(c)) <=> (conn[c].timer = "DESTROY")
      /\ (x \in Destroys(c)) <=> (conn[c].timer = "DESTROY")
  BY <1>3, TimerHandlerIs
<1>5. r \in CleanRecord /\ r.timer = "none" /\ SameBut(conn[c], r, "timer")
  BY <1>1, SettingTimer
<1>6. conn' = [conn EXCEPT ![c] = r] /\ q' = Append(q, x)
  BY DEF TimerExpires, WithTimer
<1> HIDE DEF x, r
<1>7. One(r.op # "none") + One(r.timer = "DESTROY") + One(x \in Moving(c))
        = One(conn[c].op # "none") + One(conn[c].timer = "DESTROY")
  BY <1>3, <1>4, <1>5, Names DEF One, SameBut
<1>9. UNCHANGED <<pool, reuse, live>>
  BY DEF TimerExpires
<1> QED
  BY <1>4, <1>5, <1>6, <1>7, <1>9, CompletionPosts

\* What is pending stays pending.
SamePending(s, h, s2, h2) == \A A : NoHandler \notin A => Pending(s2, h2, A) = Pending(s, h, A)

\* A handler that is taken is still pending.
LEMMA TakeKeeps ==
  ASSUME NEW H, ConnectionHandlers \subseteq H, NEW hands, NEW W, NEW t \in Threads,
         NEW T, held \in [Threads -> T],
         Conserved(hands, pool, reuse, live, conn, q, held, W, H), TakeHandler(t)
  PROVE  /\ Conserved(hands, pool', reuse', live', conn', q', held', W, H)
         /\ UNCHANGED connVars /\ SamePending(q, held, q', held')
<1>1. /\ q \in Seq(H) /\ q # <<>> /\ held[t] = NoHandler
      /\ held' = [held EXCEPT ![t] = Head(q)] /\ q' = Tail(q) /\ UNCHANGED connVars
  BY DEF Conserved, TakeHandler
<1>2. held'[t] = Head(q) /\ \A u \in Threads \ {t} : held'[u] = held[u]
  BY <1>1
<1>3. ASSUME NEW A, NoHandler \notin A
      PROVE  Pending(q', held', A) = Pending(q, held, A)
  <2> DEFINE g == held'
             p == q'
  <2>1. g[t] = Head(q) /\ (\A u \in Threads \ {t} : g[u] = held[u]) /\ p = Tail(q)
    BY <1>1, <1>2
  <2> HIDE DEF g, p
  <2>2. Pending(Tail(q), g, A) = Pending(q, held, A)
    BY <1>1, <1>3, <2>1, TakingKeeps
  <2> QED
    BY <2>1, <2>2 DEF g, p
<1>4. q' \in Seq(H)
  BY <1>1, HeadTailProperties
<1>5. UNCHANGED <<pool, reuse, live, conn>>
  BY <1>1 DEF connVars
<1>6. ASSUME NEW d \in Conns
      PROVE  GoodConn(d, pool', conn', q', held', W)
  <2>1. GoodConn(d, pool, conn, q, held, W)
    BY DEF Conserved, GoodConns
  <2>2. NoHandler \notin Moving(d) /\ NoHandler \notin Destroys(d)
    BY HandlerSets
  <2>3. /\ Pending(q', held', Moving(d)) = Pending(q, held, Moving(d))
        /\ Pending(q', held', Destroys(d)) = Pending(q, held, Destroys(d))
    BY <1>3, <2>2
  <2> QED
    BY <1>5, <2>1, <2>3 DEF GoodConn
<1>7. SamePending(q, held, q', held')
  BY <1>3 DEF SamePending
<1> QED
  BY <1>1, <1>4, <1>5, <1>6, <1>7 DEF Conserved, GoodConns

\* clear_all_reuse_connections() frees only what is parked.
LEMMA ClearKeeps ==
  ASSUME NEW H, NEW hands, NEW W,
         Conserved(hands, pool, reuse, live, conn, q, held, W, H), ClearReuse
  PROVE  /\ Conserved(hands, pool', reuse', live', conn', q', held', W, H)
         /\ UNCHANGED <<pool, conn, q, held>> /\ reuse' = <<>> /\ Range(reuse') = {}
<1>1. reuse' = <<>> /\ live' = live \ Range(reuse) /\ UNCHANGED <<pool, conn, q, held>>
  BY DEF ClearReuse
<1>2. <<>> \in Seq(Conns) /\ Len(<<>>) = 0 /\ NoDuplicates(<<>>) /\ Range(<<>>) = {}
  BY EmptySeq DEF NoDuplicates, Range
<1>3. Owned(hands, pool, <<>>, live')
  BY <1>1, <1>2, LimitsAssumption DEF Conserved, Owned
<1> QED
  BY <1>1, <1>2, <1>3 DEF Conserved

\* stop() closes what is pooled: each socket loses its operation, whose handler
\* is posted instead.
Aborts(h, d) == h \in HandlersOf(d) /\ h \in Moving(d) /\ h \notin Destroys(d)

\* The handler of an aborted operation.
LEMMA AbortedIsHandler ==
  ASSUME NEW d \in Conns, NEW r \in CleanRecord, r.op # "none"
  PROVE  Aborts(OpHandler(d, r.op, TRUE), d)
<1>1. r.op \in Operations
  BY RecordFields
<1> QED
  BY <1>1, OpHandlerIs DEF Aborts

\* It concerns its own connection alone.
LEMMA AbortsOnly ==
  ASSUME NEW d, NEW h, Aborts(h, d), NEW c
  PROVE  h \in ConnectionHandlers /\ (h \in Moving(c) <=> d = c) /\ h \notin Destroys(c)
<1>1. h \in ConnectionHandlers
  BY HandlerSets DEF Aborts
<1>2. d # c => h \notin HandlersOf(c)
  BY HandlerSets DEF Aborts
<1>3. Moving(c) \subseteq HandlersOf(c) /\ Destroys(c) \subseteq Moving(c)
  BY HandlerSets
<1> QED
  BY <1>1, <1>2, <1>3 DEF Aborts

\* What close_all_connections() posts are such handlers, one for each operation.
LEMMA AbortedAreHandlers ==
  ASSUME NEW S, S \subseteq Conns, NEW cn \in [Conns -> CleanRecord],
         \A c \in S : cn[c].op # "none", NEW order \in SetToSeqs(S)
  PROVE  LET s == [i \in DOMAIN order |-> OpHandler(order[i], cn[order[i]].op, TRUE)]
         IN  s \in Seq(ConnectionHandlers) /\ \A i \in DOMAIN order : Aborts(s[i], order[i])
<1> DEFINE n == Cardinality(S)
           s == [i \in DOMAIN order |-> OpHandler(order[i], cn[order[i]].op, TRUE)]
<1>1. n \in Nat
  <2>1. IsFiniteSet(S)
    BY ConnsAssumption, FS_Subset
  <2> QED
    BY <2>1, FS_CardinalityType
<1>2. order \in [1 .. n -> S]
  BY DEF SetToSeqs
<1>3. DOMAIN order = 1 .. n
  BY <1>2
<1> HIDE DEF n
<1>4. \A i \in 1 .. n : s[i] = OpHandler(order[i], cn[order[i]].op, TRUE)
  BY <1>3
<1>5. DOMAIN s = 1 .. n /\ s = [i \in DOMAIN s |-> s[i]]
  BY <1>3
<1> HIDE DEF s
<1>6. ASSUME NEW i \in 1 .. n
      PROVE  Aborts(s[i], order[i]) /\ s[i] \in ConnectionHandlers
  <2> DEFINE d == order[i]
             r == cn[d]
             h == OpHandler(d, r.op, TRUE)
  <2>1. d \in S
    BY <1>2
  <2>2. s[i] = h
    BY <1>4
  <2> HIDE DEF d
  <2>3. d \in Conns /\ r \in CleanRecord /\ r.op # "none"
    BY <2>1
  <2> HIDE DEF r
  <2>4. Aborts(h, d)
    BY <2>3, AbortedIsHandler
  <2> HIDE DEF h
  <2>5. h \in ConnectionHandlers
    BY <2>4, AbortsOnly
  <2> QED
    BY <2>2, <2>4, <2>5 DEF d
<1>7. s \in [1 .. n -> ConnectionHandlers]
  BY <1>5, <1>6
<1>8. s \in Seq(ConnectionHandlers) /\ \A i \in DOMAIN order : Aborts(s[i], order[i])
  BY <1>1, <1>3, <1>6, <1>7, SeqDef
<1> QED
  BY <1>8 DEF s

\* Each connection with an operation has one of them.
LEMMA AbortedInOrder ==
  ASSUME NEW S, S \subseteq Conns,
         NEW order \in SetToSeqs(S), NEW s \in Seq(ConnectionHandlers),
         DOMAIN s = DOMAIN order, \A i \in DOMAIN order : Aborts(s[i], order[i]),
         NEW c
  PROVE  Hits(s, Moving(c)) = One(c \in S) /\ Hits(s, Destroys(c)) = 0
<1>1. IsFiniteSet(S)
  BY ConnsAssumption, FS_Subset
<1> DEFINE A == Moving(c)
           B == Destroys(c)
<1>2. \A i \in DOMAIN order : (s[i] \in A <=> order[i] = c) /\ s[i] \notin B
  BY AbortsOnly
<1> HIDE DEF A, B
<1>3. \A i \in DOMAIN order : s[i] \in A <=> order[i] = c
  BY <1>2
<1>4. Hits(s, A) = One(c \in S)
  BY <1>1, <1>3, HitsInOrder
<1>5. Hits(s, B) = 0
  BY <1>2, NoHits
<1> QED
  BY <1>4, <1>5 DEF A, B

\* close_all_connections() keeps what is conserved: the handler of an aborted
\* operation takes the place of the operation.
LEMMA CloseAllKeeps ==
  ASSUME NEW H, ConnectionHandlers \subseteq H, NEW hands, NEW W, NEW others \in Seq(H),
         \A i \in DOMAIN others : others[i] \notin ConnectionHandlers,
         Conserved(hands, pool, reuse, live, conn, q, held, W, H),
         CloseAll(others), UNCHANGED <<pool, reuse, live>>
  PROVE  /\ Conserved(hands, pool', reuse', live', conn', q', held, W, H)
         /\ \A d \in Conns \ pool : conn'[d] = conn[d]
         /\ Posts(q \o others, q')
<1> DEFINE S == { c \in pool : conn[c].op # "none" }
<1>1. /\ conn \in [Conns -> CleanRecord] /\ q \in Seq(H) /\ pool \subseteq Conns
      /\ GoodConns(pool, conn, q, held, W) /\ RestClosed(hands, pool, conn)
      /\ Owned(hands, pool, reuse, live)
  BY DEF Conserved, Owned
<1>2. PICK order \in SetToSeqs(S) :
         q' = q \o others \o [i \in DOMAIN order |-> OpHandler(order[i], conn[order[i]].op, TRUE)]
  BY DEF CloseAll
<1> DEFINE s == [i \in DOMAIN order |-> OpHandler(order[i], conn[order[i]].op, TRUE)]
           w == q \o others
<1>3. q' = w \o s
  BY <1>2
<1>4. S \subseteq Conns /\ \A c \in S : conn[c].op # "none"
  BY <1>1
<1>5. /\ s \in Seq(ConnectionHandlers)
      /\ \A c \in Conns : Hits(s, Moving(c)) = One(c \in S) /\ Hits(s, Destroys(c)) = 0
  <2>1. DOMAIN s = DOMAIN order
    OBVIOUS
  <2> HIDE DEF S
  <2>2. s \in Seq(ConnectionHandlers) /\ \A i \in DOMAIN order : Aborts(s[i], order[i])
    BY <1>1, <1>4, AbortedAreHandlers
  <2> HIDE DEF s
  <2>3. ASSUME NEW c \in Conns
        PROVE  Hits(s, Moving(c)) = One(c \in S) /\ Hits(s, Destroys(c)) = 0
    BY <1>4, <2>1, <2>2, AbortedInOrder
  <2> QED
    BY <2>2, <2>3
<1>6. \A c \in Conns : c \in S <=> c \in pool /\ conn[c].op # "none"
  OBVIOUS
<1> HIDE DEF s, S
<1>7. s \in Seq(H)
  BY <1>5, SeqMonotonic
<1>8. ASSUME NEW c \in Conns
      PROVE  Hits(others, Moving(c)) = 0 /\ Hits(others, Destroys(c)) = 0
  <2>1. \A i \in DOMAIN others : others[i] \notin Moving(c) /\ others[i] \notin Destroys(c)
    BY HandlerSets
  <2> QED
    BY <2>1, NoHits
<1>9. w \in Seq(H) /\ q' \in Seq(H)
  BY <1>1, <1>3, <1>7, ConcatProperties
<1>10. \A A : Hits(q', A) = Hits(q, A) + Hits(others, A) + Hits(s, A)
  <2> TAKE A
  <2>1. Hits(w, A) = Hits(q, A) + Hits(others, A)
    BY <1>1, HitsInConcat
  <2> HIDE DEF w
  <2>2. Hits(w \o s, A) = Hits(w, A) + Hits(s, A)
    BY <1>7, <1>9, HitsInConcat
  <2> QED
    BY <1>3, <2>1, <2>2
<1> HIDE DEF w
<1>11. ASSUME NEW c \in Conns
       PROVE  /\ Pending(q', held, Moving(c)) = Pending(q, held, Moving(c)) + One(c \in S)
              /\ Pending(q', held, Destroys(c)) = Pending(q, held, Destroys(c))
  <2>1. /\ Hits(q', Moving(c)) = Hits(q, Moving(c)) + One(c \in S)
        /\ Hits(q', Destroys(c)) = Hits(q, Destroys(c))
    <3>1. Hits(q, Moving(c)) \in Nat /\ Hits(q, Destroys(c)) \in Nat /\ One(c \in S) \in Nat
      BY <1>1, PositionsAreFinite DEF One
    <3>2. /\ Hits(q', Moving(c)) = Hits(q, Moving(c)) + Hits(others, Moving(c)) + Hits(s, Moving(c))
          /\ Hits(q', Destroys(c)) = Hits(q, Destroys(c)) + Hits(others, Destroys(c)) + Hits(s, Destroys(c))
      BY <1>10
    <3> QED
      BY <1>5, <1>8, <3>1, <3>2
  <2>2. /\ Hits(q, Moving(c)) \in Nat /\ One(c \in S) \in Nat
        /\ HeldHits(held, Moving(c)) \in Nat
    BY <1>1, PositionsAreFinite, ThreadsAreFinite DEF One
  <2> QED
    BY <2>1, <2>2 DEF Pending
<1>12. ASSUME NEW c \in Conns
       PROVE  conn'[c] = IF c \in pool THEN CloseSocket(Item(c, conn[c])).r ELSE conn[c]
  BY DEF CloseAll
<1>13. ASSUME NEW c \in pool
       PROVE  /\ conn'[c] \in CleanRecord /\ conn'[c].sock = "closed" /\ conn'[c].op = "none"
              /\ conn'[c].timer = conn[c].timer
  <2> DEFINE i == Item(c, conn[c])
             y == CloseSocket(i)
  <2>1. c \in Conns /\ i \in Items(c) /\ i.r = conn[c]
    BY <1>1, NewItem
  <2>2. conn'[c] = y.r
    BY <1>12, <2>1
  <2> HIDE DEF i
  <2>3. y \in Items(c) /\ y.r.sock = "closed" /\ y.r.op = "none" /\ y.r.timer = i.r.timer
    BY <2>1, CloseKeeps
  <2> HIDE DEF y
  <2> QED
    BY <2>1, <2>2, <2>3, ItemFields
<1>14. conn' \in [Conns -> CleanRecord] /\ \A d \in Conns \ pool : conn'[d] = conn[d]
  <2>1. conn' = [c \in Conns |-> conn'[c]]
    BY DEF CloseAll
  <2>2. \A c \in Conns : conn'[c] \in CleanRecord
    BY <1>1, <1>12, <1>13
  <2> QED
    BY <1>12, <2>1, <2>2
<1>15. ASSUME NEW c \in Conns
       PROVE  GoodConn(c, pool, conn', q', held, W)
  <2>1. GoodConn(c, pool, conn, q, held, W)
    BY <1>1 DEF GoodConns
  <2>2. /\ Pending(q, held, Moving(c)) \in Nat /\ Pending(q, held, Destroys(c)) \in Nat
        /\ Pending(q, held, Destroys(c)) <= Pending(q, held, Moving(c))
    BY <2>1 DEF GoodConn, Good
  <2>3. CASE c \in pool
    <3>1. One(c \in S) = One(conn[c].op # "none")
      BY <1>6, <2>3 DEF One
    <3>2. One(conn'[c].op # "none") = 0 /\ One(conn'[c].timer = "DESTROY") = One(conn[c].timer = "DESTROY")
      BY <1>13, <2>3 DEF One
    <3>3. /\ One(conn[c].op # "none") \in Nat /\ One(conn[c].timer = "DESTROY") \in Nat
          /\ One(c \in W) \in Nat
      BY DEF One
    <3>4. One(conn[c].op # "none") + One(conn[c].timer = "DESTROY") + Pending(q, held, Moving(c)) + One(c \in W) = 1
      BY <2>1, <2>3 DEF GoodConn, Good
    <3>5. One(conn'[c].op # "none") + One(conn'[c].timer = "DESTROY") + Pending(q', held, Moving(c)) + One(c \in W) = 1
      BY <1>11, <2>2, <3>1, <3>2, <3>3, <3>4
    <3>6. Pending(q', held, Moving(c)) \in Nat /\ Pending(q', held, Destroys(c)) <= Pending(q', held, Moving(c))
      BY <1>11, <2>2, <3>1, <3>3
    <3> QED
      BY <1>11, <1>13, <2>1, <2>2, <2>3, <3>5, <3>6 DEF GoodConn, Good
  <2>4. CASE c \notin pool
    <3>1. conn'[c] = conn[c] /\ One(c \in S) = 0
      BY <1>6, <1>14, <2>4 DEF One
    <3>2. /\ Pending(q', held, Moving(c)) = Pending(q, held, Moving(c))
          /\ Pending(q', held, Destroys(c)) = Pending(q, held, Destroys(c))
      BY <1>11, <2>2, <3>1
    <3> QED
      BY <2>1, <3>1, <3>2 DEF GoodConn
  <2> QED
    BY <2>3, <2>4
<1>16. RestClosed(hands, pool, conn')
  BY <1>1, <1>14 DEF RestClosed
<1>17. Posts(q \o others, q')
  BY <1>3, <1>5 DEF Posts, w
<1> QED
  BY <1>1, <1>9, <1>14, <1>15, <1>16, <1>17 DEF Conserved, GoodConns

\* Nothing is allocated when the manager is made.
LEMMA NothingYet ==
  ASSUME NEW H, ManagerInit
  PROVE  Conserved({}, pool, reuse, live, conn, q, held, {}, H)
<1>1. /\ pool = {} /\ reuse = <<>> /\ live = {} /\ q = <<>>
      /\ conn = [c \in Conns |-> NewConnection] /\ held = [t \in Threads |-> NoHandler]
  BY DEF ManagerInit
<1>2. /\ NewConnection \in CleanRecord /\ NewConnection.op = "none" /\ NewConnection.timer = "none"
      /\ NewConnection.sock = "closed"
  BY DEF NewConnection, CleanRecord, ConnectionRecord
<1>3. conn \in [Conns -> CleanRecord] /\ \A c \in Conns : conn[c] = NewConnection
  BY <1>1, <1>2
<1>4. q \in Seq(H) /\ reuse \in Seq(Conns) /\ Len(reuse) = 0 /\ NoDuplicates(reuse) /\ Range(reuse) = {}
  BY <1>1, EmptySeq DEF NoDuplicates, Range
<1>5. Owned({}, pool, reuse, live)
  BY <1>1, <1>4, LimitsAssumption DEF Owned
<1>6. ASSUME NEW c \in Conns
      PROVE  GoodConn(c, pool, conn, q, held, {})
  <2>1. \A t \in Threads : held[t] \notin Moving(c) /\ held[t] \notin Destroys(c)
    BY <1>1, HandlerSets
  <2>2. \A i \in DOMAIN q : q[i] \notin Moving(c) /\ q[i] \notin Destroys(c)
    BY <1>1
  <2>3. Pending(q, held, Moving(c)) = 0 /\ Pending(q, held, Destroys(c)) = 0
    BY <1>4, <2>1, <2>2, NothingPending
  <2> QED
    BY <1>1, <1>2, <1>3, <2>3 DEF GoodConn, Good
<1>7. RestClosed({}, pool, conn)
  BY <1>2, <1>3 DEF RestClosed
<1> QED
  BY <1>3, <1>4, <1>5, <1>6, <1>7 DEF Conserved, GoodConns

-----------------------------------------------------------------------------
(* What is conserved, in the words of the properties *)

\* What the invariant says in the terms of the properties.
LEMMA ConservedTypes ==
  ASSUME NEW H, NEW hands, NEW W, Conserved(hands, pool, reuse, live, conn, q, held, W, H),
         phase \in Phases, held \in [Threads -> H \cup {NoHandler}]
  PROVE  ManagerTypeOK(H)
<1>1. Owned(hands, pool, reuse, live) /\ conn \in [Conns -> CleanRecord] /\ q \in Seq(H)
  BY DEF Conserved
<1>2. pool \subseteq Conns /\ reuse \in Seq(Conns) /\ live \subseteq Conns
  BY <1>1, ParkedAreConns DEF Owned
<1>3. conn \in [Conns -> ConnectionRecord]
  BY <1>1 DEF CleanRecord
<1> QED
  BY <1>1, <1>2, <1>3 DEF ManagerTypeOK

LEMMA ConservedOwners ==
  ASSUME NEW H, NEW hands, NEW W, Conserved(hands, pool, reuse, live, conn, q, held, W, H)
  PROVE  OwnedOnceWith(hands)
<1>1. Owned(hands, pool, reuse, live)
  BY DEF Conserved
<1>2. Cardinality(Range(reuse)) = Len(reuse)
  BY <1>1, DistinctItems DEF Owned
<1> QED
  BY <1>1, <1>2 DEF OwnedOnceWith, Owned

LEMMA ContinuationsCounted ==
  ASSUME NEW H, q \in Seq(H), held \in [Threads -> H \cup {NoHandler}], NEW c,
         \A h \in H : Continues(h, c) => h \in ConnectionHandlers
  PROVE  Continuations(c) = One(conn[c].op # "none") + One(conn[c].timer = "DESTROY")
                                + Pending(q, held, Moving(c))
<1>1. \A h \in H \cup {NoHandler} : Continues(h, c) <=> h \in Moving(c)
  BY DEF Moving, NoHandler, Continues, Of
<1>2. \A i \in DOMAIN q : q[i] \in H
  BY LenProperties, ElementOfSeq
<1>3. { i \in DOMAIN q : Continues(q[i], c) } = { i \in DOMAIN q : q[i] \in Moving(c) }
  BY <1>1, <1>2
<1>4. { t \in Threads : Continues(held[t], c) } = { t \in Threads : held[t] \in Moving(c) }
  BY <1>1
<1>5. Hits(q, Moving(c)) \in Nat /\ HeldHits(held, Moving(c)) \in Nat
  BY PositionsAreFinite, ThreadsAreFinite
<1>6. /\ Cardinality({ i \in DOMAIN q : Continues(q[i], c) }) = Hits(q, Moving(c))
      /\ Cardinality({ t \in Threads : Continues(held[t], c) }) = HeldHits(held, Moving(c))
  BY <1>3, <1>4 DEF Hits, HeldHits
<1>7. Continuations(c) = One(conn[c].op # "none") + One(conn[c].timer = "DESTROY")
                              + Hits(q, Moving(c)) + HeldHits(held, Moving(c))
  BY <1>5, <1>6 DEF Continuations, One
<1> QED
  BY <1>5, <1>7 DEF Pending, One

LEMMA ConservedContinues ==
  ASSUME NEW H, NEW hands, NEW W, Conserved(hands, pool, reuse, live, conn, q, held, W, H),
         held \in [Threads -> H \cup {NoHandler}], NEW c \in pool,
         \A h \in H : Continues(h, c) => h \in ConnectionHandlers
  PROVE  Continuations(c) + One(c \in W) = 1
<1>1. c \in Conns /\ q \in Seq(H) /\ GoodConn(c, pool, conn, q, held, W)
  BY DEF Conserved, Owned, GoodConns
<1>2. Continuations(c) = One(conn[c].op # "none") + One(conn[c].timer = "DESTROY")
                                + Pending(q, held, Moving(c))
  BY <1>1, ContinuationsCounted
<1> QED
  BY <1>1, <1>2 DEF GoodConn, Good

-----------------------------------------------------------------------------
(* What a step does in the terms of ConnectionPool *)

PlaceOf(hands, pl, ru) ==
    [c \in Conns |-> CASE c \in pl        -> "pool"
                      [] c \in Range(ru) -> "reuse"
                      [] c \in hands     -> "held"
                      [] OTHER           -> "none"]
OpenIn(cn) == [c \in Conns |-> cn[c].sock = "open"]
At(p, where) == { c \in Conns : p[c] = where }

\* The abstract step, with its states as parameters.
PoolAction(p, o, p2, o2, limit) ==
    /\ p2 \in [Conns -> {"none", "held", "pool", "reuse"}] /\ o2 \in [Conns -> BOOLEAN]
    /\ \A c \in Conns : p2[c] # p[c] =>
          /\ <<p[c], p2[c]>> \in { <<"none", "held">>, <<"reuse", "held">>, <<"held", "pool">>,
                                   <<"held", "none">>, <<"pool", "reuse">>, <<"pool", "none">>,
                                   <<"reuse", "none">> }
          /\ p[c] = "pool" => ~o[c]
    /\ At(p2, "pool") \ At(p, "pool") # {} =>
          /\ Cardinality(At(p2, "pool") \ At(p, "pool")) = 1
          /\ limit # 0 => Cardinality(At(p2, "pool")) <= limit
    /\ \A c \in Conns : p2[c] \in {"none", "reuse"} => ~o2[c]
    /\ Cardinality(At(p2, "reuse")) <= MaxReuse

\* The place of a connection tells where it is.
LEMMA PlacesAre ==
  ASSUME NEW hands, NEW pl, NEW ru, NEW lv, Owned(hands, pl, ru, lv), NEW p, p = PlaceOf(hands, pl, ru)
  PROVE  /\ p \in [Conns -> {"none", "held", "pool", "reuse"}]
         /\ \A c \in Conns : /\ (p[c] = "pool") <=> (c \in pl)
                             /\ (p[c] = "reuse") <=> (c \in Range(ru))
                             /\ (p[c] = "held") <=> (c \in hands)
         /\ At(p, "pool") = pl /\ At(p, "reuse") = Range(ru)
<1>1. \A c \in Conns : p[c] = IF c \in pl THEN "pool" ELSE IF c \in Range(ru) THEN "reuse"
                              ELSE IF c \in hands THEN "held" ELSE "none"
  BY DEF PlaceOf, Owned
<1>2. p \in [Conns -> {"none", "held", "pool", "reuse"}]
  <2>1. p = [c \in Conns |-> p[c]]
    BY DEF PlaceOf
  <2> QED
    BY <1>1, <2>1
<1>3. pl \subseteq Conns /\ Range(ru) \subseteq Conns
      /\ hands \cap pl = {} /\ hands \cap Range(ru) = {} /\ pl \cap Range(ru) = {}
  BY ParkedAreConns DEF Owned
<1>4. \A c \in Conns : /\ (p[c] = "pool") <=> (c \in pl)
                       /\ (p[c] = "reuse") <=> (c \in Range(ru))
                       /\ (p[c] = "held") <=> (c \in hands)
  BY <1>1, <1>3
<1>5. At(p, "pool") = pl /\ At(p, "reuse") = Range(ru)
  BY <1>3, <1>4 DEF At
<1> QED
  BY <1>2, <1>4, <1>5

\* What the places and the sockets may do is what ConnectionPool allows.
LEMMA PoolStep ==
  ASSUME NEW hands, NEW pl, NEW ru, NEW lv, Owned(hands, pl, ru, lv), NEW cn,
         NEW hands2, NEW pl2, NEW ru2, NEW lv2, Owned(hands2, pl2, ru2, lv2),
         NEW cn2, RestClosed(hands2, pl2, cn2), NEW limit,
         pl2 \ pl \subseteq hands, hands2 \cap pl = {}, Range(ru2) \subseteq Range(ru) \cup pl,
         \A c \in pl \ pl2 : cn[c].sock = "closed",
         \A c, d \in pl2 \ pl : c = d,
         (pl2 \ pl # {} /\ limit # 0) => Cardinality(pl2) <= limit
  PROVE  PoolAction(PlaceOf(hands, pl, ru), OpenIn(cn), PlaceOf(hands2, pl2, ru2), OpenIn(cn2), limit)
<1> DEFINE p == PlaceOf(hands, pl, ru)
           p2 == PlaceOf(hands2, pl2, ru2)
           o == OpenIn(cn)
           o2 == OpenIn(cn2)
           Places == {"none", "held", "pool", "reuse"}
<1>1. /\ p \in [Conns -> Places]
      /\ \A c \in Conns : /\ (p[c] = "pool") <=> (c \in pl)
                          /\ (p[c] = "reuse") <=> (c \in Range(ru))
                          /\ (p[c] = "held") <=> (c \in hands)
      /\ At(p, "pool") = pl
  BY PlacesAre
<1>2. /\ p2 \in [Conns -> Places]
      /\ \A c \in Conns : /\ (p2[c] = "pool") <=> (c \in pl2)
                          /\ (p2[c] = "reuse") <=> (c \in Range(ru2))
                          /\ (p2[c] = "held") <=> (c \in hands2)
      /\ At(p2, "pool") = pl2 /\ At(p2, "reuse") = Range(ru2)
  BY PlacesAre
<1>3. /\ o2 \in [Conns -> BOOLEAN]
      /\ \A c \in Conns : (o[c] <=> cn[c].sock = "open") /\ (o2[c] <=> cn2[c].sock = "open")
  BY DEF OpenIn
<1>4. /\ hands \cap pl = {} /\ hands \cap Range(ru) = {} /\ pl \cap Range(ru) = {}
      /\ hands2 \cap pl2 = {} /\ hands2 \cap Range(ru2) = {} /\ pl2 \cap Range(ru2) = {}
      /\ pl \subseteq Conns /\ pl2 \subseteq Conns
  BY DEF Owned
<1>5. Cardinality(Range(ru2)) <= MaxReuse
  <2>1. Cardinality(Range(ru2)) = Len(ru2)
    BY DistinctItems DEF Owned
  <2> QED
    BY <2>1 DEF Owned
<1> HIDE DEF p, p2, o, o2
<1>6. ASSUME NEW c \in Conns, p2[c] # p[c]
      PROVE  /\ <<p[c], p2[c]>> \in { <<"none", "held">>, <<"reuse", "held">>, <<"held", "pool">>,
                                      <<"held", "none">>, <<"pool", "reuse">>, <<"pool", "none">>,
                                      <<"reuse", "none">> }
             /\ p[c] = "pool" => ~o[c]
  <2>1. p[c] \in Places /\ p2[c] \in Places
    BY <1>1, <1>2
  <2>2. p2[c] = "pool" => p[c] = "held"
    BY <1>1, <1>2, <1>6
  <2>3. p2[c] = "held" => p[c] # "pool"
    BY <1>1, <1>2
  <2>4. p2[c] = "reuse" => p[c] = "pool"
    BY <1>1, <1>2, <1>6
  <2>5. p[c] = "pool" => ~o[c]
    BY <1>1, <1>2, <1>3, <1>6
  <2> QED
    BY <1>6, <2>1, <2>2, <2>3, <2>4, <2>5
<1>7. ASSUME pl2 \ pl # {}
      PROVE  Cardinality(pl2 \ pl) = 1
  <2> PICK c \in pl2 \ pl : TRUE
    BY <1>7
  <2>1. pl2 \ pl = {c}
    OBVIOUS
  <2> QED
    BY <2>1, FS_Singleton
<1>8. \A c \in Conns : p2[c] \in {"none", "reuse"} => ~o2[c]
  <2> SUFFICES ASSUME NEW c \in Conns, p2[c] \in {"none", "reuse"} PROVE ~o2[c]
    OBVIOUS
  <2>1. c \notin pl2 /\ c \notin hands2
    BY <1>2
  <2>2. cn2[c].sock = "closed"
    BY <2>1 DEF RestClosed
  <2> QED
    BY <1>3, <2>2
<1>9. PoolAction(p, o, p2, o2, limit)
  BY <1>1, <1>2, <1>3, <1>5, <1>6, <1>7, <1>8 DEF PoolAction
<1> QED
  BY <1>9 DEF p, o, p2, o2

-----------------------------------------------------------------------------
(* Who creates a connection, and handlers that are not of a connection *)

\* A created object joins those in hand.
LEMMA CreateConserves ==
  ASSUME NEW H, NEW hands, NEW W, NEW pl, NEW ru, NEW lv, NEW cn, NEW s, NEW h,
         Conserved(hands, pl, ru, lv, cn, s, h, W, H),
         NEW n, n \in create_connection(ru, lv, cn)
  PROVE  /\ Conserved(hands \cup {n.c}, pl, n.reuse, n.live, n.conn, s, h, W, H)
         /\ Created(n, hands, pl, ru, cn)
<1>1. /\ Owned(hands, pl, ru, lv) /\ cn \in [Conns -> CleanRecord] /\ RestClosed(hands, pl, cn)
      /\ s \in Seq(H) /\ GoodConns(pl, cn, s, h, W)
  BY DEF Conserved
<1>2. \A d \in Conns : GoodConn(d, pl, cn, s, h, W)
  BY <1>1 DEF GoodConns
<1>3. RestIdle(pl, cn)
  BY <1>2 DEF GoodConn, Good, RestIdle
<1>4. Created(n, hands, pl, ru, cn)
  BY <1>1, <1>3, Creates
<1> DEFINE c == n.c
           cn2 == n.conn
<1>5. /\ c \in Conns \ (hands \cup pl) /\ cn2 \in [Conns -> CleanRecord]
      /\ Owned(hands \cup {c}, pl, n.reuse, n.live)
      /\ \A d \in Conns \ {c} : cn2[d] = cn[d]
      /\ cn2[c].op = "none" /\ cn2[c].timer = "none" /\ cn2[c].sock = "closed"
  BY <1>4 DEF Created
<1> HIDE DEF c, cn2
<1>6. GoodConns(pl, cn2, s, h, W)
  <2> SUFFICES ASSUME NEW d \in Conns PROVE GoodConn(d, pl, cn2, s, h, W)
    BY DEF GoodConns
  <2>1. GoodConn(d, pl, cn, s, h, W)
    BY <1>2
  <2>2. CASE d = c
    BY <1>5, <2>1, <2>2 DEF GoodConn, Good
  <2>3. CASE d # c
    BY <1>5, <2>1, <2>3 DEF GoodConn
  <2> QED
    BY <2>2, <2>3
<1>7. RestClosed(hands \cup {c}, pl, cn2)
  BY <1>1, <1>5 DEF RestClosed
<1>8. Conserved(hands \cup {c}, pl, n.reuse, n.live, cn2, s, h, W, H)
  BY <1>1, <1>5, <1>6, <1>7 DEF Conserved
<1> QED
  BY <1>4, <1>8 DEF c, cn2

\* Where the handlers of the connections are is all that counts.
LEMMA SameMoving ==
  ASSUME NEW H, NEW hands, NEW W, NEW pl, NEW ru, NEW lv, NEW cn, NEW s, NEW h,
         Conserved(hands, pl, ru, lv, cn, s, h, W, H), NEW s2 \in Seq(H), NEW h2,
         \A A : A \subseteq ConnectionHandlers => Pending(s2, h2, A) = Pending(s, h, A)
  PROVE  Conserved(hands, pl, ru, lv, cn, s2, h2, W, H)
<1>1. ASSUME NEW d \in Conns
      PROVE  GoodConn(d, pl, cn, s2, h2, W)
  <2>1. GoodConn(d, pl, cn, s, h, W)
    BY DEF Conserved, GoodConns
  <2> DEFINE A == Moving(d)
             B == Destroys(d)
  <2>2. A \subseteq ConnectionHandlers /\ B \subseteq ConnectionHandlers
    BY HandlerSets
  <2> HIDE DEF A, B
  <2>3. Pending(s2, h2, A) = Pending(s, h, A) /\ Pending(s2, h2, B) = Pending(s, h, B)
    BY <2>2
  <2> QED
    BY <2>1, <2>3 DEF GoodConn, A, B
<1> QED
  BY <1>1 DEF Conserved, GoodConns

\* Handlers of other kinds come and go without a trace.
LEMMA OtherPosted ==
  ASSUME NEW H, NEW hands, NEW W, NEW pl, NEW ru, NEW lv, NEW cn, NEW s, NEW h,
         Conserved(hands, pl, ru, lv, cn, s, h, W, H), NEW x \in H \ ConnectionHandlers
  PROVE  Conserved(hands, pl, ru, lv, cn, Append(s, x), h, W, H)
<1>1. s \in Seq(H)
  BY DEF Conserved
<1> DEFINE s2 == Append(s, x)
<1>2. s2 \in Seq(H) /\ \A A : Pending(s2, h, A) = Pending(s, h, A) + One(x \in A)
  BY <1>1, PostingOne
<1> HIDE DEF s2
<1>3. ASSUME NEW A, A \subseteq ConnectionHandlers
      PROVE  Pending(s2, h, A) = Pending(s, h, A)
  BY <1>1, <1>2, <1>3, PendingIsANumber DEF One
<1>4. Conserved(hands, pl, ru, lv, cn, s2, h, W, H)
  BY <1>2, <1>3, SameMoving
<1> QED
  BY <1>4 DEF s2

LEMMA OtherConsumed ==
  ASSUME NEW H, NEW hands, NEW W, NEW pl, NEW ru, NEW lv, NEW cn, NEW s, NEW h,
         Conserved(hands, pl, ru, lv, cn, s, h, W, H), NEW x, x \notin ConnectionHandlers,
         NEW s2 \in Seq(H), NEW h2, Consumes(x, s, h, s2, h2)
  PROVE  Conserved(hands, pl, ru, lv, cn, s2, h2, W, H)
<1>1. s \in Seq(H)
  BY DEF Conserved
<1>2. NoHandler \notin ConnectionHandlers
  BY DEF NoHandler, ConnectionHandlers
<1>3. ASSUME NEW A, A \subseteq ConnectionHandlers
      PROVE  Pending(s2, h2, A) = Pending(s, h, A)
  <2>1. Pending(s2, h2, A) = Pending(s, h, A) - One(x \in A)
    BY <1>2, <1>3 DEF Consumes
  <2> QED
    BY <1>1, <1>3, <2>1, PendingIsANumber DEF One
<1> QED
  BY <1>3, SameMoving
=============================================================================
