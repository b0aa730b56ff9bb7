------------------------- MODULE SmtpDialogueProofs -------------------------
(***************************************************************************)
(* For any mail, any capacity of the block and any one-line greeting, and  *)
(* wherever the stream is cut or broken: the client and the server keep    *)
(* in step, and what the server queues is the mail of the job, once.       *)
(*                                                                         *)
(* The invariant places the conversation: k is the command the client's    *)
(* state waits for, n the commands the server has executed, and one more   *)
(* is at most under way.                                                   *)
(***************************************************************************)
EXTENDS SmtpDialogue, SequenceTheorems, TLAPS

-----------------------------------------------------------------------------
(* What the client has under way *)

Ops == {"CONNECT", "READ", "WRITE"}
IsOp(h) == h.k \in Ops

\* The operations of a ready queue: at most one, or none.
OneOp(r) == \A i, j \in DOMAIN r : (IsOp(r[i]) /\ IsOp(r[j])) => i = j
NoOp(r) == \A i \in DOMAIN r : ~IsOp(r[i])

Symbols == Range(Greeting) \cup (UNION { Range(j) : j \in Jobs })
             \cup {"HELO", "RSET", "MAIL", "RCPT", "DATA", "QUIT", "\n", "\r", "."}
             \cup {"250", "221", "354", "500", "501", "502"}
Text == Seq(Symbols)

HandlerSet == [k : Ops \cup {"timeout", "close"}, err : BOOLEAN, got : Text]
ClientRecord ==
    [state : ClientStates, mb : Text, buf : Text, sock : {"open", "closed"},
     op : Ops \cup {"none"}, timer : {"none", "timeout", "close"}, ready : Seq(HandlerSet)]

\* The client has one operation under way or completed, and none at the end.
ClientOK(c) ==
    /\ c \in ClientRecord
    /\ Len(c.mb) <= MaxBuf
    /\ OneOp(c.ready)
    /\ c.op # "none" => NoOp(c.ready) /\ c.sock = "open"
    /\ c.state = "INACTIVE" => c.op = "none" /\ NoOp(c.ready)
    /\ c.op = "WRITE" => c.mb # <<>>
    /\ \A i \in DOMAIN c.ready :
          (c.ready[i].k = "READ" /\ ~c.ready[i].err) => c.ready[i].got # <<>>

ServerStates == {"START", "RESET", "MAIL", "DATA"}
ServerTypeOK ==
    sv \in [pc : {"accept", "recv", "closed"}, st : ServerStates, buf : Text, mail : Text]

\* Without a job nothing of a mail is sent.
StatesWithout == {"INACTIVE", "TRY_CONNECT", "TRY_HELO", "TRY_RSET", "TRY_QUIT"}

StateOK ==
    /\ job \in Jobs \cup {NoJob}
    /\ job = NoJob => cl.state \in StatesWithout
    /\ net \in {"none", "trying", "up", "down"}
    /\ net = "none" => cl.state = "INACTIVE"
    /\ c2s \in Text /\ s2c \in Text
    /\ ClientOK(cl)
    /\ ServerTypeOK

\* What an operation that did not fail has heard of the answer, or has left of
\* the command to write.
Part(c, k, got) ==
    CASE k = "CONNECT" -> <<>>
      [] k = "READ"    -> c.buf \o got
      [] k = "WRITE"   -> SubSeq(c.mb, Len(got) + 1, Len(c.mb))

Sees(c, k, w) ==
    \/ c.op = k /\ k \in Ops /\ w = Part(c, k, <<>>)
    \/ \E i \in DOMAIN c.ready :
          /\ c.ready[i].k = k /\ k \in Ops /\ ~c.ready[i].err
          /\ w = Part(c, k, c.ready[i].got)

-----------------------------------------------------------------------------
(* Where the conversation is *)

Prefix(w, a) == Len(w) <= Len(a) /\ \A i \in 1 .. Len(w) : w[i] = a[i]

StateAt(k) == IF k = 0 THEN "TRY_CONNECT" ELSE StateScript[k]

\* The server's state before each command, what is written for the command, and
\* what it answers.
ServerAt(n) ==
    IF job = NoJob THEN <<"START", "RESET", "RESET">>[n]
    ELSE <<"START", "RESET", "RESET", "MAIL", "MAIL", "DATA", "RESET">>[n]
Command(k) == IF Script[k] = "mail" THEN job \o Terminator ELSE <<Script[k], EndOfLine>>
Answer(k) ==
    IF k = 0 THEN Greeting
    ELSE <<IF Script[k] = "mail" THEN "250" ELSE exec_cmd(ServerAt(k), Script[k]).code, EndOfLine>>

Delivered(n) == IF job # NoJob /\ n >= 6 THEN <<job>> ELSE <<>>

\* What the server keeps of the command it is reading.
SoFar == IF sv.st = "DATA" THEN sv.mail ELSE sv.buf
Open == sv.pc = "recv" /\ net = "up"

\* The last characters kept are those of the mail, five of them if there are.
EndsAlike(b, m) ==
    /\ Len(b) <= Len(m) /\ (Len(b) >= 5 \/ Len(b) = Len(m))
    /\ \A i \in 1 .. Len(b) : b[i] = m[Len(m) - Len(b) + i]

\* The server has not executed the client's command yet.
Underway(k) ==
    /\ s2c = <<>>
    /\ Open => Prefix(SoFar \o c2s, Command(k))
    /\ \A w \in Text :
        /\ ~Sees(cl, "CONNECT", w)
        /\ Sees(cl, "READ", w) => w = <<>> /\ (Open => SoFar \o c2s = Command(k))
        /\ Sees(cl, "WRITE", w) => (Open => (SoFar \o c2s) \o w = Command(k))

\* The server has executed it, and the client reads the answer.
Executed(k) ==
    /\ Open => SoFar = <<>> /\ c2s = <<>>
    /\ \A w \in Text :
        /\ Sees(cl, "CONNECT", w) => k = 0 /\ Prefix(s2c, Answer(k))
        /\ Sees(cl, "READ", w) => Prefix(w \o s2c, Answer(k))
        /\ Sees(cl, "WRITE", w) => w = <<>> /\ Prefix(s2c, Answer(k))

\* The client has neither heard nor written anything.
Waits(c) == c.state = "TRY_CONNECT" /\ \A k, w : Sees(c, k, w) => w = <<>>

ServerOK(n) ==
    /\ sv.pc = "accept" =>
        /\ n = 0 /\ c2s = <<>> /\ s2c = <<>> /\ sv.st = "START" /\ sv.buf = <<>> /\ sv.mail = <<>>
        /\ Waits(cl)
    /\ sv.pc # "accept" => net \in {"up", "down"}
    /\ sv.pc = "recv" =>
        /\ n < Len(Script) /\ sv.st = ServerAt(n + 1)
        /\ sv.st # "DATA" => sv.mail = <<>>
        /\ sv.st = "DATA" => EndsAlike(sv.buf, sv.mail)

WireOK ==
    /\ net = "down" => c2s = <<>>
    /\ cl.op = "CONNECT" => net = "trying"

Placed(k, n) ==
    /\ served = SubSeq(Script, 1, n)
    /\ queued = Delivered(n)
    /\ cl.state = StateAt(k) \/ (cl.state = "INACTIVE" /\ k = Len(Script) /\ n = k)
    /\ \/ n = k /\ Executed(k)
       \/ n = k - 1 /\ Underway(k)
    /\ ServerOK(n)

NotYet ==
    /\ cl.state = "INACTIVE" /\ served = <<>> /\ queued = <<>> /\ c2s = <<>> /\ s2c = <<>>
    /\ sv = [pc |-> "accept", st |-> "START", buf |-> <<>>, mail |-> <<>>]

Talking == \E k \in 0 .. Len(Script) : \E n \in 0 .. k : Placed(k, n)

Conversation == WireOK /\ IF net = "none" THEN NotYet ELSE Talking

IInv == StateOK /\ (Regular => Conversation)

-----------------------------------------------------------------------------
(* Sequences *)

\* A chunk and what is left of the stream make up the stream.
LEMMA Cut ==
  ASSUME NEW S, NEW s \in Seq(S), NEW n \in 1 .. Len(s)
  PROVE  /\ SubSeq(s, 1, n) \in Seq(S) /\ SubSeq(s, n + 1, Len(s)) \in Seq(S)
         /\ Len(SubSeq(s, 1, n)) = n /\ Len(SubSeq(s, n + 1, Len(s))) = Len(s) - n
         /\ SubSeq(s, 1, n) # <<>>
         /\ SubSeq(s, 1, n) \o SubSeq(s, n + 1, Len(s)) = s
<1>1. Len(s) \in Nat /\ n \in Nat /\ n >= 1 /\ n <= Len(s) /\ \A i \in 1 .. Len(s) : s[i] \in S
  BY LenProperties, ElementOfSeq
<1>2. /\ SubSeq(s, 1, n) \in Seq(S) /\ Len(SubSeq(s, 1, n)) = n
  BY <1>1, SubSeqProperties
<1>3. /\ SubSeq(s, n + 1, Len(s)) \in Seq(S) /\ Len(SubSeq(s, n + 1, Len(s))) = Len(s) - n
  BY <1>1, SubSeqProperties
<1>4. SubSeq(s, 1, n) \o SubSeq(s, n + 1, Len(s)) = SubSeq(s, 1, Len(s))
  <2>1. 1 \in 1 .. Len(s) + 1 /\ n \in 1 - 1 .. Len(s) /\ Len(s) \in n .. Len(s)
    BY <1>1
  <2> QED
    BY <2>1, ConcatAdjacentSubSeq
<1>5. SubSeq(s, 1, Len(s)) = s
  BY SubSeqFull
<1>6. SubSeq(s, 1, n) # <<>>
  BY <1>1, <1>2, EmptySeq
<1> QED
  BY <1>2, <1>3, <1>4, <1>5, <1>6

\* What is left of a sequence after its first m elements, if there are so many.
LEMMA Rest ==
  ASSUME NEW S, NEW s \in Seq(S), NEW m \in Nat
  PROVE  /\ SubSeq(s, m + 1, Len(s)) \in Seq(S)
         /\ Len(SubSeq(s, m + 1, Len(s))) <= Len(s)
<1>1. Len(s) \in Nat /\ m + 1 \in Int /\ Len(s) \in Int /\ \A i \in 1 .. Len(s) : s[i] \in S
  BY LenProperties, ElementOfSeq
<1>2. \A i \in m + 1 .. Len(s) : s[i] \in S
  BY <1>1
<1>3. /\ SubSeq(s, m + 1, Len(s)) \in Seq(S)
      /\ Len(SubSeq(s, m + 1, Len(s))) = IF m + 1 <= Len(s) THEN Len(s) - (m + 1) + 1 ELSE 0
  BY <1>1, <1>2, SubSeqProperties
<1> QED
  BY <1>1, <1>3

\* What comes before is a prefix of a prefix.
LEMMA PrefixOfPrefix ==
  ASSUME NEW a \in Text, NEW b \in Text, NEW t \in Text, Prefix(a \o b, t)
  PROVE  Prefix(a, t)
<1>1. /\ Len(a) \in Nat /\ Len(b) \in Nat /\ Len(a \o b) = Len(a) + Len(b)
      /\ \A i \in 1 .. Len(a) : i \in 1 .. Len(a) + Len(b) /\ (a \o b)[i] = a[i]
  BY LenProperties, ConcatProperties DEF Text
<1> QED
  BY <1>1 DEF Prefix

\* Texts are put together in any order.
LEMMA JoinedIsText ==
  ASSUME NEW a \in Text, NEW b \in Text
  PROVE  a \o b \in Text
  BY ConcatProperties DEF Text

LEMMA Joined ==
  ASSUME NEW a \in Text, NEW b \in Text, NEW c \in Text
  PROVE  (a \o b) \o c = a \o (b \o c)
  BY ConcatAssociative DEF Text

\* A prefix of the same length is the whole.
LEMMA WholePrefix ==
  ASSUME NEW a \in Text, NEW t \in Text
  PROVE  /\ Prefix(t, t) /\ Prefix(<<>>, t)
         /\ (Prefix(a, t) /\ Len(a) = Len(t)) => a = t
<1>1. Prefix(t, t) /\ Prefix(<<>>, t)
  BY LenProperties, EmptySeq DEF Prefix, Text
<1> QED
  BY <1>1, SeqEqual DEF Prefix, Text

\* A part of what is left to write is sent: the command is the same.
Parts(b, x, y) == b = x \o y

LEMMA PartIsSent ==
  ASSUME NEW a \in Text, NEW c \in Text, NEW x \in Text, NEW y \in Text, NEW t \in Text,
         NEW b, Parts(b, x, y), Parts(t, a \o c, b)
  PROVE  Parts(t, a \o (c \o x), y) /\ Prefix(a \o (c \o x), t)
<1> DEFINE u == a \o c
           v == c \o x
           w == a \o v
<1>1. u \in Text /\ v \in Text
  BY JoinedIsText
<1>2. w = u \o x
  <2>1. (a \o c) \o x = a \o (c \o x)
    BY Joined
  <2> QED
    BY <2>1, Zenon
<1>4. (u \o x) \o y = u \o (x \o y)
  <2>1. u \in Text
    BY <1>1
  <2> HIDE DEF u
  <2> QED
    BY <2>1, Joined
<1>5. w \in Text
  <2>1. a \in Text /\ v \in Text
    BY <1>1
  <2> HIDE DEF v
  <2> QED
    BY <2>1, JoinedIsText
<1>3. t = u \o (x \o y)
  BY DEF Parts
<1> HIDE DEF u, w
<1>6. w \o y = t
  BY <1>2, <1>3, <1>4
<1>7. Prefix(w \o y, t)
  BY <1>6, WholePrefix
<1>8. Prefix(w, t)
  BY <1>5, <1>7, PrefixOfPrefix
<1> QED
  BY <1>6, <1>8 DEF w, Parts

\* A line: its end is the only one in it.
Line(t) ==
    t # <<>> /\ \A i \in 1 .. Len(t) : t[i] = EndOfLine <=> i = Len(t)

\* Once the end of the line has been read nothing of the line is left.
LEMMA LineIsRead ==
  ASSUME NEW w \in Text, NEW x \in Text, NEW t \in Text, Line(t), Prefix(w \o x, t),
         NEW i \in 1 .. Len(w), w[i] = EndOfLine
  PROVE  x = <<>> /\ w = t /\ i = Len(w)
<1>1. /\ Len(w) \in Nat /\ Len(x) \in Nat /\ Len(t) \in Nat /\ Len(w \o x) = Len(w) + Len(x)
      /\ (w \o x)[i] = w[i] /\ i \in 1 .. Len(w) + Len(x)
  BY LenProperties, ConcatProperties DEF Text
<1>2. i = Len(t) /\ Len(w) = Len(t) /\ Len(x) = 0
  BY <1>1 DEF Line, Prefix
<1>3. x = <<>>
  BY <1>2, EmptySeq DEF Text
<1>4. Prefix(w, t)
  BY PrefixOfPrefix
<1> QED
  BY <1>2, <1>3, <1>4, WholePrefix

-----------------------------------------------------------------------------
(* The client's ready queue *)

\* What is left when the first handler is taken.
LEMMA Taken ==
  ASSUME NEW r \in Seq(HandlerSet), r # <<>>, OneOp(r)
  PROVE  /\ Head(r) \in HandlerSet /\ Head(r) = r[1] /\ 1 \in DOMAIN r
         /\ Tail(r) \in Seq(HandlerSet) /\ OneOp(Tail(r))
         /\ IsOp(Head(r)) => NoOp(Tail(r))
         /\ NoOp(r) => NoOp(Tail(r))
         /\ \A i \in DOMAIN Tail(r) : \E j \in DOMAIN r : Tail(r)[i] = r[j]
<1>1. DOMAIN r = 1 .. Len(r) /\ Len(r) \in Nat \ {0}
  BY LenProperties, EmptySeq
<1>2. /\ Head(r) \in HandlerSet /\ Head(r) = r[1] /\ Tail(r) \in Seq(HandlerSet)
      /\ Len(Tail(r)) = Len(r) - 1 /\ \A i \in 1 .. Len(Tail(r)) : Tail(r)[i] = r[i + 1]
  BY HeadTailProperties
<1>3. DOMAIN Tail(r) = 1 .. Len(r) - 1
  BY <1>2, LenProperties
<1>4. \A i \in DOMAIN Tail(r) : i + 1 \in DOMAIN r /\ i + 1 # 1 /\ i \in Nat /\ Tail(r)[i] = r[i + 1]
  BY <1>1, <1>2, <1>3
<1>5. OneOp(Tail(r))
  BY <1>4 DEF OneOp
<1>6. IsOp(Head(r)) => NoOp(Tail(r))
  BY <1>1, <1>2, <1>4 DEF OneOp, NoOp
<1>7. NoOp(r) => NoOp(Tail(r))
  BY <1>4 DEF NoOp
<1> QED
  BY <1>1, <1>2, <1>4, <1>5, <1>6, <1>7

\* A handler is put behind the others.
LEMMA Posted ==
  ASSUME NEW r \in Seq(HandlerSet), NEW h \in HandlerSet, OneOp(r), IsOp(h) => NoOp(r)
  PROVE  /\ Append(r, h) \in Seq(HandlerSet) /\ OneOp(Append(r, h))
         /\ (NoOp(r) /\ ~IsOp(h)) => NoOp(Append(r, h))
         /\ \A i \in DOMAIN Append(r, h) :
              Append(r, h)[i] = h \/ (\E j \in DOMAIN r : Append(r, h)[i] = r[j])
         /\ \A i \in DOMAIN Append(r, h) :
              (IsOp(h) /\ IsOp(Append(r, h)[i])) => Append(r, h)[i] = h
<1>1. DOMAIN r = 1 .. Len(r) /\ Len(r) \in Nat
  BY LenProperties
<1>2. /\ Append(r, h) \in Seq(HandlerSet) /\ Len(Append(r, h)) = Len(r) + 1
      /\ \A i \in 1 .. Len(r) : Append(r, h)[i] = r[i]
      /\ Append(r, h)[Len(r) + 1] = h
  BY AppendProperties
<1>3. DOMAIN Append(r, h) = 1 .. Len(r) + 1
  BY <1>2, LenProperties
<1>4. \A i \in DOMAIN Append(r, h) :
        \/ i \in DOMAIN r /\ Append(r, h)[i] = r[i]
        \/ i = Len(r) + 1 /\ Append(r, h)[i] = h
  BY <1>1, <1>2, <1>3
<1>5. OneOp(Append(r, h))
  BY <1>1, <1>4 DEF OneOp, NoOp
<1> QED
  BY <1>2, <1>4, <1>5 DEF NoOp

-----------------------------------------------------------------------------
(* The client's methods *)

Quiet(c) == c \in ClientRecord /\ Len(c.mb) <= MaxBuf /\ c.op = "none" /\ NoOp(c.ready)
OnlySees(d, k0, w0) == \A k, w : Sees(d, k, w) => k = k0 /\ w = w0
SeesNothing(d) == \A k, w : ~Sees(d, k, w)
SeesNoMore(c, d) == \A k, w : Sees(d, k, w) => Sees(c, k, w)

\* The two handlers asio posts.
LEMMA OpHandlerIs ==
  ASSUME NEW w \in Ops, NEW err \in BOOLEAN, NEW got \in Text
  PROVE  /\ OpHandler(w, err, got) \in HandlerSet /\ IsOp(OpHandler(w, err, got))
         /\ OpHandler(w, err, got).k = w /\ OpHandler(w, err, got).err = err
         /\ OpHandler(w, err, got).got = got
  BY DEF OpHandler, HandlerSet, IsOp

LEMMA TimerHandlerIs ==
  ASSUME NEW w \in {"timeout", "close"}
  PROVE  TimerHandler(w) \in HandlerSet /\ ~IsOp(TimerHandler(w)) /\ TimerHandler(w).k = w
<1>1. <<>> \in Text
  BY EmptySeq DEF Text
<1> QED
  BY <1>1 DEF TimerHandler, HandlerSet, IsOp, Ops

LEMMA EmptyText == <<>> \in Text /\ Len(<<>>) = 0 /\ Len(<<>>) <= MaxBuf
  BY EmptySeq, MaxBufAssumption DEF Text

\* The parts a client sees of its command and of the answer are texts.
LEMMA SeenIsText ==
  ASSUME NEW c, ClientOK(c), NEW k, NEW w, Sees(c, k, w)
  PROVE  w \in Text /\ k \in Ops
<1>1. c.mb \in Text /\ c.buf \in Text /\ c.ready \in Seq(HandlerSet)
  BY DEF ClientOK, ClientRecord
<1>2. \A i \in DOMAIN c.ready : c.ready[i].got \in Text
  <2>1. \A i \in DOMAIN c.ready : c.ready[i] \in HandlerSet
    BY <1>1, LenProperties, ElementOfSeq
  <2> QED
    BY <2>1 DEF HandlerSet
<1>3. ASSUME NEW g \in Text PROVE c.buf \o g \in Text
  BY <1>1, <1>3, ConcatProperties DEF Text
<1>4. ASSUME NEW g \in Text PROVE SubSeq(c.mb, Len(g) + 1, Len(c.mb)) \in Text
  <2>1. Len(g) \in Nat /\ Len(c.mb) \in Nat /\ \A i \in 1 .. Len(c.mb) : c.mb[i] \in Symbols
    BY <1>1, <1>4, LenProperties, ElementOfSeq DEF Text
  <2> QED
    BY <2>1, SubSeqProperties DEF Text
<1>5. ASSUME NEW g \in Text, NEW v, v = Part(c, k, g), k \in Ops PROVE v \in Text
  <2>1. v = <<>> \/ v = c.buf \o g \/ v = SubSeq(c.mb, Len(g) + 1, Len(c.mb))
    BY <1>5 DEF Part, Ops
  <2> QED
    BY <2>1, <1>3, <1>4, EmptyText
<1>6. k \in Ops
  BY DEF Sees
<1> QED
  BY <1>2, <1>5, <1>6, EmptyText DEF Sees

\* An operation is started: it is all the client sees, unless its socket is closed.
LEMMA Starts ==
  ASSUME NEW c, Quiet(c), NEW w \in Ops, c.state # "INACTIVE", w = "WRITE" => c.mb # <<>>
  PROVE  /\ ClientOK(StartOp(c, w)) /\ StartOp(c, w).state = c.state
         /\ OnlySees(StartOp(c, w), w, Part(c, w, <<>>))
         /\ StartOp(c, w).op \in {"none", w}
<1> DEFINE d == StartOp(c, w)
           h == OpHandler(w, TRUE, <<>>)
<1>1. c \in ClientRecord /\ c.op = "none" /\ NoOp(c.ready) /\ OneOp(c.ready) /\ Len(c.mb) <= MaxBuf
      /\ c.ready \in Seq(HandlerSet)
  BY DEF Quiet, NoOp, OneOp, ClientRecord
<1>2. h \in HandlerSet /\ IsOp(h) /\ h.k = w /\ h.err = TRUE
  BY OpHandlerIs, EmptyText
<1> HIDE DEF h
<1>3. CASE c.sock = "open"
  <2>1. /\ d \in ClientRecord /\ d.op = w /\ d.ready = c.ready /\ d.sock = "open"
        /\ d.mb = c.mb /\ d.buf = c.buf /\ d.state = c.state
    BY <1>1, <1>3 DEF StartOp, ClientRecord
  <2> HIDE DEF d
  <2>2. ClientOK(d)
    BY <1>1, <2>1 DEF ClientOK, NoOp, Ops, IsOp
  <2>3. OnlySees(d, w, Part(c, w, <<>>))
    BY <1>1, <2>1 DEF OnlySees, Sees, NoOp, IsOp, Part
  <2> QED
    BY <2>1, <2>2, <2>3 DEF d
<1>4. CASE c.sock # "open"
  <2>1. /\ Append(c.ready, h) \in Seq(HandlerSet) /\ OneOp(Append(c.ready, h))
        /\ \A i \in DOMAIN Append(c.ready, h) : IsOp(Append(c.ready, h)[i]) => Append(c.ready, h)[i] = h
    BY <1>1, <1>2, Posted
  <2>2. /\ d \in ClientRecord /\ d.op = "none" /\ d.ready = Append(c.ready, h)
        /\ d.mb = c.mb /\ d.state = c.state
    BY <1>1, <1>4, <2>1 DEF StartOp, ClientRecord, h
  <2> HIDE DEF d
  <2>3. ClientOK(d)
    BY <1>1, <1>2, <2>1, <2>2 DEF ClientOK, Ops, IsOp
  <2>4. SeesNothing(d)
    BY <1>2, <2>1, <2>2 DEF SeesNothing, Sees, Ops, IsOp
  <2> QED
    BY <2>2, <2>3, <2>4 DEF SeesNothing, OnlySees, d
<1> QED
  BY <1>3, <1>4

\* close() leaves nothing but the wait.
LEMMA Closes ==
  ASSUME NEW c, Quiet(c)
  PROVE  /\ ClientOK(close(c)) /\ close(c).state = c.state
         /\ SeesNothing(close(c)) /\ close(c).op = "none"
<1> DEFINE d == close(c)
<1>1. /\ d \in ClientRecord /\ d.op = "none" /\ d.ready = c.ready /\ d.mb = c.mb /\ d.state = c.state
      /\ NoOp(c.ready) /\ Len(c.mb) <= MaxBuf
  BY DEF Quiet, close, ClientRecord
<1> HIDE DEF d
<1>2. ClientOK(d)
  BY <1>1 DEF ClientOK, NoOp, OneOp, IsOp, Ops
<1>3. SeesNothing(d)
  BY <1>1 DEF SeesNothing, Sees, NoOp, IsOp, Ops
<1> QED
  BY <1>1, <1>2, <1>3 DEF d

\* The socket is closed: an operation under way has failed.
LEMMA SocketCloses ==
  ASSUME NEW c, ClientOK(c)
  PROVE  /\ ClientOK(CloseSocket(c)) /\ CloseSocket(c).state = c.state
         /\ SeesNoMore(c, CloseSocket(c)) /\ CloseSocket(c).op = "none"
<1> DEFINE d == CloseSocket(c)
<1>1. c \in ClientRecord /\ OneOp(c.ready) /\ c.ready \in Seq(HandlerSet) /\ Len(c.mb) <= MaxBuf
  BY DEF ClientOK, ClientRecord
<1>2. CASE c.op = "none"
  <2>1. /\ d \in ClientRecord /\ d.op = "none" /\ d.ready = c.ready /\ d.mb = c.mb /\ d.buf = c.buf
        /\ d.state = c.state
    BY <1>1, <1>2 DEF CloseSocket, ClientRecord
  <2> HIDE DEF d
  <2>2. ClientOK(d)
    BY <1>2, <2>1 DEF ClientOK
  <2>3. SeesNoMore(c, d)
    BY <2>1 DEF SeesNoMore, Sees, Part, Ops
  <2> QED
    BY <2>1, <2>2, <2>3 DEF d
<1>3. CASE c.op # "none"
  <2> DEFINE h == OpHandler(c.op, TRUE, <<>>)
  <2>1. c.op \in Ops /\ NoOp(c.ready) /\ c.state # "INACTIVE"
    BY <1>1, <1>3 DEF ClientOK, ClientRecord
  <2>2. h \in HandlerSet /\ IsOp(h) /\ h.err = TRUE
    BY <2>1, OpHandlerIs, EmptyText
  <2> HIDE DEF h
  <2>3. /\ Append(c.ready, h) \in Seq(HandlerSet) /\ OneOp(Append(c.ready, h))
        /\ \A i \in DOMAIN Append(c.ready, h) : IsOp(Append(c.ready, h)[i]) => Append(c.ready, h)[i] = h
    BY <1>1, <2>1, <2>2, Posted
  <2>4. /\ d \in ClientRecord /\ d.op = "none" /\ d.ready = Append(c.ready, h)
        /\ d.mb = c.mb /\ d.state = c.state
    BY <1>1, <1>3, <2>3 DEF CloseSocket, ClientRecord, h
  <2> HIDE DEF d
  <2>5. ClientOK(d)
    BY <1>1, <2>1, <2>2, <2>3, <2>4 DEF ClientOK, Ops, IsOp
  <2>6. SeesNothing(d)
    BY <2>2, <2>3, <2>4 DEF SeesNothing, Sees, Ops, IsOp
  <2> QED
    BY <2>4, <2>5, <2>6 DEF SeesNothing, SeesNoMore, d
<1> QED
  BY <1>2, <1>3

\* A record whose mb_, buf or timer was set is as quiet as it was.
LEMMA SettingKeepsQuiet ==
  ASSUME NEW c, Quiet(c), NEW x \in Text
  PROVE  /\ LET d == cancel_timer(c)
            IN Quiet(d) /\ d.state = c.state /\ d.mb = c.mb /\ d.buf = c.buf
         /\ LET d == [c EXCEPT !.buf = x]
            IN Quiet(d) /\ d.state = c.state /\ d.mb = c.mb /\ d.buf = x
         /\ Len(x) <= MaxBuf =>
              LET d == [c EXCEPT !.mb = x]
              IN Quiet(d) /\ d.state = c.state /\ d.mb = x /\ d.buf = c.buf
         /\ \A s \in ClientStates :
              LET d == [c EXCEPT !.state = s]
              IN Quiet(d) /\ d.state = s /\ d.mb = c.mb /\ d.buf = c.buf
  BY DEF Quiet, cancel_timer, ClientRecord

\* A chunk of the answer is waited for behind what has been read.
LEMMA Reads ==
  ASSUME NEW c, Quiet(c), c.state # "INACTIVE"
  PROVE  /\ ClientOK(read(c)) /\ read(c).state = c.state
         /\ OnlySees(read(c), "READ", c.buf) /\ read(c).op \in {"none", "READ"}
<1> DEFINE e == [c EXCEPT !.mb = <<>>]
<1>1. Quiet(e) /\ e.state = c.state /\ e.buf = c.buf
  BY EmptyText, SettingKeepsQuiet
<1>2. read(c) = StartOp(e, "READ")
  BY DEF read
<1> HIDE DEF e
<1>3. Part(e, "READ", <<>>) = c.buf
  <2>1. c.buf \in Text
    BY DEF Quiet, ClientRecord
  <2> QED
    BY <1>1, <2>1, ConcatEmptySeq DEF Part, Text
<1>4. "READ" \in Ops
  BY DEF Ops
<1> QED
  BY <1>1, <1>2, <1>3, <1>4, Starts

\* What is in mb_ is written.
LEMMA Writes ==
  ASSUME NEW c, Quiet(c), c.state # "INACTIVE", c.mb # <<>>
  PROVE  /\ ClientOK(write(c)) /\ write(c).state = c.state
         /\ OnlySees(write(c), "WRITE", c.mb) /\ write(c).op \in {"none", "WRITE"}
<1>1. write(c) = StartOp(c, "WRITE") /\ "WRITE" \in Ops
  BY DEF write, Ops
<1>2. Part(c, "WRITE", <<>>) = c.mb
  <2>1. c.mb \in Text
    BY DEF Quiet, ClientRecord
  <2>2. SubSeq(c.mb, 1, Len(c.mb)) = c.mb
    BY <2>1, SubSeqFull DEF Text
  <2> QED
    BY <2>2, EmptyText DEF Part
<1> QED
  BY <1>1, <1>2, Starts

\* The mail and its terminator, when both fit.
LEMMA MailIsText ==
  ASSUME job \in Jobs
  PROVE  job \in Text /\ Terminator \in Text /\ Len(Terminator) = 5
<1>1. job \in Seq(Range(job)) /\ Range(job) \subseteq Symbols
  BY JobsAssumption DEF Symbols
<1>2. job \in Text
  BY <1>1, SeqMonotonic DEF Text
<1>3. Terminator \in Text /\ Len(Terminator) = 5
  BY DEF Terminator, Text, Symbols
<1> QED
  BY <1>2, <1>3

\* Two blocks are copied into mb_: whatever does not fit is left out.
LEMMA Copied ==
  ASSUME NEW a \in Text, NEW b \in Text, Len(a) <= MaxBuf
  PROVE  /\ copy(a, b) \in Text /\ Len(copy(a, b)) <= MaxBuf
         /\ Len(a) + Len(b) <= MaxBuf => copy(a, b) = a \o b
         /\ (a # <<>> \/ (b # <<>> /\ Len(b) <= MaxBuf)) => copy(a, b) # <<>>
<1>1. /\ Len(a) \in Nat /\ Len(b) \in Nat /\ a \o b \in Text /\ Len(a \o b) = Len(a) + Len(b)
  BY LenProperties, ConcatProperties DEF Text
<1>2. (a # <<>> => Len(a) # 0) /\ (b # <<>> => Len(b) # 0) /\ (a = <<>> => Len(a) = 0)
  BY EmptySeq DEF Text
<1>3. copy(a, b) = IF Len(a) + Len(b) <= MaxBuf THEN a \o b ELSE a
  BY DEF copy
<1>4. Len(a \o b) # 0 => a \o b # <<>>
  BY EmptyText
<1> QED
  BY <1>1, <1>2, <1>3, <1>4, MaxBufAssumption

\* A command is written in a line.
LEMMA CommandLine ==
  ASSUME NEW x \in Symbols
  PROVE  /\ <<x, EndOfLine>> \in Text /\ Len(<<x, EndOfLine>>) = 2
         /\ <<x, EndOfLine>> # <<>>
  BY DEF Text, Symbols, EndOfLine

\* What is written after the answer in each state.
LEMMA NextCommandAt ==
  /\ NextCommand("TRY_CONNECT") = [state |-> "TRY_HELO", mb |-> <<"HELO", EndOfLine>>]
  /\ NextCommand("TRY_HELO") = [state |-> "TRY_RSET", mb |-> <<"RSET", EndOfLine>>]
  /\ job = NoJob => NextCommand("TRY_RSET") = [state |-> "TRY_QUIT", mb |-> <<"QUIT", EndOfLine>>]
  /\ job # NoJob => NextCommand("TRY_RSET") = [state |-> "TRY_MAIL_FROM", mb |-> <<"MAIL", EndOfLine>>]
  /\ NextCommand("TRY_MAIL_FROM") = [state |-> "TRY_RCPT_TO", mb |-> <<"RCPT", EndOfLine>>]
  /\ NextCommand("TRY_RCPT_TO") = [state |-> "TRY_DATA", mb |-> <<"DATA", EndOfLine>>]
  /\ NextCommand("TRY_DATA") = [state |-> "TRY_DATA_TRANSFER", mb |-> copy(copy(<<>>, job), Terminator)]
  /\ NextCommand("TRY_DATA_TRANSFER") = [state |-> "TRY_QUIT", mb |-> <<"QUIT", EndOfLine>>]
  BY DEF NextCommand

\* What the client writes next, whatever the capacity of the block.
LEMMA NextCommandIs ==
  ASSUME job \in Jobs \cup {NoJob}, NEW s \in ClientStates \ {"INACTIVE", "TRY_QUIT"},
         job = NoJob => s \in StatesWithout
  PROVE  /\ NextCommand(s).state \in ClientStates \ {"INACTIVE"}
         /\ job = NoJob => NextCommand(s).state \in StatesWithout
         /\ NextCommand(s).mb \in Text /\ Len(NextCommand(s).mb) <= MaxBuf
         /\ NextCommand(s).mb # <<>>
<1> DEFINE m == copy(copy(<<>>, job), Terminator)
<1>1. ASSUME job # NoJob
      PROVE  m \in Text /\ Len(m) <= MaxBuf /\ m # <<>>
  <2>1. job \in Text /\ Terminator \in Text /\ Len(Terminator) = 5 /\ Terminator # <<>>
    BY <1>1, MailIsText, EmptyText
  <2>2. copy(<<>>, job) \in Text /\ Len(copy(<<>>, job)) <= MaxBuf
    BY <2>1, EmptyText, Copied
  <2> QED
    BY <2>1, <2>2, Copied, MaxBufAssumption
<1>2. {"HELO", "RSET", "MAIL", "RCPT", "DATA", "QUIT"} \subseteq Symbols
  BY DEF Symbols
<1>3. \A x \in {"HELO", "RSET", "MAIL", "RCPT", "DATA", "QUIT"} :
        <<x, EndOfLine>> \in Text /\ Len(<<x, EndOfLine>>) <= MaxBuf /\ <<x, EndOfLine>> # <<>>
  BY <1>2, CommandLine, MaxBufAssumption
<1>4. CASE s = "TRY_DATA"
  <2>1. job # NoJob
    BY <1>4 DEF StatesWithout
  <2>2. NextCommand(s) = [state |-> "TRY_DATA_TRANSFER", mb |-> m]
    BY <1>4 DEF NextCommand
  <2> HIDE DEF m
  <2> QED
    BY <1>1, <2>1, <2>2 DEF ClientStates
<1>5. ASSUME NEW x \in {"HELO", "RSET", "MAIL", "RCPT", "DATA", "QUIT"},
             NEW y \in ClientStates \ {"INACTIVE"},
             NextCommand(s) = [state |-> y, mb |-> <<x, EndOfLine>>],
             job = NoJob => y \in StatesWithout
      PROVE  /\ NextCommand(s).state \in ClientStates \ {"INACTIVE"}
             /\ job = NoJob => NextCommand(s).state \in StatesWithout
             /\ NextCommand(s).mb \in Text /\ Len(NextCommand(s).mb) <= MaxBuf
             /\ NextCommand(s).mb # <<>>
  BY <1>3, <1>5
<1> HIDE DEF m
<1>6. CASE s = "TRY_RSET" /\ job = NoJob
  BY <1>5, <1>6, NextCommandAt DEF ClientStates, StatesWithout
<1>7. CASE s = "TRY_RSET" /\ job # NoJob
  BY <1>5, <1>7, NextCommandAt DEF ClientStates
<1>8. CASE s \in {"TRY_CONNECT", "TRY_HELO"}
  BY <1>5, <1>8, NextCommandAt DEF ClientStates, StatesWithout
<1>9. CASE s \in {"TRY_MAIL_FROM", "TRY_RCPT_TO", "TRY_DATA_TRANSFER"}
  BY <1>5, <1>9, NextCommandAt DEF ClientStates, StatesWithout
<1> QED
  BY <1>4, <1>6, <1>7, <1>8, <1>9 DEF ClientStates

\* The answer was read to its end: the next command is written, or the client is done.
Advanced(c, d) ==
    IF c.state = "TRY_QUIT" THEN d.state = "INACTIVE" /\ SeesNothing(d)
    ELSE d.state = NextCommand(c.state).state /\ OnlySees(d, "WRITE", NextCommand(c.state).mb)

\* What running one handler makes of the client.
Ran(c, d) ==
    \/ d.state = c.state /\ SeesNoMore(c, d)
    \/ /\ d.state = c.state /\ OnlySees(d, "READ", <<>>)
       /\ Sees(c, "CONNECT", <<>>) \/ Sees(c, "WRITE", <<>>)
    \/ \E x \in Text : /\ Sees(c, "READ", x) /\ x # <<>> /\ Last(x) = EndOfLine
                       /\ Advanced(c, d)

Stays(d) == ClientOK(d) /\ d.op # "CONNECT" /\ (job = NoJob => d.state \in StatesWithout)

\* What is seen of nothing is as good as nothing more.
LEMMA NothingIsNoMore ==
  ASSUME NEW c, NEW d, SeesNothing(d)
  PROVE  SeesNoMore(c, d)
  BY DEF SeesNothing, SeesNoMore

\* The connection's handler.
LEMMA ConnectRuns ==
  ASSUME NEW c, Quiet(c), NEW h \in HandlerSet, c.state # "INACTIVE",
         job = NoJob => c.state \in StatesWithout
  PROVE  /\ Stays(handle_connect(c, h)) /\ handle_connect(c, h).state = c.state
         /\ h.err => SeesNothing(handle_connect(c, h))
         /\ ~h.err => OnlySees(handle_connect(c, h), "READ", <<>>)
<1> DEFINE t == cancel_timer(c)
           e == [t EXCEPT !.buf = <<>>]
<1>1. Quiet(t) /\ t.state = c.state
  BY EmptyText, SettingKeepsQuiet
<1> HIDE DEF t
<1>2. Quiet(e) /\ e.state = c.state /\ e.buf = <<>>
  BY <1>1, EmptyText, SettingKeepsQuiet
<1> HIDE DEF e
<1>3. handle_connect(c, h) = IF h.err THEN close(t) ELSE read(e)
  BY DEF handle_connect, t, e
<1>4. CASE h.err
  <2>1. handle_connect(c, h) = close(t)
    BY <1>3, <1>4
  <2> QED
    BY <1>1, <1>4, <2>1, Closes DEF Stays
<1>5. CASE ~h.err
  <2>1. handle_connect(c, h) = read(e)
    BY <1>3, <1>5
  <2> QED
    BY <1>2, <1>5, <2>1, Reads DEF Stays
<1> QED
  BY <1>4, <1>5

\* The end of a write: the rest is written, or the answer is read.
LEMMA WriteRuns ==
  ASSUME NEW c, Quiet(c), NEW h \in HandlerSet, c.state # "INACTIVE",
         job = NoJob => c.state \in StatesWithout,
         NEW d, d = handle_write(c, h), NEW w, w = Part(c, "WRITE", h.got)
  PROVE  /\ Stays(d) /\ d.state = c.state
         /\ h.err => SeesNothing(d)
         /\ (~h.err /\ w # <<>>) => OnlySees(d, "WRITE", w)
         /\ (~h.err /\ w = <<>>) => OnlySees(d, "READ", <<>>)
<1> DEFINE t0 == cancel_timer(c)
           t == [t0 EXCEPT !.mb = w]
           e == [t EXCEPT !.buf = <<>>]
<1>1. Quiet(t0) /\ t0.state = c.state /\ t0.mb = c.mb
  BY EmptyText, SettingKeepsQuiet
<1> HIDE DEF t0
<1>2. w = SubSeq(c.mb, Len(h.got) + 1, Len(c.mb))
  BY DEF Part
<1>3. w \in Text /\ Len(w) <= MaxBuf
  <2>1. c.mb \in Text /\ h.got \in Text /\ Len(c.mb) <= MaxBuf
    BY DEF Quiet, ClientRecord, HandlerSet
  <2>2. Len(h.got) \in Nat /\ Len(c.mb) \in Nat
    BY <2>1, LenProperties DEF Text
  <2>3. w \in Text /\ Len(w) <= Len(c.mb) /\ Len(w) \in Nat
    BY <1>2, <2>1, <2>2, Rest, LenProperties DEF Text
  <2> QED
    BY <2>1, <2>2, <2>3, MaxBufAssumption
<1>4. Quiet(t) /\ t.state = c.state /\ t.mb = w
  BY <1>1, <1>3, SettingKeepsQuiet
<1>5. d = IF h.err THEN close(t) ELSE IF w # <<>> THEN write(t) ELSE read(e)
  BY <1>1, <1>2, <1>4 DEF handle_write, t0
<1> HIDE DEF t
<1>6. Quiet(e) /\ e.state = c.state /\ e.buf = <<>>
  BY <1>4, EmptyText, SettingKeepsQuiet
<1> HIDE DEF e
<1>7. CASE h.err
  <2>1. d = close(t)
    BY <1>5, <1>7
  <2> QED
    BY <1>4, <1>7, <2>1, Closes DEF Stays
<1>8. CASE ~h.err /\ w # <<>>
  <2>1. d = write(t)
    BY <1>5, <1>8
  <2> QED
    BY <1>4, <1>8, <2>1, Writes DEF Stays
<1>9. CASE ~h.err /\ w = <<>>
  <2>1. d = read(e)
    BY <1>5, <1>9
  <2> QED
    BY <1>6, <1>9, <2>1, Reads DEF Stays
<1> QED
  BY <1>7, <1>8, <1>9

\* The end of a read: a line was read to its end, or more is read.
LEMMA ReadRuns ==
  ASSUME NEW c, Quiet(c), NEW h \in HandlerSet, c.state # "INACTIVE",
         job \in Jobs \cup {NoJob}, job = NoJob => c.state \in StatesWithout,
         NEW d, d = handle_read(c, h), NEW w, w = c.buf \o h.got
  PROVE  /\ Stays(d)
         /\ h.err => SeesNothing(d) /\ d.state = c.state
         /\ (~h.err /\ Last(w) # EndOfLine) => OnlySees(d, "READ", w) /\ d.state = c.state
         /\ (~h.err /\ Last(w) = EndOfLine) => Advanced(c, d)
<1> DEFINE t0 == cancel_timer(c)
           t == [t0 EXCEPT !.buf = w]
           next == NextCommand(c.state)
           e == [t EXCEPT !.state = next.state, !.mb = next.mb]
           f == [t EXCEPT !.state = "INACTIVE"]
<1>1. Quiet(t0) /\ t0.state = c.state /\ t0.buf = c.buf
  BY EmptyText, SettingKeepsQuiet
<1>a. cancel_timer(t0) = t0
  BY DEF cancel_timer, Quiet, ClientRecord
<1>2. w \in Text
  <2>1. c.buf \in Text /\ h.got \in Text
    BY DEF Quiet, ClientRecord, HandlerSet
  <2> QED
    BY <2>1, ConcatProperties DEF Text
<1>b. d = IF h.err THEN close(t0) ELSE IF ReplyComplete(t.buf) THEN on_read_completed(t) ELSE read(t)
  BY <1>1 DEF handle_read
<1> HIDE DEF t0
<1>3. Quiet(t) /\ t.state = c.state /\ t.buf = w
  BY <1>1, <1>2, SettingKeepsQuiet
<1> HIDE DEF t
<1>4. CASE h.err
  <2>1. d = close(t0)
    BY <1>b, <1>4
  <2> QED
    BY <1>1, <1>4, <2>1, Closes DEF Stays
<1>5. CASE ~h.err /\ Last(w) # EndOfLine
  <2>1. d = read(t)
    BY <1>b, <1>3, <1>5 DEF ReplyComplete
  <2> QED
    BY <1>3, <1>5, <2>1, Reads DEF Stays
<1>6. CASE ~h.err /\ Last(w) = EndOfLine /\ c.state = "TRY_QUIT"
  <2>1. d = close(f)
    BY <1>b, <1>3, <1>6 DEF ReplyComplete, on_read_completed
  <2>2. Quiet(f) /\ f.state = "INACTIVE"
    BY <1>3 DEF Quiet, ClientRecord, ClientStates
  <2> HIDE DEF f
  <2>3. ClientOK(d) /\ d.state = "INACTIVE" /\ SeesNothing(d) /\ d.op = "none"
    BY <2>1, <2>2, Closes
  <2> QED
    BY <1>6, <2>3 DEF Stays, Advanced, StatesWithout
<1>7. CASE ~h.err /\ Last(w) = EndOfLine /\ c.state # "TRY_QUIT"
  <2>1. d = write(e)
    BY <1>b, <1>3, <1>7 DEF ReplyComplete, on_read_completed
  <2>2. c.state \in ClientStates \ {"INACTIVE", "TRY_QUIT"}
    BY <1>7 DEF Quiet, ClientRecord
  <2>3. /\ next.state \in ClientStates \ {"INACTIVE"}
        /\ job = NoJob => next.state \in StatesWithout
        /\ next.mb \in Text /\ Len(next.mb) <= MaxBuf /\ next.mb # <<>>
    BY <2>2, NextCommandIs
  <2> HIDE DEF next
  <2>4. Quiet(e) /\ e.state = next.state /\ e.mb = next.mb
    BY <1>3, <2>3 DEF Quiet, ClientRecord
  <2> HIDE DEF e
  <2>5. ClientOK(d) /\ d.state = next.state /\ OnlySees(d, "WRITE", next.mb) /\ d.op \in {"none", "WRITE"}
    BY <2>1, <2>3, <2>4, Writes
  <2> QED
    BY <1>7, <2>3, <2>5 DEF Stays, Advanced, next
<1> QED
  BY <1>4, <1>5, <1>6, <1>7

\* What the first handler of the ready queue is about, and what is left.
LEMMA FirstHandler ==
  ASSUME ClientOK(cl), cl.ready # <<>>,
         NEW h, h = Head(cl.ready), NEW c, c = [cl EXCEPT !.ready = Tail(@)]
  PROVE  /\ h \in HandlerSet /\ ClientOK(c) /\ c.state = cl.state /\ c.op = cl.op
         /\ SeesNoMore(cl, c)
         /\ IsOp(h) => Quiet(c) /\ cl.state # "INACTIVE"
         /\ (IsOp(h) /\ ~h.err) => Sees(cl, h.k, Part(c, h.k, h.got))
         /\ (h.k = "READ" /\ ~h.err) => h.got # <<>>
<1> DEFINE t == Tail(cl.ready)
<1>1. cl \in ClientRecord /\ cl.ready \in Seq(HandlerSet) /\ OneOp(cl.ready) /\ Len(cl.mb) <= MaxBuf
  BY DEF ClientOK, ClientRecord
<1>2. /\ h \in HandlerSet /\ h = cl.ready[1] /\ 1 \in DOMAIN cl.ready
      /\ t \in Seq(HandlerSet) /\ OneOp(t)
      /\ IsOp(h) => NoOp(t)
      /\ NoOp(cl.ready) => NoOp(t)
      /\ \A i \in DOMAIN t : \E j \in DOMAIN cl.ready : t[i] = cl.ready[j]
  BY <1>1, Taken
<1> HIDE DEF t
<1>3. /\ c \in ClientRecord /\ c.state = cl.state /\ c.op = cl.op /\ c.mb = cl.mb /\ c.buf = cl.buf
      /\ c.sock = cl.sock /\ c.ready = t
  BY <1>1, <1>2 DEF ClientRecord, t
<1>4. ClientOK(c)
  <2>1. c.op # "none" => NoOp(c.ready) /\ c.sock = "open"
    BY <1>2, <1>3 DEF ClientOK
  <2>2. c.state = "INACTIVE" => c.op = "none" /\ NoOp(c.ready)
    BY <1>2, <1>3 DEF ClientOK
  <2>3. \A i \in DOMAIN c.ready : (c.ready[i].k = "READ" /\ ~c.ready[i].err) => c.ready[i].got # <<>>
    BY <1>2, <1>3 DEF ClientOK
  <2> QED
    BY <1>1, <1>2, <1>3, <2>1, <2>2, <2>3 DEF ClientOK
<1>5. SeesNoMore(cl, c)
  <2>1. \A k, g : Part(c, k, g) = Part(cl, k, g)
    BY <1>3 DEF Part
  <2>2. \A i \in DOMAIN c.ready : \E j \in DOMAIN cl.ready : c.ready[i] = cl.ready[j]
    BY <1>2, <1>3
  <2>3. c.op = cl.op
    BY <1>3
  <2>4. ASSUME NEW k, NEW w, Sees(c, k, w) PROVE Sees(cl, k, w)
    <3>1. CASE c.op = k /\ k \in Ops /\ w = Part(c, k, <<>>)
      BY <2>1, <2>3, <3>1 DEF Sees
    <3>2. ASSUME NEW i \in DOMAIN c.ready, c.ready[i].k = k, k \in Ops, ~c.ready[i].err,
                 w = Part(c, k, c.ready[i].got)
          PROVE  Sees(cl, k, w)
      <4>1. PICK j \in DOMAIN cl.ready : c.ready[i] = cl.ready[j]
        BY <2>2
      <4>2. w = Part(cl, k, cl.ready[j].got)
        BY <2>1, <3>2, <4>1
      <4> QED
        BY <3>2, <4>1, <4>2 DEF Sees
    <3> QED
      BY <2>4, <3>1, <3>2 DEF Sees
  <2> QED
    BY <2>4 DEF SeesNoMore
<1>6. ASSUME IsOp(h) PROVE Quiet(c) /\ cl.state # "INACTIVE"
  <2>1. ~NoOp(cl.ready)
    BY <1>2, <1>6 DEF NoOp
  <2> QED
    BY <1>1, <1>2, <1>3, <1>6, <2>1 DEF ClientOK, Quiet
<1>7. ASSUME IsOp(h), ~h.err PROVE Sees(cl, h.k, Part(c, h.k, h.got))
  <2>1. Part(c, h.k, h.got) = Part(cl, h.k, h.got)
    BY <1>3 DEF Part
  <2> QED
    BY <1>2, <1>7, <2>1 DEF Sees, IsOp
<1>8. (h.k = "READ" /\ ~h.err) => h.got # <<>>
  BY <1>2 DEF ClientOK
<1> QED
  BY <1>2, <1>3, <1>4, <1>5, <1>6, <1>7, <1>8

\* One handler of the client runs.
LEMMA RunStep ==
  ASSUME StateOK, RunHandler
  PROVE  /\ ClientOK(cl') /\ Ran(cl, cl') /\ (cl'.op = "CONNECT" => cl.op = "CONNECT")
         /\ job = NoJob => cl'.state \in StatesWithout
<1> DEFINE h == Head(cl.ready)
           c == [cl EXCEPT !.ready = Tail(@)]
           d == cl'
<1>1. /\ ClientOK(cl) /\ cl.ready # <<>> /\ d = Handle(c, h)
      /\ job \in Jobs \cup {NoJob} /\ (job = NoJob => cl.state \in StatesWithout)
  BY DEF StateOK, RunHandler
<1>2. /\ h \in HandlerSet /\ ClientOK(c) /\ c.state = cl.state /\ c.op = cl.op
      /\ SeesNoMore(cl, c)
      /\ IsOp(h) => Quiet(c) /\ cl.state # "INACTIVE"
      /\ (IsOp(h) /\ ~h.err) => Sees(cl, h.k, Part(c, h.k, h.got))
      /\ (h.k = "READ" /\ ~h.err) => h.got # <<>>
  BY <1>1, FirstHandler
<1> HIDE DEF h, c, d
<1>3. CASE h.k \in {"timeout", "close"}
  <2>1. d = CloseSocket(c)
    BY <1>1, <1>3 DEF Handle
  <2>2. ClientOK(d) /\ d.state = c.state /\ SeesNoMore(c, d) /\ d.op = "none"
    BY <1>2, <2>1, SocketCloses
  <2>3. SeesNoMore(cl, d)
    BY <1>2, <2>2 DEF SeesNoMore
  <2> QED
    BY <1>1, <1>2, <2>2, <2>3 DEF Ran, d
<1>4. ASSUME h.k \in Ops
      PROVE  Quiet(c) /\ c.state # "INACTIVE" /\ (job = NoJob => c.state \in StatesWithout)
             /\ (~h.err => Sees(cl, h.k, Part(c, h.k, h.got)))
  BY <1>1, <1>2, <1>4 DEF IsOp
<1>5. CASE h.k = "CONNECT"
  <2>1. d = handle_connect(c, h) /\ h.k \in Ops
    BY <1>1, <1>5 DEF Handle, Ops
  <2>2. /\ Stays(d) /\ d.state = c.state
        /\ h.err => SeesNothing(d)
        /\ ~h.err => OnlySees(d, "READ", <<>>)
    BY <1>2, <1>4, <2>1, ConnectRuns
  <2>3. Part(c, h.k, h.got) = <<>>
    BY <1>5 DEF Part
  <2>4. ~h.err => Sees(cl, "CONNECT", <<>>)
    BY <1>4, <1>5, <2>1, <2>3
  <2>5. h.err => SeesNoMore(cl, d)
    BY <2>2, NothingIsNoMore
  <2> QED
    BY <1>2, <2>2, <2>4, <2>5 DEF Ran, Stays, d
<1>6. CASE h.k = "WRITE"
  <2> DEFINE w == Part(c, "WRITE", h.got)
  <2>1. d = handle_write(c, h) /\ h.k \in Ops
    BY <1>1, <1>6 DEF Handle, Ops
  <2>2. ~h.err => Sees(cl, "WRITE", w)
    BY <1>4, <1>6, <2>1
  <2>3. /\ Stays(d) /\ d.state = c.state
        /\ h.err => SeesNothing(d)
        /\ (~h.err /\ w # <<>>) => OnlySees(d, "WRITE", w)
        /\ (~h.err /\ w = <<>>) => OnlySees(d, "READ", <<>>)
    BY <1>2, <1>4, <2>1, WriteRuns
  <2> HIDE DEF w
  <2>4. h.err => SeesNoMore(cl, d)
    BY <2>3, NothingIsNoMore
  <2>5. (~h.err /\ w # <<>>) => SeesNoMore(cl, d)
    BY <2>2, <2>3 DEF OnlySees, SeesNoMore
  <2> QED
    BY <1>2, <2>2, <2>3, <2>4, <2>5 DEF Ran, Stays, d
<1>7. CASE h.k = "READ"
  <2> DEFINE w == c.buf \o h.got
  <2>1. d = handle_read(c, h) /\ h.k \in Ops
    BY <1>1, <1>7 DEF Handle, Ops
  <2>2. Part(c, h.k, h.got) = w
    BY <1>7 DEF Part
  <2>3. ~h.err => Sees(cl, "READ", w) /\ w \in Text
    BY <1>1, <1>4, <1>7, <2>1, <2>2, SeenIsText
  <2>4. /\ Stays(d)
        /\ h.err => SeesNothing(d) /\ d.state = c.state
        /\ (~h.err /\ Last(w) # EndOfLine) => OnlySees(d, "READ", w) /\ d.state = c.state
        /\ (~h.err /\ Last(w) = EndOfLine) => Advanced(c, d)
    BY <1>1, <1>2, <1>4, <2>1, ReadRuns
  <2>5. ~h.err => w # <<>>
    <3>1. c.buf \in Text /\ h.got \in Text
      BY <1>2 DEF ClientOK, ClientRecord, HandlerSet
    <3> QED
      BY <1>2, <1>7, <3>1, ConcatEqualIffEmpty DEF Text
  <2> HIDE DEF w
  <2>6. h.err => SeesNoMore(cl, d)
    BY <2>4, NothingIsNoMore
  <2>7. (~h.err /\ Last(w) # EndOfLine) => SeesNoMore(cl, d)
    BY <2>3, <2>4 DEF OnlySees, SeesNoMore
  <2>8. (~h.err /\ Last(w) = EndOfLine) => Advanced(cl, d)
    BY <1>2, <2>4 DEF Advanced
  <2>9. Ran(cl, d)
    BY <1>2, <2>3, <2>4, <2>5, <2>6, <2>7, <2>8 DEF Ran
  <2> QED
    BY <2>4, <2>9 DEF Stays, d
<1> QED
  BY <1>2, <1>3, <1>5, <1>6, <1>7 DEF HandlerSet, Ops

\* An operation is over: what it brought is in its handler.
Ends(c, d, err, got) ==
    d = [c EXCEPT !.op = "none", !.ready = Append(@, OpHandler(c.op, err, got))]

LEMMA Completes ==
  ASSUME NEW c, ClientOK(c), c.op # "none", NEW err \in BOOLEAN, NEW got \in Text,
         (c.op = "READ" /\ ~err) => got # <<>>,
         NEW d, Ends(c, d, err, got)
  PROVE  /\ ClientOK(d) /\ d.state = c.state /\ d.op = "none"
         /\ err => SeesNothing(d)
         /\ OnlySees(d, c.op, Part(c, c.op, got))
         /\ Sees(c, c.op, Part(c, c.op, <<>>))
<1> DEFINE h == OpHandler(c.op, err, got)
<1>1. /\ c \in ClientRecord /\ c.op \in Ops /\ NoOp(c.ready) /\ OneOp(c.ready)
      /\ c.state # "INACTIVE" /\ c.ready \in Seq(HandlerSet) /\ Len(c.mb) <= MaxBuf
  BY DEF ClientOK, ClientRecord
<1>2. h \in HandlerSet /\ IsOp(h) /\ h.k = c.op /\ h.err = err /\ h.got = got
  BY <1>1, OpHandlerIs
<1> HIDE DEF h
<1>3. /\ Append(c.ready, h) \in Seq(HandlerSet) /\ OneOp(Append(c.ready, h))
      /\ \A i \in DOMAIN Append(c.ready, h) : IsOp(Append(c.ready, h)[i]) => Append(c.ready, h)[i] = h
  BY <1>1, <1>2, Posted
<1>4. /\ d \in ClientRecord /\ d.op = "none" /\ d.ready = Append(c.ready, h)
      /\ d.mb = c.mb /\ d.buf = c.buf /\ d.state = c.state
  BY <1>1, <1>3 DEF Ends, ClientRecord, h
<1>5. ClientOK(d)
  BY <1>1, <1>2, <1>3, <1>4 DEF ClientOK, Ops, IsOp
<1>6. err => SeesNothing(d)
  BY <1>2, <1>3, <1>4 DEF SeesNothing, Sees, Ops, IsOp
<1>7. OnlySees(d, c.op, Part(c, c.op, got))
  <2>1. \A k, g : Part(d, k, g) = Part(c, k, g)
    BY <1>4 DEF Part
  <2>2. \A i \in DOMAIN d.ready : d.ready[i].k \in Ops => d.ready[i].k = c.op /\ d.ready[i].got = got
    BY <1>2, <1>3, <1>4 DEF IsOp
  <2>3. d.op \notin Ops
    BY <1>4 DEF Ops
  <2> QED
    BY <2>1, <2>2, <2>3 DEF OnlySees, Sees
<1>8. Sees(c, c.op, Part(c, c.op, <<>>))
  BY <1>1 DEF Sees
<1> QED
  BY <1>4, <1>5, <1>6, <1>7, <1>8

\* A timer expires.
LEMMA Expires ==
  ASSUME ClientOK(cl), TimerExpires
  PROVE  /\ ClientOK(cl') /\ cl'.state = cl.state /\ cl'.op = cl.op /\ SeesNoMore(cl, cl')
<1> DEFINE h == TimerHandler(cl.timer)
           d == cl'
<1>1. /\ cl \in ClientRecord /\ OneOp(cl.ready) /\ cl.ready \in Seq(HandlerSet) /\ Len(cl.mb) <= MaxBuf
      /\ cl.timer \in {"timeout", "close"}
  BY DEF ClientOK, ClientRecord, TimerExpires
<1>2. h \in HandlerSet /\ ~IsOp(h)
  BY <1>1, TimerHandlerIs
<1>3. d = [cl EXCEPT !.timer = "none", !.ready = Append(@, h)]
  BY DEF TimerExpires
<1> HIDE DEF h, d
<1>4. /\ Append(cl.ready, h) \in Seq(HandlerSet) /\ OneOp(Append(cl.ready, h))
      /\ NoOp(cl.ready) => NoOp(Append(cl.ready, h))
      /\ \A i \in DOMAIN Append(cl.ready, h) :
           Append(cl.ready, h)[i] = h \/ (\E j \in DOMAIN cl.ready : Append(cl.ready, h)[i] = cl.ready[j])
  BY <1>1, <1>2, Posted
<1>5. /\ d \in ClientRecord /\ d.op = cl.op /\ d.ready = Append(cl.ready, h) /\ d.sock = cl.sock
      /\ d.mb = cl.mb /\ d.buf = cl.buf /\ d.state = cl.state
  BY <1>1, <1>3, <1>4 DEF ClientRecord
<1>6. ClientOK(d)
  <2>1. \A i \in DOMAIN d.ready : (d.ready[i].k = "READ" /\ ~d.ready[i].err) => d.ready[i].got # <<>>
    BY <1>2, <1>4, <1>5 DEF ClientOK, IsOp, Ops
  <2> QED
    BY <1>1, <1>4, <1>5, <2>1 DEF ClientOK
<1>7. SeesNoMore(cl, d)
  <2>1. \A k, g : Part(d, k, g) = Part(cl, k, g)
    BY <1>5 DEF Part
  <2>2. \A i \in DOMAIN d.ready : d.ready[i].k \in Ops => \E j \in DOMAIN cl.ready : d.ready[i] = cl.ready[j]
    BY <1>2, <1>4, <1>5 DEF IsOp
  <2> QED
    BY <1>5, <2>1, <2>2 DEF SeesNoMore, Sees
<1> QED
  BY <1>5, <1>6, <1>7 DEF d

-----------------------------------------------------------------------------
(* The types of both ends, for any mail *)

LEMMA InactiveSeesNothing ==
  ASSUME NEW c, ClientOK(c), c.state = "INACTIVE"
  PROVE  SeesNothing(c)
<1>1. c.op = "none" /\ NoOp(c.ready)
  BY DEF ClientOK
<1> QED
  BY <1>1 DEF SeesNothing, Sees, NoOp, IsOp, Ops

\* The conversation begins.
LEMMA ConnectStep ==
  ASSUME StateOK, connect
  PROVE  /\ ClientOK(cl') /\ cl'.state = "TRY_CONNECT" /\ OnlySees(cl', "CONNECT", <<>>)
<1> DEFINE c == [cl EXCEPT !.state = "TRY_CONNECT", !.sock = "open"]
<1>1. ClientOK(cl) /\ cl.state = "INACTIVE" /\ cl' = StartOp(c, "CONNECT")
  BY DEF StateOK, connect
<1>2. Quiet(c) /\ c.state = "TRY_CONNECT"
  BY <1>1 DEF Quiet, ClientOK, ClientRecord, ClientStates
<1> HIDE DEF c
<1>3. Part(c, "CONNECT", <<>>) = <<>> /\ "CONNECT" \in Ops
  BY DEF Part, Ops
<1> QED
  BY <1>1, <1>2, <1>3, Starts

\* The steps of the network on the client's operation.
LEMMA ConnectCompletesStep ==
  ASSUME StateOK, ConnectCompletes
  PROVE  ClientOK(cl') /\ cl'.state = cl.state /\ cl'.op = "none" /\ SeesNoMore(cl, cl')
<1>1. ClientOK(cl) /\ cl.op # "none" /\ cl.op = "CONNECT"
  BY DEF StateOK, ConnectCompletes
<1>2. PICK err \in BOOLEAN :
        cl' = [cl EXCEPT !.op = "none", !.ready = Append(@, OpHandler("CONNECT", err, <<>>))]
  BY DEF ConnectCompletes, Complete
<1>3. /\ ClientOK(cl') /\ cl'.state = cl.state /\ cl'.op = "none"
      /\ OnlySees(cl', cl.op, Part(cl, cl.op, <<>>)) /\ Sees(cl, cl.op, Part(cl, cl.op, <<>>))
  <2> DEFINE d == cl'
  <2>1. Ends(cl, d, err, <<>>)
    BY <1>1, <1>2 DEF Ends
  <2> HIDE DEF d
  <2>2. /\ ClientOK(d) /\ d.state = cl.state /\ d.op = "none"
        /\ OnlySees(d, cl.op, Part(cl, cl.op, <<>>)) /\ Sees(cl, cl.op, Part(cl, cl.op, <<>>))
    BY <1>1, <2>1, EmptyText, Completes
  <2> QED
    BY <2>2 DEF d
<1> QED
  BY <1>3 DEF OnlySees, SeesNoMore

\* A read brings a chunk, or fails.
LEMMA ReadCompletesStep ==
  ASSUME StateOK, ReadCompletes
  PROVE  /\ ClientOK(cl') /\ cl'.state = cl.state /\ cl'.op = "none" /\ s2c' \in Text
         /\ Sees(cl, "READ", cl.buf) /\ cl.buf \in Text
         /\ \/ SeesNothing(cl') /\ s2c' = s2c
            \/ \E x \in Text : /\ x # <<>> /\ s2c = x \o s2c'
                               /\ OnlySees(cl', "READ", cl.buf \o x)
<1>1. ClientOK(cl) /\ cl.op # "none" /\ cl.op = "READ" /\ s2c \in Text /\ cl.buf \in Text
  BY DEF StateOK, ReadCompletes, ClientOK, ClientRecord
<1>2. \A x : Part(cl, "READ", x) = cl.buf \o x
  BY DEF Part
<1>3. cl.buf \o <<>> = cl.buf
  BY <1>1, ConcatEmptySeq DEF Text
<1>4. CASE Complete("READ", TRUE, <<>>) /\ s2c' = s2c
  <2> DEFINE d == cl'
  <2>1. Ends(cl, d, TRUE, <<>>)
    BY <1>1, <1>4 DEF Complete, Ends
  <2> HIDE DEF d
  <2>2. /\ ClientOK(d) /\ d.state = cl.state /\ d.op = "none" /\ SeesNothing(d)
        /\ Sees(cl, cl.op, Part(cl, cl.op, <<>>))
    BY <1>1, <2>1, EmptyText, Completes
  <2> QED
    BY <1>1, <1>2, <1>3, <1>4, <2>2 DEF d
<1>5. CASE ~(Complete("READ", TRUE, <<>>) /\ s2c' = s2c)
  <2>1. PICK n \in 1 .. Len(s2c) : /\ Complete("READ", FALSE, SubSeq(s2c, 1, n))
                                   /\ s2c' = SubSeq(s2c, n + 1, Len(s2c))
    <3>1. Len(s2c) \in Nat
      BY <1>1, LenProperties DEF Text
    <3>2. PICK n \in 1 .. (IF Len(s2c) < MaxBuf THEN Len(s2c) ELSE MaxBuf) :
             /\ Complete("READ", FALSE, SubSeq(s2c, 1, n))
             /\ s2c' = SubSeq(s2c, n + 1, Len(s2c))
      BY <1>5 DEF ReadCompletes
    <3>3. n \in 1 .. Len(s2c)
      BY <3>1, MaxBufAssumption
    <3> QED
      BY <3>2, <3>3
  <2> DEFINE d == cl'
             x == SubSeq(s2c, 1, n)
             e == FALSE
  <2>2. x \in Text /\ x # <<>> /\ s2c' \in Text /\ x \o s2c' = s2c
    BY <1>1, <2>1, Cut DEF Text
  <2>3. /\ Ends(cl, d, e, x)
        /\ e \in BOOLEAN
    BY <1>1, <2>1 DEF Complete, Ends
  <2>c. (cl.op = "READ" /\ ~e) => x # <<>>
    BY <2>2
  <2> HIDE DEF d, x, e
  <2>4. /\ ClientOK(d) /\ d.state = cl.state /\ d.op = "none"
        /\ OnlySees(d, cl.op, Part(cl, cl.op, x))
        /\ Sees(cl, cl.op, Part(cl, cl.op, <<>>))
    BY <1>1, <2>2, <2>3, <2>c, Completes
  <2> QED
    BY <1>1, <1>2, <1>3, <2>2, <2>4 DEF d
<1> QED
  BY <1>4, <1>5

\* A write takes a part of what is left, or fails.
LEMMA WriteCompletesStep ==
  ASSUME StateOK, WriteCompletes
  PROVE  /\ ClientOK(cl') /\ cl'.state = cl.state /\ cl'.op = "none" /\ c2s' \in Text
         /\ Sees(cl, "WRITE", cl.mb) /\ cl.mb \in Text /\ cl.mb # <<>>
         /\ \/ SeesNothing(cl') /\ c2s' = c2s
            \/ \E x, y \in Text : /\ cl.mb = x \o y /\ c2s' = c2s \o x /\ net = "up"
                                  /\ OnlySees(cl', "WRITE", y)
<1>1. ClientOK(cl) /\ cl.op # "none" /\ cl.op = "WRITE" /\ c2s \in Text /\ cl.mb \in Text /\ cl.mb # <<>>
  BY DEF StateOK, WriteCompletes, ClientOK, ClientRecord
<1>2. \A x : Part(cl, "WRITE", x) = SubSeq(cl.mb, Len(x) + 1, Len(cl.mb))
  BY DEF Part
<1>3. Part(cl, "WRITE", <<>>) = cl.mb
  <2>1. SubSeq(cl.mb, 1, Len(cl.mb)) = cl.mb
    BY <1>1, SubSeqFull DEF Text
  <2> QED
    BY <2>1, EmptyText DEF Part
<1>4. CASE Complete("WRITE", TRUE, <<>>) /\ c2s' = c2s
  <2> DEFINE d == cl'
  <2>1. Ends(cl, d, TRUE, <<>>)
    BY <1>1, <1>4 DEF Complete, Ends
  <2> HIDE DEF d
  <2>2. /\ ClientOK(d) /\ d.state = cl.state /\ d.op = "none" /\ SeesNothing(d)
        /\ Sees(cl, cl.op, Part(cl, cl.op, <<>>))
    BY <1>1, <2>1, EmptyText, Completes
  <2> QED
    BY <1>1, <1>3, <1>4, <2>2 DEF d
<1>5. CASE ~(Complete("WRITE", TRUE, <<>>) /\ c2s' = c2s)
  <2>1. PICK n \in 1 .. Len(cl.mb) : /\ Complete("WRITE", FALSE, SubSeq(cl.mb, 1, n))
                                     /\ c2s' = c2s \o SubSeq(cl.mb, 1, n) /\ net = "up"
    BY <1>5 DEF WriteCompletes
  <2> DEFINE d == cl'
             e == FALSE
             x == SubSeq(cl.mb, 1, n)
             y == SubSeq(cl.mb, n + 1, Len(cl.mb))
  <2>2. x \in Text /\ Len(x) = n /\ y \in Text /\ x \o y = cl.mb
    BY <1>1, <2>1, Cut DEF Text
  <2>3. c2s \o x \in Text
    BY <1>1, <2>2, ConcatProperties DEF Text
  <2>4. /\ Ends(cl, d, e, x)
        /\ e \in BOOLEAN
    BY <1>1, <2>1 DEF Complete, Ends
  <2>5. c2s' = c2s \o x
    BY <2>1
  <2>6. Part(cl, "WRITE", x) = y
    BY <1>2, <2>2
  <2>c. (cl.op = "READ" /\ ~e) => x # <<>>
    BY <1>1
  <2> HIDE DEF d, e, x, y
  <2>7. /\ ClientOK(d) /\ d.state = cl.state /\ d.op = "none"
        /\ OnlySees(d, cl.op, Part(cl, cl.op, x))
        /\ Sees(cl, cl.op, Part(cl, cl.op, <<>>))
    BY <1>1, <2>2, <2>4, <2>c, Completes
  <2> QED
    BY <1>1, <1>3, <2>1, <2>2, <2>3, <2>5, <2>6, <2>7 DEF d
<1> QED
  BY <1>4, <1>5

\* What the server answers and the state it goes to, whatever the line.
LEMMA ExecCmdIs ==
  ASSUME NEW st \in {"START", "RESET", "MAIL", "DATA"}, NEW cmd
  PROVE  /\ exec_cmd(st, cmd).st \in {"START", "RESET", "MAIL", "DATA"}
         /\ exec_cmd(st, cmd).code \in {"250", "221", "354", "500", "501", "502"}
  BY DEF exec_cmd, MailCommand

LEMMA AnswerIsText ==
  ASSUME NEW code \in {"250", "221", "354", "500", "501", "502"}
  PROVE  <<code, EndOfLine>> \in Text
  BY DEF Text, Symbols, EndOfLine

LEMMA GreetingIsText == Greeting \in Text /\ Line(Greeting)
<1>1. Greeting \in Text
  <2>1. Range(Greeting) \subseteq Symbols
    BY DEF Symbols
  <2> QED
    BY <2>1, GreetingAssumption, SeqMonotonic DEF Text
<1> QED
  BY <1>1, GreetingAssumption DEF Line, EndOfLine

LEMMA ReplyIsText ==
  ASSUME s2c \in Text, NEW code \in {"250", "221", "354", "500", "501", "502"}, Reply(code)
  PROVE  s2c' \in Text
<1>1. <<code, EndOfLine>> \in Text
  BY AnswerIsText
<1>2. s2c \o <<code, EndOfLine>> \in Text
  BY <1>1, ConcatProperties DEF Text
<1> QED
  BY <1>2 DEF Reply

\* The last characters of the mail are a text like it.
LEMMA LastCharsAreText ==
  ASSUME NEW buf \in Text, NEW chunk \in Text
  PROVE  LastChars(buf, chunk) \in Text /\ buf \o chunk \in Text
<1>1. Len(chunk) \in Nat /\ \A i \in 1 .. Len(chunk) : chunk[i] \in Symbols
  BY LenProperties, ElementOfSeq DEF Text
<1>2. buf \o chunk \in Text
  BY ConcatProperties DEF Text
<1>3. CASE Len(chunk) >= 5
  <2>1. /\ Len(chunk) - 4 \in Int /\ Len(chunk) \in Int
        /\ \A i \in Len(chunk) - 4 .. Len(chunk) : chunk[i] \in Symbols
    BY <1>1, <1>3
  <2>2. SubSeq(chunk, Len(chunk) - 4, Len(chunk)) \in Text
    BY <2>1, SubSeqProperties DEF Text
  <2> QED
    BY <1>2, <1>3, <2>2 DEF LastChars
<1> QED
  BY <1>1, <1>2, <1>3 DEF LastChars

\* What the server's thread does with a chunk, in the case of a mail and of a line.
LEMMA RecvIs ==
  ASSUME StateOK, Recv
  PROVE  \E chunk, rest \in Text :
           /\ chunk # <<>> /\ c2s = chunk \o rest /\ c2s' = rest
           /\ sv.pc = "recv" /\ UNCHANGED <<job, cl, net>>
           /\ \/ sv.st = "DATA" /\ ReadData(chunk)
              \/ sv.st # "DATA" /\ ReadLine(chunk)
<1>1. PICK n \in 1 .. Len(c2s) :
        /\ c2s' = SubSeq(c2s, n + 1, Len(c2s))
        /\ \/ sv.st = "DATA" /\ ReadData(SubSeq(c2s, 1, n))
           \/ sv.st # "DATA" /\ ReadLine(SubSeq(c2s, 1, n))
  BY DEF Recv
<1>2. sv.pc = "recv" /\ UNCHANGED <<job, cl, net>>
  BY DEF Recv
<1>3. c2s \in Seq(Symbols)
  BY DEF StateOK, Text
<1>4. /\ SubSeq(c2s, 1, n) \in Text /\ SubSeq(c2s, n + 1, Len(c2s)) \in Text
      /\ SubSeq(c2s, 1, n) # <<>>
      /\ SubSeq(c2s, 1, n) \o SubSeq(c2s, n + 1, Len(c2s)) = c2s
  BY <1>3, Cut DEF Text
<1> QED
  BY <1>1, <1>2, <1>4

\* The two things it does with a chunk: the fields afterwards.
LEMMA ReadLineIs ==
  ASSUME StateOK, NEW chunk \in Text, ReadLine(chunk),
         NEW cmd, cmd = Head(sv.buf \o chunk), NEW done, done = exec_cmd(sv.st, cmd)
  PROVE  /\ ServerTypeOK' /\ sv'.mail = sv.mail /\ queued' = queued
         /\ \/ /\ sv'.pc = sv.pc /\ sv'.st = sv.st /\ sv'.buf = sv.buf \o chunk
               /\ s2c' = s2c /\ served' = served
            \/ /\ \E i \in 1 .. Len(chunk) : chunk[i] = EndOfLine
               /\ sv'.pc = NextPc(cmd) /\ sv'.st = done.st /\ sv'.buf = <<>>
               /\ Reply(done.code) /\ served' = Append(served, cmd)
<1> DEFINE eol == SelectInSeq(chunk, LAMBDA x : x = EndOfLine)
<1>1. sv \in [pc : {"accept", "recv", "closed"}, st : ServerStates, buf : Text, mail : Text]
  BY DEF StateOK, ServerTypeOK
<1>2. done.st \in ServerStates /\ sv.buf \o chunk \in Text /\ <<>> \in Text
  BY <1>1, ExecCmdIs, LastCharsAreText, EmptyText DEF ServerStates
<1>3. NextPc(cmd) \in {"closed", "recv"}
  BY DEF NextPc
<1>4. CASE eol = 0
  <2>1. sv' = [sv EXCEPT !.buf = @ \o chunk] /\ UNCHANGED <<s2c, served, queued>>
    BY <1>4 DEF ReadLine
  <2> QED
    BY <1>1, <1>2, <2>1 DEF ServerTypeOK
<1>5. CASE eol # 0
  <2>1. /\ sv' = [sv EXCEPT !.pc = NextPc(cmd), !.st = done.st, !.buf = <<>>]
        /\ Reply(done.code) /\ served' = Append(served, cmd) /\ queued' = queued
    BY <1>5 DEF ReadLine
  <2>2. \E i \in 1 .. Len(chunk) : chunk[i] = EndOfLine
    BY <1>5 DEF SelectInSeq
  <2> HIDE DEF eol
  <2> QED
    BY <1>1, <1>2, <1>3, <2>1, <2>2 DEF ServerTypeOK
<1> QED
  BY <1>4, <1>5

LEMMA ReadDataIs ==
  ASSUME StateOK, NEW chunk \in Text, ReadData(chunk),
         NEW buf, buf = LastChars(sv.buf, chunk), NEW mail, mail = sv.mail \o chunk
  PROVE  /\ ServerTypeOK'
         /\ MailEnds(buf) =>
              /\ sv'.pc = NextPc("mail") /\ sv'.st = "RESET" /\ sv'.buf = <<>> /\ sv'.mail = <<>>
              /\ served' = Append(served, "mail")
              /\ queued' = Append(queued, SubSeq(mail, 1, Len(mail) - 5))
              /\ Reply("250")
         /\ ~MailEnds(buf) =>
              /\ sv'.pc = sv.pc /\ sv'.st = sv.st /\ sv'.buf = buf /\ sv'.mail = mail
              /\ UNCHANGED <<s2c, served, queued>>
<1>1. sv \in [pc : {"accept", "recv", "closed"}, st : ServerStates, buf : Text, mail : Text]
  BY DEF StateOK, ServerTypeOK
<1>2. buf \in Text /\ mail \in Text /\ <<>> \in Text
  BY <1>1, LastCharsAreText, EmptyText
<1>3. NextPc("mail") \in {"closed", "recv"}
  BY DEF NextPc
<1>4. CASE MailEnds(buf)
  <2>1. /\ sv' = [sv EXCEPT !.pc = NextPc("mail"), !.st = "RESET", !.buf = <<>>, !.mail = <<>>]
        /\ served' = Append(served, "mail")
        /\ queued' = Append(queued, SubSeq(mail, 1, Len(mail) - 5))
        /\ Reply("250")
    BY <1>4 DEF ReadData
  <2> QED
    BY <1>1, <1>2, <1>3, <1>4, <2>1 DEF ServerTypeOK, ServerStates
<1>5. CASE ~MailEnds(buf)
  <2>1. /\ sv' = [sv EXCEPT !.buf = buf, !.mail = mail]
        /\ UNCHANGED <<s2c, served, queued>>
    BY <1>5 DEF ReadData
  <2> QED
    BY <1>1, <1>2, <1>5, <2>1 DEF ServerTypeOK
<1> QED
  BY <1>4, <1>5

\* The server's record keeps its types.
LEMMA ServerTypes ==
  ASSUME StateOK, Accept \/ Recv \/ RecvFails
  PROVE  ServerTypeOK' /\ c2s' \in Text /\ s2c' \in Text
<1>1. ServerTypeOK /\ c2s \in Text /\ s2c \in Text
  BY DEF StateOK
<1>2. CASE Accept
  <2>1. sv' = [sv EXCEPT !.pc = "recv"] \/ sv' = [sv EXCEPT !.pc = "closed"]
    BY <1>2 DEF Accept
  <2>2. c2s' = c2s /\ s2c' \in {s2c, Greeting}
    BY <1>2 DEF Accept
  <2> QED
    BY <1>1, <2>1, <2>2, GreetingIsText DEF ServerTypeOK
<1>3. CASE RecvFails
  <2>1. sv' = [sv EXCEPT !.pc = "closed"] /\ c2s' = c2s /\ s2c' = s2c
    BY <1>3 DEF RecvFails
  <2> QED
    BY <1>1, <2>1 DEF ServerTypeOK
<1>4. CASE Recv
  <2>1. PICK chunk \in Text : /\ c2s' \in Text
                              /\ ReadData(chunk) \/ ReadLine(chunk)
    BY <1>4, RecvIs
  <2>2. CASE ReadData(chunk)
    <3>1. ServerTypeOK' /\ (s2c' = s2c \/ Reply("250"))
      BY <2>2, ReadDataIs
    <3> QED
      BY <1>1, <2>1, <3>1, ReplyIsText
  <2>3. CASE ReadLine(chunk)
    <3> DEFINE code == exec_cmd(sv.st, Head(sv.buf \o chunk)).code
    <3>1. ServerTypeOK' /\ (s2c' = s2c \/ Reply(code))
      BY <2>3, ReadLineIs
    <3>2. code \in {"250", "221", "354", "500", "501", "502"}
      BY <1>1, ExecCmdIs DEF ServerTypeOK, ServerStates
    <3> HIDE DEF code
    <3> QED
      BY <1>1, <2>1, <3>1, <3>2, ReplyIsText
  <2> QED
    BY <2>1, <2>2, <2>3
<1> QED
  BY <1>2, <1>3, <1>4

LEMMA InitTypes == Init => StateOK
<1> SUFFICES ASSUME Init PROVE StateOK
  OBVIOUS
<1>1. <<>> \in Text /\ <<>> \in Seq(HandlerSet)
  BY EmptyText, EmptySeq
<1>2. DOMAIN cl.ready = {}
  BY DEF Init
<1>3. /\ cl.state = "INACTIVE" /\ cl.mb = <<>> /\ cl.op = "none" /\ cl \in ClientRecord
      /\ net = "none" /\ ServerTypeOK
      /\ c2s = <<>> /\ s2c = <<>> /\ job \in Jobs \cup {NoJob}
  BY <1>1 DEF Init, ClientRecord, ClientStates, ServerTypeOK, ServerStates
<1>4. ClientOK(cl)
  BY <1>2, <1>3, EmptyText DEF ClientOK, OneOp, NoOp
<1> QED
  BY <1>1, <1>3, <1>4 DEF StateOK, StatesWithout

LEMMA TypesStep == StateOK /\ [Next]_vars => StateOK'
<1> SUFFICES ASSUME StateOK, [Next]_vars PROVE StateOK'
  OBVIOUS
<1>1. /\ ClientOK(cl) /\ ServerTypeOK /\ c2s \in Text /\ s2c \in Text
      /\ job \in Jobs \cup {NoJob} /\ (job = NoJob => cl.state \in StatesWithout)
      /\ net \in {"none", "trying", "up", "down"} /\ (net = "none" => cl.state = "INACTIVE")
  BY DEF StateOK
<1>2. CASE connect
  <2>1. net' = "trying" /\ UNCHANGED <<job, c2s, s2c, sv>>
    BY <1>2 DEF connect
  <2>2. ClientOK(cl') /\ cl'.state = "TRY_CONNECT"
    BY <1>2, ConnectStep
  <2> QED
    BY <1>1, <2>1, <2>2 DEF StateOK, ServerTypeOK, StatesWithout
<1>3. CASE RunHandler
  <2>1. UNCHANGED <<job, net, c2s, s2c, sv>>
    BY <1>3 DEF RunHandler
  <2>2. ClientOK(cl') /\ Ran(cl, cl') /\ (job = NoJob => cl'.state \in StatesWithout)
    BY <1>3, RunStep
  <2>3. cl.state = "INACTIVE" => cl'.state = "INACTIVE"
    BY <1>1, <2>2, InactiveSeesNothing DEF Ran, SeesNothing
  <2> QED
    BY <1>1, <2>1, <2>2, <2>3 DEF StateOK, ServerTypeOK
<1>4. CASE TimerExpires
  <2>1. UNCHANGED <<job, net, c2s, s2c, sv>>
    BY <1>4 DEF TimerExpires
  <2>2. ClientOK(cl') /\ cl'.state = cl.state
    BY <1>1, <1>4, Expires
  <2> QED
    BY <1>1, <2>1, <2>2 DEF StateOK, ServerTypeOK
<1>5. CASE ConnectCompletes
  <2>1. UNCHANGED <<job, c2s, s2c, sv>> /\ net' \in {"up", "down"}
    BY <1>5 DEF ConnectCompletes
  <2>2. ClientOK(cl') /\ cl'.state = cl.state
    BY <1>5, ConnectCompletesStep
  <2> QED
    BY <1>1, <2>1, <2>2 DEF StateOK, ServerTypeOK
<1>6. CASE ReadCompletes
  <2>1. UNCHANGED <<job, net, c2s, sv>>
    BY <1>6 DEF ReadCompletes
  <2>2. ClientOK(cl') /\ cl'.state = cl.state /\ s2c' \in Text
    BY <1>6, ReadCompletesStep
  <2> QED
    BY <1>1, <2>1, <2>2 DEF StateOK, ServerTypeOK
<1>7. CASE WriteCompletes
  <2>1. UNCHANGED <<job, net, s2c, sv>>
    BY <1>7 DEF WriteCompletes
  <2>2. ClientOK(cl') /\ cl'.state = cl.state /\ c2s' \in Text
    BY <1>7, WriteCompletesStep
  <2> QED
    BY <1>1, <2>1, <2>2 DEF StateOK, ServerTypeOK
<1>8. CASE Break
  <2>1. UNCHANGED <<job, cl, sv>> /\ net' = "down" /\ c2s' = <<>> /\ s2c' = <<>>
    BY <1>8 DEF Break
  <2> QED
    BY <1>1, <2>1, EmptyText DEF StateOK, ServerTypeOK
<1>9. CASE Accept \/ Recv \/ RecvFails
  <2>1. UNCHANGED <<job, cl, net>>
    BY <1>9 DEF Accept, Recv, RecvFails
  <2>2. ServerTypeOK' /\ c2s' \in Text /\ s2c' \in Text
    BY <1>9, ServerTypes
  <2> QED
    BY <1>1, <2>1, <2>2 DEF StateOK
<1>10. CASE UNCHANGED vars
  BY <1>1, <1>10 DEF vars, StateOK, ServerTypeOK
<1> QED
  BY <1>2, <1>3, <1>4, <1>5, <1>6, <1>7, <1>8, <1>9, <1>10 DEF Next

\* Both ends keep their types and mb_ its capacity, for every mail, whether it fits
\* into the block or not: the client has at most one operation under way, and
\* nothing of a mail is sent without a job.
THEOREM Types == Spec => []TypeOK
<1>1. StateOK => TypeOK
  <2> SUFFICES ASSUME StateOK PROVE TypeOK
    OBVIOUS
  <2>1. cl \in ClientRecord /\ Len(cl.mb) <= MaxBuf
    BY DEF StateOK, ClientOK
  <2> QED
    BY <2>1 DEF StateOK, ServerTypeOK, ServerStates, TypeOK, ClientRecord, Ops
<1> QED
  BY InitTypes, TypesStep, <1>1, PTL DEF Spec

-----------------------------------------------------------------------------
(* The plan of the conversation *)

Known == job \in Jobs \cup {NoJob} /\ Regular

LEMMA PlanLength ==
  /\ job = NoJob => Len(Script) = 3
  /\ job # NoJob => Len(Script) = 7
  BY DEF Script, StateScript

\* Each state of the client is one of the plan's, once.
LEMMA StatesOfPlan ==
  ASSUME NEW k \in 0 .. Len(Script)
  PROVE  /\ StateAt(k) \in ClientStates \ {"INACTIVE"}
         /\ StateAt(k) = "TRY_QUIT" <=> k = Len(Script)
         /\ StateAt(k) = "TRY_CONNECT" <=> k = 0
<1>1. CASE job = NoJob
  <2>a. Len(Script) = 3
    BY <1>1, PlanLength
  <2>1. k \in {0, 1, 2, 3} /\ Len(Script) = 3
    BY <2>a
  <2> QED
    BY <1>1, <2>1 DEF StateAt, StateScript, ClientStates
<1>2. CASE job # NoJob
  <2>a. Len(Script) = 7
    BY <1>2, PlanLength
  <2>1. k \in {0, 1, 2, 3, 4, 5, 6, 7} /\ Len(Script) = 7
    BY <2>a
  <2> QED
    BY <1>2, <2>1 DEF StateAt, StateScript, ClientStates
<1> QED
  BY <1>1, <1>2

\* The client goes through the plan: each answer makes it write the next command,
\* and the mail whole as it fits into the block.
LEMMA NextOfPlan ==
  ASSUME Known, NEW k \in 0 .. Len(Script) - 1
  PROVE  /\ NextCommand(StateAt(k)).state = StateAt(k + 1)
         /\ NextCommand(StateAt(k)).mb = Command(k + 1)
<1>1. CASE job = NoJob
  <2>a. Len(Script) = 3
    BY <1>1, PlanLength
  <2>1. k \in {0, 1, 2}
    BY <2>a
  <2> QED
    BY <1>1, <2>1, NextCommandAt DEF StateAt, StateScript, Script, Command
<1>2. CASE job # NoJob
  <2>a. Len(Script) = 7
    BY <1>2, PlanLength
  <2>1. k \in {0, 1, 2, 3, 4, 5, 6}
    BY <2>a
  <2>2. copy(copy(<<>>, job), Terminator) = job \o Terminator
    <3>1. /\ job \in Text /\ Terminator \in Text /\ Len(Terminator) = 5
          /\ Len(job) + Len(Terminator) <= MaxBuf /\ Len(job) \in Nat /\ Len(Terminator) \in Nat
      BY <1>2, MailIsText, LenProperties DEF Known, Regular, Fits, Text
    <3>2. copy(<<>>, job) = job
      <4>1. <<>> \o job = job
        BY <3>1, ConcatEmptySeq DEF Text
      <4>2. Len(<<>>) + Len(job) <= MaxBuf /\ Len(<<>>) <= MaxBuf
        BY <3>1, EmptyText, MaxBufAssumption
      <4> QED
        BY <3>1, <4>1, <4>2, EmptyText, Copied
    <3>3. Len(job) <= MaxBuf
      BY <3>1, MaxBufAssumption
    <3> QED
      BY <3>1, <3>2, <3>3, Copied
  <2>3. CASE k = 5
    BY <1>2, <2>2, <2>3, NextCommandAt DEF StateAt, StateScript, Script, Command
  <2>4. CASE k # 5
    BY <1>2, <2>1, <2>4, NextCommandAt DEF StateAt, StateScript, Script, Command
  <2> QED
    BY <2>3, <2>4
<1> QED
  BY <1>1, <1>2

\* So does the server, and it answers each command with one line.
LEMMA ServerOfPlan ==
  ASSUME NEW k \in 1 .. Len(Script)
  PROVE  /\ Script[k] \in {"HELO", "RSET", "MAIL", "RCPT", "DATA", "QUIT", "mail"}
         /\ ServerAt(k) \in ServerStates
         /\ Script[k] = "mail" <=> ServerAt(k) = "DATA"
         /\ Script[k] = "mail" => job # NoJob /\ k = 6 /\ ServerAt(k + 1) = "RESET"
         /\ Script[k] = "QUIT" <=> k = Len(Script)
         /\ (k < Len(Script) /\ Script[k] # "mail") =>
               exec_cmd(ServerAt(k), Script[k]).st = ServerAt(k + 1)
         /\ Script[k] # "mail" => Delivered(k) = Delivered(k - 1)
<1>1. CASE job = NoJob
  <2>a. Len(Script) = 3
    BY <1>1, PlanLength
  <2>1. k \in {1, 2, 3} /\ Len(Script) = 3
    BY <2>a
  <2> QED
    BY <1>1, <2>1 DEF Script, ServerAt, ServerStates, exec_cmd, MailCommand, Delivered
<1>2. CASE job # NoJob
  <2>a. Len(Script) = 7
    BY <1>2, PlanLength
  <2>1. k \in {1, 2, 3, 4, 5, 6, 7} /\ Len(Script) = 7
    BY <2>a
  <2>2. /\ Script[k] \in {"HELO", "RSET", "MAIL", "RCPT", "DATA", "QUIT", "mail"}
        /\ ServerAt(k) \in ServerStates
        /\ Script[k] = "mail" <=> ServerAt(k) = "DATA"
        /\ Script[k] = "mail" <=> k = 6
        /\ Script[k] = "QUIT" <=> k = 7
        /\ ServerAt(7) = "RESET"
    BY <1>2, <2>1 DEF Script, ServerAt, ServerStates
  <2>3. (k < 7 /\ Script[k] # "mail") => exec_cmd(ServerAt(k), Script[k]).st = ServerAt(k + 1)
    BY <1>2, <2>1 DEF Script, ServerAt, exec_cmd, MailCommand
  <2>4. Script[k] # "mail" => Delivered(k) = Delivered(k - 1)
    BY <1>2, <2>1, <2>2 DEF Delivered
  <2> QED
    BY <1>2, <2>1, <2>2, <2>3, <2>4
<1> QED
  BY <1>1, <1>2

\* Commands and answers are texts, and answers are lines.
LEMMA TextsOfPlan ==
  ASSUME job \in Jobs \cup {NoJob}
  PROVE  /\ \A k \in 0 .. Len(Script) : Answer(k) \in Text /\ Line(Answer(k))
         /\ \A k \in 1 .. Len(Script) :
              /\ Command(k) \in Text
              /\ Script[k] # "mail" => Line(Command(k)) /\ Command(k) = <<Script[k], EndOfLine>>
<1> DEFINE codes == {"250", "221", "354", "500", "501", "502"}
           cmds == {"HELO", "RSET", "MAIL", "RCPT", "DATA", "QUIT"}
<1>1. ASSUME NEW x \in codes \cup cmds
      PROVE  <<x, EndOfLine>> \in Text /\ Line(<<x, EndOfLine>>)
  <2>1. x \in Symbols /\ x # EndOfLine
    BY <1>1 DEF Symbols, EndOfLine
  <2>2. <<x, EndOfLine>> \in Text /\ Len(<<x, EndOfLine>>) = 2 /\ <<x, EndOfLine>> # <<>>
    BY <2>1, CommandLine
  <2>3. \A i \in 1 .. 2 : <<x, EndOfLine>>[i] = EndOfLine <=> i = 2
    BY <2>1
  <2> QED
    BY <2>2, <2>3 DEF Line
<1>2. ASSUME NEW k \in 0 .. Len(Script)
      PROVE  Answer(k) \in Text /\ Line(Answer(k))
  <2>1. CASE k = 0
    BY <2>1, GreetingIsText DEF Answer
  <2>2. CASE k # 0
    <3> DEFINE y == exec_cmd(ServerAt(k), Script[k])
    <3>1. k \in 1 .. Len(Script)
      BY <1>2, <2>2
    <3>2. y.code \in codes
      BY <3>1, ServerOfPlan, ExecCmdIs DEF ServerStates
    <3>3. Answer(k) = <<"250", EndOfLine>> \/ Answer(k) = <<y.code, EndOfLine>>
      BY <2>2 DEF Answer
    <3> HIDE DEF y
    <3> QED
      BY <1>1, <3>2, <3>3
  <2> QED
    BY <2>1, <2>2
<1>3. ASSUME NEW k \in 1 .. Len(Script)
      PROVE  /\ Command(k) \in Text
             /\ Script[k] # "mail" => Line(Command(k)) /\ Command(k) = <<Script[k], EndOfLine>>
  <2>1. CASE Script[k] = "mail"
    <3>1. job \in Text /\ Terminator \in Text
      BY <1>3, <2>1, ServerOfPlan, MailIsText
    <3> QED
      BY <2>1, <3>1, ConcatProperties DEF Command, Text
  <2>2. CASE Script[k] # "mail"
    <3>1. Script[k] \in cmds
      BY <1>3, <2>2, ServerOfPlan
    <3> QED
      BY <1>1, <2>2, <3>1 DEF Command
  <2> QED
    BY <2>1, <2>2
<1> QED
  BY <1>2, <1>3

\* The plan is made when the conversation begins.
LEMMA SamePlan ==
  ASSUME job' = job, NEW k
  PROVE  /\ Script' = Script /\ (StateAt(k))' = StateAt(k) /\ (ServerAt(k))' = ServerAt(k)
         /\ (Command(k))' = Command(k) /\ (Answer(k))' = Answer(k) /\ (Delivered(k))' = Delivered(k)
  BY DEF Script, StateAt, StateScript, ServerAt, Command, Answer, Delivered

-----------------------------------------------------------------------------
(* The conversation keeps its place when the client moves *)

\* What the server knows is not the client's to change, as long as it was not
\* accepted.
LEMMA ServerKeeps ==
  ASSUME NEW n \in Nat, ServerOK(n), job' = job, sv' = sv,
         sv.pc # "accept" => net' \in {"up", "down"},
         sv.pc = "accept" => c2s' = <<>> /\ s2c' = <<>> /\ Waits(cl')
  PROVE  ServerOK(n)'
<1>1. (Len(Script))' = Len(Script) /\ (ServerAt(n + 1))' = ServerAt(n + 1)
  BY SamePlan
<1>2. sv.pc = "accept" => n = 0 /\ sv.st = "START" /\ sv.buf = <<>> /\ sv.mail = <<>>
  BY DEF ServerOK
<1>3. sv.pc = "recv" => /\ n < Len(Script) /\ sv.st = ServerAt(n + 1)
                        /\ sv.st # "DATA" => sv.mail = <<>>
                        /\ sv.st = "DATA" => EndsAlike(sv.buf, sv.mail)
  BY DEF ServerOK
<1> QED
  BY <1>1, <1>2, <1>3 DEF ServerOK

LEMMA StillWaits ==
  ASSUME NEW c, NEW d, Waits(c), SeesNoMore(c, d), d.state = c.state
  PROVE  Waits(d)
  BY DEF Waits, SeesNoMore

\* Nothing new is seen, and the stream is as it was or is of no use any more.
LEMMA KeepsPlace ==
  ASSUME NEW k \in Nat, NEW n \in Nat, Placed(k, n), job' = job, SeesNoMore(cl, cl'),
         cl'.state = cl.state, s2c' = s2c, served' = served, queued' = queued,
         Open' => Open /\ c2s' = c2s /\ SoFar' = SoFar,
         ServerOK(n)'
  PROVE  Placed(k, n)'
<1>1. /\ Script' = Script /\ (StateAt(k))' = StateAt(k) /\ (Command(k))' = Command(k)
      /\ (Answer(k))' = Answer(k) /\ (Delivered(n))' = Delivered(n)
  BY SamePlan
<1>2. \A x, w : Sees(cl', x, w) => Sees(cl, x, w)
  BY DEF SeesNoMore
<1>3. ASSUME Executed(k) PROVE Executed(k)'
  BY <1>1, <1>2, <1>3 DEF Executed
<1>4. ASSUME Underway(k) PROVE Underway(k)'
  BY <1>1, <1>2, <1>4 DEF Underway
<1>5. (SubSeq(Script, 1, n))' = SubSeq(Script, 1, n) /\ (Len(Script))' = Len(Script)
  BY <1>1
<1> QED
  BY <1>1, <1>3, <1>4, <1>5 DEF Placed

\* The operation that connected or wrote is over, and the client reads the answer.
LEMMA BeginsToRead ==
  ASSUME StateOK, NEW k \in 0 .. Len(Script), NEW n \in Nat, Placed(k, n), RunHandler,
         cl'.state = cl.state, OnlySees(cl', "READ", <<>>),
         Sees(cl, "CONNECT", <<>>) \/ Sees(cl, "WRITE", <<>>)
  PROVE  Placed(k, n)'
<1>1. UNCHANGED <<job, net, c2s, s2c, sv, served, queued>>
  BY DEF RunHandler
<1>2. /\ Script' = Script /\ (StateAt(k))' = StateAt(k) /\ (Command(k))' = Command(k)
      /\ (Answer(k))' = Answer(k) /\ (Delivered(n))' = Delivered(n)
  BY <1>1, SamePlan
<1>3. \A x, w : Sees(cl', x, w) => x = "READ" /\ w = <<>>
  BY DEF OnlySees
<1>4. <<>> \in Text /\ s2c \in Text /\ SoFar \o c2s \in Text
  <2>1. s2c \in Text /\ c2s \in Text /\ SoFar \in Text
    BY DEF StateOK, ServerTypeOK, SoFar
  <2> QED
    BY <2>1, EmptyText, ConcatProperties DEF Text
<1>5. <<>> \o s2c = s2c /\ (SoFar \o c2s) \o <<>> = SoFar \o c2s
  BY <1>4, ConcatEmptySeq DEF Text
<1>6. Open' = Open /\ SoFar' = SoFar /\ c2s' = c2s /\ s2c' = s2c
  BY <1>1 DEF Open, SoFar
<1>7. ASSUME Executed(k) PROVE Executed(k)'
  <2>1. Prefix(s2c, Answer(k)) /\ (Open => SoFar = <<>> /\ c2s = <<>>)
    BY <1>4, <1>7 DEF Executed
  <2>2. Prefix(<<>> \o s2c, Answer(k))
    BY <1>5, <2>1
  <2>3. ASSUME NEW w, Sees(cl', "READ", w) PROVE w = <<>> /\ Prefix(w \o s2c, Answer(k))
    BY <1>3, <2>2, <2>3
  <2>4. \A w : ~Sees(cl', "CONNECT", w) /\ ~Sees(cl', "WRITE", w)
    BY <1>3
  <2> QED
    BY <1>2, <1>6, <2>1, <2>3, <2>4 DEF Executed
<1>8. ASSUME Underway(k) PROVE Underway(k)'
  <2>1. s2c = <<>> /\ (Open => Prefix(SoFar \o c2s, Command(k)) /\ (SoFar \o c2s) \o <<>> = Command(k))
    BY <1>4, <1>8 DEF Underway
  <2>2. s2c = <<>> /\ (Open => Prefix(SoFar \o c2s, Command(k)) /\ SoFar \o c2s = Command(k))
    BY <1>5, <2>1
  <2> QED
    BY <1>2, <1>3, <1>6, <2>2 DEF Underway
<1>9. ServerOK(n)'
  <2>1. sv.pc = "accept" => c2s' = <<>> /\ s2c' = <<>> /\ Waits(cl')
    BY <1>1, <1>3 DEF Placed, ServerOK, Waits
  <2>2. ServerOK(n)
    BY DEF Placed
  <2>3. sv.pc # "accept" => net' \in {"up", "down"}
    BY <1>1, <2>2 DEF ServerOK
  <2> QED
    BY <1>1, <2>1, <2>2, <2>3, ServerKeeps
<1>10. (SubSeq(Script, 1, n))' = SubSeq(Script, 1, n) /\ (Len(Script))' = Len(Script)
  BY <1>2
<1> QED
  BY <1>1, <1>2, <1>7, <1>8, <1>9, <1>10 DEF Placed

\* The answer was read to its end: nothing of it is left, and the next command is
\* under way, or the conversation is over.
LEMMA GoesOn ==
  ASSUME StateOK, Regular, NEW k \in 0 .. Len(Script), NEW n \in 0 .. k, Placed(k, n), RunHandler,
         NEW x \in Text, Sees(cl, "READ", x), x # <<>>, Last(x) = EndOfLine, Advanced(cl, cl')
  PROVE  \E j \in 0 .. Len(Script) : n \in 0 .. j /\ Placed(j, n)'
<1>1. UNCHANGED <<job, net, c2s, s2c, sv, served, queued>>
  BY DEF RunHandler
<1>2. n = k /\ Executed(k)
  BY DEF Placed, Underway
<1>3. Prefix(x \o s2c, Answer(k)) /\ (Open => SoFar = <<>> /\ c2s = <<>>)
  BY <1>2 DEF Executed
<1>4. s2c \in Text /\ job \in Jobs \cup {NoJob} /\ c2s \in Text /\ ClientOK(cl)
  BY DEF StateOK
<1>5. s2c = <<>>
  <2>1. Answer(k) \in Text /\ Line(Answer(k))
    BY <1>4, TextsOfPlan
  <2>2. Len(x) \in 1 .. Len(x) /\ x[Len(x)] = EndOfLine
    <3>1. Len(x) \in Nat /\ Len(x) # 0
      BY LenProperties, EmptySeq DEF Text
    <3> QED
      BY <3>1 DEF Last
  <2> QED
    BY <1>3, <1>4, <2>1, <2>2, LineIsRead
<1>6. sv.pc # "accept"
  BY DEF Placed, ServerOK, Waits
<1>7. ServerOK(n)'
  <2>1. ServerOK(n) /\ n \in Nat
    BY DEF Placed
  <2>2. net' \in {"up", "down"}
    BY <1>1, <1>6, <2>1 DEF ServerOK
  <2> QED
    BY <1>1, <1>6, <2>1, <2>2, ServerKeeps
<1>8. cl.state = StateAt(k)
  <2>1. cl.state # "INACTIVE"
    BY <1>4, InactiveSeesNothing DEF SeesNothing
  <2> QED
    BY <2>1 DEF Placed
<1>9. /\ Script' = Script /\ (SubSeq(Script, 1, n))' = SubSeq(Script, 1, n)
      /\ (Len(Script))' = Len(Script) /\ (Delivered(n))' = Delivered(n)
      /\ (Answer(k))' = Answer(k)
  BY <1>1, SamePlan
<1>10. served' = (SubSeq(Script, 1, n))' /\ queued' = (Delivered(n))'
  BY <1>1, <1>9 DEF Placed
<1>11. Open' = Open /\ SoFar' = SoFar /\ c2s' = c2s /\ s2c' = s2c
  BY <1>1 DEF Open, SoFar
<1>12. CASE k = Len(Script)
  <2>1. cl'.state = "INACTIVE" /\ \A y, w : ~Sees(cl', y, w)
    BY <1>8, <1>12, StatesOfPlan DEF Advanced, SeesNothing
  <2>2. Executed(k)'
    BY <1>3, <1>11, <2>1 DEF Executed
  <2>3. Placed(k, n)'
    BY <1>2, <1>7, <1>9, <1>10, <1>12, <2>1, <2>2 DEF Placed
  <2> QED
    BY <2>3
<1>13. CASE k # Len(Script)
  <2> DEFINE j == k + 1
  <2>1. k \in 0 .. Len(Script) - 1 /\ j \in 0 .. Len(Script) /\ j \in 1 .. Len(Script) /\ n \in 0 .. j /\ n = j - 1
    <3>1. Len(Script) \in Nat
      BY PlanLength
    <3> QED
      BY <1>2, <1>13, <3>1
  <2>2. cl'.state = StateAt(j) /\ OnlySees(cl', "WRITE", Command(j))
    <3>1. StateAt(k) # "TRY_QUIT"
      BY <1>13, StatesOfPlan
    <3>2. Known
      BY <1>4 DEF Known
    <3> QED
      BY <1>8, <2>1, <3>1, <3>2, NextOfPlan DEF Advanced
  <2>3. Command(j) \in Text
    BY <1>4, <2>1, TextsOfPlan
  <2> HIDE DEF j
  <2>4. (Command(j))' = Command(j) /\ (StateAt(j))' = StateAt(j)
    BY <1>1, SamePlan
  <2>5. <<>> \o <<>> = <<>> /\ <<>> \o Command(j) = Command(j) /\ Prefix(<<>>, Command(j))
    BY <2>3, ConcatEmptySeq, EmptyText, WholePrefix DEF Text
  <2>6. Underway(j)'
    <3>1. \A y, w : Sees(cl', y, w) => y = "WRITE" /\ w = Command(j)
      BY <2>2 DEF OnlySees
    <3>2. \A w : ~Sees(cl', "CONNECT", w) /\ ~Sees(cl', "READ", w)
      BY <3>1
    <3>3. Open => SoFar \o c2s = <<>>
      BY <1>3, <2>5
    <3>4. Open => Prefix(SoFar \o c2s, Command(j)) /\ (SoFar \o c2s) \o Command(j) = Command(j)
      BY <2>5, <3>3
    <3>5. \A w : Sees(cl', "WRITE", w) => (Open => (SoFar \o c2s) \o w = Command(j))
      BY <3>1, <3>4
    <3>6. s2c' = <<>> /\ (SoFar \o c2s)' = SoFar \o c2s
      BY <1>5, <1>11
    <3> QED
      BY <1>11, <2>4, <3>2, <3>4, <3>5, <3>6 DEF Underway
  <2>7. Placed(j, n)'
    BY <1>7, <1>10, <2>1, <2>2, <2>4, <2>6 DEF Placed
  <2> QED
    BY <2>1, <2>7
<1> QED
  BY <1>12, <1>13

-----------------------------------------------------------------------------
(* The conversation keeps its place when the network moves *)

\* A chunk of the answer goes from the stream into what has been read.
LEMMA HearsMore ==
  ASSUME StateOK, NEW k \in Nat, NEW n \in Nat, Placed(k, n), ReadCompletes,
         cl'.state = cl.state, s2c' \in Text,
         NEW b \in Text, Sees(cl, "READ", b),
         NEW x \in Text, x # <<>>, s2c = x \o s2c', OnlySees(cl', "READ", b \o x)
  PROVE  Placed(k, n)'
<1>1. UNCHANGED <<job, net, c2s, sv, served, queued>>
  BY DEF ReadCompletes
<1>2. /\ Script' = Script /\ (StateAt(k))' = StateAt(k) /\ (Answer(k))' = Answer(k)
      /\ (Delivered(n))' = Delivered(n)
  BY <1>1, SamePlan
<1>3. /\ (SubSeq(Script, 1, n))' = SubSeq(Script, 1, n) /\ (Len(Script))' = Len(Script)
  BY <1>2
<1>4. s2c # <<>>
  BY ConcatEqualIffEmpty DEF Text
<1>5. n = k /\ Executed(k)
  BY <1>4 DEF Placed, Underway
<1>6. Executed(k)'
  <2>1. Prefix(b \o s2c, Answer(k)) /\ (Open => SoFar = <<>> /\ c2s = <<>>)
    BY <1>5 DEF Executed
  <2>2. (b \o x) \o s2c' = b \o (x \o s2c')
    BY ConcatAssociative DEF Text
  <2>3. Prefix((b \o x) \o s2c', Answer(k))
    BY <2>1, <2>2
  <2>4. Open' = Open /\ SoFar' = SoFar /\ c2s' = c2s
    BY <1>1 DEF Open, SoFar
  <2>5. ASSUME NEW w, Sees(cl', "READ", w) PROVE Prefix(w \o s2c', Answer(k))
    BY <2>3, <2>5 DEF OnlySees
  <2>6. \A w : ~Sees(cl', "CONNECT", w) /\ ~Sees(cl', "WRITE", w)
    BY DEF OnlySees
  <2> QED
    BY <1>2, <2>1, <2>4, <2>5, <2>6 DEF Executed
<1>7. ServerOK(n)'
  <2>1. ServerOK(n)
    BY DEF Placed
  <2>2. sv.pc # "accept" /\ net' \in {"up", "down"}
    BY <1>1, <1>4, <2>1 DEF ServerOK
  <2> QED
    BY <1>1, <2>1, <2>2, ServerKeeps
<1> QED
  BY <1>1, <1>2, <1>3, <1>5, <1>6, <1>7 DEF Placed

\* A part of the command goes into the stream.
LEMMA SendsMore ==
  ASSUME StateOK, NEW k \in 0 .. Len(Script), NEW n \in Nat, Placed(k, n), WriteCompletes,
         cl'.state = cl.state, c2s' \in Text,
         NEW b \in Text, b # <<>>, Sees(cl, "WRITE", b),
         NEW x \in Text, NEW y \in Text, Parts(b, x, y), c2s' = c2s \o x, OnlySees(cl', "WRITE", y)
  PROVE  Placed(k, n)'
<1>1. UNCHANGED <<job, net, s2c, sv, served, queued>>
  BY DEF WriteCompletes
<1>2. /\ Script' = Script /\ (StateAt(k))' = StateAt(k) /\ (Command(k))' = Command(k)
      /\ (Delivered(n))' = Delivered(n)
  BY <1>1, SamePlan
<1>3. /\ (SubSeq(Script, 1, n))' = SubSeq(Script, 1, n) /\ (Len(Script))' = Len(Script)
  BY <1>2
<1>4. n = k - 1 /\ Underway(k)
  BY DEF Placed, Executed
<1>5. Underway(k)'
  <2>1. s2c = <<>> /\ (Open => (SoFar \o c2s) \o b = Command(k))
    BY <1>4 DEF Underway
  <2>2. c2s \in Text /\ SoFar \in Text /\ job \in Jobs \cup {NoJob}
    BY DEF StateOK, ServerTypeOK, SoFar
  <2>3. Command(k) \in Text
    <3>1. k \in 1 .. Len(Script)
      BY <1>4, PlanLength
    <3> QED
      BY <2>2, <3>1, TextsOfPlan
  <2>6. Open => (SoFar \o (c2s \o x)) \o y = Command(k) /\ Prefix(SoFar \o (c2s \o x), Command(k))
    <3> DEFINE a == SoFar
               c == c2s
               t == Command(k)
    <3>1. a \in Text /\ c \in Text /\ t \in Text /\ (Open => Parts(t, a \o c, b))
      BY <2>1, <2>2, <2>3 DEF Parts
    <3> HIDE DEF a, c, t
    <3>2. Open => Parts(t, a \o (c \o x), y) /\ Prefix(a \o (c \o x), t)
      BY <3>1, PartIsSent
    <3> QED
      BY <3>2 DEF a, c, t, Parts
  <2>8. Open' = Open /\ (SoFar \o c2s)' = SoFar \o (c2s \o x)
    BY <1>1 DEF Open, SoFar
  <2>9. \A w : ~Sees(cl', "CONNECT", w) /\ ~Sees(cl', "READ", w) /\ (Sees(cl', "WRITE", w) => w = y)
    BY DEF OnlySees
  <2> QED
    BY <1>1, <1>2, <2>1, <2>6, <2>8, <2>9 DEF Underway
<1>6. ServerOK(n)'
  <2>1. ServerOK(n)
    BY DEF Placed
  <2>2. sv.pc # "accept" /\ net' \in {"up", "down"}
    BY <1>1, <2>1 DEF ServerOK, Waits
  <2> QED
    BY <1>1, <2>1, <2>2, ServerKeeps
<1> QED
  BY <1>1, <1>2, <1>3, <1>4, <1>5, <1>6 DEF Placed

\* The stream breaks: what the client has read is still a part of the answer.
LEMMA Breaks ==
  ASSUME StateOK, NEW k \in 0 .. Len(Script), NEW n \in Nat, Placed(k, n), Break
  PROVE  Placed(k, n)'
<1>1. UNCHANGED <<job, cl, sv, served, queued>> /\ net' = "down" /\ c2s' = <<>> /\ s2c' = <<>>
  BY DEF Break
<1>2. /\ Script' = Script /\ (StateAt(k))' = StateAt(k) /\ (Answer(k))' = Answer(k)
      /\ (Delivered(n))' = Delivered(n) /\ (Command(k))' = Command(k)
  BY <1>1, SamePlan
<1>3. /\ (SubSeq(Script, 1, n))' = SubSeq(Script, 1, n) /\ (Len(Script))' = Len(Script)
  BY <1>2
<1>4. ~Open'
  BY <1>1 DEF Open
<1>5. s2c \in Text /\ Answer(k) \in Text
  BY TextsOfPlan DEF StateOK
<1>6. ASSUME Executed(k) PROVE Executed(k)'
  <2>1. ASSUME NEW w \in Text, Prefix(w \o s2c, Answer(k)) PROVE Prefix(w \o <<>>, Answer(k))
    <3>1. Prefix(w, Answer(k)) /\ w \o <<>> = w
      BY <1>5, <2>1, PrefixOfPrefix, ConcatEmptySeq DEF Text
    <3> QED
      BY <3>1
  <2>2. Prefix(<<>>, Answer(k))
    BY <1>5, WholePrefix
  <2> QED
    BY <1>1, <1>2, <1>4, <1>6, <2>1, <2>2 DEF Executed
<1>7. ASSUME Underway(k) PROVE Underway(k)'
  BY <1>1, <1>2, <1>4, <1>7 DEF Underway
<1>8. ServerOK(n)'
  <2>1. ServerOK(n)
    BY DEF Placed
  <2>2. sv.pc = "accept" => Waits(cl')
    BY <1>1, <2>1 DEF ServerOK
  <2> QED
    BY <1>1, <2>1, <2>2, ServerKeeps
<1> QED
  BY <1>1, <1>2, <1>3, <1>6, <1>7, <1>8 DEF Placed

\* The client begins to connect.
LEMMA Begins ==
  ASSUME StateOK, NotYet, connect
  PROVE  Placed(0, 0)'
<1>1. UNCHANGED <<job, c2s, s2c, sv, served, queued>>
  BY DEF connect
<1>2. cl'.state = "TRY_CONNECT" /\ OnlySees(cl', "CONNECT", <<>>)
  BY ConnectStep
<1>3. \A x, w : Sees(cl', x, w) => x = "CONNECT" /\ w = <<>>
  BY <1>2 DEF OnlySees
<1>4. /\ served' = <<>> /\ queued' = <<>> /\ c2s' = <<>> /\ s2c' = <<>>
      /\ sv'.pc = "accept" /\ sv'.st = "START" /\ sv'.buf = <<>> /\ sv'.mail = <<>>
  BY <1>1 DEF NotYet
<1>5. (SubSeq(Script, 1, 0))' = <<>> /\ (Delivered(0))' = <<>> /\ (StateAt(0))' = "TRY_CONNECT"
  <2>1. SubSeq(Script, 1, 0) = <<>>
    BY DEF Script
  <2>2. (SubSeq(Script, 1, 0))' = <<>>
    BY <1>1, <2>1, SamePlan
  <2> QED
    BY <2>2 DEF Delivered, StateAt
<1>6. Executed(0)'
  <2>1. ~Open'
    BY <1>4 DEF Open
  <2>2. Prefix(<<>>, Greeting) /\ (Answer(0))' = Greeting
    BY GreetingIsText, WholePrefix DEF Answer
  <2> QED
    BY <1>3, <1>4, <2>1, <2>2 DEF Executed
<1>7. ServerOK(0)'
  BY <1>2, <1>3, <1>4 DEF ServerOK, Waits
<1> QED
  BY <1>2, <1>4, <1>5, <1>6, <1>7 DEF Placed

\* The server accepts the connection, and greets or closes it.
LEMMA Accepts ==
  ASSUME StateOK, NEW k \in 0 .. Len(Script), NEW n \in Nat, Placed(k, n), Accept
  PROVE  Placed(k, n)'
<1>1. UNCHANGED <<job, cl, net, c2s, served, queued>> /\ sv.pc = "accept"
  BY DEF Accept
<1>2. /\ Script' = Script /\ (StateAt(k))' = StateAt(k) /\ (Answer(k))' = Answer(k)
      /\ (Delivered(n))' = Delivered(n) /\ (ServerAt(n + 1))' = ServerAt(n + 1)
  BY <1>1, SamePlan
<1>3. /\ (SubSeq(Script, 1, n))' = SubSeq(Script, 1, n) /\ (Len(Script))' = Len(Script)
  BY <1>2
<1>4. /\ n = 0 /\ c2s = <<>> /\ s2c = <<>> /\ sv.st = "START" /\ sv.buf = <<>> /\ sv.mail = <<>>
      /\ cl.state = "TRY_CONNECT" /\ (\A x, w : Sees(cl, x, w) => w = <<>>)
  BY <1>1 DEF Placed, ServerOK, Waits
<1>5. k = 0
  <2>1. cl.state = StateAt(k)
    BY <1>4 DEF Placed
  <2> QED
    BY <1>4, <2>1, StatesOfPlan
<1>6. Executed(0)
  BY <1>4, <1>5 DEF Placed
<1>7. sv \in [pc : {"accept", "recv", "closed"}, st : ServerStates, buf : Text, mail : Text]
  BY DEF StateOK, ServerTypeOK
<1>8. CASE net = "up" /\ sv' = [sv EXCEPT !.pc = "recv"] /\ s2c' = Greeting
  <2>1. sv'.pc = "recv" /\ sv'.st = "START" /\ sv'.buf = <<>> /\ sv'.mail = <<>>
    BY <1>4, <1>7, <1>8
  <2>2. Executed(0)'
    <3>1. SoFar' = <<>> /\ c2s' = <<>>
      BY <1>1, <1>4, <2>1 DEF SoFar
    <3>2. Greeting \in Text /\ Prefix(Greeting, Greeting) /\ <<>> \o Greeting = Greeting
      BY GreetingIsText, WholePrefix, ConcatEmptySeq DEF Text
    <3>3. (Answer(0))' = Greeting
      BY DEF Answer
    <3>4. \A w : Sees(cl', "READ", w) => Prefix(w \o s2c', Greeting)
      <4>1. Prefix(<<>> \o s2c', Greeting)
        BY <1>8, <3>2
      <4> QED
        BY <1>1, <1>4, <4>1
    <3>5. Prefix(s2c', Greeting)
      BY <1>8, <3>2
    <3>6. \A w : Sees(cl', "WRITE", w) => w = <<>>
      BY <1>1, <1>4
    <3> QED
      BY <3>1, <3>3, <3>4, <3>5, <3>6 DEF Executed
  <2>3. ServerOK(0)'
    <3>1. ServerAt(1) = "START"
      BY DEF ServerAt
    <3>2. 0 < Len(Script)
      <4> DEFINE l == Len(Script)
      <4>1. l = 3 \/ l = 7
        BY PlanLength, Zenon
      <4> HIDE DEF l
      <4>2. 0 < l
        BY <4>1
      <4> QED
        BY <4>2 DEF l
    <3> QED
      BY <1>1, <1>2, <1>3, <1>4, <1>8, <2>1, <3>1, <3>2 DEF ServerOK
  <2> QED
    BY <1>1, <1>2, <1>3, <1>4, <1>5, <2>2, <2>3 DEF Placed
<1>9. CASE net \in {"up", "down"} /\ sv' = [sv EXCEPT !.pc = "closed"] /\ s2c' = s2c
  <2>1. sv'.pc = "closed"
    BY <1>7, <1>9
  <2>2. ~Open'
    BY <2>1 DEF Open
  <2>3. ServerOK(n)'
    BY <1>1, <1>9, <2>1 DEF ServerOK
  <2>4. SeesNoMore(cl, cl') /\ cl'.state = cl.state
    BY <1>1 DEF SeesNoMore
  <2> QED
    BY <1>1, <1>4, <1>5, <1>9, <2>2, <2>3, <2>4, KeepsPlace
<1> QED
  BY <1>8, <1>9 DEF Accept

-----------------------------------------------------------------------------
(* What the server makes of the chunks of a mail *)

\* The characters it keeps are the last of the mail, wherever the chunks were cut.
LEMMA LastCharsAlike ==
  ASSUME NEW buf \in Text, NEW mail \in Text, NEW chunk \in Text, EndsAlike(buf, mail)
  PROVE  EndsAlike(LastChars(buf, chunk), mail \o chunk)
<1> DEFINE lb == Len(buf)
           lm == Len(mail)
           lc == Len(chunk)
           m == mail \o chunk
           b == LastChars(buf, chunk)
<1>1. /\ lb \in Nat /\ lm \in Nat /\ lc \in Nat /\ Len(m) = lm + lc
      /\ \A i \in 1 .. lm + lc : m[i] = IF i <= lm THEN mail[i] ELSE chunk[i - lm]
      /\ \A i \in 1 .. lc : chunk[i] \in Symbols
  BY LenProperties, ConcatProperties, ElementOfSeq DEF Text
<1>2. /\ lb <= lm /\ (lb >= 5 \/ lb = lm)
      /\ \A i \in 1 .. lb : buf[i] = mail[lm - lb + i]
  BY DEF EndsAlike
<1> HIDE DEF m
<1>3. CASE lc >= 5
  <2>1. b = SubSeq(chunk, lc - 4, lc)
    BY <1>3 DEF LastChars
  <2>2. /\ lc - 4 \in Int /\ lc \in Int /\ lc - (lc - 4) + 1 = 5
        /\ \A i \in lc - 4 .. lc : chunk[i] \in Symbols
    BY <1>1, <1>3
  <2>3. Len(b) = 5 /\ \A i \in 1 .. 5 : b[i] = chunk[(lc - 4) + i - 1]
    BY <2>1, <2>2, <1>1, SubSeqProperties
  <2> HIDE DEF b
  <2>4. \A i \in 1 .. 5 : /\ (lm + lc) - 5 + i \in 1 .. lm + lc /\ ~((lm + lc) - 5 + i <= lm)
                         /\ ((lm + lc) - 5 + i) - lm = (lc - 4) + i - 1
    BY <1>1, <1>3
  <2>5. \A i \in 1 .. 5 : b[i] = m[Len(m) - Len(b) + i]
    BY <1>1, <2>3, <2>4
  <2>6. Len(b) <= Len(m) /\ (Len(b) >= 5 \/ Len(b) = Len(m))
    BY <1>1, <1>3, <2>3
  <2>7. \A i \in 1 .. Len(b) : b[i] = m[Len(m) - Len(b) + i]
    BY <2>3, <2>5
  <2> QED
    BY <2>6, <2>7 DEF EndsAlike, b, m
<1>4. CASE ~(lc >= 5)
  <2>1. b = buf \o chunk
    BY <1>1, <1>4 DEF LastChars
  <2>2. /\ Len(b) = lb + lc
        /\ \A i \in 1 .. lb + lc : b[i] = IF i <= lb THEN buf[i] ELSE chunk[i - lb]
    BY <2>1, ConcatProperties DEF Text
  <2> HIDE DEF b
  <2>3. ASSUME NEW i \in 1 .. lb + lc PROVE b[i] = m[Len(m) - Len(b) + i]
    <3>1. /\ i \in Nat /\ (lm + lc) - (lb + lc) + i \in 1 .. lm + lc
          /\ (lm + lc) - (lb + lc) + i = lm - lb + i
      BY <1>1, <1>2
    <3>2. CASE i <= lb
      <4>1. i \in 1 .. lb /\ lm - lb + i <= lm
        BY <1>1, <3>1, <3>2
      <4>2. b[i] = mail[lm - lb + i]
        BY <1>2, <2>2, <3>2, <4>1
      <4>3. m[lm - lb + i] = mail[lm - lb + i]
        BY <1>1, <3>1, <4>1
      <4> QED
        BY <1>1, <2>2, <3>1, <4>2, <4>3
    <3>3. CASE ~(i <= lb)
      <4>1. ~(lm - lb + i <= lm) /\ (lm - lb + i) - lm = i - lb
        BY <1>1, <3>1, <3>3
      <4>2. b[i] = chunk[i - lb]
        BY <2>2, <3>3
      <4>3. m[lm - lb + i] = chunk[i - lb]
        BY <1>1, <3>1, <4>1
      <4> QED
        BY <1>1, <2>2, <3>1, <4>2, <4>3
    <3> QED
      BY <3>2, <3>3
  <2>4. /\ Len(b) <= Len(m) /\ (Len(b) >= 5 \/ Len(b) = Len(m))
    BY <1>1, <1>2, <2>2
  <2> QED
    BY <2>2, <2>3, <2>4 DEF EndsAlike, b, m
<1> QED
  BY <1>3, <1>4

LEMMA ReverseIs ==
  ASSUME NEW s \in Text
  PROVE  /\ Len(Reverse(s)) = Len(s)
         /\ \A i \in 1 .. Len(s) : Reverse(s)[i] = s[Len(s) - i + 1] /\ Reverse(s)[i] \in Symbols
<1> DEFINE n == Len(s)
           r == Reverse(s)
<1>1. n \in Nat /\ \A i \in 1 .. n : s[i] \in Symbols
  BY LenProperties, ElementOfSeq DEF Text
<1>2. r = [i \in 1 .. n |-> s[(n - i) + 1]]
  BY DEF Reverse
<1> HIDE DEF r, n
<1>3. \A i \in 1 .. n : (n - i) + 1 \in 1 .. n
  BY <1>1
<1>4. r \in [1 .. n -> Symbols] /\ \A i \in 1 .. n : r[i] = s[(n - i) + 1] /\ r[i] \in Symbols
  BY <1>1, <1>2, <1>3
<1>5. r \in Seq(Symbols)
  BY <1>1, <1>4, SeqDef
<1>6. Len(r) = n
  <2>1. DOMAIN r = 1 .. Len(r) /\ Len(r) \in Nat
    BY <1>5, LenProperties
  <2>2. DOMAIN r = 1 .. n
    BY <1>4
  <2> DEFINE l == Len(r)
  <2>3. l \in Nat /\ \A i : i \in 1 .. l <=> i \in 1 .. n
    BY <2>1, <2>2
  <2> HIDE DEF l
  <2>4. (n \in 1 .. n => n \in 1 .. l) /\ (l \in 1 .. l => l \in 1 .. n)
    BY <2>3
  <2>5. l = n
    BY <1>1, <2>3, <2>4
  <2> QED
    BY <2>5 DEF l
<1> QED
  BY <1>4, <1>6 DEF r, n

\* It finds the end of the mail in the five characters it keeps.
LEMMA EndIsFound ==
  ASSUME NEW buf \in Text, NEW mail \in Text, EndsAlike(buf, mail), MailEnds(buf)
  PROVE  Len(mail) >= 5 /\ \A i \in 1 .. 5 : mail[Len(mail) - 5 + i] = Terminator[i]
<1> DEFINE rt == Reverse(Terminator)
           rb == Reverse(buf)
           lb == Len(buf)
           lm == Len(mail)
<1>1. Terminator \in Text /\ Len(Terminator) = 5
  BY DEF Terminator, Text, Symbols
<1>2. lb \in Nat /\ lm \in Nat
  BY LenProperties DEF Text
<1>3. /\ Len(rt) = 5 /\ \A i \in 1 .. 5 : rt[i] = Terminator[5 - i + 1] /\ rt[i] \in Symbols
  BY <1>1, ReverseIs
<1>4. /\ Len(rb) = lb /\ \A i \in 1 .. lb : rb[i] = buf[lb - i + 1] /\ rb[i] \in Symbols
  BY ReverseIs
<1>5. 5 <= lb /\ SubSeq(rt, 1, 5) = SubSeq(rb, 1, 5)
  BY <1>3, <1>4 DEF MailEnds, IsSuffix, IsPrefix
<1> HIDE DEF rt, rb
<1>6. \A i \in 1 .. 5 : SubSeq(rt, 1, 5)[i] = rt[i] /\ SubSeq(rb, 1, 5)[i] = rb[i]
  <2>1. 1 \in Int /\ 5 \in Int /\ (5 - 1) + 1 = 5 /\ \A i \in 1 .. 5 : (1 + i) - 1 = i
    OBVIOUS
  <2>2. \A i \in 1 .. 5 : i \in 1 .. lb
    BY <1>2, <1>5
  <2>3. (\A i \in 1 .. 5 : rt[i] \in Symbols) /\ (\A i \in 1 .. 5 : rb[i] \in Symbols)
    BY <1>3, <1>4, <2>2
  <2>4. \A i \in 1 .. (5 - 1) + 1 : SubSeq(rt, 1, 5)[i] = rt[(1 + i) - 1]
    BY <2>1, <2>3, SubSeqProperties
  <2>5. \A i \in 1 .. (5 - 1) + 1 : SubSeq(rb, 1, 5)[i] = rb[(1 + i) - 1]
    BY <2>1, <2>3, SubSeqProperties
  <2> QED
    BY <2>1, <2>4, <2>5
<1>7. lb <= lm /\ \A i \in 1 .. lb : buf[i] = mail[lm - lb + i]
  BY DEF EndsAlike
<1>8. ASSUME NEW i \in 1 .. 5 PROVE mail[lm - 5 + i] = Terminator[i]
  <2> DEFINE j == 6 - i
  <2> HIDE DEF lb, lm
  <2>a. i \in Int /\ 1 <= i /\ i <= 5 /\ lb \in Int /\ lm \in Int /\ 5 <= lb
    BY <1>2, <1>5
  <2>1. /\ j \in 1 .. 5 /\ j \in 1 .. lb /\ 5 - j + 1 = i /\ lb - j + 1 = (lb - 5) + i
        /\ (lb - 5) + i \in 1 .. lb /\ lm - lb + ((lb - 5) + i) = lm - 5 + i
    BY <2>a
  <2>2. rt[j] = rb[j]
    BY <1>5, <1>6, <2>1
  <2> HIDE DEF j
  <2>3. Terminator[i] = buf[(lb - 5) + i]
    BY <1>3, <1>4, <2>1, <2>2
  <2>4. buf[(lb - 5) + i] = mail[lm - 5 + i]
    BY <1>7, <2>1
  <2> QED
    BY <2>3, <2>4
<1> QED
  BY <1>2, <1>5, <1>7, <1>8

\* And it finds it where the client put it: the mail has no such end of its own.
LEMMA EndIsTheEnd ==
  ASSUME job \in Jobs, NoLoneDot, job # NoJob, NEW m \in Text,
         NEW t, Parts(t, job, Terminator), Prefix(m, t), Len(m) >= 5,
         \A i \in 1 .. 5 : m[Len(m) - 5 + i] = Terminator[i]
  PROVE  m = t /\ SubSeq(m, 1, Len(m) - 5) = job
<1> DEFINE lj == Len(job)
           lm == Len(m)
<1>1. job \in Text /\ Terminator \in Text /\ Len(Terminator) = 5
  BY MailIsText
<1>a. lj \in Nat /\ lm \in Nat
  BY <1>1, LenProperties DEF Text
<1>b. /\ job \o Terminator \in Text /\ Len(job \o Terminator) = Len(job) + Len(Terminator)
      /\ \A i \in 1 .. Len(job) + Len(Terminator) :
            (job \o Terminator)[i] = IF i <= Len(job) THEN job[i] ELSE Terminator[i - Len(job)]
  <2> DEFINE a == job
             b == Terminator
  <2>1. a \in Seq(Symbols) /\ b \in Seq(Symbols)
    BY <1>1 DEF Text
  <2> HIDE DEF a, b
  <2>2. /\ a \o b \in Seq(Symbols) /\ Len(a \o b) = Len(a) + Len(b)
        /\ \A i \in 1 .. Len(a) + Len(b) : (a \o b)[i] = IF i <= Len(a) THEN a[i] ELSE b[i - Len(a)]
    BY <2>1, ConcatProperties
  <2> QED
    BY <2>2 DEF a, b, Text
<1>2. /\ lj \in Nat /\ lm \in Nat /\ t \in Text /\ Len(t) = lj + 5
      /\ \A i \in 1 .. lj + 5 : t[i] = IF i <= lj THEN job[i] ELSE Terminator[i - lj]
  BY <1>1, <1>a, <1>b DEF Parts
<1>3. lm <= lj + 5 /\ \A i \in 1 .. lm : m[i] = t[i]
  BY <1>2 DEF Prefix
<1>4. lm = lj + 5
  <2>1. SUFFICES ASSUME lm < lj + 5 PROVE FALSE
    BY <1>2, <1>3
  <2> DEFINE p == lm - 4
             s == SubSeq(t, p, lj + 5)
  <2>2. /\ p \in 1 .. lj /\ p \in Int /\ lj + 5 \in Int /\ p <= lj + 5
        /\ (lj + 5) - p + 1 >= 5 /\ (lj + 5) - p + 1 \in Nat
    BY <1>2, <2>1
  <2>3. \A i \in p .. lj + 5 : t[i] \in Symbols
    <3>1. \A i \in p .. lj + 5 : i \in 1 .. lj + 5
      BY <1>2, <2>2
    <3> QED
      BY <1>2, <3>1, ElementOfSeq DEF Text
  <2>4. s \in Text /\ Len(s) = (lj + 5) - p + 1 /\ \A i \in 1 .. (lj + 5) - p + 1 : s[i] = t[p + i - 1]
    <3> DEFINE q == lj + 5
    <3>1. p \in Int /\ q \in Int /\ p <= q /\ \A i \in p .. q : t[i] \in Symbols
      BY <2>2, <2>3
    <3> HIDE DEF p, q
    <3>2. /\ SubSeq(t, p, q) \in Seq(Symbols) /\ Len(SubSeq(t, p, q)) = q - p + 1
          /\ \A i \in 1 .. q - p + 1 : SubSeq(t, p, q)[i] = t[p + i - 1]
      BY <3>1, SubSeqProperties
    <3> QED
      BY <3>2 DEF q, Text
  <2> HIDE DEF s
  <2>5. \A i \in 1 .. 5 : s[i] = Terminator[i]
    <3>1. \A i \in 1 .. 5 : /\ i \in 1 .. (lj + 5) - p + 1 /\ p + i - 1 = lm - 5 + i
                           /\ lm - 5 + i \in 1 .. lm
      BY <1>2, <2>2
    <3>2. \A i \in 1 .. 5 : s[i] = t[lm - 5 + i]
      BY <2>4, <3>1
    <3>3. \A i \in 1 .. 5 : m[lm - 5 + i] = t[lm - 5 + i]
      BY <1>3, <3>1
    <3> QED
      BY <3>2, <3>3
  <2>6. IsPrefix(Terminator, s)
    <3>1. 1 \in Int /\ 5 \in Int /\ (5 - 1) + 1 = 5 /\ \A i \in 1 .. 5 : (1 + i) - 1 = i
      OBVIOUS
    <3>2. \A i \in 1 .. 5 : s[i] \in Symbols /\ Terminator[i] \in Symbols
      BY <1>1, <2>5, ElementOfSeq DEF Text
    <3>3. /\ SubSeq(s, 1, 5) \in Text /\ Len(SubSeq(s, 1, 5)) = 5
          /\ \A i \in 1 .. 5 : SubSeq(s, 1, 5)[i] = s[i]
      BY <3>1, <3>2, SubSeqProperties DEF Text
    <3>4. SubSeq(Terminator, 1, 5) = Terminator
      BY <1>1, SubSeqFull DEF Text
    <3>5. SubSeq(s, 1, 5) = Terminator
      BY <1>1, <2>5, <3>3, SeqEqual DEF Text
    <3> QED
      BY <1>1, <2>2, <2>4, <3>4, <3>5 DEF IsPrefix
  <2>7. ~IsPrefix(Terminator, SubSeq(job \o Terminator, p, lj + 5))
    BY <1>2, <2>2 DEF NoLoneDot
  <2> QED
    BY <2>6, <2>7 DEF s, Parts
<1>5. m = t
  BY <1>2, <1>3, <1>4, WholePrefix
<1>6. SubSeq(m, 1, lj) = job
  <2>1. /\ 1 \in Int /\ lj \in Int /\ (lj - 1) + 1 = lj /\ (\A i \in 1 .. lj : (1 + i) - 1 = i)
        /\ \A i \in 1 .. lj : m[i] = job[i]
    BY <1>2, <1>3, <1>4
  <2>2. \A i \in 1 .. lj : m[i] \in Symbols
    BY <1>1, <2>1, ElementOfSeq DEF Text
  <2>3. /\ SubSeq(m, 1, lj) \in Text /\ Len(SubSeq(m, 1, lj)) = IF 1 <= lj THEN (lj - 1) + 1 ELSE 0
        /\ \A i \in 1 .. (lj - 1) + 1 : SubSeq(m, 1, lj)[i] = m[(1 + i) - 1]
    BY <1>2, <2>1, <2>2, SubSeqProperties DEF Text
  <2>4. Len(SubSeq(m, 1, lj)) = lj /\ \A i \in 1 .. lj : SubSeq(m, 1, lj)[i] = job[i]
    BY <1>2, <2>1, <2>3
  <2> QED
    BY <1>1, <2>3, <2>4, SeqEqual DEF Text
<1> QED
  BY <1>2, <1>4, <1>5, <1>6

-----------------------------------------------------------------------------
(* The conversation keeps its place when the server reads *)

\* A chunk goes from the stream to what the server keeps of the command.
LEMMA KeepsReading ==
  ASSUME StateOK, NEW k \in Nat, NEW n, n = k - 1, Placed(k, n), Underway(k), Open,
         UNCHANGED <<job, cl, net, s2c, served, queued>>,
         NEW chunk \in Text, NEW rest \in Text, Parts(c2s, chunk, rest), c2s' = rest,
         SoFar \in Text, Parts(SoFar', SoFar, chunk), ServerOK(n)'
  PROVE  Placed(k, n)'
<1>1. /\ Script' = Script /\ (StateAt(k))' = StateAt(k) /\ (Command(k))' = Command(k)
      /\ (Delivered(n))' = Delivered(n)
  BY SamePlan
<1>2. (SubSeq(Script, 1, n))' = SubSeq(Script, 1, n) /\ (Len(Script))' = Len(Script)
  BY <1>1
<1>3. (SoFar \o c2s)' = SoFar \o c2s
  <2>1. (SoFar \o chunk) \o rest = SoFar \o (chunk \o rest)
    <3> DEFINE a == SoFar
    <3>1. a \in Text
      OBVIOUS
    <3> HIDE DEF a
    <3>2. (a \o chunk) \o rest = a \o (chunk \o rest)
      BY <3>1, Joined
    <3> QED
      BY <3>2 DEF a
  <2> QED
    BY <2>1 DEF Parts
<1>4. /\ s2c = <<>> /\ Prefix(SoFar \o c2s, Command(k))
      /\ \A w \in Text : /\ ~Sees(cl, "CONNECT", w)
                         /\ Sees(cl, "READ", w) => w = <<>> /\ SoFar \o c2s = Command(k)
                         /\ Sees(cl, "WRITE", w) => (SoFar \o c2s) \o w = Command(k)
  BY DEF Underway
<1>5. cl' = cl /\ s2c' = s2c
  OBVIOUS
<1>6. Underway(k)'
  BY <1>1, <1>3, <1>4, <1>5 DEF Underway
<1>7. n # k
  OBVIOUS
<1> QED
  BY <1>1, <1>2, <1>6, <1>7 DEF Placed

\* The command was read to its end: it is executed and answered.
LEMMA Executes ==
  ASSUME StateOK, NEW k \in 1 .. Len(Script), NEW n, n = k - 1, Placed(k, n), Underway(k), Open,
         UNCHANGED <<job, cl, net>>, c2s' = <<>>, SoFar \o c2s = Command(k),
         NEW code, Reply(code), Answer(k) = <<code, EndOfLine>>,
         sv'.buf = <<>>, sv'.mail = <<>>, sv'.pc \in {"recv", "closed"},
         sv'.pc = "recv" => k < Len(Script) /\ sv'.st = ServerAt(k + 1),
         served' = Append(served, Script[k]), queued' = Delivered(k)
  PROVE  Placed(k, k)'
<1>1. /\ Script' = Script /\ (StateAt(k))' = StateAt(k) /\ (Answer(k))' = Answer(k)
      /\ (Delivered(k))' = Delivered(k) /\ (ServerAt(k + 1))' = ServerAt(k + 1)
  BY SamePlan
<1>2. (SubSeq(Script, 1, k))' = SubSeq(Script, 1, k) /\ (Len(Script))' = Len(Script)
  BY <1>1
<1>3. /\ s2c = <<>>
      /\ \A w \in Text : /\ ~Sees(cl, "CONNECT", w)
                         /\ Sees(cl, "READ", w) => w = <<>>
                         /\ Sees(cl, "WRITE", w) => (SoFar \o c2s) \o w = Command(k)
  BY DEF Underway
<1>4. job \in Jobs \cup {NoJob}
  BY DEF StateOK
<1>5. Command(k) \in Text /\ Answer(k) \in Text
  <2>1. k \in 0 .. Len(Script)
    OBVIOUS
  <2> QED
    BY <1>4, <2>1, TextsOfPlan
<1>6. s2c' \in {<<>>, Answer(k)}
  <2>1. s2c' = s2c \o <<code, EndOfLine>> \/ s2c' = s2c
    BY DEF Reply
  <2>2. <<>> \o Answer(k) = Answer(k)
    BY <1>5, ConcatEmptySeq DEF Text
  <2> QED
    BY <1>3, <2>1, <2>2
<1>7. Prefix(s2c', Answer(k)) /\ Prefix(<<>> \o s2c', Answer(k))
  <2>1. Prefix(s2c', Answer(k))
    BY <1>5, <1>6, WholePrefix
  <2>2. <<>> \o s2c' = s2c'
    BY <1>5, <1>6, EmptyText, ConcatEmptySeq DEF Text
  <2> QED
    BY <2>1, <2>2
<1>8. Executed(k)'
  <2>1. Open' => SoFar' = <<>> /\ c2s' = <<>>
    BY DEF SoFar
  <2>2. ASSUME NEW w \in Text, Sees(cl, "READ", w) PROVE Prefix(w \o s2c', Answer(k))
    BY <1>3, <1>7, <2>2
  <2>3. ASSUME NEW w \in Text, Sees(cl, "WRITE", w) PROVE w = <<>>
    <3>1. Command(k) \o w = Command(k)
      BY <1>3, <2>3
    <3> QED
      BY <1>5, <3>1, ConcatEqualIffEmpty DEF Text
  <2> QED
    BY <1>1, <1>3, <1>7, <2>1, <2>2, <2>3 DEF Executed
<1>9. served' = SubSeq(Script, 1, k)
  <2> DEFINE S == {"HELO", "RSET", "MAIL", "RCPT", "DATA", "QUIT", "mail"}
             a == SubSeq(Script, 1, k - 1)
  <2>1. Script \in Seq(S)
    <3>1. CASE job = NoJob
      BY <3>1 DEF Script
    <3>2. CASE job # NoJob
      BY <3>2 DEF Script
    <3> QED
      BY <3>1, <3>2
  <2>2. Len(Script) \in Nat /\ 1 \in 1 .. Len(Script) /\ \A i \in 1 .. Len(Script) : Script[i] \in S
    BY <2>1, LenProperties, ElementOfSeq
  <2>3. SubSeq(Script, 1, k) = a \o <<Script[k]>>
    BY <2>1, <2>2, SubSeqRecursiveSecond
  <2>4. a \in Seq(S)
    <3>1. 1 \in Int /\ k - 1 \in Int /\ \A i \in 1 .. k - 1 : Script[i] \in S
      BY <2>2
    <3> QED
      BY <3>1, SubSeqProperties
  <2>5. Script[k] \in S
    BY <2>2
  <2> HIDE DEF S, a
  <2>6. Append(a, Script[k]) = a \o <<Script[k]>>
    BY <2>4, <2>5, AppendIsConcat
  <2>7. served = a
    BY DEF Placed, a
  <2> QED
    BY <2>3, <2>6, <2>7
<1>10. ServerOK(k)'
  <2>1. net' \in {"up", "down"}
    BY DEF Open
  <2>2. EndsAlike(<<>>, <<>>)
    BY EmptyText DEF EndsAlike
  <2> QED
    BY <1>1, <1>2, <2>1, <2>2 DEF ServerOK
<1>11. cl'.state = StateAt(k)
  BY DEF Placed
<1> QED
  BY <1>1, <1>2, <1>8, <1>9, <1>10, <1>11 DEF Placed

\* A chunk of a line.
LEMMA ReadsLine ==
  ASSUME StateOK, NEW k \in 1 .. Len(Script), NEW n, n = k - 1, Placed(k, n), Underway(k), Open,
         UNCHANGED <<job, cl, net>>, NEW chunk \in Text, NEW rest \in Text,
         Parts(c2s, chunk, rest), c2s' = rest, sv.st # "DATA", ReadLine(chunk)
  PROVE  Placed(k, n)' \/ Placed(k, k)'
<1> DEFINE w == sv.buf \o chunk
           cmd == Head(w)
           done == exec_cmd(sv.st, cmd)
           Incomplete ==
             /\ sv'.pc = sv.pc /\ sv'.st = sv.st /\ sv'.buf = sv.buf \o chunk
             /\ s2c' = s2c /\ served' = served
           WholeLine ==
             /\ \E i \in 1 .. Len(chunk) : chunk[i] = EndOfLine
             /\ sv'.pc = NextPc(cmd) /\ sv'.st = done.st /\ sv'.buf = <<>>
             /\ Reply(done.code) /\ served' = Append(served, cmd)
<1>1. /\ ServerTypeOK' /\ sv'.mail = sv.mail /\ queued' = queued
      /\ Incomplete \/ WholeLine
  BY ReadLineIs
<1>2. /\ sv.buf \in Text /\ c2s \in Text /\ job \in Jobs \cup {NoJob} /\ sv.pc = "recv"
  BY DEF StateOK, ServerTypeOK, Open
<1>3. /\ sv.st = ServerAt(k) /\ sv.mail = <<>> /\ SoFar = sv.buf /\ n < Len(Script)
      /\ net \in {"up", "down"}
  <2>1. n + 1 = k
    OBVIOUS
  <2> QED
    BY <1>2, <2>1 DEF Placed, ServerOK, SoFar
<1>4. Script[k] # "mail"
  BY <1>3, ServerOfPlan
<1>5. CASE Incomplete
  <2>1. Parts(SoFar', SoFar, chunk) /\ SoFar \in Text
    BY <1>1, <1>2, <1>3, <1>5 DEF SoFar, Parts
  <2>2. ServerOK(n)'
    <3>1. (Len(Script))' = Len(Script) /\ (ServerAt(n + 1))' = ServerAt(n + 1)
      BY SamePlan
    <3>2. n + 1 = k
      OBVIOUS
    <3> QED
      BY <1>1, <1>2, <1>3, <1>5, <3>1, <3>2 DEF ServerOK
  <2>3. UNCHANGED <<job, cl, net, s2c, served, queued>> /\ k \in Nat
    BY <1>1, <1>5
  <2> QED
    BY <2>1, <2>2, <2>3, KeepsReading
<1>6. CASE WholeLine
  <2>1. PICK i \in 1 .. Len(chunk) : chunk[i] = EndOfLine
    BY <1>6
  <2>2. /\ w \in Text /\ Len(sv.buf) + i \in 1 .. Len(w) /\ w[Len(sv.buf) + i] = EndOfLine
    <3>1. Len(sv.buf) \in Nat /\ Len(chunk) \in Nat
      BY <1>2, LenProperties DEF Text
    <3>2. /\ w \in Text /\ Len(w) = Len(sv.buf) + Len(chunk)
          /\ \A j \in 1 .. Len(sv.buf) + Len(chunk) :
               w[j] = IF j <= Len(sv.buf) THEN sv.buf[j] ELSE chunk[j - Len(sv.buf)]
      BY <1>2, ConcatProperties DEF Text
    <3> HIDE DEF w
    <3>3. /\ Len(sv.buf) + i \in 1 .. Len(sv.buf) + Len(chunk) /\ ~(Len(sv.buf) + i <= Len(sv.buf))
          /\ (Len(sv.buf) + i) - Len(sv.buf) = i
      BY <3>1
    <3> QED
      BY <2>1, <3>2, <3>3
  <2>3. SoFar \o c2s = w \o rest
    <3> DEFINE a == sv.buf
    <3>1. a \in Text
      BY <1>2
    <3> HIDE DEF a
    <3>2. (a \o chunk) \o rest = a \o (chunk \o rest)
      BY <3>1, Joined
    <3> QED
      BY <1>3, <3>2 DEF a, Parts
  <2>4. /\ Prefix(w \o rest, Command(k)) /\ Line(Command(k)) /\ Command(k) \in Text
        /\ Command(k) = <<Script[k], EndOfLine>>
    BY <1>2, <1>4, <2>3, TextsOfPlan DEF Underway
  <2> HIDE DEF w
  <2>5. rest = <<>> /\ w = Command(k)
    BY <2>2, <2>4, LineIsRead
  <2>6. cmd = Script[k]
    BY <2>4, <2>5
  <2>7. SoFar \o c2s = Command(k)
    <3>1. w \o <<>> = w
      BY <2>2, ConcatEmptySeq DEF Text
    <3> QED
      BY <2>3, <2>5, <3>1
  <2>8. Answer(k) = <<done.code, EndOfLine>>
    BY <1>3, <1>4, <2>6 DEF Answer
  <2>9. /\ sv'.pc \in {"recv", "closed"}
        /\ sv'.pc = "recv" => k < Len(Script) /\ sv'.st = ServerAt(k + 1)
    <3>1. sv'.pc = NextPc(Script[k]) /\ sv'.st = exec_cmd(ServerAt(k), Script[k]).st
      BY <1>1, <1>3, <1>6, <2>6
    <3>2. k < Len(Script) \/ k = Len(Script)
      BY PlanLength
    <3>3. Script[k] = "QUIT" <=> k = Len(Script)
      BY ServerOfPlan
    <3>4. NextPc(Script[k]) \in {"recv", "closed"} /\ (NextPc(Script[k]) = "recv" => Script[k] # "QUIT")
      BY DEF NextPc
    <3>5. k < Len(Script) => exec_cmd(ServerAt(k), Script[k]).st = ServerAt(k + 1)
      BY <1>4, ServerOfPlan
    <3> QED
      BY <3>1, <3>2, <3>3, <3>4, <3>5
  <2>10. queued' = Delivered(k)
    BY <1>1, <1>4, ServerOfPlan DEF Placed
  <2>11. /\ Reply(done.code) /\ c2s' = <<>> /\ sv'.buf = <<>> /\ sv'.mail = <<>>
         /\ served' = Append(served, Script[k])
    BY <1>1, <1>3, <1>6, <2>5, <2>6
  <2> HIDE DEF done
  <2> QED
    BY <2>7, <2>8, <2>9, <2>10, <2>11, Executes
<1> QED
  BY <1>1, <1>5, <1>6

\* A chunk of the mail.
LEMMA ReadsMail ==
  ASSUME StateOK, Regular, NEW k \in 1 .. Len(Script), NEW n, n = k - 1, Placed(k, n),
         Underway(k), Open,
         UNCHANGED <<job, cl, net>>, NEW chunk \in Text, NEW rest \in Text,
         Parts(c2s, chunk, rest), c2s' = rest, sv.st = "DATA", ReadData(chunk)
  PROVE  Placed(k, n)' \/ Placed(k, k)'
<1> DEFINE buf == LastChars(sv.buf, chunk)
           mail == sv.mail \o chunk
<1>1. /\ ServerTypeOK'
      /\ MailEnds(buf) =>
           /\ sv'.pc = NextPc("mail") /\ sv'.st = "RESET" /\ sv'.buf = <<>> /\ sv'.mail = <<>>
           /\ served' = Append(served, "mail")
           /\ queued' = Append(queued, SubSeq(mail, 1, Len(mail) - 5))
           /\ Reply("250")
      /\ ~MailEnds(buf) =>
           /\ sv'.pc = sv.pc /\ sv'.st = sv.st /\ sv'.buf = buf /\ sv'.mail = mail
           /\ UNCHANGED <<s2c, served, queued>>
  BY ReadDataIs
<1>2. /\ sv.buf \in Text /\ sv.mail \in Text /\ c2s \in Text /\ job \in Jobs \cup {NoJob}
      /\ sv.pc = "recv"
  BY DEF StateOK, ServerTypeOK, Open
<1>3. /\ sv.st = ServerAt(k) /\ EndsAlike(sv.buf, sv.mail) /\ SoFar = sv.mail /\ n < Len(Script)
      /\ net \in {"up", "down"}
  <2>1. n + 1 = k
    OBVIOUS
  <2> QED
    BY <1>2, <2>1 DEF Placed, ServerOK, SoFar
<1>4. /\ Script[k] = "mail" /\ job # NoJob /\ k = 6 /\ ServerAt(k + 1) = "RESET"
  BY <1>3, ServerOfPlan
<1>5. /\ buf \in Text /\ mail \in Text /\ EndsAlike(buf, mail)
  BY <1>2, <1>3, LastCharsAreText, LastCharsAlike
<1>6. CASE ~MailEnds(buf)
  <2>1. Parts(SoFar', SoFar, chunk) /\ SoFar \in Text
    BY <1>1, <1>2, <1>3, <1>6 DEF SoFar, Parts
  <2>2. ServerOK(n)'
    <3>1. (Len(Script))' = Len(Script) /\ (ServerAt(n + 1))' = ServerAt(n + 1)
      BY SamePlan
    <3>2. n + 1 = k
      OBVIOUS
    <3> HIDE DEF buf, mail
    <3> QED
      BY <1>1, <1>2, <1>3, <1>5, <1>6, <3>1, <3>2 DEF ServerOK
  <2>3. UNCHANGED <<job, cl, net, s2c, served, queued>> /\ k \in Nat
    BY <1>1, <1>6
  <2> QED
    BY <2>1, <2>2, <2>3, KeepsReading
<1>7. CASE MailEnds(buf)
  <2> DEFINE t == Command(k)
  <2>1. Parts(t, job, Terminator) /\ t \in Text
    BY <1>2, <1>4, TextsOfPlan DEF Command, Parts
  <2>2. Prefix(mail \o rest, t)
    <3> DEFINE a == sv.mail
    <3>1. a \in Text /\ Prefix(a \o (chunk \o rest), t)
      BY <1>2, <1>3 DEF Underway, Parts
    <3> HIDE DEF a, t
    <3>2. (a \o chunk) \o rest = a \o (chunk \o rest)
      BY <3>1, Joined
    <3> QED
      BY <3>1, <3>2 DEF a
  <2> HIDE DEF mail, buf, t
  <2>3. Prefix(mail, t)
    BY <1>5, <2>1, <2>2, PrefixOfPrefix
  <2>4. Len(mail) >= 5 /\ \A i \in 1 .. 5 : mail[Len(mail) - 5 + i] = Terminator[i]
    BY <1>5, <1>7, EndIsFound
  <2>5. mail = t /\ SubSeq(mail, 1, Len(mail) - 5) = job
    <3>1. job \in Jobs /\ NoLoneDot
      BY <1>2, <1>4 DEF Regular
    <3> QED
      BY <1>4, <1>5, <2>1, <2>3, <2>4, <3>1, EndIsTheEnd
  <2>6. rest = <<>>
    <3>1. Len(mail \o rest) <= Len(t) /\ Len(mail \o rest) = Len(mail) + Len(rest)
      BY <1>5, <2>2, ConcatProperties DEF Prefix, Text
    <3>2. Len(mail) \in Nat /\ Len(rest) \in Nat /\ (rest # <<>> => Len(rest) # 0)
      BY <1>5, LenProperties, EmptySeq DEF Text
    <3> QED
      BY <2>5, <3>1, <3>2
  <2>7. SoFar \o c2s = Command(k)
    <3> DEFINE a == sv.mail
    <3>1. a \in Text /\ c2s = chunk \o rest
      BY <1>2 DEF Parts
    <3>2. chunk \o rest = chunk
      BY <2>6, ConcatEmptySeq DEF Text
    <3> QED
      BY <1>3, <2>5, <3>1, <3>2 DEF mail, t
  <2>8. queued = <<>> /\ Delivered(k) = <<job>>
    <3>1. Delivered(n) = <<>> /\ Delivered(k) = <<job>>
      BY <1>4 DEF Delivered
    <3> QED
      BY <3>1 DEF Placed
  <2>9. /\ Reply("250") /\ c2s' = <<>> /\ sv'.buf = <<>> /\ sv'.mail = <<>> /\ sv'.st = ServerAt(k + 1)
        /\ served' = Append(served, Script[k]) /\ queued' = Delivered(k)
    <3>1. queued' = Append(queued, SubSeq(mail, 1, Len(mail) - 5))
      BY <1>1, <1>7
    <3>2. queued' = Append(<<>>, job)
      BY <2>5, <2>8, <3>1
    <3>3. Append(<<>>, job) = <<job>>
      OBVIOUS
    <3>4. /\ Reply("250") /\ sv'.buf = <<>> /\ sv'.mail = <<>> /\ sv'.st = "RESET"
          /\ served' = Append(served, "mail")
      BY <1>1, <1>7
    <3> QED
      BY <1>4, <2>6, <2>8, <3>2, <3>3, <3>4
  <2>10. Answer(k) = <<"250", EndOfLine>>
    BY <1>4 DEF Answer
  <2>11. sv'.pc \in {"recv", "closed"} /\ k < Len(Script)
    <3>1. sv'.pc = NextPc("mail")
      BY <1>1, <1>7
    <3>2. Len(Script) = 7
      BY <1>4, PlanLength
    <3> QED
      BY <1>4, <3>1, <3>2 DEF NextPc
  <2> QED
    BY <2>7, <2>9, <2>10, <2>11, Executes
<1> QED
  BY <1>6, <1>7

-----------------------------------------------------------------------------
(* The invariant *)

LEMMA InitConversation == Init => Conversation
<1> SUFFICES ASSUME Init PROVE Conversation
  OBVIOUS
<1>1. cl.state = "INACTIVE" /\ cl.op = "none"
  BY DEF Init
<1>2. NotYet
  BY <1>1 DEF Init, NotYet
<1> QED
  BY <1>1, <1>2 DEF Init, Conversation, WireOK

LEMMA PlacedGoes ==
  ASSUME job' = job, NEW k \in 0 .. Len(Script), NEW n \in 0 .. k, Placed(k, n)'
  PROVE  Talking'
<1>1. (Len(Script))' = Len(Script)
  BY SamePlan
<1> QED
  BY <1>1 DEF Talking

\* A step of the client, or of a network that brings nothing new.
LEMMA NothingNew ==
  ASSUME StateOK, NEW k \in 0 .. Len(Script), NEW n \in 0 .. k, Placed(k, n),
         UNCHANGED <<job, c2s, s2c, sv, served, queued>>, SeesNoMore(cl, cl'),
         cl'.state = cl.state, net' = net \/ (net' \in {"up", "down"} /\ sv.pc = "accept")
  PROVE  Talking'
<1>1. ServerOK(n) /\ n \in Nat /\ k \in Nat
  BY PlanLength DEF Placed
<1>2. Open' => Open /\ c2s' = c2s /\ SoFar' = SoFar
  BY DEF Open, SoFar
<1>3. sv.pc = "accept" => Waits(cl)
  BY <1>1 DEF ServerOK
<1>4. sv.pc = "accept" => c2s' = <<>> /\ s2c' = <<>> /\ Waits(cl')
  BY <1>1, <1>3, StillWaits DEF ServerOK
<1>5. sv.pc # "accept" => net' \in {"up", "down"}
  BY <1>1 DEF ServerOK
<1>6. ServerOK(n)'
  BY <1>1, <1>4, <1>5, ServerKeeps
<1>7. Placed(k, n)'
  BY <1>1, <1>2, <1>6, KeepsPlace
<1> QED
  BY <1>7, PlacedGoes

\* The client's handlers.
LEMMA HandlerKeeps ==
  ASSUME StateOK, Regular, Talking, RunHandler
  PROVE  Talking'
<1>1. PICK k \in 0 .. Len(Script) : \E n \in 0 .. k : Placed(k, n)
  BY DEF Talking
<1>2. PICK n \in 0 .. k : Placed(k, n)
  BY <1>1
<1>3. Ran(cl, cl') /\ UNCHANGED <<job, net, c2s, s2c, sv, served, queued>> /\ n \in Nat
  BY RunStep DEF RunHandler
<1>4. CASE cl'.state = cl.state /\ SeesNoMore(cl, cl')
  BY <1>2, <1>3, <1>4, NothingNew
<1>5. CASE /\ cl'.state = cl.state /\ OnlySees(cl', "READ", <<>>)
           /\ Sees(cl, "CONNECT", <<>>) \/ Sees(cl, "WRITE", <<>>)
  <2>1. Placed(k, n)'
    BY <1>2, <1>3, <1>5, BeginsToRead
  <2> QED
    BY <1>3, <2>1, PlacedGoes
<1>6. ASSUME NEW x \in Text, Sees(cl, "READ", x), x # <<>>, Last(x) = EndOfLine, Advanced(cl, cl')
      PROVE  Talking'
  <2>1. PICK j \in 0 .. Len(Script) : n \in 0 .. j /\ Placed(j, n)'
    BY <1>2, <1>6, GoesOn
  <2> QED
    BY <1>3, <2>1, PlacedGoes
<1> QED
  BY <1>3, <1>4, <1>5, <1>6 DEF Ran

\* The server's thread.
LEMMA RecvKeeps ==
  ASSUME StateOK, Regular, WireOK, Talking, Recv
  PROVE  Talking' /\ net = "up"
<1>1. PICK k \in 0 .. Len(Script) : \E n \in 0 .. k : Placed(k, n)
  BY DEF Talking
<1>2. PICK n \in 0 .. k : Placed(k, n)
  BY <1>1
<1>3. PICK chunk, rest \in Text :
         /\ chunk # <<>> /\ Parts(c2s, chunk, rest) /\ c2s' = rest
         /\ sv.pc = "recv" /\ UNCHANGED <<job, cl, net>>
         /\ \/ sv.st = "DATA" /\ ReadData(chunk)
            \/ sv.st # "DATA" /\ ReadLine(chunk)
  BY RecvIs DEF Parts
<1>4. c2s # <<>>
  BY <1>3, ConcatEqualIffEmpty DEF Parts, Text
<1>5. net = "up" /\ Open
  BY <1>2, <1>3, <1>4 DEF WireOK, Placed, ServerOK, Open
<1>6. n = k - 1 /\ Underway(k)
  BY <1>2, <1>4, <1>5 DEF Placed, Executed
<1>7. k \in 1 .. Len(Script)
  BY <1>6
<1>8. Placed(k, n)' \/ Placed(k, k)'
  <2>1. CASE sv.st = "DATA"
    BY <1>2, <1>3, <1>5, <1>6, <1>7, <2>1, ReadsMail
  <2>2. CASE sv.st # "DATA"
    BY <1>2, <1>3, <1>5, <1>6, <1>7, <2>2, ReadsLine
  <2> QED
    BY <2>1, <2>2
<1>9. k \in 0 .. k
  BY <1>7
<1> QED
  BY <1>2, <1>3, <1>5, <1>8, <1>9, PlacedGoes

\* What the network does, and the server's thread with a connection that is over.
LEMMA NetworkKeeps ==
  ASSUME StateOK, WireOK, Talking,
         ConnectCompletes \/ ReadCompletes \/ WriteCompletes \/ Break \/ Accept \/ RecvFails
  PROVE  Talking'
<1>1. PICK k \in 0 .. Len(Script) : \E n \in 0 .. k : Placed(k, n)
  BY DEF Talking
<1>2. PICK n \in 0 .. k : Placed(k, n)
  BY <1>1
<1>3. n \in Nat /\ k \in Nat /\ ServerOK(n)
  BY <1>2 DEF Placed
<1>4. ASSUME job' = job, Placed(k, n)' PROVE Talking'
  BY <1>4, PlacedGoes
<1>5. CASE ConnectCompletes
  <2>1. UNCHANGED <<job, c2s, s2c, sv, served, queued>> /\ net' \in {"up", "down"} /\ cl.op = "CONNECT"
    BY <1>5 DEF ConnectCompletes
  <2>2. cl'.state = cl.state /\ SeesNoMore(cl, cl')
    BY <1>5, ConnectCompletesStep
  <2>3. sv.pc = "accept"
    BY <1>3, <2>1 DEF WireOK, ServerOK
  <2> QED
    BY <1>2, <2>1, <2>2, <2>3, NothingNew
<1>6. CASE ReadCompletes
  <2>1. UNCHANGED <<job, net, c2s, sv, served, queued>>
    BY <1>6 DEF ReadCompletes
  <2>2. /\ cl'.state = cl.state /\ s2c' \in Text /\ Sees(cl, "READ", cl.buf) /\ cl.buf \in Text
        /\ \/ SeesNothing(cl') /\ s2c' = s2c
           \/ \E x \in Text : /\ x # <<>> /\ s2c = x \o s2c'
                              /\ OnlySees(cl', "READ", cl.buf \o x)
    BY <1>6, ReadCompletesStep
  <2>3. CASE SeesNothing(cl') /\ s2c' = s2c
    BY <1>2, <2>1, <2>2, <2>3, NothingIsNoMore, NothingNew
  <2>4. ASSUME NEW x \in Text, x # <<>>, s2c = x \o s2c', OnlySees(cl', "READ", cl.buf \o x)
        PROVE  Talking'
    <3>1. Placed(k, n)'
      BY <1>2, <1>3, <1>6, <2>2, <2>4, HearsMore
    <3> QED
      BY <1>4, <2>1, <3>1
  <2> QED
    BY <2>2, <2>3, <2>4
<1>7. CASE WriteCompletes
  <2>1. UNCHANGED <<job, net, s2c, sv, served, queued>>
    BY <1>7 DEF WriteCompletes
  <2>2. /\ cl'.state = cl.state /\ c2s' \in Text
        /\ Sees(cl, "WRITE", cl.mb) /\ cl.mb \in Text /\ cl.mb # <<>>
        /\ \/ SeesNothing(cl') /\ c2s' = c2s
           \/ \E x, y \in Text : /\ cl.mb = x \o y /\ c2s' = c2s \o x
                                 /\ OnlySees(cl', "WRITE", y)
    BY <1>7, WriteCompletesStep
  <2>3. CASE SeesNothing(cl') /\ c2s' = c2s
    BY <1>2, <2>1, <2>2, <2>3, NothingIsNoMore, NothingNew
  <2>4. ASSUME NEW x \in Text, NEW y \in Text, Parts(cl.mb, x, y), c2s' = c2s \o x,
               OnlySees(cl', "WRITE", y)
        PROVE  Talking'
    <3>1. Placed(k, n)'
      BY <1>2, <1>3, <1>7, <2>2, <2>4, SendsMore
    <3> QED
      BY <1>4, <2>1, <3>1
  <2> QED
    BY <2>2, <2>3, <2>4 DEF Parts
<1>8. CASE Break
  <2>1. Placed(k, n)' /\ job' = job
    BY <1>2, <1>3, <1>8, Breaks DEF Break
  <2> QED
    BY <1>4, <2>1
<1>9. CASE Accept
  <2>1. Placed(k, n)' /\ job' = job
    BY <1>2, <1>3, <1>9, Accepts DEF Accept
  <2> QED
    BY <1>4, <2>1
<1>10. CASE RecvFails
  <2>1. UNCHANGED <<job, cl, net, c2s, s2c, served, queued>> /\ sv' = [sv EXCEPT !.pc = "closed"]
        /\ sv.pc = "recv"
    BY <1>10 DEF RecvFails
  <2>2. sv'.pc = "closed" /\ net \in {"up", "down"}
    BY <1>3, <2>1 DEF StateOK, ServerTypeOK, ServerOK
  <2>3. ~Open' /\ ServerOK(n)'
    BY <2>1, <2>2 DEF Open, ServerOK
  <2>4. SeesNoMore(cl, cl') /\ cl'.state = cl.state
    BY <2>1 DEF SeesNoMore
  <2>5. Placed(k, n)'
    BY <1>2, <1>3, <2>1, <2>3, <2>4, KeepsPlace
  <2> QED
    BY <1>4, <2>1, <2>5
<1> QED
  BY <1>5, <1>6, <1>7, <1>8, <1>9, <1>10

LEMMA ConversationStep == StateOK /\ Regular /\ Conversation /\ [Next]_vars => Conversation'
<1> SUFFICES ASSUME StateOK, Regular, Conversation, [Next]_vars PROVE Conversation'
  OBVIOUS
<1>1. WireOK /\ (net = "none" => NotYet) /\ (net # "none" => Talking)
  BY DEF Conversation
<1>2. ClientOK(cl)
  BY DEF StateOK
<1>3. ASSUME net = "none" PROVE SeesNothing(cl) /\ cl.op = "none" /\ sv.pc = "accept" /\ cl.state = "INACTIVE"
  BY <1>1, <1>2, <1>3, InactiveSeesNothing DEF NotYet, ClientOK
<1>4. CASE connect
  <2>1. net = "none" /\ net' = "trying" /\ job' = job
    BY <1>4 DEF connect
  <2>2. Placed(0, 0)'
    BY <1>1, <1>4, <2>1, Begins
  <2>3. 0 \in 0 .. Len(Script) /\ 0 \in 0 .. 0
    BY PlanLength
  <2>4. Talking'
    BY <2>1, <2>2, <2>3, PlacedGoes
  <2> QED
    BY <2>1, <2>4 DEF Conversation, WireOK
<1>5. CASE RunHandler
  <2>1. UNCHANGED <<job, net, c2s, s2c, sv, served, queued>> /\ (cl'.op = "CONNECT" => cl.op = "CONNECT")
    BY <1>5, RunStep DEF RunHandler
  <2>2. WireOK'
    BY <1>1, <2>1 DEF WireOK
  <2>3. CASE net = "none"
    <3>1. cl'.state = "INACTIVE"
      BY <1>3, <1>5, <2>3, RunStep DEF Ran, SeesNothing
    <3>2. NotYet'
      BY <1>1, <2>1, <2>3, <3>1 DEF NotYet
    <3> QED
      BY <2>1, <2>2, <2>3, <3>2 DEF Conversation
  <2>4. CASE net # "none"
    <3>1. Talking'
      BY <1>1, <1>5, <2>4, HandlerKeeps
    <3> QED
      BY <2>1, <2>2, <2>4, <3>1 DEF Conversation
  <2> QED
    BY <2>3, <2>4
<1>6. CASE TimerExpires
  <2>1. UNCHANGED <<job, net, c2s, s2c, sv, served, queued>>
    BY <1>6 DEF TimerExpires
  <2>2. cl'.state = cl.state /\ cl'.op = cl.op /\ SeesNoMore(cl, cl')
    BY <1>2, <1>6, Expires
  <2>3. WireOK'
    BY <1>1, <2>1, <2>2 DEF WireOK
  <2>4. CASE net = "none"
    <3>1. NotYet'
      BY <1>1, <2>1, <2>2, <2>4 DEF NotYet
    <3> QED
      BY <2>1, <2>3, <2>4, <3>1 DEF Conversation
  <2>5. CASE net # "none"
    <3>1. PICK k \in 0 .. Len(Script) : \E n \in 0 .. k : Placed(k, n)
      BY <1>1, <2>5 DEF Talking
    <3>2. PICK n \in 0 .. k : Placed(k, n)
      BY <3>1
    <3>3. Talking'
      BY <2>1, <2>2, <3>2, NothingNew
    <3> QED
      BY <2>1, <2>3, <2>5, <3>3 DEF Conversation
  <2> QED
    BY <2>4, <2>5
<1>7. CASE ConnectCompletes \/ ReadCompletes \/ WriteCompletes
  <2>1. net # "none" /\ net' # "none"
    BY <1>3, <1>7 DEF ConnectCompletes, ReadCompletes, WriteCompletes
  <2>2. Talking'
    BY <1>1, <1>7, <2>1, NetworkKeeps
  <2>3. cl'.op = "none"
    BY <1>7, ConnectCompletesStep, ReadCompletesStep, WriteCompletesStep
  <2>4. net' = "down" => c2s' = <<>>
    <3>1. CASE ConnectCompletes
      <4>1. c2s' = c2s /\ cl.op = "CONNECT"
        BY <3>1 DEF ConnectCompletes
      <4>2. PICK k \in 0 .. Len(Script) : \E n \in 0 .. k : Placed(k, n)
        BY <1>1, <2>1 DEF Talking
      <4>3. \E n \in 0 .. k : ServerOK(n)
        BY <4>2 DEF Placed
      <4> QED
        BY <1>1, <4>1, <4>3 DEF WireOK, ServerOK
    <3>2. CASE ReadCompletes
      BY <1>1, <3>2 DEF ReadCompletes, WireOK
    <3>3. CASE WriteCompletes
      BY <1>1, <3>3 DEF WriteCompletes, WireOK
    <3> QED
      BY <1>7, <3>1, <3>2, <3>3
  <2> QED
    BY <2>1, <2>2, <2>3, <2>4 DEF Conversation, WireOK
<1>8. CASE Break
  <2>1. net = "up" /\ net' = "down" /\ c2s' = <<>> /\ cl' = cl
    BY <1>8 DEF Break
  <2>2. Talking'
    BY <1>1, <1>8, <2>1, NetworkKeeps
  <2> QED
    BY <1>1, <2>1, <2>2 DEF Conversation, WireOK
<1>9. CASE Accept \/ RecvFails
  <2>1. net # "none" /\ UNCHANGED <<net, cl, c2s>>
    BY <1>3, <1>9 DEF Accept, RecvFails
  <2>2. Talking'
    BY <1>1, <1>9, <2>1, NetworkKeeps
  <2> QED
    BY <1>1, <2>1, <2>2 DEF Conversation, WireOK
<1>10. CASE Recv
  <2>1. net # "none" /\ UNCHANGED <<net, cl>>
    BY <1>3, <1>10 DEF Recv
  <2>2. Talking' /\ net = "up"
    BY <1>1, <1>10, <2>1, RecvKeeps
  <2> QED
    BY <1>1, <2>1, <2>2 DEF Conversation, WireOK
<1>11. CASE UNCHANGED vars
  <2>1. UNCHANGED <<job, cl, net, c2s, s2c, sv, served, queued>> /\ SeesNoMore(cl, cl') /\ cl'.state = cl.state
    BY <1>11 DEF vars, SeesNoMore
  <2>2. net # "none" => Talking'
    <3>1. SUFFICES ASSUME net # "none" PROVE Talking'
      OBVIOUS
    <3>2. PICK k \in 0 .. Len(Script) : \E n \in 0 .. k : Placed(k, n)
      BY <1>1, <3>1 DEF Talking
    <3>3. PICK n \in 0 .. k : Placed(k, n)
      BY <3>2
    <3> QED
      BY <2>1, <3>3, NothingNew
  <2>3. net = "none" => NotYet'
    BY <1>1, <2>1 DEF NotYet
  <2> QED
    BY <1>1, <2>1, <2>2, <2>3 DEF Conversation, WireOK
<1> QED
  BY <1>4, <1>5, <1>6, <1>7, <1>8, <1>9, <1>10, <1>11 DEF Next

\* Where the conversation is, for any mail that fits and has no lone dot: each step
\* of the code's handlers keeps it, wherever the stream is cut or broken.
THEOREM Invariance == Spec => []IInv
<1>1. Init => IInv
  BY InitTypes, InitConversation DEF IInv
<1>2. IInv /\ [Next]_vars => IInv'
  <2>1. ASSUME [Next]_vars, Regular' PROVE Regular
    <3>1. job' = job
      BY <2>1 DEF Next, vars, connect, RunHandler, ConnectCompletes, ReadCompletes, WriteCompletes,
                  TimerExpires, Break, Accept, Recv, RecvFails
    <3> QED
      BY <2>1, <3>1 DEF Regular, Fits, NoLoneDot
  <2> QED
    BY <2>1, TypesStep, ConversationStep DEF IInv
<1> QED
  BY <1>1, <1>2, PTL DEF Spec

\* While the client writes a command the server has executed exactly the earlier
\* ones and no part of an answer is unread, although on_read_completed looks at no
\* reply's code and read_line drops what follows a line: for any mail, and wherever
\* the stream is cut or broken.
THEOREM KeepsInStep == Spec => []InStep
<1>1. IInv => InStep
  <2> SUFFICES ASSUME IInv, Writing, Regular
               PROVE  \E i \in DOMAIN Script : /\ StateScript[i] = cl.state
                                               /\ served = SubSeq(Script, 1, i - 1)
                                               /\ s2c = <<>>
    BY DEF InStep
  <2>1. ClientOK(cl) /\ Conversation
    BY DEF IInv, StateOK
  <2>2. cl.mb # <<>> /\ cl.mb \in Text /\ Sees(cl, "WRITE", cl.mb) /\ cl.state # "INACTIVE"
    <3>1. cl.mb # <<>> /\ cl.mb \in Text /\ cl.state # "INACTIVE"
      BY <2>1 DEF ClientOK, ClientRecord, Writing
    <3>2. Part(cl, "WRITE", <<>>) = cl.mb
      <4>1. SubSeq(cl.mb, 1, Len(cl.mb)) = cl.mb
        BY <3>1, SubSeqFull DEF Text
      <4> QED
        BY <4>1, EmptyText DEF Part
    <3> QED
      BY <3>1, <3>2 DEF Sees, Writing, Ops
  <2>3. net # "none"
    BY <2>1, <2>2 DEF Conversation, NotYet
  <2>4. PICK k \in 0 .. Len(Script) : \E n \in 0 .. k : Placed(k, n)
    BY <2>1, <2>3 DEF Conversation, Talking
  <2>5. PICK n \in 0 .. k : Placed(k, n)
    BY <2>4
  <2>6. n = k - 1 /\ Underway(k)
    BY <2>2, <2>5 DEF Placed, Executed
  <2>7. k \in 1 .. Len(Script) /\ k # 0
    BY <2>6
  <2>8. k \in DOMAIN Script
    <3>1. CASE job = NoJob
      BY <2>7, <3>1 DEF Script
    <3>2. CASE job # NoJob
      BY <2>7, <3>2 DEF Script
    <3> QED
      BY <3>1, <3>2
  <2>9. StateScript[k] = cl.state
    BY <2>2, <2>5, <2>7 DEF Placed, StateAt
  <2> QED
    BY <2>5, <2>6, <2>8, <2>9 DEF Placed, Underway
<1> QED
  BY Invariance, <1>1, PTL

\* What the server queues is the mail of the job, once and whole, wherever the text
\* and its terminator were cut into chunks (read_data keeps five characters), and a
\* conversation that came to the answer of QUIT has delivered it.
THEOREM MailQueued == Spec => []QueuedIsTheMail
<1>1. IInv => QueuedIsTheMail
  <2> SUFFICES ASSUME IInv, Regular
               PROVE  /\ queued \in {<<>>, <<job>>}
                      /\ (cl.state = "INACTIVE" /\ net # "none") =>
                             queued = IF job = NoJob THEN <<>> ELSE <<job>>
    BY DEF QueuedIsTheMail
  <2>1. CASE net = "none"
    BY <2>1 DEF IInv, Conversation, NotYet
  <2>2. CASE net # "none"
    <3>1. PICK k \in 0 .. Len(Script) : \E n \in 0 .. k : Placed(k, n)
      BY <2>2 DEF IInv, Conversation, Talking
    <3>2. PICK n \in 0 .. k : Placed(k, n)
      BY <3>1
    <3>3. queued = Delivered(n)
      BY <3>2 DEF Placed
    <3>4. ASSUME cl.state = "INACTIVE"
          PROVE  Delivered(n) = IF job = NoJob THEN <<>> ELSE <<job>>
      <4>1. cl.state # StateAt(k)
        BY <3>4, StatesOfPlan
      <4>2. n = Len(Script)
        BY <3>2, <4>1 DEF Placed
      <4> QED
        BY <4>2, PlanLength DEF Delivered
    <3> QED
      BY <3>3, <3>4 DEF Delivered
  <2> QED
    BY <2>1, <2>2
<1> QED
  BY Invariance, <1>1, PTL
=============================================================================
