---------------------------- MODULE SmtpDialogue ----------------------------
(***************************************************************************)
(* One SMTP conversation: the mailer's connection                          *)
(* (src/AOS/home/smtp_mailer/SMTP_Mailer_Connection.cpp, which reads with   *)
(* SMTP_Client_IO) against the receiving server                            *)
(* (src/AOS/aos_test/smtp_receiver/SMTP_Server.cpp, which reads and answers *)
(* with SMTP_Server_IO), over a stream that delivers any number of symbols *)
(* at a time and may break at any time.                                    *)
(*                                                                         *)
(* A command or a reply is one symbol and the "\n" that ends its line; the *)
(* mail and its terminator are sequences of characters, because where a    *)
(* chunk ends inside them is what the server's detection depends on.  The  *)
(* client is driven by one io thread, as in run_mailer_connection_test: cl *)
(* holds its members and the ready queue of the io_service.                *)
(***************************************************************************)
EXTENDS Integers, SequencesExt

CONSTANTS
    Jobs,      \* the mails (job_->eml) to choose from, as sequences of characters
    NoJob,     \* job_ = 0
    MaxBuf,    \* MAX_BUF, the capacity of mb_
    Greeting   \* what the server sends first

\* A mail is a sequence, and no mail is the missing job.
ASSUME JobsAssumption == NoJob \notin Jobs /\ \A j \in Jobs : j \in Seq(Range(j))
ASSUME MaxBufAssumption == MaxBuf \in Nat /\ MaxBuf >= 5
\* greetings() sends one line: "220 ...\r\n".
ASSUME GreetingAssumption ==
    /\ Greeting # <<>> /\ Greeting \in Seq(Range(Greeting))
    /\ \A i \in 1 .. Len(Greeting) : Greeting[i] = "\n" <=> i = Len(Greeting)

VARIABLES
    job,     \* job_
    cl,      \* the client
    net,     \* the connection between the two
    c2s, s2c,\* what is under way in each direction
    sv,      \* the server's thread
    served,  \* the lines the server has executed (for the properties)
    queued   \* the mails it has answered "queued" for: SMTP_Server.cpp:160-162
             \* throws the data away, so sv.mail and queued are for the properties

vars == <<job, cl, net, c2s, s2c, sv, served, queued>>

EndOfLine == "\n"
Terminator == <<"\r", "\n", ".", "\r", "\n">>

\* The command each state of the client waits for the answer of.
ClientStates == {"INACTIVE", "TRY_CONNECT", "TRY_HELO", "TRY_RSET", "TRY_MAIL_FROM",
                 "TRY_RCPT_TO", "TRY_DATA", "TRY_DATA_TRANSFER", "TRY_QUIT"}

OpHandler(w, err, got) == [k |-> w, err |-> err, got |-> got]
TimerHandler(w) == [k |-> w, err |-> FALSE, got |-> <<>>]

Init ==
    /\ job \in Jobs \cup {NoJob}
    /\ cl = [state |-> "INACTIVE", mb |-> <<>>, buf |-> <<>>, sock |-> "closed",
             op |-> "none", timer |-> "none", ready |-> <<>>]
    /\ net = "none"
    /\ c2s = <<>> /\ s2c = <<>>
    /\ sv = [pc |-> "accept", st |-> "START", buf |-> <<>>, mail |-> <<>>]
    /\ served = <<>>
    /\ queued = <<>>

-----------------------------------------------------------------------------
(* The client's methods, each a function of its record *)

\* A cancelled timeout runs its handler with an error, which does nothing.  The
\* wait of close() is never cancelled: no operation is pending by then.
cancel_timer(c) == [c EXCEPT !.timer = "none"]

\* An asynchronous operation bounded by timeout_ > 0; on a socket that is
\* closed already it completes at once with an error.
StartOp(c, w) ==
    LET armed == [c EXCEPT !.timer = "timeout"]
    IN  IF c.sock = "open" THEN [armed EXCEPT !.op = w]
        ELSE [armed EXCEPT !.ready = Append(@, OpHandler(w, TRUE, <<>>))]

CloseSocket(c) ==
    IF c.op = "none" THEN [c EXCEPT !.sock = "closed"]
    ELSE [c EXCEPT !.sock = "closed", !.op = "none",
                   !.ready = Append(@, OpHandler(c.op, TRUE, <<>>))]

\* Reads on without the timeout.
ReadUnbounded(c) ==
    IF c.sock = "open" THEN [c EXCEPT !.mb = <<>>, !.op = "READ"]
    ELSE [c EXCEPT !.mb = <<>>, !.ready = Append(@, OpHandler("READ", TRUE, <<>>))]

\* mb_.reset(); read(mb_, timeout_)
read(c) == StartOp([c EXCEPT !.mb = <<>>], "READ")

write(c) == StartOp(c, "WRITE")

\* close() leaves the closing to a wait that expires at once.
close(c) == [c EXCEPT !.timer = "close"]

\* handle_connect, on_connect_completed
handle_connect(c, h) ==
    LET t == cancel_timer(c)
    IN  IF h.err THEN close(t) ELSE read([t EXCEPT !.buf = <<>>])

\* Appends whatever it is given: an over-full block is not refused.
CopyUnchecked(mb, chars) == mb \o chars

\* ACE_Message_Block::copy refuses what does not fit; the result is not looked at.
copy(mb, chars) == IF Len(mb) + Len(chars) <= MaxBuf THEN mb \o chars ELSE mb

\* What is written after the reply that ends each state: the next state and mb_.
NextCommand(state) ==
    LET line(s, cmd) == [state |-> s, mb |-> <<cmd, EndOfLine>>]
    IN  CASE state = "TRY_CONNECT"       -> line("TRY_HELO", "HELO")
          [] state = "TRY_HELO"          -> line("TRY_RSET", "RSET")
          [] state = "TRY_RSET"          -> IF job = NoJob THEN line("TRY_QUIT", "QUIT")
                                            ELSE line("TRY_MAIL_FROM", "MAIL")
          [] state = "TRY_MAIL_FROM"     -> line("TRY_RCPT_TO", "RCPT")
          [] state = "TRY_RCPT_TO"       -> line("TRY_DATA", "DATA")
          [] state = "TRY_DATA"          -> [state |-> "TRY_DATA_TRANSFER",
                                             mb |-> copy(copy(<<>>, job), Terminator)]
          [] state = "TRY_DATA_TRANSFER" -> line("TRY_QUIT", "QUIT")

\* The reply is complete, whatever its code: go on with the next command.
on_read_completed(c) ==
    IF c.state = "TRY_QUIT" THEN close([c EXCEPT !.state = "INACTIVE"])
    ELSE LET next == NextCommand(c.state)
         IN  write([c EXCEPT !.state = next.state, !.mb = next.mb])

\* Any chunk is taken for the whole reply.
AnyChunk(buf) == TRUE

\* SMTP_Client_IO::read_line: the reply is complete when what has been read
\* so far ends with a "\n".  Its test for a reply of several lines compares the
\* digits with the numbers 0 to 9, so it skips no character of the code and finds
\* no '-' behind it; a reply that begins with '-' itself is left out.
ReplyComplete(buf) == Last(buf) = EndOfLine

handle_read(c, h) ==
    LET t == [cancel_timer(c) EXCEPT !.buf = @ \o h.got]
    IN  IF h.err THEN close(cancel_timer(c))
        ELSE IF ReplyComplete(t.buf) THEN on_read_completed(t)
        ELSE read(t)

\* on_write_completed starts to read the reply.
handle_write(c, h) ==
    LET t == [cancel_timer(c) EXCEPT !.mb = SubSeq(@, Len(h.got) + 1, Len(@))]
    IN  IF h.err THEN close(t)
        ELSE IF t.mb # <<>> THEN write(t)
        ELSE read([t EXCEPT !.buf = <<>>])

\* handle_connect_timeout, handle_socket_timeout and handle_close (mailer_ = 0)
\* close the socket: a pending operation is aborted.
Handle(c, h) ==
    CASE h.k = "CONNECT" -> handle_connect(c, h)
      [] h.k = "READ"    -> handle_read(c, h)
      [] h.k = "WRITE"   -> handle_write(c, h)
      [] h.k \in {"timeout", "close"} -> CloseSocket(c)

-----------------------------------------------------------------------------
(* The client's io thread and the operations it waits for *)

connect ==
    /\ net = "none"
    /\ net' = "trying"
    /\ cl' = StartOp([cl EXCEPT !.state = "TRY_CONNECT", !.sock = "open"], "CONNECT")
    /\ UNCHANGED <<job, c2s, s2c, sv, served, queued>>

\* ios.run()
RunHandler ==
    /\ cl.ready # <<>>
    /\ cl' = Handle([cl EXCEPT !.ready = Tail(@)], Head(cl.ready))
    /\ UNCHANGED <<job, net, c2s, s2c, sv, served, queued>>

Complete(w, err, got) ==
    cl' = [cl EXCEPT !.op = "none", !.ready = Append(@, OpHandler(w, err, got))]

ConnectCompletes ==
    /\ cl.op = "CONNECT"
    /\ \/ net' = "up" /\ Complete("CONNECT", FALSE, <<>>)
       \/ net' = "down" /\ Complete("CONNECT", TRUE, <<>>)
    /\ UNCHANGED <<job, c2s, s2c, sv, served, queued>>

ReadCompletes ==
    /\ cl.op = "READ"
    /\ \/ \E n \in 1 .. (IF Len(s2c) < MaxBuf THEN Len(s2c) ELSE MaxBuf) :
            /\ Complete("READ", FALSE, SubSeq(s2c, 1, n))
            /\ s2c' = SubSeq(s2c, n + 1, Len(s2c))
       \/ /\ net = "down" \/ (sv.pc = "closed" /\ s2c = <<>>)
          /\ Complete("READ", TRUE, <<>>)
          /\ UNCHANGED s2c
    /\ UNCHANGED <<job, net, c2s, sv, served, queued>>

\* async_write_some accepts any part of what it is given.
WriteCompletes ==
    /\ cl.op = "WRITE"
    /\ \/ \E n \in 1 .. Len(cl.mb) :
            /\ net = "up"
            /\ Complete("WRITE", FALSE, SubSeq(cl.mb, 1, n))
            /\ c2s' = c2s \o SubSeq(cl.mb, 1, n)
       \/ /\ net = "down" \/ sv.pc = "closed"
          /\ Complete("WRITE", TRUE, <<>>)
          /\ UNCHANGED c2s
    /\ UNCHANGED <<job, net, s2c, sv, served, queued>>

TimerExpires ==
    /\ cl.timer # "none"
    /\ cl' = [cl EXCEPT !.timer = "none", !.ready = Append(@, TimerHandler(cl.timer))]
    /\ UNCHANGED <<job, net, c2s, s2c, sv, served, queued>>

\* The network loses the connection and what is under way.
Break ==
    /\ net = "up"
    /\ net' = "down"
    /\ c2s' = <<>> /\ s2c' = <<>>
    /\ UNCHANGED <<job, cl, sv, served, queued>>

-----------------------------------------------------------------------------
(* The server *)

MailCommand(st) ==
    IF st = "RESET" THEN [st |-> "MAIL", code |-> "250"] ELSE [st |-> st, code |-> "501"]

\* exec_cmd outside the DATA state: the state after the command and the reply's
\* code.  RSET is not in its list: like any other line it is refused with 502.
exec_cmd(st, cmd) ==
    CASE cmd = "HELO" -> [st |-> "RESET", code |-> "250"]
      [] cmd = "MAIL" -> MailCommand(st)
      [] cmd = "RCPT" -> [st |-> st, code |-> IF st = "MAIL" THEN "250" ELSE "501"]
      [] cmd = "DATA" -> IF st = "MAIL" THEN [st |-> "DATA", code |-> "354"]
                         ELSE [st |-> st, code |-> "501"]
      [] cmd = "QUIT" -> [st |-> st, code |-> "221"]
      [] cmd = "\r"   -> [st |-> st, code |-> "500"]
      [] OTHER        -> [st |-> st, code |-> "502"]

\* Accepts a connection: greets, or closes it at once when there are too many.
Accept ==
    /\ sv.pc = "accept" /\ net # "none"
    /\ \/ /\ net = "up"
          /\ \/ sv' = [sv EXCEPT !.pc = "recv"] /\ s2c' = Greeting
             \/ sv' = [sv EXCEPT !.pc = "closed"] /\ UNCHANGED s2c
       \/ /\ net = "down"
          /\ sv' = [sv EXCEPT !.pc = "closed"]
          /\ UNCHANGED s2c
    /\ UNCHANGED <<job, cl, net, c2s, served, queued>>

\* send_n the reply; it fails once the client has closed its socket.
Reply(code) == s2c' = IF cl.sock = "open" THEN s2c \o <<code, EndOfLine>> ELSE s2c

NextPc(cmd) == IF cmd = "QUIT" \/ cl.sock = "closed" THEN "closed" ELSE "recv"

\* read_line keeps an incomplete line.  With a complete one the rest of the
\* chunk is dropped: the reply is written into the same block.
ReadLine(chunk) ==
    LET eol == SelectInSeq(chunk, LAMBDA x : x = EndOfLine)
        cmd == Head(sv.buf \o chunk)
        done == exec_cmd(sv.st, cmd)
    IN  IF eol = 0
        THEN /\ sv' = [sv EXCEPT !.buf = @ \o chunk]
             /\ UNCHANGED <<s2c, served, queued>>
        ELSE /\ sv' = [sv EXCEPT !.pc = NextPc(cmd), !.st = done.st, !.buf = <<>>]
             /\ served' = Append(served, cmd)
             /\ Reply(done.code)
             /\ UNCHANGED queued

\* The last characters of the mail so far: those of the chunk if it has enough
\* of them, or the ones kept before and the chunk.
LastChars(buf, chunk) ==
    IF Len(chunk) >= 5 THEN SubSeq(chunk, Len(chunk) - 4, Len(chunk)) ELSE buf \o chunk

\* Looks for the lone dot and not for the line's end before it.
EndsWithDot(buf) == IsSuffix(<<".", "\r", "\n">>, buf)

MailEnds(buf) == IsSuffix(Terminator, buf)

\* read_data, and data_completed when the terminator has been read.
ReadData(chunk) ==
    LET buf == LastChars(sv.buf, chunk)
        mail == sv.mail \o chunk
    IN  IF MailEnds(buf)
        THEN /\ sv' = [sv EXCEPT !.pc = NextPc("mail"), !.st = "RESET", !.buf = <<>>,
                                 !.mail = <<>>]
             /\ served' = Append(served, "mail")
             /\ queued' = Append(queued, SubSeq(mail, 1, Len(mail) - 5))
             /\ Reply("250")
        ELSE /\ sv' = [sv EXCEPT !.buf = buf, !.mail = mail]
             /\ UNCHANGED <<s2c, served, queued>>

\* The server's thread: stream.recv() and what it does with the chunk.
Recv ==
    /\ sv.pc = "recv"
    /\ \E n \in 1 .. Len(c2s) :
        /\ c2s' = SubSeq(c2s, n + 1, Len(c2s))
        /\ IF sv.st = "DATA" THEN ReadData(SubSeq(c2s, 1, n))
                             ELSE ReadLine(SubSeq(c2s, 1, n))
    /\ UNCHANGED <<job, cl, net>>

\* recv() failed: the stream ended or broke, or nothing came for 30 seconds.  Left
\* out is a failure with EWOULDBLOCK, or an end that meets it as an old errno
\* (SMTP_Server.cpp:146-149): the code then moves its write pointer back or
\* nowhere and receives again.
RecvFails ==
    /\ sv.pc = "recv"
    /\ c2s = <<>>
    /\ sv' = [sv EXCEPT !.pc = "closed"]
    /\ UNCHANGED <<job, cl, net, c2s, s2c, served, queued>>

-----------------------------------------------------------------------------
Next ==
    \/ connect \/ RunHandler \/ ConnectCompletes \/ ReadCompletes \/ WriteCompletes
    \/ TimerExpires \/ Break
    \/ Accept \/ Recv \/ RecvFails

Spec == Init /\ [][Next]_vars

\* The io thread runs, timers expire, and the server's thread accepts what is
\* connected and receives or gives up after its 30 seconds.  The network is not
\* fair: an operation of the client need not complete.
FairSpec ==
    /\ Spec
    /\ WF_vars(RunHandler) /\ WF_vars(TimerExpires)
    /\ WF_vars(Accept) /\ WF_vars(Recv \/ RecvFails)

-----------------------------------------------------------------------------
(* Properties *)

\* The two ends stay within their types, and mb_ within its capacity.
TypeOK ==
    /\ job \in Jobs \cup {NoJob}
    /\ cl.state \in ClientStates
    /\ cl.sock \in {"open", "closed"}
    /\ cl.op \in {"none", "CONNECT", "READ", "WRITE"}
    /\ cl.timer \in {"none", "timeout", "close"}
    /\ Len(cl.mb) <= MaxBuf
    /\ net \in {"none", "trying", "up", "down"}
    /\ sv.pc \in {"accept", "recv", "closed"}
    /\ sv.st \in {"START", "RESET", "MAIL", "DATA"}

\* The mail and its terminator fit into mb_.
Fits == job # NoJob => Len(job) + Len(Terminator) <= MaxBuf

\* The mail has no line that is a lone dot (nothing doubles its dot).
NoLoneDot ==
    job # NoJob =>
        \A i \in 1 .. Len(job) : ~IsPrefix(Terminator, SubSeq(job \o Terminator, i, Len(job) + 5))

\* What the code takes for granted and checks nowhere.
Regular == Fits /\ NoLoneDot

\* What the server should have executed before the client sends the command of
\* each state.
Script ==
    IF job = NoJob THEN <<"HELO", "RSET", "QUIT">>
    ELSE <<"HELO", "RSET", "MAIL", "RCPT", "DATA", "mail", "QUIT">>

StateScript ==
    IF job = NoJob THEN <<"TRY_HELO", "TRY_RSET", "TRY_QUIT">>
    ELSE <<"TRY_HELO", "TRY_RSET", "TRY_MAIL_FROM", "TRY_RCPT_TO", "TRY_DATA",
           "TRY_DATA_TRANSFER", "TRY_QUIT">>

Writing == cl.op = "WRITE"

\* The client and the server keep in step however the stream is cut: while the
\* client writes a command, the server has executed exactly the earlier ones
\* and no part of an answer to them is still to be read.  The code sends the
\* next command when what it has read happens to end with a line, whatever
\* the reply's code (SMTP_Mailer_Connection.cpp:121-243), and the server
\* drops what follows a line in a chunk.
InStep ==
    (Writing /\ Regular) =>
        \E i \in DOMAIN Script :
            /\ StateScript[i] = cl.state
            /\ served = SubSeq(Script, 1, i - 1)
            /\ s2c = <<>>

\* What the server queues is the mail of the job, once, however the text and
\* its terminator were cut into chunks (read_data keeps five characters); and a
\* conversation that came to its end (the answer to QUIT was read) delivered it,
\* although no reply's code was looked at.
QueuedIsTheMail ==
    Regular =>
        /\ queued \in {<<>>, <<job>>}
        /\ (cl.state = "INACTIVE" /\ net # "none") =>
               queued = IF job = NoJob THEN <<>> ELSE <<job>>

ClientDone ==
    cl.sock = "closed" /\ cl.op = "none" /\ cl.timer = "none" /\ cl.ready = <<>>

\* Whatever is lost, and also for a mail that does not fit into the block, both
\* ends give the conversation up: the client closes its socket and has nothing
\* pending, and the server's thread is free.
DialogueEnds == (net = "trying") ~> (ClientDone /\ (net = "trying" \/ sv.pc = "closed"))
=============================================================================
