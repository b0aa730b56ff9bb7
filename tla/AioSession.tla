----------------------------- MODULE AioSession -----------------------------
(***************************************************************************)
(* One session of the proactor library: class AIO_Session                  *)
(* (src/AOS/aos/net/AIO_Session.cpp) on its Asynch_RW_Stream               *)
(* (src/AOS/aos/net/Asynch_RW.cpp).  A method is an operator on the record *)
(* of the session; where the stream, the peer or the subclass decides, it  *)
(* returns the set of possible results.  Every method that changes the     *)
(* record runs under the session's lock_, so it is one step of the modules *)
(* that use these operators.                                               *)
(***************************************************************************)
EXTENDS Integers

CONSTANT SessionCalls   \* what a subclass calls from its callbacks

ASSUME SessionCallsAssumption == SessionCalls \subseteq {"read", "write", "pause"}

SessionRecord ==
    [r      : Int,                        \* n_op_r_
     w      : Int,                        \* n_op_w_
     stream : {"new", "open", "closed"},  \* closed: flg_cancel_ is set as well
     rd     : BOOLEAN,                    \* the proactor owes a read completion
     wr     : BOOLEAN,                    \* and a write completion
     index  : Int]                        \* index_

NewSession ==
    [r |-> -1, w |-> -1, stream |-> "new", rd |-> FALSE, wr |-> FALSE, index |-> -1]

HasPending(x) == x.r > 0 \/ x.w > 0
IsPaused(x) == x.r >= 8 \/ x.w >= 8

\* stream_.cancel(); stream_.close(): what is pending completes with an error,
\* and neither another operation nor open() succeeds on the stream.
CloseStream(x) == [x EXCEPT !.stream = "closed"]

\* Starts the read and does not count it.
ReadUncounted(x) == [x EXCEPT !.rd = TRUE]

\* An operation the proactor has accepted is counted at once.
ReadStarted(x) == [x EXCEPT !.rd = TRUE, !.r = @ + 1]
WriteStarted(x) == [x EXCEPT !.wr = TRUE, !.w = @ + 1]

\* Returns without reading while an operation is counted; a failure to start
\* one closes the stream.
read(x) ==
    IF x.r # 0 THEN {x}
    ELSE IF x.stream = "open" THEN {ReadStarted(x), CloseStream(x)}
    ELSE {CloseStream(x)}

\* An empty message is refused without a change.
write(x) ==
    IF x.w # 0 THEN {x}
    ELSE IF x.stream = "open" THEN {x, WriteStarted(x), CloseStream(x)}
    ELSE {x, CloseStream(x)}

\* Marks the reads only.
PauseReads(x) == [x EXCEPT !.r = @ + 8]

\* Counts as eight operations of either kind, which keeps the session alive.
pause(x) == [x EXCEPT !.r = @ + 8, !.w = @ + 8]

\* on_open, on_read_complete, on_write_complete and on_resume belong to the
\* subclass: any of its calls, or none.
UserStep(x) ==
    LET reads(S)  == IF "read" \in SessionCalls THEN S \cup UNION { read(y) : y \in S } ELSE S
        writes(S) == IF "write" \in SessionCalls THEN S \cup UNION { write(y) : y \in S } ELSE S
        pauses(S) == IF "pause" \in SessionCalls THEN S \cup { pause(y) : y \in S } ELSE S
    IN  pauses(writes(reads({x})))

\* A stream that was cancelled before it was opened refuses to open, and open
\* may fail anyway; the counters keep their -1.
open(x) ==
    {x} \cup (IF x.stream = "new"
              THEN UserStep([x EXCEPT !.stream = "open", !.r = 0, !.w = 0])
              ELSE {})

\* A completion without an error and without data changes nothing else.
handle_read_stream(x) ==
    LET done == [x EXCEPT !.rd = FALSE, !.r = @ - 1]
    IN  UserStep(done) \cup {done, CloseStream(done)}

handle_write_stream(x) ==
    LET done == [x EXCEPT !.wr = FALSE, !.w = @ - 1]
    IN  UserStep(done) \cup {CloseStream(done)}

\* Does nothing to a session that is not paused.
resume(x) == UserStep([x EXCEPT !.r = @ - 8, !.w = @ - 8])
=============================================================================
