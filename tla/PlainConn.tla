----------------------------- MODULE PlainConn -----------------------------
(***************************************************************************)
(* A connection that is not resumable, from the application's Write on one *)
(* side to its Read on the other: httpConn (client.go) with batch or       *)
(* stream downloads and batch or stream uploads, wsConn (websocket.go),    *)
(* the handlers that serve them (PollHandler, pollStream, pollSendStream,  *)
(* WebSocketHandler and its pumps), and the network in between.            *)
(*                                                                         *)
(* A byte is its position in the stream, a chunk <<a, b>> the bytes        *)
(* a .. b.  Every byte is sent at most once, so where a chunk lands says   *)
(* whether the stream has a hole.  A request, a response or a connection   *)
(* may fail at any time; a batch request its client has given up on may    *)
(* still be served later.  Heartbeats change nothing but timers.  The      *)
(* session is open or closed here: SessionStore has its life in detail.    *)
(***************************************************************************)
EXTENDS Integers, Sequences

CONSTANTS
    MaxSendBytes,     \* Limits.MaxSendBytes
    PollBufferBytes,  \* Limits.PollBufferBytes
    MaxSendChunk,     \* Connector.MaxSendChunk
    Modes,            \* the combinations of AllModes considered
    MaxBytes          \* bound: the bytes the two applications write, together

ASSUME SizesAssumption == {MaxSendBytes, PollBufferBytes, MaxSendChunk} \subseteq Nat \ {0}
ASSUME LoadAssumption == MaxBytes \in Nat

VARIABLES
    mode,    \* how each direction is carried
    c,       \* the connection's flags and its Close
    d,       \* the download: the client's loop, the request, both pipes
    u,       \* the upload: Write, the client's loop, requests and frames, the server's pipe
    session, \* the server's session
    active   \* the Connector's active session: this one, one adopted later, or what
             \* was there before (an earlier one, or none): "older"

vars == <<mode, c, d, u, session, active>>

AllModes ==
    [down : {"batch", "stream"}, up : {"batch", "stream"}] \cup [down : {"ws"}, up : {"ws"}]

ASSUME ModesAssumption == Modes \subseteq AllModes

none == <<0, 0>>        \* no response, no request in flight
end == <<1, 0>>         \* frameEnd
idle == <<2, 0>>        \* 204
gone == <<3, 0>>        \* 404, 410, frameGone, or a closed WebSocket

isData(f) == f[1] <= f[2] /\ f # none

noConn ==
    [closed |-> FALSE, ctx |-> FALSE, failed |-> FALSE, superseded |-> FALSE,
     adopted |-> TRUE, judged |-> "me", readClosed |-> FALSE, writeClosed |-> FALSE, closer |-> "no"]

noDown ==
    [pc |-> "end", poll |-> "none", resp |-> none, written |-> 0, taken |-> 0, got |-> 0,
     hole |-> FALSE]

noUp ==
    [pc |-> "none", writer |-> "idle", flight |-> FALSE, written |-> 0, taken |-> 0, sent |-> 0,
     requests |-> {}, leg |-> "none", body |-> <<>>, answer |-> "none", got |-> 0,
     hole |-> FALSE, abandoned |-> FALSE]

\* The loops connect and connectWebSocket start.
freshDown(m) ==
    IF m.down = "ws" THEN [noDown EXCEPT !.pc = "wait", !.poll = "parked"]
    ELSE [noDown EXCEPT !.pc = "top"]

freshUp(m) ==
    [noUp EXCEPT !.pc = CASE m.up = "batch" -> "none" [] m.up = "stream" -> "top" [] OTHER -> "feed",
                 !.leg = IF m.up = "ws" THEN "open" ELSE "none"]

ws == mode.down = "ws"

room == MaxBytes - (u.written + d.written)

\* connect adopts the session before the loops start, connectWebSocket after.
Init ==
    /\ mode \in Modes
    /\ c = [noConn EXCEPT !.adopted = ~ws]
    /\ d = freshDown(mode)
    /\ u = freshUp(mode)
    /\ session = "open"
    /\ active = IF ws THEN "older" ELSE "me"

-----------------------------------------------------------------------------
(* onSessionClosed, onTransportProblem and fail.  Both loops of a          *)
(* connection end in them: the verdict first, the pipes after it.          *)

verdict == IF active = "me" THEN "failing" ELSE "superseding"

judged ==
    IF active = "me" THEN [c EXCEPT !.failed = TRUE]
    ELSE [c EXCEPT !.superseded = TRUE, !.ctx = TRUE, !.judged = active]

\* Variant: the reader of a superseded connection is left blocked.
pipesAfterFailingOnly(v) ==
    [c EXCEPT !.readClosed = @ \/ v = "failing", !.writeClosed = @ \/ (v = "superseding" /\ ~ws)]

pipesAfter(v) ==
    [c EXCEPT !.readClosed = TRUE, !.writeClosed = @ \/ (v = "superseding" /\ ~ws)]

\* An error ends its loop, in silence when the connection is being shut down.
afterError == IF c.ctx \/ c.closed THEN "end" ELSE "judge"

-----------------------------------------------------------------------------
(* The client's download: pollLoop, pollLoopStream, wsConn.readLoop.       *)

DownPolls ==
    /\ d.pc = "top"
    /\ d' = IF c.ctx THEN [d EXCEPT !.pc = "end"]
            ELSE [d EXCEPT !.pc = "wait", !.poll = "sent", !.resp = none]
    /\ UNCHANGED <<mode, c, u, session, active>>

\* The next bytes of the stream, or others.
downGot(f) ==
    IF ~d.hole /\ f[1] = d.got + 1 THEN [d EXCEPT !.got = f[2]] ELSE [d EXCEPT !.hole = TRUE]

\* A response with data, or a data frame, into the read pipe.
DownData ==
    /\ d.pc = "wait" /\ isData(d.resp)
    /\ d' = IF c.readClosed
            THEN [d EXCEPT !.resp = none, !.pc = IF ws THEN "end" ELSE afterError]
            ELSE [downGot(d.resp) EXCEPT !.resp = none,
                                         !.pc = IF mode.down = "batch" THEN "top" ELSE "wait"]
    /\ UNCHANGED <<mode, c, u, session, active>>

\* Variant: a closed session is polled again like an idle one.
DownAnsweredAlways ==
    /\ d.pc = "wait" /\ d.resp \in {idle, end, gone}
    /\ d' = [d EXCEPT !.resp = none, !.pc = IF ws THEN afterError ELSE "top"]
    /\ UNCHANGED <<mode, c, u, session, active>>

\* Variant: frameEnd is the end of the download.
DownAnsweredStops ==
    /\ d.pc = "wait" /\ d.resp \in {idle, end, gone}
    /\ d' = [d EXCEPT !.resp = none,
                      !.pc = CASE d.resp = gone -> afterError [] d.resp = end -> "end" [] OTHER -> "top"]
    /\ UNCHANGED <<mode, c, u, session, active>>

\* 204 and frameEnd: poll again.  Gone: the connection is over.
DownAnswered ==
    /\ d.pc = "wait" /\ d.resp \in {idle, end, gone}
    /\ d' = [d EXCEPT !.resp = none, !.pc = IF d.resp = gone THEN afterError ELSE "top"]
    /\ UNCHANGED <<mode, c, u, session, active>>

\* Variant: a failed poll is repeated.
DownBreaksAgain ==
    /\ d.pc = "wait"
    /\ d' = [d EXCEPT !.poll = "none", !.resp = none, !.pc = "top"]
    /\ u' = IF ws THEN [u EXCEPT !.leg = "left"] ELSE u
    /\ UNCHANGED <<mode, c, session, active>>

\* An error, a timeout or the idle watchdog; a cancelled context.
DownBreaks ==
    /\ d.pc = "wait"
    /\ d' = [d EXCEPT !.poll = "none", !.resp = none, !.pc = afterError]
    /\ u' = IF ws THEN [u EXCEPT !.leg = "left"] ELSE u
    /\ UNCHANGED <<mode, c, session, active>>

DownJudges ==
    /\ d.pc = "judge"
    /\ c' = judged
    /\ d' = [d EXCEPT !.pc = verdict]
    /\ UNCHANGED <<mode, u, session, active>>

DownCloses ==
    /\ d.pc \in {"failing", "superseding"}
    /\ c' = pipesAfter(d.pc)
    /\ d' = [d EXCEPT !.pc = "end"]
    /\ UNCHANGED <<mode, u, session, active>>

-----------------------------------------------------------------------------
(* The server's download: PollHandler, pollStream, wsWritePump.            *)

\* The application writes to the session.
ServerWrites ==
    /\ session = "open" /\ room > 0
    /\ d' = [d EXCEPT !.written = @ + 1]
    /\ UNCHANGED <<mode, c, u, session, active>>

\* Get and beginPoll.
PollBegins ==
    /\ d.poll = "sent"
    /\ d' = IF session = "closed" THEN [d EXCEPT !.poll = "none", !.resp = gone]
            ELSE [d EXCEPT !.poll = "parked"]
    /\ UNCHANGED <<mode, c, u, session, active>>

parked == d.poll = "parked" /\ d.resp = none

\* The handler after it has written data: a batch poll is over, a stream may have
\* reached its StreamMaxDuration.
pollAfter ==
    CASE mode.down = "batch" -> {"none"} [] mode.down = "stream" -> {"parked", "ending"}
      [] OTHER -> {"parked"}

Shorter(a, b) == IF a <= b THEN a ELSE b

\* ReadAvailable returns data, also from a closed pipe.
PollReads ==
    /\ parked /\ d.taken < d.written
    /\ \E p \in pollAfter :
          LET to == Shorter(d.written, d.taken + PollBufferBytes)
          IN  d' = [d EXCEPT !.taken = to, !.resp = <<d.taken + 1, to>>, !.poll = p]
    /\ UNCHANGED <<mode, c, u, session, active>>

\* The poll timeout with nothing to send, or StreamMaxDuration.
PollEnds ==
    /\ \/ parked /\ ~ws /\ d.taken = d.written /\ session = "open"
       \/ d.poll = "ending" /\ d.resp = none
    /\ d' = [d EXCEPT !.poll = "none", !.resp = IF mode.down = "batch" THEN idle ELSE end]
    /\ UNCHANGED <<mode, c, u, session, active>>

\* io.EOF from ReadAvailable: 410, frameGone, or the WebSocket is closed.
PollGone ==
    /\ parked /\ d.taken = d.written /\ session = "closed"
    /\ d' = [d EXCEPT !.poll = "none", !.resp = gone]
    /\ u' = IF ws THEN [u EXCEPT !.leg = "left"] ELSE u
    /\ UNCHANGED <<mode, c, session, active>>

-----------------------------------------------------------------------------
(* Write.                                                                  *)

WriteBegins ==
    /\ u.writer = "idle" /\ ~c.closed /\ room > 0
    /\ u' = [u EXCEPT !.writer = "passed"]
    /\ UNCHANGED <<mode, c, d, session, active>>

\* Under writeMu, or in writePipe, which may be closed.
WriteQueues(n) ==
    /\ u.writer = "passed" /\ n <= room
    /\ u' = IF mode.up = "batch"
            THEN [u EXCEPT !.written = @ + n, !.flight = TRUE,
                           !.writer = IF u.flight THEN "idle" ELSE "start"]
            ELSE [u EXCEPT !.written = IF c.writeClosed THEN @ ELSE @ + n, !.writer = "idle"]
    /\ UNCHANGED <<mode, c, d, session, active>>

\* wg.Add and go flushLoop.
WriteStarts ==
    /\ u.writer = "start"
    /\ u' = [u EXCEPT !.writer = "idle", !.pc = "coalesce"]
    /\ UNCHANGED <<mode, c, d, session, active>>

-----------------------------------------------------------------------------
(* Batch uploads: flushLoop and doSend.                                    *)

clearFlight(v) == [v EXCEPT !.flight = FALSE, !.pc = "none"]

\* The rest of buf is dropped, and flushLoop ends as the other loops do.
sendFails == [u EXCEPT !.sent = u.taken, !.answer = "none",
                       !.pc = IF afterError = "end" THEN "clear" ELSE "judge"]

\* The context is done, or the coalescing window is over.
FlushWaits ==
    /\ u.pc = "coalesce"
    /\ \/ u' = [u EXCEPT !.pc = "take"]
       \/ c.ctx /\ u' = clearFlight(u)
    /\ UNCHANGED <<mode, c, d, session, active>>

\* Variant: the flag is cleared after the buffer was seen empty, not with it.
FlushTakesThenClears ==
    /\ u.pc = "take"
    /\ u' = IF u.taken = u.written THEN [u EXCEPT !.pc = "clear"]
            ELSE [u EXCEPT !.sent = u.taken, !.taken = u.written, !.pc = "send"]
    /\ UNCHANGED <<mode, c, d, session, active>>

\* buf, c.writeBuf = c.writeBuf, nil, in one critical section with the flag.
FlushTakes ==
    /\ u.pc = "take"
    /\ u' = IF u.taken = u.written THEN clearFlight(u)
            ELSE [u EXCEPT !.sent = u.taken, !.taken = u.written, !.pc = "send"]
    /\ UNCHANGED <<mode, c, d, session, active>>

effectiveChunk == Shorter(MaxSendChunk, MaxSendBytes)

chunk == <<u.sent + 1, Shorter(u.taken, u.sent + effectiveChunk)>>

\* Variant: the request does not carry the connection's context.
SendGoesDetached ==
    /\ u.pc = "send"
    /\ u' = [u EXCEPT !.pc = "wait", !.answer = "none", !.requests = @ \cup {chunk}]
    /\ UNCHANGED <<mode, c, d, session, active>>

\* A request under a cancelled context is not sent.
SendGoes ==
    /\ u.pc = "send"
    /\ u' = IF c.ctx THEN sendFails
            ELSE [u EXCEPT !.pc = "wait", !.answer = "none", !.requests = @ \cup {chunk}]
    /\ UNCHANGED <<mode, c, d, session, active>>

SendAnswered ==
    /\ u.pc = "wait" /\ u.answer # "none"
    /\ u' = IF u.answer = "gone" THEN sendFails
            ELSE [u EXCEPT !.sent = chunk[2], !.answer = "none",
                           !.pc = IF chunk[2] = u.taken THEN "take" ELSE "send"]
    /\ UNCHANGED <<mode, c, d, session, active>>

\* Variant: the next chunk is sent all the same.
SendBreaksOn ==
    /\ u.pc = "wait"
    /\ u' = [u EXCEPT !.sent = u.taken, !.pc = "take", !.answer = "none"]
    /\ UNCHANGED <<mode, c, d, session, active>>

\* SendTimeout or a network error; the request may yet arrive.
SendBreaks ==
    /\ u.pc = "wait"
    /\ u' = sendFails
    /\ UNCHANGED <<mode, c, d, session, active>>

FlushClears ==
    /\ u.pc = "clear"
    /\ u' = clearFlight(u)
    /\ UNCHANGED <<mode, c, d, session, active>>

-----------------------------------------------------------------------------
(* The server's batch upload: PollHandler with X-Send-Only.                *)

\* The next bytes of the stream, or others.
upGot(v, f) ==
    IF ~v.hole /\ f[1] = v.got + 1 THEN [v EXCEPT !.got = f[2]] ELSE [v EXCEPT !.hole = TRUE]

size(f) == (f[2] + 1) - f[1]

\* Only the request the client waits for has somebody to answer.
answered(v, f, a) == IF u.pc = "wait" /\ f = chunk THEN [v EXCEPT !.answer = a] ELSE v

\* A request is served, at once or long after its client gave it up.  A session
\* that closes between beginPoll and writeUpstream has its bytes dropped and
\* the request answered 200.
SendServed(f) ==
    /\ f \in u.requests
    /\ LET v == [u EXCEPT !.requests = @ \ {f}]
       IN  IF session = "closed" THEN \E a \in {"gone", "ok"} : u' = answered(v, f, a)
           ELSE IF size(f) > MaxSendBytes THEN u' = answered(v, f, "gone")
           ELSE u' = answered(upGot(v, f), f, "ok")
    /\ session' = IF size(f) > MaxSendBytes THEN "closed" ELSE session
    /\ UNCHANGED <<mode, c, d, active>>

-----------------------------------------------------------------------------
(* Stream uploads: sendLoopStream, doSendStream with its feedSendStream,   *)
(* and pollSendStream.  A WebSocket is one leg that never rolls over:      *)
(* wsConn.writeLoop and wsReadPump.                                        *)

LegOpens ==
    /\ u.pc = "top"
    /\ u' = IF c.ctx THEN [u EXCEPT !.pc = "end"]
            ELSE [u EXCEPT !.pc = "feed", !.leg = "sent", !.body = <<>>, !.answer = "none"]
    /\ UNCHANGED <<mode, c, d, session, active>>

\* ReadAvailable returns data, also from a closed pipe, and it is written out;
\* the leg may have reached its StreamMaxDuration.
LegFeeds ==
    /\ u.pc = "feed" /\ u.taken < u.written
    /\ \E p \in IF ws THEN {"feed"} ELSE {"feed", "rolling"} :
          LET to == Shorter(u.written, u.taken + PollBufferBytes)
          IN  u' = [u EXCEPT !.taken = to, !.body = Append(@, <<u.taken + 1, to>>), !.pc = p]
    /\ UNCHANGED <<mode, c, d, session, active>>

\* StreamMaxDuration is over, or writePipe is closed and empty.  An error of this
\* last write is ignored.
LegRollsOver ==
    /\ ~ws
    /\ u.pc = "rolling" \/ (u.pc = "feed" /\ u.taken = u.written)
    /\ u' = [u EXCEPT !.pc = "rolled", !.body = Append(@, end)]
    /\ UNCHANGED <<mode, c, d, session, active>>

\* writeLoop's io.EOF.
LegEOF ==
    /\ u.pc = "feed" /\ ws /\ c.writeClosed /\ u.taken = u.written
    /\ u' = [u EXCEPT !.pc = "end"]
    /\ UNCHANGED <<mode, c, d, session, active>>

\* Get and beginPoll.
LegBegins ==
    /\ u.leg = "sent"
    /\ u' = IF session = "closed" THEN [u EXCEPT !.leg = "left", !.answer = "gone"]
            ELSE [u EXCEPT !.leg = "open"]
    /\ UNCHANGED <<mode, c, d, session, active>>

\* The server's handler of a WebSocket leaves, both ways.
hangUp(v) == IF ws THEN [v EXCEPT !.poll = "none"] ELSE v

seqHeaderLen == 8

\* The frame reader's limit for plain data, and the WebSocket's read limit.
fits(f) == size(f) <= MaxSendBytes + (IF ws THEN seqHeaderLen ELSE 0)

\* A frame is read: data goes upstream, frameEnd ends the request.
LegReads ==
    /\ u.leg = "open" /\ u.body # <<>> /\ fits(Head(u.body))
    /\ LET f == Head(u.body)
           v == [u EXCEPT !.body = Tail(@)]
       IN  IF f = end THEN u' = [v EXCEPT !.leg = "left", !.answer = "ok"] /\ UNCHANGED d
           ELSE IF session = "open" THEN u' = upGot(v, f) /\ UNCHANGED d
           ELSE /\ u' = [v EXCEPT !.leg = "left", !.answer = IF ws THEN @ ELSE "gone"]
                /\ d' = hangUp(d)
    /\ UNCHANGED <<mode, c, session, active>>

\* The read watchdog fires, or a frame is longer than MaxSendBytes: the handler
\* returns without a word, which net/http turns into an empty 200.
LegLeft ==
    /\ u.leg = "open"
    /\ u' = [u EXCEPT !.leg = "left", !.answer = IF ws THEN @ ELSE "ok"]
    /\ d' = hangUp(d)
    /\ UNCHANGED <<mode, c, session, active>>

feeding == u.pc \in {"feed", "rolling", "rolled"}

\* doSendStream has the response; a feeder that is not through has its pipe
\* closed under it.  A 200 counts, whether or not the server read to the end.
LegAnswered ==
    /\ feeding /\ u.answer # "none"
    /\ LET clean == u.pc = "rolled" /\ u.answer = "ok"
       IN  u' = [u EXCEPT !.body = <<>>, !.answer = "none",
                          !.pc = IF clean THEN "top" ELSE afterError,
                          !.abandoned = @ \/ (clean /\ u.body # <<>>)]
    /\ UNCHANGED <<mode, c, d, session, active>>

\* A network error, a timeout, a cancelled context: the frames on their way are
\* lost.
LegBreaks ==
    /\ feeding
    /\ u' = [u EXCEPT !.pc = afterError, !.leg = "left", !.body = <<>>, !.answer = "none"]
    /\ d' = hangUp(d)
    /\ UNCHANGED <<mode, c, session, active>>

-----------------------------------------------------------------------------
(* The end of the upload loops.                                            *)

UpJudges ==
    /\ u.pc = "judge"
    /\ c' = judged
    /\ u' = [u EXCEPT !.pc = verdict]
    /\ UNCHANGED <<mode, d, session, active>>

UpCloses ==
    /\ u.pc \in {"failing", "superseding"}
    /\ c' = pipesAfter(u.pc)
    /\ u' = [u EXCEPT !.pc = IF mode.up = "batch" THEN "clear" ELSE "end"]
    /\ UNCHANGED <<mode, d, session, active>>

-----------------------------------------------------------------------------
(* Close.                                                                  *)

CloseBegins ==
    /\ c.closer = "no"
    /\ c' = [c EXCEPT !.closed = TRUE, !.closer = "cancel"]
    /\ UNCHANGED <<mode, d, u, session, active>>

CloseCancels ==
    /\ c.closer = "cancel"
    /\ c' = [c EXCEPT !.ctx = TRUE, !.writeClosed = TRUE, !.closer = "wait"]
    /\ UNCHANGED <<mode, d, u, session, active>>

\* wg.Wait, then readPipe.Close.
CloseWaits ==
    /\ c.closer = "wait" /\ d.pc = "end" /\ u.pc \in {"none", "end"}
    /\ c' = [c EXCEPT !.readClosed = TRUE, !.closer = "delete"]
    /\ UNCHANGED <<mode, d, u, session, active>>

\* The DELETE has a timeout, and may not get through.
CloseDeletes ==
    /\ c.closer = "delete"
    /\ c' = [c EXCEPT !.closer = "done"]
    /\ session' \in {session, "closed"}
    /\ UNCHANGED <<mode, d, u, active>>

-----------------------------------------------------------------------------
\* Eviction, CloseSession, a protocol violation, a newer session's OnConnect.
SessionCloses ==
    /\ session = "open"
    /\ session' = "closed"
    /\ UNCHANGED <<mode, c, d, u, active>>

\* connectWebSocket's adoptSession.
AdoptsThis ==
    /\ ~c.adopted
    /\ c' = [c EXCEPT !.adopted = TRUE]
    /\ active' = "me"
    /\ UNCHANGED <<mode, d, u, session>>

\* Another Connect of the same Connector adopts its session.
AdoptsNewer ==
    /\ active # "newer"
    /\ active' = "newer"
    /\ UNCHANGED <<mode, c, d, u, session>>

-----------------------------------------------------------------------------
Client ==
    \/ DownPolls \/ DownData \/ DownAnswered \/ DownBreaks  \/ DownJudges \/ DownCloses
    \/ WriteBegins \/ (\E n \in 1 .. MaxBytes : WriteQueues(n)) \/ WriteStarts
    \/ FlushWaits \/ FlushTakes \/ SendGoes \/ SendAnswered \/ SendBreaks \/ FlushClears
    \/ LegOpens \/ LegFeeds \/ LegRollsOver \/ LegEOF \/ LegAnswered \/ LegBreaks
    \/ UpJudges \/ UpCloses
    \/ AdoptsThis \/ CloseBegins \/ CloseCancels \/ CloseWaits \/ CloseDeletes

Server ==
    \/ ServerWrites \/ PollBegins \/ PollReads \/ PollEnds \/ PollGone
    \/ \E f \in u.requests : SendServed(f)
    \/ LegBegins \/ LegReads \/ LegLeft
    \/ SessionCloses

Finished == c.closer = "done" /\ u.requests = {} /\ UNCHANGED vars

Next == Client \/ Server \/ AdoptsNewer \/ Finished

Spec == Init /\ [][Next]_vars

\* Goroutines run, timers fire, requests arrive, and the ones that do not are
\* broken off by their timeouts.  Nothing makes a healthy link break, a session
\* close, or an application write.  One condition for each goroutine: the client's
\* download, the server's, Write, the client's upload, the server's two, Close.
Fairness ==
    /\ WF_vars(\/ DownPolls \/ DownData \/ DownAnswered \/ DownJudges \/ DownCloses
               \/ (c.ctx \/ (d.poll = "none" /\ d.resp = none)) /\ DownBreaks)
    /\ WF_vars(PollBegins \/ PollReads \/ PollEnds \/ PollGone)
    /\ WF_vars((\E n \in 1 .. MaxBytes : WriteQueues(n)) \/ WriteStarts)
    /\ WF_vars(\/ FlushWaits \/ FlushTakes \/ SendGoes \/ SendAnswered \/ FlushClears
               \/ c.ctx /\ SendBreaks
               \/ LegOpens \/ LegFeeds \/ LegRollsOver \/ LegEOF \/ LegAnswered
               \/ (c.ctx \/ (u.leg = "left" /\ u.answer = "none")) /\ LegBreaks
               \/ UpJudges \/ UpCloses)
    /\ WF_vars(\E f \in u.requests : SendServed(f))
    /\ WF_vars(\/ LegBegins \/ LegReads
               \/ u.body # <<>> /\ ~fits(Head(u.body)) /\ LegLeft)
    /\ WF_vars(CloseCancels \/ CloseWaits \/ CloseDeletes)

FairSpec == Spec /\ Fairness

-----------------------------------------------------------------------------
(* Properties.                                                             *)

\* What the application reads is a prefix of what the other side wrote: a poll,
\* a stream or a WebSocket that fails half way loses bytes the handler has
\* already taken from toClient, and no later poll of the same connection may
\* bring the bytes after them.
DownIntact == ~d.hole

\* The same for uploads, where it cannot hold: chunks time out, arrive late, or
\* meet a closing session, and flushLoop drops the rest of its buffer.  But the
\* server's application never sees a hole that the client's owner has not been
\* told of (TransportFailed), has not caused (Close), or that is not the work of
\* a server that left a leg in the middle.
NoSilentHole == u.hole => c.failed \/ c.closed \/ u.abandoned

\* "a transport failure" is what the client makes of a leg that pollSendStream
\* leaves without reading it to the end (the comment at its return): bytes are
\* never skipped without one.
NoHole == u.hole => c.failed \/ c.closed

\* "SessionSuperseded is closed when this session was replaced by a newer connect
\* from the same Connector" (Conn): whoever is told so can leave the tunnel to the
\* session adopted after this one.
SupersededByNewer == c.superseded => c.judged = "newer"

\* Nothing is sent for a connection any more when Close has waited for its loops,
\* not even by a Write that passed the closed check before Close and starts its
\* flushLoop after it.
NothingAfterClose ==
    [][c.closer \in {"delete", "done"} =>
          /\ u'.requests \subseteq u.requests
          /\ u'.leg = "sent" => u.leg = "sent"
          /\ d'.poll = "sent" => d.poll = "sent"]_vars

told == c.failed \/ c.superseded \/ c.closed

\* Everything Write accepts reaches the server's application, or the client's
\* owner is told: also what is written while a flushLoop is about to end, while
\* a leg rolls over, or to a session that is closing.
UpDelivered == u.got < u.written ~> u.got = u.written \/ u.abandoned \/ told

\* Everything the server's application writes reaches the client's, or the
\* client's owner is told.
DownDelivered == d.got < d.written ~> d.got = d.written \/ told

\* A session closed at the server is noticed by its client: 410 is not 204, and
\* frameGone is not frameEnd.
EndNoticed == session = "closed" ~> told

C == INSTANCE Conn
     WITH conn <- [failed |-> c.failed, superseded |-> c.superseded, judged |-> c.judged,
                   ended |-> c.readClosed, closed |-> c.closed,
                   done |-> c.closer \in {"delete", "done"}]

\* The connection is a Conn: the verdict comes before the reader is released, is
\* not given after Close, and every reader is released and every Close returns.
ImplementsConn == C!Contract
=============================================================================
