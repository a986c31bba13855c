--------------------------- MODULE ResumableConn ---------------------------
(***************************************************************************)
(* The client of a resumable session (resumable_client.go, the client half *)
(* of batch.go, session_guard.go): the supervisor, the two legs it runs,   *)
(* the resume handshake with its retries, the guards against useless       *)
(* resumes, and Close.  Of the reliable layer what the supervisor looks at *)
(* is kept: broken, and whether offsets moved.  The server and the network *)
(* answer anything at any time.                                            *)
(***************************************************************************)
EXTENDS Naturals

VARIABLES
    kind,        \* a WebSocket, "ws", or HTTP with "stream" or "batch" downloads
    sup,         \* where supervise is
    down, up,    \* where the legs are
    err,         \* the first leg's error
    legCtx, ctx, \* cancelled: the legs' context, the connection's
    intr,        \* the out pipe's pending interrupt
    broken,      \* rl.broken
    recvMoved, moved, \* since legsStart: recvOffset, any offset of progress()
    long,        \* the legs have run for resumableLegsMinStable
    fast, bodies,\* the counters of resumeStabilityGuard
    spent,       \* resume's deadline has passed
    active,      \* the Connector's active session is this one
    failed, superseded, \* transportFailed, sessionSuperseded are closed
    inClosed, outClosed,
    app          \* where Close is

vars == <<kind, sup, down, up, err, legCtx, ctx, intr, broken, recvMoved, moved, long,
          fast, bodies, spent, active, failed, superseded, inClosed, outClosed, app>>
legs == <<down, up, err, legCtx, intr, broken, recvMoved, moved, long>>
guard == <<fast, bodies>>
ends == <<failed, superseded, inClosed>>
closing == <<outClosed, app>>

Errors == {"none", "net", "gone", "inconsistent", "bodyTimeout"}

maxConsecutiveFastResumes == 5
maxConsecutiveBatchBodyTimeouts == 3

\* The types of the state; the guard's counters stay within what it allows.
TypeOK ==
    /\ kind \in {"stream", "batch", "ws"}
    /\ sup \in {"legs", "wake", "join", "judge", "resume", "dial", "sleep", "record", "release", "end"}
    /\ down \in {"io", "ended"} /\ up \in {"park", "write", "ended"}
    /\ err \in Errors
    /\ legCtx \in BOOLEAN /\ ctx \in BOOLEAN /\ intr \in BOOLEAN /\ broken \in BOOLEAN
    /\ recvMoved \in BOOLEAN /\ moved \in BOOLEAN /\ long \in BOOLEAN
    /\ spent \in BOOLEAN /\ active \in BOOLEAN
    /\ failed \in BOOLEAN /\ superseded \in BOOLEAN
    /\ inClosed \in BOOLEAN /\ outClosed \in BOOLEAN
    /\ fast \in 0..maxConsecutiveFastResumes
    /\ bodies \in 0..maxConsecutiveBatchBodyTimeouts
    /\ app \in {"open", "cancel", "out", "wake", "wait", "delete", "closed"}

Init ==
    /\ kind \in {"stream", "batch", "ws"}
    /\ sup = "legs" /\ down = "io" /\ up = "park" /\ err = "none"
    /\ legCtx = FALSE /\ ctx = FALSE /\ intr = FALSE /\ broken = FALSE
    /\ recvMoved = FALSE /\ moved = FALSE /\ long = FALSE
    /\ fast = 0 /\ bodies = 0
    /\ spent = FALSE /\ active = TRUE
    /\ failed = FALSE /\ superseded = FALSE
    /\ inClosed = FALSE /\ outClosed = FALSE
    /\ app = "open"

\* A leg's context is cancelled with its parent's.
cancelled == legCtx \/ ctx

-----------------------------------------------------------------------------
(* The down leg: downLoop, batchDownLoop or wsReadLoop.                    *)

\* recvIn or ack of what the server sent; recvIn may ask for an eager ack.
DownApplies ==
    /\ down = "io" /\ ~cancelled
    /\ moved' = TRUE
    /\ recvMoved' \in {recvMoved, TRUE}
    /\ intr' \in IF kind = "batch" THEN {intr} ELSE {intr, TRUE}
    /\ UNCHANGED <<kind, sup, down, up, err, legCtx, ctx, broken, long, guard, spent, active,
                   ends, closing>>

\* A leg's error reaches errCh; runLegs keeps the first.
legError(e) == err' = IF err = "none" THEN e ELSE err

downErrors ==
    [ws |-> {"net", "inconsistent"}, stream |-> {"net", "gone", "inconsistent"},
     batch |-> {"net", "gone", "inconsistent", "bodyTimeout"}]

\* errReplayGap and errBadAck come with a broken layer.
DownEnds ==
    /\ down = "io"
    /\ down' = "ended"
    /\ \E e \in downErrors[kind] : legError(e) /\ broken' = (broken \/ e = "inconsistent")
    /\ UNCHANGED <<kind, sup, up, legCtx, ctx, intr, recvMoved, moved, long, guard, spent,
                   active, ends, closing>>

-----------------------------------------------------------------------------
(* The up leg: feedSendStream under doSendStream, batchUpLoop or           *)
(* wsWriteLoop.                                                            *)

\* nextOut is interrupted: the leg is being torn down, or an ack may be due.
UpInterrupted ==
    /\ up = "park" /\ intr
    /\ intr' = FALSE
    /\ IF cancelled THEN up' = "ended" /\ legError("net")
       ELSE up' \in {"park", "write"} /\ UNCHANGED err
    /\ UNCHANGED <<kind, sup, down, legCtx, ctx, broken, recvMoved, moved, long, guard, spent,
                   active, ends, closing>>

\* nextOut returns data, which may overflow replay, or nothing for a while.
UpDue ==
    /\ up = "park"
    /\ up' = "write"
    /\ broken' \in {broken, TRUE}
    /\ UNCHANGED <<kind, sup, down, err, legCtx, ctx, intr, recvMoved, moved, long, guard, spent,
                   active, ends, closing>>

\* The answer to a batch send carries an ack.
UpWritten ==
    /\ up = "write" /\ ~cancelled
    /\ up' = "park"
    /\ moved' \in {moved, moved \/ kind # "ws"}
    /\ UNCHANGED <<kind, sup, down, err, legCtx, ctx, intr, broken, recvMoved, long, guard,
                   spent, active, ends, closing>>

upErrors ==
    [ws |-> {"net"}, stream |-> {"net", "gone", "inconsistent"},
     batch |-> {"net", "gone", "inconsistent"}]

\* The write or the request fails; a send's answer may be 410 or a bad ack.
UpFails ==
    /\ up = "write"
    /\ up' = "ended"
    /\ \E e \in upErrors[kind] : legError(e) /\ broken' = (broken \/ e = "inconsistent")
    /\ UNCHANGED <<kind, sup, down, legCtx, ctx, intr, recvMoved, moved, long, guard, spent,
                   active, ends, closing>>

\* io.EOF from nextOut: Close has closed out.
UpEOF ==
    /\ up = "park" /\ outClosed /\ ~intr
    /\ up' = "ended"
    /\ legError("net")
    /\ UNCHANGED <<kind, sup, down, legCtx, ctx, intr, broken, recvMoved, moved, long, guard, spent,
                   active, ends, closing>>

\* legsDuration reaches resumableLegsMinStable.
LegsAge ==
    /\ sup = "legs" /\ ~long
    /\ long' = TRUE
    /\ UNCHANGED <<kind, sup, down, up, err, legCtx, ctx, intr, broken, recvMoved, moved, guard,
                   spent, active, ends, closing>>

-----------------------------------------------------------------------------
(* runLegs: wait for the first leg, cancel, interrupt, join the other.     *)

RunLegsCancel ==
    /\ sup = "legs" /\ (down = "ended" \/ up = "ended")
    /\ legCtx' = TRUE
    /\ sup' = "wake"
    /\ UNCHANGED <<kind, down, up, err, ctx, intr, broken, recvMoved, moved, long, guard, spent,
                   active, ends, closing>>

RunLegsInterrupt ==
    /\ sup = "wake"
    /\ intr' = TRUE
    /\ sup' = "join"
    /\ UNCHANGED <<kind, down, up, err, legCtx, ctx, broken, recvMoved, moved, long, guard, spent,
                   active, ends, closing>>

\* Variant: does not wait for the second leg.
RunLegsJoinFirst ==
    /\ sup = "join"
    /\ sup' = "judge"
    /\ UNCHANGED <<kind, legs, ctx, guard, spent, active, ends, closing>>

RunLegsJoin ==
    /\ sup = "join" /\ down = "ended" /\ up = "ended"
    /\ sup' = "judge"
    /\ UNCHANGED <<kind, legs, ctx, guard, spent, active, ends, closing>>

-----------------------------------------------------------------------------
(* supervise, between the legs.                                            *)

over == ctx \/ app # "open"

quit == sup' = "end" /\ UNCHANGED <<ctx, ends>>

fail == sup' = "release" /\ failed' = TRUE /\ UNCHANGED <<ctx, superseded, inClosed>>

\* Variant: leaves the reader of a superseded session blocked.
onSessionClosedSilent ==
    IF active THEN fail
    ELSE /\ sup' = "end"
         /\ superseded' = TRUE /\ ctx' = TRUE
         /\ UNCHANGED <<failed, inClosed>>

\* Variant: takes every 410 for the work of a newer connect.
onSessionClosedAlways ==
    /\ sup' = "release"
    /\ superseded' = TRUE /\ ctx' = TRUE
    /\ UNCHANGED <<failed, inClosed>>

\* isActiveSession and supersede are one step: active only ever turns FALSE.
onSessionClosed ==
    IF active THEN fail
    ELSE /\ sup' = "release"
         /\ superseded' = TRUE /\ ctx' = TRUE
         /\ UNCHANGED <<failed, inClosed>>

\* in.Close, after the verdict of fail or of onSessionClosed.
Release ==
    /\ sup = "release"
    /\ sup' = "end"
    /\ inClosed' = TRUE
    /\ UNCHANGED <<kind, legs, ctx, guard, spent, active, failed, superseded, closing>>

bodiesNow == IF err = "bodyTimeout" /\ ~recvMoved THEN bodies + 1 ELSE 0

Judge ==
    /\ sup = "judge"
    /\ IF over THEN quit /\ UNCHANGED <<bodies, spent>>
       ELSE IF err = "gone" THEN onSessionClosed /\ UNCHANGED <<bodies, spent>>
       ELSE IF err = "inconsistent" \/ broken THEN fail /\ UNCHANGED <<bodies, spent>>
       ELSE /\ bodies' = bodiesNow
            /\ spent' = FALSE
            /\ IF bodiesNow >= maxConsecutiveBatchBodyTimeouts THEN fail
               ELSE sup' = "resume" /\ UNCHANGED <<ctx, ends>>
    /\ UNCHANGED <<kind, legs, fast, active, closing>>

\* resume returned an error.
resumeFailed(gone) == IF over THEN quit ELSE IF gone THEN onSessionClosed ELSE fail

\* doResume is answered 200, and resumeOut takes the server's offset, which may
\* be news of what the server has received.
ResumeOK ==
    /\ sup = "resume"
    /\ sup' = IF kind = "ws" THEN "dial" ELSE "record"
    /\ moved' \in {moved, TRUE}
    /\ UNCHANGED <<kind, down, up, err, legCtx, ctx, intr, broken, recvMoved, long, guard, spent,
                   active, ends, closing>>

\* A 4xx, or an offset resumeOut cannot honour.
ResumeRefused ==
    /\ sup = "resume"
    /\ \E gone \in BOOLEAN : resumeFailed(gone)
    /\ UNCHANGED <<kind, legs, guard, spent, active, closing>>

\* A 5xx or no answer, or a WebSocket that cannot be dialled.
ResumeRetries ==
    /\ sup \in {"resume", "dial"}
    /\ IF spent THEN resumeFailed(FALSE) ELSE sup' = "sleep" /\ UNCHANGED <<ctx, ends>>
    /\ UNCHANGED <<kind, legs, guard, spent, active, closing>>

Dialled ==
    /\ sup = "dial"
    /\ sup' = "record"
    /\ UNCHANGED <<kind, legs, ctx, guard, spent, active, ends, closing>>

SleepOrDone ==
    /\ sup = "sleep"
    /\ IF ctx THEN quit ELSE sup' = "resume" /\ UNCHANGED <<ctx, ends>>
    /\ UNCHANGED <<kind, legs, guard, spent, active, closing>>

GraceSpent ==
    /\ sup \in {"resume", "dial", "sleep"} /\ ~spent
    /\ spent' = TRUE
    /\ UNCHANGED <<kind, sup, legs, ctx, guard, active, ends, closing>>

\* Variant: a resume that succeeds clears the count.
fastNowCleared == 0

fastNow == IF long \/ moved THEN 0 ELSE fast + 1

\* stability.record, and the next legs.
Record ==
    /\ sup = "record"
    /\ fast' = fastNow
    /\ IF fastNow >= maxConsecutiveFastResumes
       THEN fail /\ UNCHANGED legs
       ELSE /\ sup' = "legs" /\ down' = "io" /\ up' = "park" /\ err' = "none"
            /\ legCtx' = FALSE
            /\ recvMoved' = FALSE /\ moved' = FALSE /\ long' = FALSE
            /\ UNCHANGED <<intr, broken, ctx, ends>>
    /\ UNCHANGED <<kind, bodies, spent, active, closing>>

-----------------------------------------------------------------------------
\* A later Connect adopts another session.
Adopt ==
    /\ active
    /\ active' = FALSE
    /\ UNCHANGED <<kind, sup, legs, ctx, guard, spent, ends, closing>>

(* Close, one call per step.                                               *)

CloseBegin ==
    /\ app = "open" /\ app' = "cancel"
    /\ UNCHANGED <<kind, sup, legs, ctx, guard, spent, active, ends, outClosed>>

CloseCancel ==
    /\ app = "cancel" /\ app' = "out"
    /\ ctx' = TRUE
    /\ UNCHANGED <<kind, sup, legs, guard, spent, active, ends, outClosed>>

CloseOut ==
    /\ app = "out" /\ app' = "wake"
    /\ outClosed' = TRUE
    /\ UNCHANGED <<kind, sup, legs, ctx, guard, spent, active, ends>>

CloseInterrupt ==
    /\ app = "wake" /\ app' = "wait"
    /\ intr' = TRUE
    /\ UNCHANGED <<kind, sup, down, up, err, legCtx, ctx, broken, recvMoved, moved, long, guard,
                   spent, active, ends, outClosed>>

\* wg.Wait, then in.Close.
CloseIn ==
    /\ app = "wait" /\ sup = "end"
    /\ app' = "delete"
    /\ inClosed' = TRUE
    /\ UNCHANGED <<kind, sup, legs, ctx, guard, spent, active, failed, superseded, outClosed>>

\* The DELETE has a timeout.
CloseDelete ==
    /\ app = "delete" /\ app' = "closed"
    /\ UNCHANGED <<kind, sup, legs, ctx, guard, spent, active, ends, outClosed>>

-----------------------------------------------------------------------------
Legs == DownApplies \/ DownEnds \/ UpInterrupted \/ UpDue \/ UpWritten \/ UpFails \/ UpEOF \/ LegsAge

RunLegs == RunLegsCancel \/ RunLegsInterrupt \/ RunLegsJoin

Resume == ResumeOK \/ ResumeRefused \/ ResumeRetries \/ Dialled \/ SleepOrDone \/ GraceSpent

Supervise == RunLegs \/ Judge \/ Resume \/ Record \/ Release

Close == CloseBegin \/ CloseCancel \/ CloseOut \/ CloseInterrupt \/ CloseIn \/ CloseDelete

Finished == sup = "end" /\ app = "closed" /\ UNCHANGED vars

Next == Legs \/ Supervise \/ Adopt \/ Close \/ Finished

Spec == Init /\ [][Next]_vars

\* Goroutines run, timers fire, bounded requests end one way or another, and an
\* operation under a cancelled context returns.  The network owes nothing.
Fairness ==
    /\ WF_vars(cancelled /\ DownEnds)
    /\ WF_vars(cancelled /\ UpFails)
    /\ WF_vars(UpInterrupted) /\ WF_vars(UpEOF)
    /\ WF_vars(RunLegs) /\ WF_vars(Judge) /\ WF_vars(Record) /\ WF_vars(Release)
    /\ WF_vars(ResumeOK \/ ResumeRefused \/ ResumeRetries \/ Dialled \/ SleepOrDone)
    /\ WF_vars(GraceSpent)
    /\ WF_vars(CloseCancel \/ CloseOut \/ CloseInterrupt \/ CloseIn \/ CloseDelete)

FairSpec == Spec /\ Fairness

-----------------------------------------------------------------------------
(* Properties.                                                             *)

\* "By the time this returns nothing is touching the pipes and a resume may
\* safely rewind the reliable layer" (runLegs): both legs are over whenever the
\* supervisor judges, resumes, retries or starts the next ones.
QuietRewind ==
    sup \in {"judge", "resume", "dial", "sleep", "record"} => down = "ended" /\ up = "ended"

\* runLegs' interrupt is never lost: while it waits for the sender to leave, a
\* sender in nextOut has an interrupt ahead of it, although acks that come in
\* raise the same flag and the sender may have consumed it just before.
JoinWakes == sup = "join" /\ up = "park" => intr

\* Nobody is left waiting: after a verdict, and whenever the supervisor is over, the
\* application's Read is released (by fail, by a newer session, or by Close), and
\* Close returns from wherever the supervisor, the handshake and the legs are when
\* it is called.
Released ==
    /\ (failed \/ superseded \/ sup = "end") ~> inClosed
    /\ app # "open" ~> app = "closed"

\* No useless resumption for ever: resumes that succeed without end bring legs
\* that last or that move bytes, again and again (record), and so do batch
\* responses that time out half way (recordBodyTimeout).
NoChurn ==
    /\ []<>(sup = "record") => []<>(sup = "record" /\ (long \/ moved))
    /\ []<>(sup = "judge") => []<>(sup = "judge" /\ (err # "bodyTimeout" \/ recvMoved))

C == INSTANCE Conn
     WITH conn <- [failed |-> failed, superseded |-> superseded,
                   judged |-> IF superseded THEN "newer" ELSE "me",
                   ended |-> inClosed, closed |-> app # "open", done |-> app \in {"delete", "closed"}],
          active <- IF active THEN "me" ELSE "newer"

\* The connection is a Conn: TransportFailed and SessionSuperseded are closed
\* before Read is released and never after Close has joined the supervisor, the
\* second only for a session that is no longer the active one.  Released is the
\* rest of the contract.
ImplementsConn == C!Behaviour
=============================================================================
