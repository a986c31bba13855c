------------------------ MODULE ResumableConnProofs ------------------------
(***************************************************************************)
(* Proofs about ResumableConn: what holds while its legs are torn down     *)
(* and resumed.                                                            *)
(***************************************************************************)
EXTENDS ResumableConn, ConnProofs, TLAPS

\* The guard's counters are within their limits, and have room whenever the
\* supervisor may still count.
CountersLeft ==
    /\ fast \in 0..maxConsecutiveFastResumes
    /\ bodies \in 0..maxConsecutiveBatchBodyTimeouts
    /\ sup \notin {"release", "end"} =>
          fast < maxConsecutiveFastResumes /\ bodies < maxConsecutiveBatchBodyTimeouts

\* Where the goroutines are.
Places ==
    /\ kind \in {"stream", "batch", "ws"}
    /\ sup \in {"legs", "wake", "join", "judge", "resume", "dial", "sleep", "record", "release",
               "end"}
    /\ down \in {"io", "ended"} /\ up \in {"park", "write", "ended"}
    /\ app \in {"open", "cancel", "out", "wake", "wait", "delete", "closed"}

\* runLegs interrupts a leg it has cancelled.
CancelFirst == sup \in {"wake", "join"} => legCtx

\* Close joins the supervisor before it goes on.
Joined == app \in {"delete", "closed"} => sup = "end"

\* The reader is released after a verdict.
VerdictFirst == sup = "release" => failed \/ superseded

IInv == Places /\ CountersLeft /\ QuietRewind /\ CancelFirst /\ JoinWakes /\ Joined /\ VerdictFirst

\* Init establishes the inductive invariant.
LEMMA InitIInv == Init => IInv
BY DEF Init, IInv, Places, CountersLeft, QuietRewind, CancelFirst, JoinWakes, Joined, VerdictFirst,
       maxConsecutiveFastResumes, maxConsecutiveBatchBodyTimeouts

\* The legs keep it.
LEMMA LegsIInv == IInv /\ Legs => IInv'
<1> SUFFICES ASSUME IInv, Legs PROVE IInv' OBVIOUS
<1> USE DEF IInv, Places, CountersLeft, QuietRewind, CancelFirst, JoinWakes, Joined, VerdictFirst,
            guard, ends, closing, cancelled, legError
<1>1. CASE DownApplies BY Zenon, <1>1 DEF DownApplies
<1>2. CASE DownEnds BY <1>2 DEF DownEnds, downErrors
<1>3. CASE UpInterrupted BY <1>3 DEF UpInterrupted
<1>4. CASE UpDue BY Zenon, <1>4 DEF UpDue
<1>5. CASE UpWritten BY <1>5 DEF UpWritten
<1>6. CASE UpFails BY <1>6 DEF UpFails, upErrors
<1>7. CASE UpEOF BY Zenon, <1>7 DEF UpEOF
<1>8. CASE LegsAge BY <1>8 DEF LegsAge
<1> QED BY <1>1, <1>2, <1>3, <1>4, <1>5, <1>6, <1>7, <1>8 DEF Legs

\* runLegs keeps it.
LEMMA RunLegsIInv == IInv /\ RunLegs => IInv'
<1> SUFFICES ASSUME IInv, RunLegs PROVE IInv' OBVIOUS
<1> USE DEF IInv, Places, CountersLeft, QuietRewind, CancelFirst, JoinWakes, Joined, VerdictFirst,
            legs, guard, ends, closing
<1>1. CASE RunLegsCancel BY <1>1 DEF RunLegsCancel
<1>2. CASE RunLegsInterrupt BY Zenon, <1>2 DEF RunLegsInterrupt
<1>3. CASE RunLegsJoin BY Zenon, <1>3 DEF RunLegsJoin
<1> QED BY <1>1, <1>2, <1>3 DEF RunLegs

\* The handshake and its retries keep it.
LEMMA ResumeIInv == IInv /\ Resume => IInv'
<1> SUFFICES ASSUME IInv, Resume PROVE IInv' OBVIOUS
<1> USE DEF IInv, Places, CountersLeft, QuietRewind, CancelFirst, JoinWakes, Joined, VerdictFirst,
            legs, guard, ends, closing, quit, fail, onSessionClosed, resumeFailed
<1>1. CASE ResumeOK BY Zenon, <1>1 DEF ResumeOK
<1>2. CASE ResumeRefused BY <1>2 DEF ResumeRefused
<1>3. CASE ResumeRetries BY <1>3 DEF ResumeRetries
<1>4. CASE Dialled BY <1>4 DEF Dialled
<1>5. CASE SleepOrDone BY <1>5 DEF SleepOrDone
<1>6. CASE GraceSpent BY <1>6 DEF GraceSpent
<1> QED BY <1>1, <1>2, <1>3, <1>4, <1>5, <1>6 DEF Resume

\* Close keeps it.
LEMMA CloseIInv == IInv /\ Close => IInv'
<1> SUFFICES ASSUME IInv, Close PROVE IInv' OBVIOUS
<1> USE DEF IInv, Places, CountersLeft, QuietRewind, CancelFirst, JoinWakes, Joined, VerdictFirst,
            legs, guard, ends
<1>1. CASE CloseBegin BY <1>1 DEF CloseBegin
<1>2. CASE CloseCancel BY <1>2 DEF CloseCancel
<1>3. CASE CloseOut BY <1>3 DEF CloseOut
<1>4. CASE CloseInterrupt BY <1>4 DEF CloseInterrupt
<1>5. CASE CloseIn BY <1>5 DEF CloseIn
<1>6. CASE CloseDelete BY <1>6 DEF CloseDelete
<1> QED BY <1>1, <1>2, <1>3, <1>4, <1>5, <1>6 DEF Close

\* Every step keeps the inductive invariant.
LEMMA NextIInv == IInv /\ [Next]_vars => IInv'
<1> SUFFICES ASSUME IInv, [Next]_vars PROVE IInv' OBVIOUS
<1> USE DEF IInv, Places, CountersLeft, QuietRewind, CancelFirst, JoinWakes, Joined, VerdictFirst,
            maxConsecutiveFastResumes, maxConsecutiveBatchBodyTimeouts, legs, guard, ends, closing
<1>1. CASE Judge BY <1>1 DEF Judge, quit, fail, onSessionClosed, bodiesNow
<1>2. CASE Record BY <1>2 DEF Record, fail, fastNow
<1>3. CASE Adopt BY <1>3 DEF Adopt
<1>4. CASE Release BY <1>4 DEF Release
<1>5. CASE UNCHANGED vars BY <1>5 DEF vars
<1> HIDE DEF IInv
<1> QED BY <1>1, <1>2, <1>3, <1>4, <1>5, LegsIInv, RunLegsIInv, ResumeIInv, CloseIInv
        DEF Next, Supervise, Finished

\* The invariant the other theorems rest on.
THEOREM Invariant == Spec => []IInv
BY InitIInv, NextIInv, PTL DEF Spec

\* Both legs are over while the reliable layer is rewound.
THEOREM RewindIsQuiet == Spec => []QuietRewind
BY Invariant, PTL DEF IInv

\* The interrupt of runLegs is never lost.
THEOREM InterruptIsKept == Spec => []JoinWakes
BY Invariant, PTL DEF IInv

\* The flags are Booleans, the error is one of the legs'.
Values ==
    /\ err \in Errors
    /\ legCtx \in BOOLEAN /\ ctx \in BOOLEAN /\ intr \in BOOLEAN /\ broken \in BOOLEAN
    /\ recvMoved \in BOOLEAN /\ moved \in BOOLEAN /\ long \in BOOLEAN
    /\ spent \in BOOLEAN /\ active \in BOOLEAN
    /\ failed \in BOOLEAN /\ superseded \in BOOLEAN
    /\ inClosed \in BOOLEAN /\ outClosed \in BOOLEAN

\* A step leaves a flag alone, sets it, clears it, or adds a condition to it.
LEMMA NextValues ==
    ASSUME Places, Values, [Next]_vars
    PROVE  Values'
<1>a. downErrors[kind] \subseteq Errors /\ upErrors[kind] \subseteq Errors
  BY DEF Places, downErrors, upErrors, Errors
<1> USE DEF Next, Legs, Supervise, RunLegs, Resume, Close, Finished, vars, legs, guard, ends, closing,
            DownApplies, DownEnds, UpInterrupted, UpDue, UpWritten, UpFails, UpEOF, LegsAge,
            RunLegsCancel, RunLegsInterrupt, RunLegsJoin, Judge, ResumeOK, ResumeRefused,
            ResumeRetries, Dialled, SleepOrDone, GraceSpent, Record, Release, Adopt, CloseBegin, CloseCancel,
            CloseOut, CloseInterrupt, CloseIn, CloseDelete, quit, fail, onSessionClosed,
            resumeFailed, legError
<1>1. legCtx' \in BOOLEAN
  <2>1. legCtx' = legCtx \/ legCtx' = TRUE \/ legCtx' = FALSE OBVIOUS
  <2> QED BY ONLY Zenon, Values, <2>1 DEF Values
<1>2. ctx' \in BOOLEAN
  <2>1. ctx' = ctx \/ ctx' = TRUE \/ ctx' = FALSE OBVIOUS
  <2> QED BY ONLY Zenon, Values, <2>1 DEF Values
<1>3. intr' \in BOOLEAN
  <2>1. intr' = intr \/ intr' = TRUE \/ intr' = FALSE OBVIOUS
  <2> QED BY ONLY Zenon, Values, <2>1 DEF Values
<1>4. recvMoved' \in BOOLEAN
  <2>1. recvMoved' = recvMoved \/ recvMoved' = TRUE \/ recvMoved' = FALSE OBVIOUS
  <2> QED BY ONLY Zenon, Values, <2>1 DEF Values
<1>5. long' \in BOOLEAN
  <2>1. long' = long \/ long' = TRUE \/ long' = FALSE OBVIOUS
  <2> QED BY ONLY Zenon, Values, <2>1 DEF Values
<1>6. spent' \in BOOLEAN
  <2>1. spent' = spent \/ spent' = TRUE \/ spent' = FALSE OBVIOUS
  <2> QED BY ONLY Zenon, Values, <2>1 DEF Values
<1>7. active' \in BOOLEAN
  <2>1. active' = active \/ active' = TRUE \/ active' = FALSE OBVIOUS
  <2> QED BY ONLY Zenon, Values, <2>1 DEF Values
<1>8. failed' \in BOOLEAN
  <2>1. failed' = failed \/ failed' = TRUE \/ failed' = FALSE OBVIOUS
  <2> QED BY ONLY Zenon, Values, <2>1 DEF Values
<1>9. superseded' \in BOOLEAN
  <2>1. superseded' = superseded \/ superseded' = TRUE \/ superseded' = FALSE OBVIOUS
  <2> QED BY ONLY Zenon, Values, <2>1 DEF Values
<1>10. inClosed' \in BOOLEAN
  <2>1. inClosed' = inClosed \/ inClosed' = TRUE \/ inClosed' = FALSE OBVIOUS
  <2> QED BY ONLY Zenon, Values, <2>1 DEF Values
<1>11. outClosed' \in BOOLEAN
  <2>1. outClosed' = outClosed \/ outClosed' = TRUE \/ outClosed' = FALSE OBVIOUS
  <2> QED BY ONLY Zenon, Values, <2>1 DEF Values
<1>12. moved' \in BOOLEAN
  <2>1. moved' = moved \/ moved' = TRUE \/ moved' = FALSE \/ moved' = (moved \/ kind # "ws") OBVIOUS
  <2> QED BY ONLY Zenon, Values, <2>1 DEF Values
<1> HIDE DEF DownEnds, UpFails, legError
<1>13. broken' \in BOOLEAN
  <2>1. CASE DownEnds BY ONLY Zenon, <2>1 DEF DownEnds
  <2>2. CASE UpFails BY ONLY Zenon, <2>2 DEF UpFails
  <2>3. DownEnds \/ UpFails \/ broken' = broken \/ broken' = TRUE OBVIOUS
  <2> QED BY ONLY Zenon, Values, <2>1, <2>2, <2>3 DEF Values
<1>14. err' \in Errors
  <2>1. CASE DownEnds BY ONLY Zenon, Values, <1>a, <2>1 DEF Values, DownEnds, legError
  <2>2. CASE UpFails BY ONLY Zenon, Values, <1>a, <2>2 DEF Values, UpFails, legError
  <2> QED BY <2>1, <2>2 DEF Values, Errors, legError
<1> QED
  BY ONLY Zenon, <1>1, <1>2, <1>3, <1>4, <1>5, <1>6, <1>7, <1>8, <1>9, <1>10, <1>11, <1>12, <1>13,
     <1>14
  DEF Values

\* They stay what they are.
LEMMA ValuesAlways == Spec => []Values
<1>1. Init => Values
  BY Zenon DEF Init, Values, Errors
<1>2. IInv /\ Values /\ [Next]_vars => Values'
  BY Zenon, NextValues DEF IInv
<1> QED BY <1>1, <1>2, Invariant, PTL DEF Spec

\* The types of the state, with the limits of the guard's counters.
THEOREM TypeCorrect == Spec => []TypeOK
<1>1. IInv /\ Values => TypeOK
  BY Zenon DEF IInv, Values, Places, CountersLeft, TypeOK
<1> QED BY <1>1, Invariant, ValuesAlways, PTL

\* The guard never counts past its limits: at most five fast resumes in a row
\* and three batch bodies that timed out without progress.
THEOREM CountersBounded == Spec => []CountersLeft
BY Invariant, PTL DEF IInv

-----------------------------------------------------------------------------
(* The connection implements the interface Conn.                           *)

judged == IF superseded THEN "newer" ELSE "me"
closed == app # "open"
done == app \in {"delete", "closed"}
who == IF active THEN "me" ELSE "newer"

conn == face(failed, superseded, judged, inClosed, closed, done)

\* The six things a step may do to what the owner sees.
Failing ==
    /\ ~done /\ failed' = TRUE /\ inClosed' = inClosed
    /\ superseded' = superseded /\ app' = app /\ active' = active
Superseding ==
    /\ ~done /\ ~active /\ superseded' = TRUE /\ inClosed' = inClosed
    /\ failed' = failed /\ app' = app /\ active' = active
Releasing ==
    /\ failed \/ superseded
    /\ inClosed' = TRUE
    /\ failed' = failed /\ superseded' = superseded /\ app' = app /\ active' = active
Keeping == failed' = failed /\ superseded' = superseded /\ inClosed' = inClosed /\ active' = active
Joining ==
    /\ app = "wait" /\ app' = "delete" /\ inClosed' = TRUE
    /\ failed' = failed /\ superseded' = superseded /\ active' = active
Adopting ==
    /\ active' = FALSE
    /\ failed' = failed /\ superseded' = superseded /\ inClosed' = inClosed /\ app' = app

\* supervise, its handshake and its guard give at most one verdict, and before Close
\* has joined them; Close calls what it calls in order.
LEMMA Faces ==
    ASSUME IInv, [Next]_vars
    PROVE  \/ Failing \/ Superseding \/ Releasing \/ Joining \/ Adopting
           \/ Keeping /\ app' = app
           \/ Keeping /\ app = "open" /\ app' = "cancel"
           \/ Keeping /\ app \in {"cancel", "out", "wake"} /\ app' \in {"out", "wake", "wait"}
           \/ Keeping /\ app = "delete" /\ app' = "closed"
<1> USE DEF Failing, Superseding, Releasing, Keeping, Joining, Adopting, legs, guard, ends, closing
<1>1. CASE Legs
  BY Zenon, <1>1
  DEF Legs, DownApplies, DownEnds, UpInterrupted, UpDue, UpWritten, UpFails, UpEOF, LegsAge
<1>2. CASE RunLegs
  BY <1>2 DEF RunLegs, RunLegsCancel, RunLegsInterrupt, RunLegsJoin
<1>3. CASE Judge
  BY <1>3 DEF Judge, quit, fail, onSessionClosed, IInv, Joined, done
<1>4. CASE Resume
  BY Zenon, <1>4
  DEF Resume, ResumeOK, ResumeRefused, ResumeRetries, Dialled, SleepOrDone, GraceSpent,
      resumeFailed, quit, fail, onSessionClosed, IInv, Joined, done
<1>5. CASE Record
  BY <1>5 DEF Record, fail, IInv, Joined, done
<1>6. CASE Adopt \/ Close
  BY <1>6
  DEF Adopt, Close, CloseBegin, CloseCancel, CloseOut, CloseInterrupt, CloseIn, CloseDelete
<1>7. CASE Release
  BY Zenon, <1>7 DEF Release, IInv, VerdictFirst
<1>8. CASE UNCHANGED vars
  BY <1>8 DEF vars
<1> QED
  BY Zenon, <1>1, <1>2, <1>3, <1>4, <1>5, <1>6, <1>7, <1>8 DEF Next, Supervise, Finished

\* A new connection is a new Conn.
LEMMA InitConn == Init => C!ConnInit
<1> SUFFICES ASSUME Init PROVE C!ConnInit
  OBVIOUS
<1>1. failed = FALSE /\ superseded = FALSE /\ inClosed = FALSE /\ active = TRUE /\ app = "open"
  BY Zenon DEF Init
<1>2. judged = "me" /\ who = "me"
  BY Zenon, <1>1 DEF judged, who
<1>3. closed = FALSE /\ done = FALSE
  BY <1>1 DEF closed, done
<1>4. conn = face(FALSE, FALSE, "me", FALSE, FALSE, FALSE)
  BY Zenon, <1>1, <1>2, <1>3 DEF conn
<1> QED
  BY Zenon, <1>2, <1>4 DEF conn, face, judged, closed, done, who, C!ConnInit, C!newConn

\* Every step is a step of the interface, or none.
LEMMA NextConn ==
    ASSUME IInv, Values, [Next]_vars
    PROVE  [C!Steps]_(C!iface)
<1> DEFINE yes == TRUE
<1> DEFINE now == face(failed, superseded, judged, inClosed, closed, done)
<1>0. /\ conn.done = done /\ conn.ended = inClosed /\ conn.closed = closed
      /\ conn.failed = failed /\ conn.superseded = superseded
  BY Zenon DEF conn, face
<1>a. conn = now
  BY Zenon DEF conn
<1> HIDE DEF yes
<1>b. afterVerdict(now, yes) = face(yes, superseded, judged, inClosed, closed, done)
  BY FaceOfVerdict
<1>c. afterSupersede(now, yes, who) = face(failed, yes, who, inClosed, closed, done)
  BY FaceOfSupersede
<1>d. afterClose(now, yes) = face(failed, superseded, judged, inClosed, yes, done)
  BY FaceOfClose
<1>e. afterStop(now, yes, yes) = face(failed, superseded, judged, yes, closed, yes)
  BY FaceOfStop
<1>f. afterEnd(now, yes) = face(failed, superseded, judged, yes, closed, done)
  BY FaceOfEnd
<1> HIDE DEF now
<1>1. CASE Failing
  <2>1. /\ ~done /\ failed' = yes /\ inClosed' = inClosed /\ superseded' = superseded
        /\ judged' = judged /\ closed' = closed /\ done' = done /\ who' = who
    BY Zenon, <1>1 DEF Failing, judged, closed, done, who, yes
  <2>2. conn' = afterVerdict(conn, yes)
    BY Zenon, <1>a, <1>b, <2>1 DEF conn
  <2>3. C!Fails
    BY Zenon, <1>0, <2>1, <2>2
    DEF conn, face, judged, closed, done, who, afterVerdict, yes, C!Fails
  <2> QED BY Zenon, <2>3 DEF C!Steps
<1>2. CASE Superseding
  <2>1. /\ ~done /\ failed' = failed /\ inClosed' = inClosed /\ superseded' = yes
        /\ who = "newer" /\ judged' = who /\ closed' = closed /\ done' = done /\ who' = who
    BY Zenon, <1>2 DEF Superseding, judged, closed, done, who, yes
  <2>2. conn' = afterSupersede(conn, yes, who)
    BY Zenon, <1>a, <1>c, <2>1 DEF conn
  <2>3. who # "me"
    BY <2>1
  <2>4. C!Supersedes
    BY Zenon, <1>0, <2>1, <2>2, <2>3
    DEF conn, face, judged, closed, done, who, afterSupersede, yes, C!Supersedes
  <2> QED BY Zenon, <2>4 DEF C!Steps
<1>3. CASE Joining
  <2>1. /\ failed' = failed /\ inClosed' = yes /\ superseded' = superseded
        /\ judged' = judged /\ who' = who
    BY Zenon, <1>3 DEF Joining, judged, who, yes
  <2>2. closed /\ closed' = closed /\ ~done /\ done' = yes
    BY <1>3 DEF Joining, closed, done, yes
  <2>3. conn' = afterStop(conn, yes, yes)
    BY Zenon, <1>a, <1>e, <2>1, <2>2 DEF conn
  <2>4. C!Stops
    BY Zenon, <1>0, <2>1, <2>2, <2>3
    DEF conn, face, judged, closed, done, who, afterStop, yes, C!Stops
  <2> QED BY Zenon, <2>4 DEF C!Steps
<1>4. CASE Adopting
  <2>1. conn' = conn /\ who' = "newer"
    BY Zenon, <1>4 DEF Adopting, conn, judged, closed, done, who
  <2>2. C!Adopts("newer")
    BY Zenon, <2>1 DEF conn, face, judged, closed, done, who, C!Adopts
  <2> QED BY Zenon, <2>2 DEF C!Steps
<1>5. CASE Keeping /\ app = "open" /\ app' = "cancel"
  <2>1. /\ failed' = failed /\ inClosed' = inClosed /\ superseded' = superseded
        /\ judged' = judged /\ who' = who
    BY Zenon, <1>5 DEF Keeping, judged, who
  <2>2. ~closed /\ closed' = yes /\ done' = done
    BY <1>5 DEF closed, done, yes
  <2>3. conn' = afterClose(conn, yes)
    BY Zenon, <1>a, <1>d, <2>1, <2>2 DEF conn
  <2>4. C!Closes
    BY Zenon, <1>0, <2>1, <2>2, <2>3
    DEF conn, face, judged, closed, done, who, afterClose, yes, C!Closes
  <2> QED BY Zenon, <2>4 DEF C!Steps
<1>6. CASE Keeping /\ closed' = closed /\ done' = done
  <2>1. conn' = conn /\ who' = who
    BY Zenon, <1>6 DEF Keeping, conn, judged, who
  <2> QED BY Zenon, <2>1 DEF conn, face, judged, closed, done, who, C!iface
<1>7. app' = app => closed' = closed /\ done' = done
  BY Zenon DEF closed, done
<1>8. app \in {"cancel", "out", "wake"} /\ app' \in {"out", "wake", "wait"} =>
          closed' = closed /\ done' = done
  BY DEF closed, done
<1>9. app = "delete" /\ app' = "closed" => closed' = closed /\ done' = done
  BY DEF closed, done
<1>10. CASE Releasing
  <2>1. /\ failed' = failed /\ inClosed' = yes /\ superseded' = superseded
        /\ judged' = judged /\ closed' = closed /\ done' = done /\ who' = who
    BY Zenon, <1>10 DEF Releasing, judged, closed, done, who, yes
  <2>2. CASE inClosed
    <3>1. inClosed' = inClosed
      BY Zenon, <2>1, <2>2 DEF Values, yes
    <3>2. conn' = conn /\ who' = who
      BY Zenon, <2>1, <3>1 DEF conn
    <3> QED BY Zenon, <3>2 DEF conn, face, judged, closed, done, who, C!iface
  <2>3. CASE ~inClosed
    <3>1. conn' = afterEnd(conn, yes)
      BY Zenon, <1>a, <1>f, <2>1 DEF conn
    <3>2. C!Ends
      BY Zenon, <1>0, <1>10, <2>1, <2>3, <3>1
      DEF Releasing, conn, face, judged, closed, done, who, afterEnd, yes, C!Ends
    <3> QED BY Zenon, <3>2 DEF C!Steps
  <2> QED BY Zenon, <2>2, <2>3
<1> QED
  BY Zenon, <1>1, <1>2, <1>3, <1>4, <1>5, <1>6, <1>7, <1>8, <1>9, <1>10, Faces

\* A resumable connection is a connection as the interface Conn promises: however
\* often its legs are torn down and resumed, its owner sees one verdict, before the
\* reader is released, and none once Close has joined the supervisor.
THEOREM ResumableConnIsConn == Spec => ImplementsConn
<1>1. IInv /\ Values /\ [Next]_vars => [C!Steps]_(C!iface)
  BY Zenon, NextConn
<1> QED
  BY <1>1, InitConn, Invariant, ValuesAlways, PTL DEF Spec, ImplementsConn, C!Behaviour

-----------------------------------------------------------------------------
(* Nobody is left waiting: the safety half of Released.                    *)

\* The connection's context is cancelled by Close, which goes on to release the
\* reader, or by a newer session's 410, which does so too.
CancelledBy == ctx => app \notin {"open", "cancel"} \/ sup = "release" \/ (sup = "end" /\ inClosed)

\* Once the supervisor is over, the reader is released or Close is under way and
\* has yet to call in.Close.  There is no way out of supervise that leaves the
\* application's Read blocked on a pipe nobody will close.
ReaderReleased == sup = "end" => inClosed \/ app \in {"cancel", "out", "wake", "wait"}

\* A verdict is the supervisor's last act but one: it goes on to release the reader
\* before it is over.
VerdictIsLast == failed \/ superseded => sup = "release" \/ (sup = "end" /\ inClosed)

\* Close never waits for a sender that sleeps for good: from wg.Wait on, the context
\* is cancelled and the pipe closed, so a leg in nextOut leaves with io.EOF or with an
\* interrupt, legs included that a resume started after Close had raised its own.
CloseWakes ==
    /\ app \in {"out", "wake", "wait", "delete", "closed"} => ctx
    /\ app \in {"wake", "wait", "delete", "closed"} => outClosed

NobodyWaits == CancelledBy /\ ReaderReleased /\ VerdictIsLast /\ CloseWakes

\* supervise goes on, returns because Close has begun, fails, or gives way to a newer
\* session: none leaves anybody waiting.
LEMMA WaysOn ==
    ASSUME IInv, NobodyWaits, sup \notin {"release", "end"}, UNCHANGED closing,
           \/ sup' \notin {"release", "end"} /\ UNCHANGED <<ctx, ends>>
           \/ over /\ quit
           \/ fail
           \/ onSessionClosed
    PROVE NobodyWaits'
<1> USE DEF NobodyWaits, CancelledBy, ReaderReleased, VerdictIsLast, CloseWakes, ends, closing
<1>0. app \in {"open", "cancel", "out", "wake", "wait"}
  BY Zenon DEF IInv, Places, Joined
<1>1. CASE sup' \notin {"release", "end"} /\ UNCHANGED <<ctx, ends>> BY Zenon, <1>1
<1>2. CASE over /\ quit BY Zenon, <1>0, <1>2 DEF over, quit
<1>3. CASE fail BY Zenon, <1>3 DEF fail
<1>4. CASE onSessionClosed BY Zenon, <1>4 DEF onSessionClosed, fail
<1> QED BY Zenon, <1>1, <1>2, <1>3, <1>4

\* The supervisor's steps leave nobody waiting.
LEMMA SuperviseWakes ==
    ASSUME IInv, NobodyWaits, Supervise
    PROVE NobodyWaits'
<1>1. UNCHANGED closing
  BY Zenon DEF Supervise, RunLegs, RunLegsCancel, RunLegsInterrupt, RunLegsJoin, Judge, Resume,
       ResumeOK, ResumeRefused, ResumeRetries, Dialled, SleepOrDone, GraceSpent, Record, Release,
       closing
<1>2. sup # "end" /\ (Release \/ sup # "release")
  BY Zenon DEF Supervise, RunLegs, RunLegsCancel, RunLegsInterrupt, RunLegsJoin, Judge, Resume,
       ResumeOK, ResumeRefused, ResumeRetries, Dialled, SleepOrDone, GraceSpent, Record, Release
<1> DEFINE WayOn ==
      \/ sup' \notin {"release", "end"} /\ UNCHANGED <<ctx, ends>>
      \/ over /\ quit
      \/ fail
      \/ onSessionClosed
<1>3. RunLegs => WayOn
  BY Zenon DEF RunLegs, RunLegsCancel, RunLegsInterrupt, RunLegsJoin
<1>4. Judge => WayOn BY Zenon DEF Judge
<1>5. ResumeOK => WayOn BY Zenon DEF ResumeOK
<1>6. ResumeRefused => WayOn BY Zenon DEF ResumeRefused, resumeFailed
<1>7. ResumeRetries => WayOn BY Zenon DEF ResumeRetries, resumeFailed
<1>8. Dialled => WayOn BY Zenon DEF Dialled
<1>9. SleepOrDone => WayOn BY Zenon DEF SleepOrDone, over
<1>10. GraceSpent => WayOn BY Zenon, <1>2 DEF GraceSpent
<1>11. Record => WayOn BY Zenon DEF Record
<1>12. WayOn \/ Release
  BY Zenon, <1>3, <1>4, <1>5, <1>6, <1>7, <1>8, <1>9, <1>10, <1>11 DEF Supervise, Resume
<1>13. CASE Release
  BY Zenon, <1>13
  DEF Release, closing, ends, NobodyWaits, CancelledBy, ReaderReleased, VerdictIsLast, CloseWakes
<1> QED BY Zenon, <1>1, <1>2, <1>12, <1>13, WaysOn

\* Neither do the legs, a newer session and Close.
LEMMA NextWakes == IInv /\ NobodyWaits /\ [Next]_vars => NobodyWaits'
<1> SUFFICES ASSUME IInv, NobodyWaits, [Next]_vars PROVE NobodyWaits' OBVIOUS
<1> USE DEF NobodyWaits, CancelledBy, ReaderReleased, VerdictIsLast, CloseWakes, IInv, Joined,
            legs, guard, ends, closing
<1>1. CASE Legs
  <2>1. UNCHANGED <<ctx, app, sup, inClosed, outClosed, failed, superseded>>
    BY Zenon, <1>1 DEF Legs, DownApplies, DownEnds, UpInterrupted, UpDue, UpWritten, UpFails, UpEOF,
                       LegsAge
  <2> QED BY Zenon, <2>1
<1>2. CASE Adopt BY Zenon, <1>2 DEF Adopt
<1>3. CASE CloseBegin BY Zenon, <1>3 DEF CloseBegin
<1>4. CASE CloseCancel BY Zenon, <1>4 DEF CloseCancel
<1>5. CASE CloseOut BY Zenon, <1>5 DEF CloseOut
<1>6. CASE CloseInterrupt BY Zenon, <1>6 DEF CloseInterrupt
<1>7. CASE CloseIn BY Zenon, <1>7 DEF CloseIn
<1>8. CASE CloseDelete BY Zenon, <1>8 DEF CloseDelete
<1>9. CASE UNCHANGED vars BY Zenon, <1>9 DEF vars
<1> HIDE DEF NobodyWaits, IInv
<1> QED BY Zenon, <1>1, <1>2, <1>3, <1>4, <1>5, <1>6, <1>7, <1>8, <1>9, SuperviseWakes
        DEF Next, Close, Finished

\* However the supervisor ends (a verdict, a refused or exhausted resume, a guard that
\* gives up, Close at any point of these), the application's Read is released or Close
\* is about to release it, and Close finds every sleeper woken.  That the steps are
\* then taken is Released, which is model-checked.
THEOREM NobodyLeftWaiting == Spec => []NobodyWaits
<1>1. Init => NobodyWaits
  BY Zenon DEF Init, NobodyWaits, CancelledBy, ReaderReleased, VerdictIsLast, CloseWakes
<1> QED BY <1>1, NextWakes, Invariant, PTL DEF Spec
=============================================================================
