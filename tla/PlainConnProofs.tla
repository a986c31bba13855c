-------------------------- MODULE PlainConnProofs --------------------------
(***************************************************************************)
(* Proofs about PlainConn, for every mode, every buffer size, every chunk  *)
(* size and every length of the two streams.                               *)
(***************************************************************************)
EXTENDS PlainConn, ConnProofs, TLAPS

-----------------------------------------------------------------------------
(* Which step touches what.                                                *)

DownStep ==
    \/ DownPolls \/ DownData \/ DownAnswered \/ DownBreaks \/ DownJudges \/ DownCloses
    \/ ServerWrites \/ PollBegins \/ PollReads \/ PollEnds \/ PollGone
    \/ LegReads \/ LegLeft \/ LegBreaks

WriteStep == WriteBegins \/ (\E n \in 1 .. MaxBytes : WriteQueues(n)) \/ WriteStarts

FlushStep == FlushWaits \/ FlushTakes \/ SendGoes \/ SendAnswered \/ SendBreaks \/ FlushClears

LegStep ==
    \/ LegOpens \/ LegFeeds \/ LegRollsOver \/ LegEOF \/ LegAnswered \/ LegBreaks
    \/ LegBegins \/ LegReads \/ LegLeft

UpStep ==
    \/ WriteStep \/ FlushStep \/ LegStep \/ (\E f \in u.requests : SendServed(f))
    \/ UpJudges \/ UpCloses \/ DownBreaks \/ PollGone

FlagStep ==
    \/ DownJudges \/ DownCloses \/ UpJudges \/ UpCloses
    \/ CloseBegins \/ CloseCancels \/ CloseWaits \/ CloseDeletes
    \/ AdoptsThis \/ AdoptsNewer

\* The variables every step leaves alone but the ones listed.
LEMMA Touches ==
    ASSUME Next
    PROVE  /\ mode' = mode
           /\ DownStep \/ d' = d
           /\ UpStep \/ u' = u
           /\ FlagStep \/ (c' = c /\ active' = active)
           /\ session' = session \/ session' = "closed"
BY DEF Next, Client, Server, Finished, vars, DownStep, UpStep, WriteStep, FlushStep, LegStep,
       FlagStep, DownPolls, DownData, DownAnswered, DownBreaks, DownJudges, DownCloses,
       ServerWrites, PollBegins, PollReads, PollEnds, PollGone, WriteBegins, WriteQueues,
       WriteStarts, FlushWaits, FlushTakes, SendGoes, SendAnswered, SendBreaks, FlushClears,
       SendServed, LegOpens, LegFeeds, LegRollsOver, LegEOF, LegAnswered, LegBreaks, LegBegins,
       LegReads, LegLeft, UpJudges, UpCloses, CloseBegins, CloseCancels, CloseWaits,
       CloseDeletes, SessionCloses, AdoptsThis, AdoptsNewer

-----------------------------------------------------------------------------
(* The records have their fields.                                          *)

CFields ==
    {"closed", "ctx", "failed", "superseded", "adopted", "judged", "readClosed", "writeClosed",
     "closer"}

DFields == {"pc", "poll", "resp", "written", "taken", "got", "hole"}

UFields ==
    {"pc", "writer", "flight", "written", "taken", "sent", "requests", "leg", "body", "answer",
     "got", "hole", "abandoned"}

Records ==
    /\ mode \in AllModes
    /\ c = [x \in CFields |-> c[x]]
    /\ d = [x \in DFields |-> d[x]]
    /\ u = [x \in UFields |-> u[x]]

\* connect and connectWebSocket.
LEMMA InitRecords == Init => Records
BY Zenon, ModesAssumption
DEF Init, Records, freshDown, freshUp, noConn, noDown, noUp, CFields, DFields, UFields

\* No step adds or drops a field.
LEMMA NextRecords ==
    ASSUME Records, Next
    PROVE  Records'
<1>1. c' = [x \in CFields |-> c'[x]]
  BY Zenon, Touches
  DEF Records, CFields, FlagStep, DownJudges, DownCloses, UpJudges, UpCloses, CloseBegins,
      CloseCancels, CloseWaits, CloseDeletes, AdoptsThis, AdoptsNewer, judged, pipesAfter
<1>2. d' = [x \in DFields |-> d'[x]]
  BY Touches
  DEF Records, DFields, DownStep, DownPolls, DownData, DownAnswered, DownBreaks, DownJudges,
      DownCloses, ServerWrites, PollBegins, PollReads, PollEnds, PollGone, LegReads, LegLeft,
      LegBreaks, downGot, hangUp
<1>3. WriteStep \/ FlushStep \/ LegStep => u' = [x \in UFields |-> u'[x]]
  BY DEF Records, UFields, WriteStep, FlushStep, LegStep, WriteBegins, WriteQueues, WriteStarts,
         FlushWaits, FlushTakes, SendGoes, SendAnswered, SendBreaks, FlushClears, LegOpens,
         LegFeeds, LegRollsOver, LegEOF, LegAnswered, LegBreaks, LegBegins, LegReads, LegLeft,
         clearFlight, sendFails, upGot
<1>4. u' = [x \in UFields |-> u'[x]]
  BY <1>3, Touches
  DEF Records, UFields, UpStep, SendServed, answered, upGot, UpJudges, UpCloses, DownBreaks,
      PollGone
<1> QED
  BY <1>1, <1>2, <1>4, Touches DEF Records

-----------------------------------------------------------------------------
(* The download.  As long as the client's loop runs, what has left toClient *)
(* is what the client has, or is the response in front of it.              *)

DownNumbers == d.written \in Nat /\ d.taken \in Nat /\ d.got \in Nat

InFront ==
    \/ d.resp = none /\ d.got = d.taken
    \/ d.resp \in {idle, end, gone} /\ d.poll = "none" /\ d.got = d.taken
    \/ /\ d.resp = <<d.got + 1, d.taken>> /\ d.got < d.taken
       /\ d.poll # "sent" /\ (mode.down = "batch" => d.poll = "none")

Down ==
    /\ DownNumbers
    /\ ~d.hole
    /\ d.pc = "top" => d.poll = "none" /\ d.got = d.taken
    /\ d.pc = "wait" => InFront

\* The loops connect and connectWebSocket start have polled nothing yet.
LEMMA InitDown == Init => Down
BY DEF Init, Down, DownNumbers, InFront, freshDown, noDown

\* The client's loops, the handlers and the pumps keep it.
LEMMA NextDown ==
    ASSUME Records, Down, Next
    PROVE  Down'
<1> USE DEF Down, DownNumbers, Records, DFields
<1>1. CASE DownPolls
  BY <1>1 DEF DownPolls, InFront
<1>2. CASE DownData
  <2>1. /\ d.resp = <<d.got + 1, d.taken>> /\ d.got < d.taken
        /\ d.poll # "sent" /\ (mode.down = "batch" => d.poll = "none")
    BY <1>2 DEF DownData, InFront, isData, none, idle, end, gone
  <2>2. CASE c.readClosed
    BY <1>2, <2>2 DEF DownData, afterError
  <2>3. CASE ~c.readClosed
    BY <1>2, <2>1, <2>3 DEF DownData, downGot, InFront
  <2> QED BY <2>2, <2>3
<1>3. CASE DownAnswered
  <2>1. d.poll = "none" /\ d.got = d.taken
    BY <1>3 DEF DownAnswered, InFront, idle, end, gone, none
  <2> QED BY <1>3, <2>1 DEF DownAnswered, afterError
<1>4. CASE DownBreaks
  BY <1>4 DEF DownBreaks, afterError
<1>5. CASE DownJudges
  BY <1>5 DEF DownJudges, verdict
<1>6. CASE DownCloses
  BY <1>6 DEF DownCloses
<1>7. CASE ServerWrites
  BY <1>7 DEF ServerWrites, InFront
<1>8. CASE PollBegins
  BY <1>8 DEF PollBegins, InFront
<1>9. CASE PollReads
  <2>1. d.pc = "wait" => d.got = d.taken
    BY <1>9 DEF PollReads, parked, InFront, none
  <2> QED BY <1>9, <2>1, SizesAssumption DEF PollReads, parked, pollAfter, Shorter, InFront
<1>10. CASE PollEnds
  BY <1>10 DEF PollEnds, parked, InFront, none
<1>11. CASE PollGone
  BY <1>11 DEF PollGone, parked, InFront, none
<1>12. CASE LegReads \/ LegLeft \/ LegBreaks
  BY <1>12 DEF LegReads, LegLeft, LegBreaks, hangUp, InFront
<1>13. CASE UNCHANGED <<d, mode>>
  BY <1>13 DEF InFront
<1> QED
  BY <1>1, <1>2, <1>3, <1>4, <1>5, <1>6, <1>7, <1>8, <1>9, <1>10, <1>11, <1>12, <1>13, Touches
  DEF DownStep

-----------------------------------------------------------------------------
(* The flags: what a loop has said before it closes the pipes, and what is *)
(* left of the loops when Close has waited for them.                       *)

Flags ==
    /\ session \in {"open", "closed"}
    /\ active \in {"older", "me", "newer"}
    /\ c.closer \in {"no", "cancel", "wait", "delete", "done"}
    /\ c.closed <=> c.closer # "no"
    /\ c.closer \in {"wait", "delete", "done"} => c.ctx
    /\ "failing" \in {d.pc, u.pc} => c.failed
    /\ "superseding" \in {d.pc, u.pc} => c.superseded /\ c.ctx
    /\ c.closer \in {"delete", "done"} =>
          /\ c.readClosed
          /\ d.pc = "end"
          /\ u.pc \in {"none", "coalesce", "take", "send", "clear", "end"}

\* connect and connectWebSocket.
LEMMA InitFlags == Init => Flags
<1> SUFFICES ASSUME Init PROVE Flags
  OBVIOUS
<1>1. ~c.closed /\ c.closer = "no" /\ active \in {"older", "me"}
  BY Zenon DEF Init, noConn
<1>2. session = "open" /\ d.pc \in {"top", "wait"} /\ u.pc \in {"none", "top", "feed"}
  BY DEF Init, freshDown, freshUp, noDown, noUp
<1> QED
  BY <1>1, <1>2 DEF Flags

\* Every step keeps them.
LEMMA NextFlags ==
    ASSUME Records, Flags, Next
    PROVE  Flags'
<1> USE DEF Flags, Records
<1>1. CASE DownJudges
  BY <1>1 DEF DownJudges, judged, verdict, CFields, DFields
<1>2. CASE UpJudges
  BY <1>2 DEF UpJudges, judged, verdict, CFields, UFields
<1>3. CASE DownCloses
  BY <1>3 DEF DownCloses, pipesAfter, CFields, DFields
<1>4. CASE UpCloses
  BY <1>4 DEF UpCloses, pipesAfter, CFields, UFields
<1>5. CASE CloseBegins \/ CloseCancels
  BY Zenon, <1>5 DEF CloseBegins, CloseCancels, CFields
<1>6. CASE CloseWaits \/ CloseDeletes
  BY Zenon, <1>6 DEF CloseWaits, CloseDeletes, CFields
<1>7. CASE AdoptsThis \/ AdoptsNewer
  BY <1>7 DEF AdoptsThis, AdoptsNewer, CFields
<1>8. CASE UNCHANGED <<mode, c, active>>
  <2>1. /\ d.pc = "end" => d'.pc = "end"
        /\ d'.pc = d.pc \/ d'.pc \in {"top", "wait", "end", "judge"} \/ DownJudges
    BY Touches
    DEF DownStep, DFields, DownPolls, DownData, DownAnswered, DownBreaks, DownJudges, DownCloses,
        ServerWrites, PollBegins, PollReads, PollEnds, PollGone, LegReads, LegLeft, LegBreaks,
        downGot, hangUp, afterError
  <2>2. WriteStep \/ FlushStep =>
            u'.pc = u.pc \/ u'.pc \in {"none", "coalesce", "take", "send", "wait", "clear", "judge"}
    BY DEF WriteStep, FlushStep, UFields, WriteBegins, WriteQueues, WriteStarts, FlushWaits,
           FlushTakes, SendGoes, SendAnswered, SendBreaks, FlushClears, clearFlight, sendFails
  <2>3. LegStep => u'.pc = u.pc \/ u'.pc \in {"top", "feed", "rolling", "rolled", "end", "judge"}
    BY DEF LegStep, UFields, LegOpens, LegFeeds, LegRollsOver, LegEOF, LegAnswered, LegBreaks,
           LegBegins, LegReads, LegLeft, feeding, upGot, afterError
  <2>4. u'.pc = u.pc \/ u'.pc \notin {"failing", "superseding"} \/ UpJudges
    BY <2>2, <2>3, Touches
    DEF UpStep, UFields, SendServed, answered, upGot, UpJudges, UpCloses, DownBreaks, PollGone
  <2>5. ASSUME c.closer \in {"delete", "done"}
        PROVE  u'.pc \in {"none", "coalesce", "take", "send", "clear", "end"}
    <3>1. c.ctx /\ c.closed
      BY <2>5
    <3>2. CASE WriteStep \/ FlushStep
      BY <2>5, <3>1, <3>2
      DEF WriteStep, FlushStep, UFields, WriteBegins, WriteQueues, WriteStarts, FlushWaits,
          FlushTakes, SendGoes, SendAnswered, SendBreaks, FlushClears, clearFlight, sendFails,
          afterError
    <3>3. CASE LegStep
      BY <2>5, <3>1, <3>3
      DEF LegStep, UFields, LegOpens, LegFeeds, LegRollsOver, LegEOF, LegAnswered, LegBreaks,
          LegBegins, LegReads, LegLeft, feeding, upGot
    <3> QED
      BY <2>5, <3>2, <3>3, Touches
      DEF UpStep, UFields, SendServed, answered, upGot, UpJudges, UpCloses, DownBreaks, PollGone
  <2>6. CASE DownJudges \/ UpJudges
    BY <1>1, <1>2, <2>6
  <2> QED
    BY <1>8, <2>1, <2>4, <2>5, <2>6, Touches
<1> QED
  BY <1>1, <1>2, <1>3, <1>4, <1>5, <1>6, <1>7, <1>8, Touches DEF FlagStep

-----------------------------------------------------------------------------
(* The connection implements the interface Conn, but for its liveness.     *)

conn ==
    face(c.failed, c.superseded, c.judged, c.readClosed, c.closed, c.closer \in {"delete", "done"})

Booleans == {c.failed, c.superseded, c.readClosed, c.closed} \subseteq BOOLEAN

\* connect and connectWebSocket.
LEMMA InitBooleans == Init => Booleans
BY DEF Init, Booleans, noConn

\* The flags are set and never anything else.
LEMMA NextBooleans ==
    ASSUME Records, Booleans, Next
    PROVE  Booleans'
<1> USE DEF Booleans, Records, CFields
<1>1. CASE DownJudges \/ UpJudges
  BY Zenon, <1>1 DEF DownJudges, UpJudges, judged
<1>2. CASE DownCloses \/ UpCloses
  BY Zenon, <1>2 DEF DownCloses, UpCloses, pipesAfter
<1>3. CASE CloseBegins \/ CloseCancels \/ CloseWaits \/ CloseDeletes \/ AdoptsThis
  BY Zenon, <1>3 DEF CloseBegins, CloseCancels, CloseWaits, CloseDeletes, AdoptsThis
<1>4. CASE c' = c
  BY Zenon, <1>4
<1> QED
  BY <1>1, <1>2, <1>3, <1>4, Touches DEF FlagStep, AdoptsNewer

\* A new connection is a new Conn.
LEMMA InitConn == Init => C!ConnInit
<1> SUFFICES ASSUME Init PROVE C!ConnInit
  OBVIOUS
<1>1. /\ c.failed = FALSE /\ c.superseded = FALSE /\ c.judged = "me" /\ c.readClosed = FALSE
      /\ c.closed = FALSE /\ c.closer = "no"
  BY DEF Init, noConn
<1>2. (c.closer \in {"delete", "done"}) = FALSE
  BY <1>1
<1>3. conn = face(FALSE, FALSE, "me", FALSE, FALSE, FALSE)
  BY Zenon, <1>1, <1>2 DEF conn
<1>4. active \in {"me", "older"}
  BY DEF Init
<1> QED
  BY Zenon, <1>3, <1>4 DEF conn, face, C!ConnInit, C!newConn

\* Every step of the connection is a step of its interface, or none.
LEMMA NextConn ==
    ASSUME Records, Flags, Booleans, Next
    PROVE  [C!Steps]_(C!iface)
<1> DEFINE done == c.closer \in {"delete", "done"}
<1>0. conn.done = done /\ conn.ended = c.readClosed /\ conn.closed = c.closed
      /\ conn.failed = c.failed /\ conn.superseded = c.superseded
  BY Zenon DEF conn, face
<1> DEFINE yes == TRUE
<1> DEFINE now == face(c.failed, c.superseded, c.judged, c.readClosed, c.closed, done)
<1>9. conn = now
  BY Zenon DEF conn
<1> HIDE DEF done, yes
<1>10. afterVerdict(now, yes)
       = face(yes, c.superseded, c.judged, c.readClosed, c.closed, done)
  BY FaceOfVerdict
<1>11. afterSupersede(now, yes, active)
       = face(c.failed, yes, active, c.readClosed, c.closed, done)
  BY FaceOfSupersede
<1>12. afterEnd(now, yes) = face(c.failed, c.superseded, c.judged, yes, c.closed, done)
  BY FaceOfEnd
<1>13. afterClose(now, yes) = face(c.failed, c.superseded, c.judged, c.readClosed, yes, done)
  BY FaceOfClose
<1>14. afterStop(now, yes, yes) = face(c.failed, c.superseded, c.judged, yes, c.closed, yes)
  BY FaceOfStop
<1> HIDE DEF now
<1>1. CASE DownJudges \/ UpJudges
  <2>1. ~done
    BY <1>1 DEF DownJudges, UpJudges, Flags, done
  <2>2. CASE active = "me"
    <3>1. /\ c'.failed = TRUE /\ c'.superseded = c.superseded /\ c'.judged = c.judged
          /\ c'.readClosed = c.readClosed /\ c'.closed = c.closed /\ c'.closer = c.closer
          /\ active' = active
      BY <1>1, <2>2 DEF DownJudges, UpJudges, judged, Records, CFields
    <3>2. conn' = face(yes, c.superseded, c.judged, c.readClosed, c.closed, done)
      BY Zenon, <3>1 DEF conn, done, yes
    <3>3. conn' = afterVerdict(conn, yes)
      BY Zenon, <1>9, <1>10, <3>2
    <3>4. C!Fails
      BY Zenon, <1>0, <2>1, <3>1, <3>3 DEF conn, face, afterVerdict, done, yes, C!Fails
    <3> QED BY Zenon, <3>4 DEF C!Steps
  <2>3. CASE active # "me"
    <3>1. /\ c'.failed = c.failed /\ c'.superseded = TRUE /\ c'.judged = active
          /\ c'.readClosed = c.readClosed /\ c'.closed = c.closed /\ c'.closer = c.closer
          /\ active' = active
      BY Zenon, <1>1, <2>3 DEF DownJudges, UpJudges, judged, Records, CFields
    <3>2. conn' = face(c.failed, yes, active, c.readClosed, c.closed, done)
      BY Zenon, <3>1 DEF conn, done, yes
    <3>3. conn' = afterSupersede(conn, yes, active)
      BY Zenon, <1>9, <1>11, <3>2
    <3>4. C!Supersedes
      BY Zenon, <1>0, <2>1, <2>3, <3>1, <3>3 DEF conn, face, afterSupersede, done, yes, C!Supersedes
    <3> QED BY Zenon, <3>4 DEF C!Steps
  <2> QED BY <2>2, <2>3
<1>2. CASE DownCloses \/ UpCloses
  <2>1. /\ c'.failed = c.failed /\ c'.superseded = c.superseded /\ c'.judged = c.judged
        /\ c'.readClosed = TRUE /\ c'.closed = c.closed /\ c'.closer = c.closer
        /\ active' = active
    BY Zenon, <1>2 DEF DownCloses, UpCloses, pipesAfter, Records, CFields
  <2>2. CASE c.readClosed
    <3>1. c'.readClosed = c.readClosed
      BY Zenon, <2>1, <2>2 DEF Booleans
    <3>2. conn' = conn
      BY Zenon, <2>1, <3>1 DEF conn, done, yes
    <3> QED BY Zenon, <2>1, <3>2 DEF conn, face, C!iface
  <2>3. CASE ~c.readClosed
    <3>1. conn' = face(c.failed, c.superseded, c.judged, yes, c.closed, done)
      BY Zenon, <2>1 DEF conn, done, yes
    <3>2. conn' = afterEnd(conn, yes)
      BY Zenon, <1>9, <1>12, <3>1
    <3>3. c.failed \/ c.superseded
      BY <1>2 DEF DownCloses, UpCloses, Flags
    <3>4. C!Ends
      BY Zenon, <1>0, <2>1, <2>3, <3>2, <3>3 DEF conn, face, afterEnd, done, yes, C!Ends
    <3> QED BY Zenon, <3>4 DEF C!Steps
  <2> QED BY <2>2, <2>3
<1>3. CASE CloseBegins
  <2>1. /\ c'.failed = c.failed /\ c'.superseded = c.superseded /\ c'.judged = c.judged
        /\ c'.readClosed = c.readClosed /\ c'.closed = TRUE /\ c.closer = "no"
        /\ c'.closer = "cancel" /\ active' = active /\ ~c.closed
    BY <1>3 DEF CloseBegins, Records, CFields, Flags
  <2>2. (c'.closer \in {"delete", "done"}) = done
    BY <2>1 DEF done
  <2>3. conn' = face(c.failed, c.superseded, c.judged, c.readClosed, yes, done)
    BY Zenon, <2>1, <2>2 DEF conn, done, yes
  <2>4. conn' = afterClose(conn, yes)
    BY Zenon, <1>9, <1>13, <2>3
  <2>5. C!Closes
    BY Zenon, <1>0, <2>1, <2>4 DEF conn, face, afterClose, done, yes, C!Closes
  <2> QED BY Zenon, <2>5 DEF C!Steps
<1>4. CASE CloseWaits
  <2>1. /\ c'.failed = c.failed /\ c'.superseded = c.superseded /\ c'.judged = c.judged
        /\ c'.readClosed = TRUE /\ c'.closed = c.closed /\ c.closer = "wait"
        /\ c'.closer = "delete" /\ active' = active /\ c.closed
    BY <1>4 DEF CloseWaits, Records, CFields, Flags
  <2>2. (c'.closer \in {"delete", "done"}) = TRUE /\ ~done
    BY Zenon, <2>1 DEF done
  <2>3. conn' = face(c.failed, c.superseded, c.judged, yes, c.closed, yes)
    BY Zenon, <2>1, <2>2 DEF conn, done, yes
  <2>4. conn' = afterStop(conn, yes, yes)
    BY Zenon, <1>9, <1>14, <2>3
  <2>5. C!Stops
    BY Zenon, <1>0, <2>1, <2>2, <2>4 DEF conn, face, afterStop, done, yes, C!Stops
  <2> QED BY Zenon, <2>5 DEF C!Steps
<1>5. CASE CloseCancels \/ CloseDeletes
  <2>1. /\ c'.failed = c.failed /\ c'.superseded = c.superseded /\ c'.judged = c.judged
        /\ c'.readClosed = c.readClosed /\ c'.closed = c.closed /\ active' = active
    BY Zenon, <1>5 DEF CloseCancels, CloseDeletes, Records, CFields
  <2>3. (c'.closer \in {"delete", "done"}) = done
    <3>1. CASE CloseCancels
      <4>1. c.closer = "cancel" /\ c'.closer = "wait"
        BY <3>1 DEF CloseCancels, Records, CFields
      <4> QED BY <4>1 DEF done
    <3>2. CASE CloseDeletes
      <4>1. c.closer = "delete" /\ c'.closer = "done"
        BY <3>2 DEF CloseDeletes, Records, CFields
      <4> QED BY <4>1 DEF done
    <3> QED BY <1>5, <3>1, <3>2
  <2>4. conn' = conn
    BY Zenon, <2>1, <2>3 DEF conn, done
  <2> QED BY Zenon, <2>1, <2>4 DEF conn, face, C!iface
<1>6. CASE AdoptsThis \/ AdoptsNewer
  <2>1. /\ c'.failed = c.failed /\ c'.superseded = c.superseded /\ c'.judged = c.judged
        /\ c'.readClosed = c.readClosed /\ c'.closed = c.closed /\ c'.closer = c.closer
        /\ active' \in {"me", "newer"}
    BY <1>6 DEF AdoptsThis, AdoptsNewer, Records, CFields
  <2>2. conn' = conn
    BY Zenon, <2>1 DEF conn, done, yes
  <2>3. C!Adopts("me") \/ C!Adopts("newer")
    BY Zenon, <2>1, <2>2 DEF conn, face, C!Adopts
  <2> QED BY Zenon, <2>3 DEF C!Steps
<1>7. CASE UNCHANGED <<c, active>>
  BY Zenon, <1>7 DEF C!iface
<1> QED
  BY Zenon, <1>1, <1>2, <1>3, <1>4, <1>5, <1>6, <1>7, Touches DEF FlagStep

-----------------------------------------------------------------------------
(* The upload.  The loops of one kind know nothing of the requests of the  *)
(* other, and there is one flushLoop at a time.                            *)

Frames == Nat \X Nat

BatchPlaces ==
    {"none", "coalesce", "take", "send", "wait", "clear", "judge", "failing", "superseding"}

StreamPlaces ==
    {"top", "feed", "rolling", "rolled", "end", "judge", "failing", "superseding"}

UpNumbers ==
    /\ u.written \in Nat /\ u.taken \in Nat /\ u.sent \in Nat /\ u.got \in Nat
    /\ u.taken <= u.written
    /\ u.requests \subseteq Frames
    /\ u.body \in Seq(Frames)

BatchShape ==
    /\ u.pc \in BatchPlaces
    /\ u.leg = "none" /\ u.body = <<>>
    /\ u.writer = "start" => u.pc = "none" /\ u.flight
    /\ ~u.flight => u.pc = "none"

StreamShape ==
    /\ u.pc \in StreamPlaces
    /\ u.requests = {}
    /\ u.writer # "start"

Up ==
    /\ UpNumbers
    /\ mode.up = "batch" => BatchShape
    /\ mode.up # "batch" => StreamShape

\* A new connection.
LEMMA InitUp == Init => Up
<1> SUFFICES ASSUME Init PROVE Up
  OBVIOUS
<1>1. /\ u.written = 0 /\ u.taken = 0 /\ u.sent = 0 /\ u.got = 0
      /\ u.requests = {} /\ u.body = <<>> /\ u.writer = "idle" /\ ~u.flight
  BY DEF Init, freshUp, noUp
<1>2. mode.up = "batch" => u.pc = "none" /\ u.leg = "none"
  BY ModesAssumption DEF Init, freshUp, noUp, AllModes
<1>3. mode.up # "batch" => u.pc \in {"top", "feed"}
  BY DEF Init, freshUp, noUp
<1> QED
  BY <1>1, <1>2, <1>3
  DEF Up, UpNumbers, BatchShape, StreamShape, BatchPlaces, StreamPlaces, Frames

\* A chunk to send is a frame.
LEMMA ChunkIsFrame ==
    ASSUME Up
    PROVE  chunk \in Frames /\ chunk[1] = u.sent + 1 /\ chunk[2] \in Nat
BY SizesAssumption DEF Up, UpNumbers, Frames, chunk, Shorter, effectiveChunk

\* Every step keeps the numbers.
LEMMA NextUpNumbers ==
    ASSUME Records, Up, Next
    PROVE  UpNumbers'
<1>0. UpNumbers
  BY DEF Up
<1> USE DEF Records, UFields
<1>1. CASE WriteStep
  <2>1. CASE WriteBegins \/ WriteStarts
    BY Zenon, <1>0, <2>1 DEF UpNumbers, WriteBegins, WriteStarts
  <2>2. CASE \E n \in 1 .. MaxBytes : WriteQueues(n)
    BY <1>0, <2>2, LoadAssumption DEF UpNumbers, WriteQueues
  <2> QED BY <1>1, <2>1, <2>2 DEF WriteStep
<1>2. CASE FlushStep
  <2>1. CASE FlushWaits \/ FlushClears
    BY Zenon, <1>0, <2>1 DEF UpNumbers, FlushWaits, FlushClears, clearFlight
  <2>2. CASE FlushTakes
    BY <1>0, <2>2 DEF UpNumbers, FlushTakes, clearFlight
  <2>3. CASE SendBreaks
    BY <1>0, <2>3 DEF UpNumbers, SendBreaks, sendFails
  <2>4. CASE SendGoes
    BY <1>0, <2>4, ChunkIsFrame DEF UpNumbers, SendGoes, sendFails
  <2>5. CASE SendAnswered
    BY <1>0, <2>5, ChunkIsFrame DEF UpNumbers, SendAnswered, sendFails
  <2> QED BY <1>2, <2>1, <2>2, <2>3, <2>4, <2>5 DEF FlushStep
<1>3. CASE \E f \in u.requests : SendServed(f)
  <2>0. PICK f \in u.requests : SendServed(f)
    BY <1>3
  <2>1. f[2] \in Nat
    BY <1>0 DEF UpNumbers, Frames
  <2>2. u'.got \in {u.got, f[2]} /\ u'.requests \subseteq u.requests
    BY <2>0 DEF SendServed, answered, upGot
  <2>3. u'.written = u.written /\ u'.taken = u.taken /\ u'.sent = u.sent /\ u'.body = u.body
    BY <2>0 DEF SendServed, answered, upGot
  <2> QED BY <1>0, <2>1, <2>2, <2>3 DEF UpNumbers
<1>4. CASE LegOpens \/ LegEOF \/ LegAnswered \/ LegBreaks \/ LegBegins \/ LegLeft
  <2>1. CASE LegOpens
    BY <1>0, <2>1 DEF UpNumbers, LegOpens
  <2>2. CASE LegEOF
    BY <1>0, <2>2 DEF UpNumbers, LegEOF
  <2>3. CASE LegAnswered
    BY <1>0, <2>3 DEF UpNumbers, LegAnswered
  <2>4. CASE LegBreaks
    BY <1>0, <2>4 DEF UpNumbers, LegBreaks
  <2>5. CASE LegBegins
    BY <1>0, <2>5 DEF UpNumbers, LegBegins
  <2>6. CASE LegLeft
    BY <1>0, <2>6 DEF UpNumbers, LegLeft
  <2> QED BY <1>4, <2>1, <2>2, <2>3, <2>4, <2>5, <2>6
<1>5. CASE LegFeeds
  <2>1. PICK to \in Nat : /\ to <= u.written /\ u'.taken = to
                         /\ u'.body = Append(u.body, <<u.taken + 1, to>>)
                         /\ u'.written = u.written /\ u'.sent = u.sent /\ u'.got = u.got
                         /\ u'.requests = u.requests
    BY <1>0, <1>5, SizesAssumption DEF UpNumbers, LegFeeds, Shorter
  <2> QED BY <1>0, <2>1 DEF UpNumbers, Frames
<1>6. CASE LegRollsOver
  BY <1>0, <1>6 DEF UpNumbers, LegRollsOver, end, Frames
<1>7. CASE LegReads
  <2>1. Head(u.body) \in Frames /\ Tail(u.body) \in Seq(Frames)
    BY <1>0, <1>7 DEF UpNumbers, LegReads
  <2>2. Head(u.body)[2] \in Nat
    BY <2>1 DEF Frames
  <2> QED BY Zenon, <1>0, <1>7, <2>1, <2>2 DEF UpNumbers, LegReads, upGot
<1>8. CASE UpJudges \/ UpCloses \/ DownBreaks \/ PollGone
  BY <1>0, <1>8 DEF UpNumbers, UpJudges, UpCloses, DownBreaks, PollGone
<1>9. CASE u' = u
  BY <1>0, <1>9 DEF UpNumbers
<1> QED
  BY <1>1, <1>2, <1>3, <1>4, <1>5, <1>6, <1>7, <1>8, <1>9, Touches DEF UpStep, LegStep

\* A WebSocket carries both directions, and a batch upload has no leg.
LEMMA BatchSteps ==
    ASSUME Records, Up, Next, mode.up = "batch"
    PROVE  /\ ~ws
           /\ \/ WriteStep \/ FlushStep \/ (\E f \in u.requests : SendServed(f))
              \/ UpJudges \/ UpCloses \/ u' = u
<1>1. ~ws
  BY DEF Records, AllModes, ws
<1>2. ~LegStep
  BY <1>1
  DEF LegStep, LegOpens, LegFeeds, LegRollsOver, LegEOF, LegAnswered, LegBreaks, LegBegins,
      LegReads, LegLeft, feeding, Up, BatchShape, BatchPlaces
<1> QED
  BY <1>1, <1>2, Touches DEF UpStep, DownBreaks, PollGone

\* A stream or a WebSocket has no flushLoop and no requests.
LEMMA StreamSteps ==
    ASSUME Records, Up, Next, mode.up # "batch"
    PROVE  \/ WriteBegins \/ (\E n \in 1 .. MaxBytes : WriteQueues(n)) \/ LegStep
           \/ UpJudges \/ UpCloses \/ DownBreaks \/ PollGone \/ u' = u
<1>1. ~FlushStep
  BY DEF FlushStep, FlushWaits, FlushTakes, SendGoes, SendAnswered, SendBreaks, FlushClears, Up,
         StreamShape, StreamPlaces
<1>2. ~WriteStarts
  BY DEF WriteStarts, Up, StreamShape
<1> QED
  BY <1>1, <1>2, Touches DEF UpStep, WriteStep, Up, StreamShape

\* Write, flushLoop and doSend, one flushLoop at a time.
LEMMA NextBatchShape ==
    ASSUME Records, Up, Next, mode.up = "batch"
    PROVE  BatchShape'
<1>0. BatchShape
  BY DEF Up
<1> USE DEF Records, UFields
<1>1. CASE WriteStep
  BY <1>0, <1>1
  DEF WriteStep, WriteBegins, WriteQueues, WriteStarts, BatchShape, BatchPlaces
<1>2. CASE FlushStep
  BY Zenon, <1>0, <1>2
  DEF FlushStep, FlushWaits, FlushTakes, SendGoes, SendAnswered, SendBreaks, FlushClears,
      clearFlight, sendFails, BatchShape, BatchPlaces
<1>3. CASE \E f \in u.requests : SendServed(f)
  <2>0. PICK f \in u.requests : SendServed(f)
    BY <1>3
  <2>1. /\ u'.pc = u.pc /\ u'.leg = u.leg /\ u'.body = u.body /\ u'.writer = u.writer
        /\ u'.flight = u.flight
    BY <2>0 DEF SendServed, answered, upGot
  <2> QED BY <1>0, <2>1 DEF BatchShape
<1>4. CASE UpJudges \/ UpCloses
  BY <1>0, <1>4 DEF UpJudges, UpCloses, verdict, BatchShape, BatchPlaces
<1>5. CASE u' = u
  BY <1>0, <1>5 DEF BatchShape
<1> QED
  BY <1>1, <1>2, <1>3, <1>4, <1>5, BatchSteps

\* sendLoopStream and writeLoop.
LEMMA NextStreamShape ==
    ASSUME Records, Up, Next, mode.up # "batch"
    PROVE  StreamShape'
<1>0. StreamShape
  BY DEF Up
<1> USE DEF Records, UFields
<1>1. CASE WriteBegins \/ (\E n \in 1 .. MaxBytes : WriteQueues(n))
  BY <1>0, <1>1 DEF WriteBegins, WriteQueues, StreamShape
<1>2. CASE LegStep
  <2>1. CASE LegOpens \/ LegFeeds \/ LegRollsOver \/ LegEOF
    BY <1>0, <2>1 DEF LegOpens, LegFeeds, LegRollsOver, LegEOF, StreamShape, StreamPlaces
  <2>2. CASE LegAnswered
    BY <1>0, <2>2 DEF LegAnswered, afterError, StreamShape, StreamPlaces
  <2>3. CASE LegBreaks
    BY <1>0, <2>3 DEF LegBreaks, afterError, StreamShape, StreamPlaces
  <2>4. CASE LegBegins \/ LegLeft
    BY Zenon, <1>0, <2>4 DEF LegBegins, LegLeft, StreamShape
  <2>5. CASE LegReads
    BY Zenon, <1>0, <2>5 DEF LegReads, upGot, StreamShape
  <2> QED BY <1>2, <2>1, <2>2, <2>3, <2>4, <2>5 DEF LegStep
<1>3. CASE UpJudges \/ UpCloses \/ DownBreaks \/ PollGone
  BY <1>0, <1>3 DEF UpJudges, UpCloses, DownBreaks, PollGone, verdict, StreamShape, StreamPlaces
<1>4. CASE u' = u
  BY <1>0, <1>4 DEF StreamShape
<1> QED
  BY <1>1, <1>2, <1>3, <1>4, StreamSteps

\* Both.
LEMMA NextUp ==
    ASSUME Records, Up, Next
    PROVE  Up'
BY NextUpNumbers, NextBatchShape, NextStreamShape, Touches DEF Up

-----------------------------------------------------------------------------
(* The order of the upload.  As long as nobody has been told of a failure  *)
(* and no leg was abandoned, and the session takes bytes at all, what is   *)
(* on its way begins where the server's application left off.              *)

Unspoilt == ~c.failed /\ ~c.closed /\ ~u.abandoned

OneRequest ==
    \A f \in u.requests : /\ f[1] = u.got + 1 /\ f[1] <= f[2]
                          /\ \A g \in u.requests : g = f

Flushed ==
    /\ u.pc \in {"none", "coalesce", "take", "clear"} => u.requests = {} /\ u.got = u.taken
    /\ u.pc = "send" => u.requests = {} /\ u.got = u.sent /\ u.sent < u.taken
    /\ u.pc = "wait" =>
          /\ u.sent < u.taken
          /\ \/ u.answer = "none" /\ u.requests = {chunk} /\ u.got = u.sent
             \/ u.answer = "ok" /\ u.requests = {} /\ u.got = chunk[2]

BatchOrder ==
    mode.up = "batch" /\ Unspoilt =>
        /\ ~u.hole
        /\ session = "open" => OneRequest /\ (~c.ctx => Flushed)

\* What was said is not taken back, and a closed session stays closed.
LEMMA OnlyWorse ==
    ASSUME Records, Next
    PROVE  /\ Unspoilt' => Unspoilt
           /\ c.ctx => c'.ctx
           /\ session' = "open" => session = "open"
<1>1. (c.failed => c'.failed) /\ (c.closed => c'.closed) /\ (c.ctx => c'.ctx)
  BY Zenon, Touches
  DEF Records, CFields, FlagStep, DownJudges, DownCloses, UpJudges, UpCloses, CloseBegins,
      CloseCancels, CloseWaits, CloseDeletes, AdoptsThis, AdoptsNewer, judged, pipesAfter
<1>2. WriteStep \/ FlushStep => (u.abandoned => u'.abandoned)
  BY DEF Records, UFields, WriteStep, FlushStep, WriteBegins, WriteQueues, WriteStarts,
         FlushWaits, FlushTakes, SendGoes, SendAnswered, SendBreaks, FlushClears, clearFlight,
         sendFails
<1>3. LegStep => (u.abandoned => u'.abandoned)
  BY DEF Records, UFields, LegStep, LegOpens, LegFeeds, LegRollsOver, LegEOF, LegAnswered,
         LegBreaks, LegBegins, LegReads, LegLeft, upGot
<1>4. u.abandoned => u'.abandoned
  BY <1>2, <1>3, Touches
  DEF Records, UFields, UpStep, SendServed, answered, upGot, UpJudges, UpCloses, DownBreaks,
      PollGone
<1> QED
  BY <1>1, <1>4, Touches DEF Unspoilt

\* A new connection has nothing on its way.
LEMMA InitBatchOrder == Init => BatchOrder
<1> SUFFICES ASSUME Init, mode.up = "batch" PROVE ~u.hole /\ OneRequest /\ Flushed
  BY DEF BatchOrder
<1>1. ~u.hole /\ u.requests = {} /\ u.got = 0 /\ u.taken = 0
  BY DEF Init, freshUp, noUp
<1>2. u.pc = "none"
  BY DEF Init, freshUp, noUp
<1> QED
  BY <1>1, <1>2 DEF OneRequest, Flushed

\* Write, flushLoop, doSend and PollHandler keep the order.
LEMMA NextBatchOrder ==
    ASSUME Records, Flags, Up, BatchOrder, Next
    PROVE  BatchOrder'
<1> SUFFICES ASSUME mode.up = "batch", Unspoilt'
             PROVE  /\ ~u'.hole
                    /\ session' = "open" => OneRequest' /\ (~c'.ctx => Flushed')
  BY Touches DEF BatchOrder
<1>0. /\ Unspoilt /\ ~u.hole
      /\ session' = "open" => session = "open" /\ OneRequest
      /\ session' = "open" /\ ~c'.ctx => ~c.ctx /\ Flushed
  BY OnlyWorse DEF BatchOrder
<1>a. UpNumbers /\ BatchShape
  BY DEF Up
<1> USE DEF Records, UFields
<1>1. CASE WriteStep
  <2>1. /\ u'.requests = u.requests /\ u'.got = u.got /\ u'.taken = u.taken /\ u'.sent = u.sent
        /\ u'.answer = u.answer /\ u'.hole = u.hole
    BY <1>1 DEF WriteStep, WriteBegins, WriteQueues, WriteStarts
  <2>2. u'.pc = u.pc \/ (u.pc = "none" /\ u'.pc = "coalesce")
    BY <1>a, <1>1 DEF WriteStep, WriteBegins, WriteQueues, WriteStarts, BatchShape
  <2> QED BY <1>0, <2>1, <2>2 DEF OneRequest, Flushed, chunk
<1>2. CASE FlushWaits \/ FlushClears
  BY Zenon, <1>0, <1>2 DEF FlushWaits, FlushClears, clearFlight, OneRequest, Flushed
<1>3. CASE FlushTakes
  BY <1>0, <1>a, <1>3 DEF FlushTakes, clearFlight, OneRequest, Flushed, UpNumbers
<1>4. CASE SendGoes
  <2>1. CASE c.ctx
    BY <1>0, <1>4, <2>1 DEF SendGoes, sendFails, OneRequest
  <2>2. CASE ~c.ctx
    BY <1>0, <1>a, <1>4, <2>2, SizesAssumption
    DEF SendGoes, OneRequest, Flushed, UpNumbers, chunk, Shorter, effectiveChunk
  <2> QED BY <2>1, <2>2
<1>5. CASE SendAnswered
  BY <1>0, <1>a, <1>5, SizesAssumption
  DEF SendAnswered, sendFails, OneRequest, Flushed, UpNumbers, chunk, Shorter, effectiveChunk,
      afterError, Unspoilt
<1>6. CASE SendBreaks
  BY <1>0, <1>6 DEF SendBreaks, sendFails, OneRequest, Flushed, afterError, Unspoilt
<1>7. CASE \E f \in u.requests : SendServed(f)
  <2>0. PICK f \in u.requests : SendServed(f)
    BY <1>7
  <2>1. /\ u'.pc = u.pc /\ u'.taken = u.taken /\ u'.sent = u.sent
        /\ u'.requests = u.requests \ {f}
    BY <2>0 DEF SendServed, answered, upGot
  <2>2. CASE session = "closed"
    <3>1. u'.hole = u.hole
      BY Zenon, <2>0, <2>2 DEF SendServed, answered
    <3> QED BY <1>0, <2>2, <3>1
  <2>3. CASE session = "open" /\ size(f) > MaxSendBytes
    <3>1. u'.hole = u.hole /\ session' = "closed"
      BY Zenon, <2>0, <2>3 DEF SendServed, answered
    <3> QED BY <1>0, <3>1
  <2>4. CASE session = "open" /\ ~(size(f) > MaxSendBytes)
    <3>1. session' = "open" /\ OneRequest
      BY <1>0, <2>0, <2>4 DEF SendServed, BatchOrder
    <3>2. f[1] = u.got + 1 /\ u.requests = {f}
      BY <3>1 DEF OneRequest
    <3>3. u'.got = f[2] /\ ~u'.hole
      BY <1>0, <2>0, <2>4, <3>2 DEF SendServed, answered, upGot
    <3>4. u.pc = "wait" /\ f = chunk => u'.answer = "ok"
      BY <2>0, <2>4 DEF SendServed, answered, upGot
    <3> QED BY <1>0, <2>1, <3>1, <3>2, <3>3, <3>4 DEF OneRequest, Flushed, chunk
  <2> QED BY <2>2, <2>3, <2>4 DEF Flags
<1>8. CASE UpJudges
  BY <1>0, <1>8 DEF UpJudges, judged, verdict, CFields, OneRequest, Unspoilt, Flushed
<1>9. CASE UpCloses
  BY <1>0, <1>9 DEF UpCloses, Flags, OneRequest, Unspoilt, pipesAfter, CFields
<1>10. CASE u' = u
  BY <1>0, <1>10 DEF OneRequest, Flushed, chunk
<1> QED
  BY <1>1, <1>2, <1>3, <1>4, <1>5, <1>6, <1>7, <1>8, <1>9, <1>10, BatchSteps DEF FlushStep

-----------------------------------------------------------------------------
(* The frames of a leg, or of a WebSocket, follow on from each other and   *)
(* from what the server's application has; frameEnd is the last.           *)

Chain ==
    \A i \in 1 .. Len(u.body) :
        /\ u.body[i] = end => i = Len(u.body)
        /\ u.body[i] # end =>
              /\ u.body[i][1] <= u.body[i][2]
              /\ u.body[i][1] = (IF i = 1 THEN u.got ELSE u.body[i - 1][2]) + 1

\* What the feeder has taken from the pipe is in the chain, or has arrived.
Fed ==
    /\ u.pc \in {"feed", "rolling"} =>
          /\ \A i \in 1 .. Len(u.body) : u.body[i] # end
          /\ u.body = <<>> => u.got = u.taken
          /\ u.body # <<>> => u.body[Len(u.body)][2] = u.taken
    /\ u.pc = "rolled" =>
          /\ u.body = <<>> => u.got = u.taken
          /\ u.body # <<>> =>
                /\ u.body[Len(u.body)] = end
                /\ Len(u.body) = 1 => u.got = u.taken
                /\ Len(u.body) > 1 => u.body[Len(u.body) - 1][2] = u.taken
    /\ u.pc = "top" => u.body = <<>> /\ u.got = u.taken

StreamOrder ==
    mode.up # "batch" /\ Unspoilt =>
        /\ ~u.hole
        /\ session = "open" => Chain /\ Fed

\* A new connection has nothing on its way.
LEMMA InitStreamOrder == Init => StreamOrder
<1> SUFFICES ASSUME Init PROVE ~u.hole /\ Chain /\ Fed
  BY DEF StreamOrder
<1>1. ~u.hole /\ u.body = <<>> /\ u.got = 0 /\ u.taken = 0
  BY DEF Init, freshUp, noUp
<1> QED
  BY <1>1 DEF Chain, Fed

\* The feeder adds a frame.
LEMMA FeedsChain ==
    ASSUME UpNumbers, Chain, Fed, u.pc = "feed", NEW to \in Nat, u.taken < to,
           u'.taken = to, u'.body = Append(u.body, <<u.taken + 1, to>>), u'.got = u.got,
           u'.pc \in {"feed", "rolling"}
    PROVE  Chain' /\ Fed'
<1>1. /\ Len(u'.body) = Len(u.body) + 1
      /\ \A i \in 1 .. Len(u.body) : u'.body[i] = u.body[i]
      /\ u'.body[Len(u.body) + 1] = <<u.taken + 1, to>>
      /\ Len(u.body) \in Nat
      /\ u.body = <<>> <=> Len(u.body) = 0
  BY DEF UpNumbers
<1>2. <<u.taken + 1, to>> # end
  BY DEF UpNumbers, end
<1>3. Chain'
  <2> SUFFICES ASSUME NEW i \in 1 .. Len(u'.body)
               PROVE  /\ u'.body[i] = end => i = Len(u'.body)
                      /\ u'.body[i] # end =>
                            /\ u'.body[i][1] <= u'.body[i][2]
                            /\ u'.body[i][1] = (IF i = 1 THEN u'.got ELSE u'.body[i - 1][2]) + 1
    BY DEF Chain
  <2>1. CASE i \in 1 .. Len(u.body)
    BY <1>1, <2>1 DEF Chain, Fed
  <2>2. CASE i = Len(u.body) + 1
    <3>1. u'.body[i] = <<u.taken + 1, to>>
      BY <1>1, <2>2
    <3>2. u'.body[i][1] = u.taken + 1 /\ u'.body[i][2] = to
      BY <3>1
    <3>3. (IF i = 1 THEN u'.got ELSE u'.body[i - 1][2]) = u.taken
      BY <1>1, <2>2 DEF Fed
    <3> QED BY <1>1, <2>2, <3>1, <3>2, <3>3 DEF UpNumbers
  <2> QED BY <1>1, <2>1, <2>2
<1>4. Fed'
  <2>1. u'.body # <<>> /\ u'.body[Len(u'.body)][2] = u'.taken
    BY <1>1
  <2>2. \A i \in 1 .. Len(u'.body) : u'.body[i] # end
    BY <1>1, <1>2 DEF Fed
  <2> QED BY <2>1, <2>2 DEF Fed
<1> QED
  BY <1>3, <1>4

\* The feeder adds frameEnd.
LEMMA RollsChain ==
    ASSUME UpNumbers, Chain, Fed, u.pc \in {"feed", "rolling"},
           u'.taken = u.taken, u'.body = Append(u.body, end), u'.got = u.got, u'.pc = "rolled"
    PROVE  Chain' /\ Fed'
<1>1. /\ Len(u'.body) = Len(u.body) + 1
      /\ \A i \in 1 .. Len(u.body) : u'.body[i] = u.body[i]
      /\ u'.body[Len(u.body) + 1] = end
      /\ Len(u.body) \in Nat
      /\ u.body = <<>> <=> Len(u.body) = 0
  BY DEF UpNumbers, end, Frames
<1>2. Chain'
  BY <1>1 DEF Chain, Fed
<1>3. Fed'
  BY <1>1 DEF Fed
<1> QED
  BY <1>2, <1>3

\* The server takes the first frame.
LEMMA ReadsChain ==
    ASSUME UpNumbers, Chain, Fed, u.body # <<>>, Head(u.body) # end,
           u'.taken = u.taken, u'.body = Tail(u.body), u'.got = Head(u.body)[2], u'.pc = u.pc
    PROVE  Chain' /\ Fed' /\ Head(u.body)[1] = u.got + 1
<1>0. /\ Len(u.body) \in Nat /\ Len(u.body) > 0
      /\ Head(u.body) = u.body[1]
      /\ u'.body \in Seq(Frames)
      /\ Len(u'.body) = Len(u.body) - 1
      /\ \A i \in 1 .. Len(u'.body) : u'.body[i] = u.body[i + 1]
  BY DEF UpNumbers
<1>1. u'.body = <<>> <=> Len(u.body) = 1
  <2>1. ASSUME NEW q \in Seq(Frames) PROVE q = <<>> <=> Len(q) = 0
    OBVIOUS
  <2>2. u'.body = <<>> <=> Len(u'.body) = 0
    BY Zenon, <1>0, <2>1
  <2> QED BY <1>0, <2>2
<1>2. Chain'
  BY <1>0, <1>1 DEF Chain
<1>3. Fed'
  BY <1>0, <1>1 DEF Fed
<1> QED
  BY <1>0, <1>1, <1>2, <1>3 DEF Chain

\* sendLoopStream, feedSendStream, pollSendStream, writeLoop and wsReadPump keep the
\* order.
LEMMA NextStreamOrder ==
    ASSUME Records, Flags, Up, StreamOrder, Next
    PROVE  StreamOrder'
<1> SUFFICES ASSUME mode.up # "batch", Unspoilt'
             PROVE  /\ ~u'.hole
                    /\ session' = "open" => Chain' /\ Fed'
  BY Touches DEF StreamOrder
<1>0. /\ Unspoilt /\ ~u.hole
      /\ session' = "open" => session = "open"
      /\ session = "open" => Chain /\ Fed
  BY OnlyWorse DEF StreamOrder
<1>a. UpNumbers /\ StreamShape
  BY DEF Up
<1> USE DEF Records, UFields
<1>1. CASE WriteBegins \/ (\E n \in 1 .. MaxBytes : WriteQueues(n)) \/ DownBreaks \/ PollGone
  <2>1. /\ u'.got = u.got /\ u'.taken = u.taken /\ u'.body = u.body /\ u'.pc = u.pc
        /\ u'.hole = u.hole
    BY <1>1 DEF WriteBegins, WriteQueues, DownBreaks, PollGone
  <2> QED BY <1>0, <2>1 DEF Chain, Fed
<1>2. CASE LegOpens
  <2>1. u'.hole = u.hole /\ u'.got = u.got /\ u'.taken = u.taken /\ u'.pc \in {"end", "feed"}
    BY <1>2 DEF LegOpens
  <2>2. u'.body \in {u.body, <<>>}
    BY <1>2 DEF LegOpens
  <2> QED BY <1>0, <1>2, <2>1, <2>2 DEF Chain, Fed, LegOpens
<1>3. CASE LegFeeds
  <2>1. PICK to \in Nat : /\ u.taken < to /\ u'.taken = to
                         /\ u'.body = Append(u.body, <<u.taken + 1, to>>)
                         /\ u'.got = u.got /\ u'.pc \in {"feed", "rolling"} /\ u'.hole = u.hole
                         /\ u.pc = "feed"
    BY <1>a, <1>3, SizesAssumption DEF UpNumbers, LegFeeds, Shorter
  <2> QED BY <1>0, <1>a, <2>1, FeedsChain
<1>4. CASE LegRollsOver
  <2>1. /\ u.pc \in {"feed", "rolling"} /\ u'.taken = u.taken /\ u'.body = Append(u.body, end)
        /\ u'.got = u.got /\ u'.pc = "rolled" /\ u'.hole = u.hole
    BY <1>4 DEF LegRollsOver
  <2> QED BY <1>0, <1>a, <2>1, RollsChain
<1>5. CASE LegEOF
  BY <1>0, <1>5 DEF LegEOF, Chain, Fed
<1>6. CASE LegBegins \/ LegLeft
  <2>1. /\ u'.got = u.got /\ u'.taken = u.taken /\ u'.body = u.body /\ u'.pc = u.pc
        /\ u'.hole = u.hole
    BY Zenon, <1>6 DEF LegBegins, LegLeft
  <2> QED BY <1>0, <2>1 DEF Chain, Fed
<1>7. CASE LegAnswered
  <2>1. /\ u'.body = <<>> /\ u'.got = u.got /\ u'.taken = u.taken /\ u'.hole = u.hole
        /\ u'.pc \in {"top", "end", "judge"}
    BY <1>7 DEF LegAnswered, afterError
  <2>2. u'.pc = "top" => u.pc = "rolled" /\ u.body = <<>>
    BY Zenon, <1>7 DEF LegAnswered, afterError, Unspoilt
  <2> QED BY <1>0, <2>1, <2>2 DEF Chain, Fed
<1>8. CASE LegBreaks
  <2>1. /\ u'.got = u.got /\ u'.body = <<>> /\ u'.pc \in {"end", "judge"} /\ u'.hole = u.hole
    BY <1>8 DEF LegBreaks, afterError
  <2> QED BY <1>0, <2>1 DEF Chain, Fed
<1>9. CASE LegReads
  <2>1. /\ u'.taken = u.taken /\ u'.pc = u.pc /\ session' = session
        /\ u.body # <<>> /\ u'.body = Tail(u.body)
    BY Zenon, <1>9 DEF LegReads, upGot
  <2>2. CASE Head(u.body) = end
    <3>1. u'.got = u.got /\ u'.hole = u.hole
      BY Zenon, <1>9, <2>2 DEF LegReads
    <3>2. ASSUME session = "open" PROVE Chain' /\ Fed'
      <4>0. Len(u.body) = 1
        <5>1. 1 \in 1 .. Len(u.body) /\ u.body[1] = end
          BY <1>a, <2>1, <2>2 DEF UpNumbers
        <5> QED BY Zenon, <1>0, <3>2, <5>1 DEF Chain
      <4>1. Len(u.body) = 1 /\ u'.body = <<>>
        <5>1. Tail(u.body) \in Seq(Frames) /\ Len(Tail(u.body)) = 0
          BY <1>a, <2>1, <4>0 DEF UpNumbers
        <5>2. ASSUME NEW q \in Seq(Frames), Len(q) = 0 PROVE q = <<>>
          BY <5>2
        <5> QED BY <2>1, <4>0, <5>1, <5>2
      <4>2. u.pc \notin {"feed", "rolling", "top"} /\ (u.pc = "rolled" => u.got = u.taken)
        BY <1>0, <1>a, <2>1, <2>2, <3>2, <4>1 DEF Fed, UpNumbers
      <4> QED BY <2>1, <3>1, <4>1, <4>2 DEF Chain, Fed
    <3> QED BY <1>0, <3>1, <3>2
  <2>3. CASE Head(u.body) # end /\ session = "open"
    <3>1. Head(u.body)[1] = u.got + 1
      BY <1>0, <1>a, <2>1, <2>3 DEF Chain, UpNumbers
    <3>2. u'.got = Head(u.body)[2] /\ ~u'.hole
      BY Zenon, <1>0, <1>9, <2>3, <3>1 DEF LegReads, upGot
    <3> QED BY <1>0, <1>a, <2>1, <2>3, <3>2, ReadsChain
  <2>4. CASE Head(u.body) # end /\ session # "open"
    <3>1. u'.hole = u.hole
      BY Zenon, <1>9, <2>4 DEF LegReads
    <3> QED BY <1>0, <2>4, <3>1
  <2> QED BY <2>2, <2>3, <2>4
<1>10. CASE UpJudges \/ UpCloses
  BY <1>0, <1>10 DEF UpJudges, UpCloses, verdict, Chain, Fed
<1>11. CASE u' = u
  BY <1>0, <1>11 DEF Chain, Fed
<1> QED
  BY <1>1, <1>2, <1>3, <1>4, <1>5, <1>6, <1>7, <1>8, <1>9, <1>10, <1>11, StreamSteps DEF LegStep

-----------------------------------------------------------------------------
(* The theorems.                                                           *)

IInv == Records /\ Down /\ Flags /\ Booleans /\ Up /\ BatchOrder /\ StreamOrder

\* The inductive invariant: what has left one side's buffer is at the other side, on
\* its way right behind it, or the loop that carried it has ended with a verdict.
THEOREM Invariant == Spec => []IInv
<1>1. Init => IInv
  BY InitRecords, InitDown, InitFlags, InitBooleans, InitUp, InitBatchOrder, InitStreamOrder
  DEF IInv
<1>2. IInv /\ [Next]_vars => IInv'
  <2> SUFFICES ASSUME IInv, [Next]_vars PROVE IInv'
    OBVIOUS
  <2>1. CASE Next
    BY Zenon, <2>1, NextRecords, NextDown, NextFlags, NextBooleans, NextUp, NextBatchOrder,
       NextStreamOrder
    DEF IInv
  <2>2. CASE UNCHANGED vars
    <3>0. mode' = mode /\ c' = c /\ d' = d /\ u' = u /\ session' = session /\ active' = active
      BY <2>2 DEF vars
    <3>1. Records' /\ Down'
      BY <3>0 DEF IInv, Records, Down, DownNumbers, InFront
    <3>2. Flags'
      BY <3>0 DEF IInv, Flags
    <3>3. Booleans'
      BY Zenon, <3>0 DEF IInv, Booleans
    <3>4. Up'
      BY <3>0 DEF IInv, Up, UpNumbers, BatchShape, StreamShape
    <3>5. BatchOrder'
      BY <3>0 DEF IInv, BatchOrder, Unspoilt, OneRequest, Flushed, chunk
    <3>6. StreamOrder'
      BY <3>0 DEF IInv, StreamOrder, Unspoilt, Chain, Fed
    <3> QED BY <3>1, <3>2, <3>3, <3>4, <3>5, <3>6 DEF IInv
  <2> QED BY <2>1, <2>2
<1> QED
  BY <1>1, <1>2, PTL DEF Spec

\* pollLoop, pollLoopStream and readLoop hand the application a prefix of what the
\* server wrote, whatever the sizes of the buffers and wherever a response is lost.
THEOREM DownloadIsIntact == Spec => []DownIntact
<1>1. IInv => DownIntact
  BY DEF IInv, Down, DownIntact
<1> QED
  BY <1>1, Invariant, PTL

\* flushLoop, sendLoopStream and writeLoop leave no hole in the upload that the
\* connection's owner does not know of, but for a leg the server left in the middle.
THEOREM HolesAreTold == Spec => []NoSilentHole
<1>1. IInv => NoSilentHole
  BY DEF IInv, BatchOrder, StreamOrder, Unspoilt, NoSilentHole
<1> QED
  BY <1>1, Invariant, PTL

\* Close: no request, leg or poll begins when the loops have been waited for, though
\* a Write may still start a flushLoop.
THEOREM NothingIsSentAfterClose == Spec => NothingAfterClose
<1>1. ASSUME IInv, Next, c.closer \in {"delete", "done"}
      PROVE  /\ u'.requests \subseteq u.requests
             /\ u'.leg = "sent" => u.leg = "sent"
             /\ d'.poll = "sent" => d.poll = "sent"
  <2>1. c.ctx /\ d.pc = "end" /\ u.pc \in {"none", "coalesce", "take", "send", "clear", "end"}
    BY <1>1 DEF IInv, Flags
  <2>2. d'.poll = "sent" => d.poll = "sent"
    BY <1>1, <2>1, Touches
    DEF IInv, Records, DFields, DownStep, DownPolls, DownData, DownAnswered, DownBreaks,
        DownJudges, DownCloses, ServerWrites, PollBegins, PollReads, PollEnds, PollGone, LegReads,
        LegLeft, LegBreaks, pollAfter, hangUp
  <2>3. CASE WriteStep \/ FlushStep
    BY <1>1, <2>1, <2>2, <2>3
    DEF IInv, Records, UFields, WriteStep, FlushStep, WriteBegins, WriteQueues, WriteStarts,
        FlushWaits, FlushTakes, SendGoes, SendAnswered, SendBreaks, FlushClears, clearFlight,
        sendFails
  <2>4. CASE LegStep
    BY <1>1, <2>1, <2>2, <2>4
    DEF IInv, Records, UFields, LegStep, LegOpens, LegFeeds, LegRollsOver, LegEOF, LegAnswered,
        LegBreaks, LegBegins, LegReads, LegLeft, feeding, upGot
  <2>5. CASE \E f \in u.requests : SendServed(f)
    BY <1>1, <2>2, <2>5 DEF IInv, Records, UFields, SendServed, answered, upGot
  <2>6. CASE UpJudges \/ UpCloses \/ DownBreaks \/ PollGone \/ u' = u
    BY <1>1, <2>1, <2>2, <2>6 DEF IInv, Records, UFields, UpJudges, UpCloses, DownBreaks, PollGone
  <2> QED BY <1>1, <2>3, <2>4, <2>5, <2>6, Touches DEF UpStep
<1>2. IInv /\ [Next]_vars => [c.closer \in {"delete", "done"} =>
                                 /\ u'.requests \subseteq u.requests
                                 /\ u'.leg = "sent" => u.leg = "sent"
                                 /\ d'.poll = "sent" => d.poll = "sent"]_vars
  BY <1>1
<1> QED
  BY <1>2, Invariant, PTL DEF Spec, NothingAfterClose

\* httpConn and wsConn are connections as the interface Conn promises: the verdict
\* comes before the reader is released, none is given once Close has waited for the
\* loops, and a session is superseded only when another is active.
THEOREM PlainConnIsConn == Spec => C!Behaviour
<1>1. IInv /\ [Next]_vars => [C!Steps]_(C!iface)
  <2> SUFFICES ASSUME IInv, [Next]_vars PROVE [C!Steps]_(C!iface)
    OBVIOUS
  <2>1. CASE Next
    BY Zenon, <2>1, NextConn DEF IInv
  <2>2. CASE UNCHANGED vars
    BY Zenon, <2>2 DEF vars, C!iface
  <2> QED BY <2>1, <2>2
<1> QED
  BY <1>1, InitConn, Invariant, PTL DEF Spec, C!Behaviour

-----------------------------------------------------------------------------
(* Nothing is stranded.                                                    *)

\* What is shut, is shut by a verdict or by Close, and whoever left has said so.
Spoken ==
    /\ c.ctx \/ c.writeClosed => c.superseded \/ c.closed
    /\ c.readClosed => told
    /\ d.pc = "end" => told
    /\ u.pc \in {"clear", "end"} => told

\* The flag of a batch upload is up while there is a flushLoop, or one about to be
\* started, and bytes in writeBuf need it.
Flushing ==
    mode.up = "batch" /\ ~told =>
        /\ u.flight => u.pc # "none" \/ u.writer = "start"
        /\ ~u.flight => u.taken = u.written

\* Bytes that Write accepted and the server's application does not have are carried
\* by a goroutine that is still running or about to start, unless the owner has been
\* told, the server left a leg, or its session is closed; and the download's loop
\* does not leave before the owner has been told.
NothingStranded ==
    /\ u.got < u.written =>
          \/ told \/ u.abandoned \/ session = "closed"
          \/ u.writer = "start" \/ u.pc \notin {"none", "end"}
    /\ d.pc = "end" => told

\* connect and connectWebSocket.
LEMMA InitSpoken == Init => Spoken /\ Flushing
<1> SUFFICES ASSUME Init PROVE Spoken /\ Flushing
  OBVIOUS
<1>1. ~c.ctx /\ ~c.writeClosed /\ ~c.readClosed
  BY Zenon DEF Init, noConn
<1>2. d.pc \in {"top", "wait"} /\ u.pc \in {"none", "top", "feed"}
  BY DEF Init, freshDown, freshUp, noDown, noUp
<1>3. ~u.flight /\ u.taken = u.written
  BY DEF Init, freshUp, noUp
<1> QED
  BY Zenon, <1>1, <1>2, <1>3 DEF Spoken, Flushing

\* What has been said stays said, and what is shut is shut with a reason.
LEMMA NextTold ==
    ASSUME Records, Flags, Spoken, Next
    PROVE  /\ told => told'
           /\ c'.ctx \/ c'.writeClosed => c'.superseded \/ c'.closed
           /\ c'.readClosed => told'
<1> USE DEF Records, CFields, told, Spoken
<1>1. CASE DownJudges \/ UpJudges
  BY Zenon, <1>1 DEF DownJudges, UpJudges, judged
<1>2. CASE DownCloses
  BY Zenon, <1>2 DEF DownCloses, pipesAfter, Flags
<1>3. CASE UpCloses
  BY Zenon, <1>3 DEF UpCloses, pipesAfter, Flags
<1>4. CASE CloseBegins \/ CloseCancels \/ CloseWaits \/ CloseDeletes
  BY Zenon, <1>4 DEF CloseBegins, CloseCancels, CloseWaits, CloseDeletes, Flags
<1>5. CASE AdoptsThis \/ AdoptsNewer
  BY Zenon, <1>5 DEF AdoptsThis, AdoptsNewer
<1>6. CASE c' = c
  BY Zenon, <1>6
<1> QED
  BY Zenon, <1>1, <1>2, <1>3, <1>4, <1>5, <1>6, Touches DEF FlagStep

\* A loop leaves when the owner knows.
LEMMA NextSpoken ==
    ASSUME Records, Flags, Up, Spoken, Next
    PROVE  Spoken'
<1>0. /\ told => told'
      /\ c'.ctx \/ c'.writeClosed => c'.superseded \/ c'.closed
      /\ c'.readClosed => told'
  BY Zenon, NextTold
<1>1. afterError = "end" => told
  BY Zenon DEF afterError, Spoken, told
<1>2. d'.pc = "end" => told'
  <2>0. d.pc \in {"failing", "superseding"} => told
    BY Zenon DEF Flags, told
  <2>1. d'.pc = "end" => told
    <3> USE DEF Records, DFields
    <3>1. CASE DownPolls
      BY Zenon, <3>1 DEF DownPolls, Spoken, told
    <3>2. CASE DownData
      <4>1. d'.pc = "end" => c.readClosed \/ afterError = "end"
        BY <3>2 DEF DownData, downGot
      <4> QED BY Zenon, <1>1, <4>1 DEF Spoken
    <3>3. CASE DownAnswered \/ DownBreaks
      <4>1. d'.pc = "end" => afterError = "end"
        BY Zenon, <3>3 DEF DownAnswered, DownBreaks
      <4> QED BY Zenon, <1>1, <4>1
    <3>4. CASE DownJudges
      BY <3>4 DEF DownJudges, verdict
    <3>5. CASE DownCloses
      BY Zenon, <2>0, <3>5 DEF DownCloses
    <3>6. CASE \/ ServerWrites \/ PollBegins \/ PollReads \/ PollEnds \/ PollGone \/ LegReads
               \/ LegLeft \/ LegBreaks
      <4>1. d'.pc = d.pc
        BY Zenon, <3>6 DEF ServerWrites, PollBegins, PollReads, PollEnds, PollGone, LegReads, LegLeft,
              LegBreaks, hangUp
      <4> QED BY Zenon, <4>1 DEF Spoken
    <3>7. CASE d' = d
      BY Zenon, <3>7 DEF Spoken
    <3> QED
      BY Zenon, <3>1, <3>2, <3>3, <3>4, <3>5, <3>6, <3>7, Touches DEF DownStep
  <2> QED BY Zenon, <1>0, <2>1
<1>3. u'.pc \in {"clear", "end"} => told'
  <2>0. u.pc \in {"failing", "superseding"} => told
    BY Zenon DEF Flags, told
  <2>1. u'.pc \in {"clear", "end"} => told
    <3> USE DEF Records, UFields
    <3>1. CASE WriteStep \/ FlushWaits \/ FlushTakes \/ FlushClears
      <4>1. u'.pc \in {"clear", "end"} => u.pc = u'.pc
        BY Zenon, <3>1 DEF WriteStep, WriteBegins, WriteQueues, WriteStarts, FlushWaits, FlushTakes,
              FlushClears, clearFlight
      <4> QED BY Zenon, <4>1 DEF Spoken
    <3>2. CASE SendGoes \/ SendAnswered \/ SendBreaks
      <4>1. u'.pc \in {"clear", "end"} => afterError = "end"
        BY Zenon, <3>2 DEF SendGoes, SendAnswered, SendBreaks, sendFails
      <4> QED BY Zenon, <1>1, <4>1
    <3>3. CASE LegOpens
      <4>1. u'.pc \in {"clear", "end"} => c.ctx
        BY <3>3 DEF LegOpens
      <4> QED BY Zenon, <4>1 DEF Spoken, told
    <3>4. CASE LegEOF
      BY Zenon, <3>4 DEF LegEOF, Spoken, told
    <3>5. CASE LegAnswered \/ LegBreaks
      <4>1. u'.pc \in {"clear", "end"} => afterError = "end"
        BY Zenon, <3>5 DEF LegAnswered, LegBreaks, afterError
      <4> QED BY Zenon, <1>1, <4>1
    <3>6. CASE LegFeeds \/ LegRollsOver \/ UpJudges
      <4>1. u'.pc \notin {"clear", "end"}
        BY Zenon, <3>6 DEF LegFeeds, LegRollsOver, UpJudges, verdict
      <4> QED BY Zenon, <4>1
    <3>7. CASE UpCloses
      BY Zenon, <2>0, <3>7 DEF UpCloses
    <3>8. CASE LegBegins \/ LegReads \/ LegLeft \/ DownBreaks \/ PollGone \/ u' = u
      <4>1. u'.pc = u.pc
        BY Zenon, <3>8 DEF LegBegins, LegReads, LegLeft, DownBreaks, PollGone, upGot
      <4> QED BY Zenon, <4>1 DEF Spoken
    <3>9. CASE \E f \in u.requests : SendServed(f)
      <4>0. PICK f \in u.requests : SendServed(f)
        BY Zenon, <3>9
      <4>1. u'.pc = u.pc
        BY Zenon, <4>0 DEF SendServed, answered, upGot
      <4> QED BY Zenon, <4>1 DEF Spoken
    <3> QED
      BY Zenon, <3>1, <3>2, <3>3, <3>4, <3>5, <3>6, <3>7, <3>8, <3>9, Touches
      DEF UpStep, FlushStep, LegStep
  <2> QED BY Zenon, <1>0, <2>1
<1> QED
  BY Zenon, <1>0, <1>2, <1>3 DEF Spoken

\* Write raises the flag in one critical section with its bytes, and flushLoop lowers
\* it in one with its last look at them.
LEMMA NextFlushing ==
    ASSUME Records, Flags, Up, Spoken, Flushing, Next
    PROVE  Flushing'
<1> SUFFICES ASSUME mode.up = "batch", ~told'
             PROVE  /\ u'.flight => u'.pc # "none" \/ u'.writer = "start"
                    /\ ~u'.flight => u'.taken = u'.written
  BY Zenon, Touches DEF Flushing
<1>0. /\ ~told /\ ~c.ctx
      /\ u.flight => u.pc # "none" \/ u.writer = "start"
      /\ ~u.flight => u.taken = u.written
  BY Zenon, NextTold DEF Flushing, Spoken, told
<1>a. UpNumbers /\ BatchShape
  BY Zenon DEF Up
<1> USE DEF Records, UFields
<1>1. CASE WriteStep
  <2>1. CASE WriteBegins
    BY <1>0, <2>1 DEF WriteBegins
  <2>2. CASE \E n \in 1 .. MaxBytes : WriteQueues(n)
    <3>1. /\ u'.flight /\ u'.pc = u.pc /\ u.writer = "passed"
          /\ u'.writer = IF u.flight THEN "idle" ELSE "start"
      BY Zenon, <2>2 DEF WriteQueues
    <3> QED BY Zenon, <1>0, <3>1
  <2>3. CASE WriteStarts
    BY <1>0, <1>a, <2>3 DEF WriteStarts, BatchShape
  <2> QED BY Zenon, <1>1, <2>1, <2>2, <2>3 DEF WriteStep
<1>2. CASE FlushWaits
  BY <1>0, <1>a, <1>2 DEF FlushWaits, BatchShape
<1>3. CASE FlushTakes
  BY <1>0, <1>a, <1>3 DEF FlushTakes, clearFlight, BatchShape
<1>4. CASE SendGoes \/ SendAnswered \/ SendBreaks
  <2>1. u.flight BY Zenon, <1>a, <1>4 DEF BatchShape, SendGoes, SendAnswered, SendBreaks
  <2>2. u'.flight = u.flight /\ u'.pc # "none"
    BY Zenon, <1>4 DEF SendGoes, SendAnswered, SendBreaks, sendFails
  <2> QED BY Zenon, <2>1, <2>2
<1>5. CASE FlushClears
  BY Zenon, <1>0, <1>5 DEF FlushClears, Spoken
<1>6. CASE \E f \in u.requests : SendServed(f)
  <2>0. PICK f \in u.requests : SendServed(f)
    BY Zenon, <1>6
  <2>1. /\ u'.pc = u.pc /\ u'.flight = u.flight /\ u'.writer = u.writer
        /\ u'.taken = u.taken /\ u'.written = u.written
    BY Zenon, <2>0 DEF SendServed, answered, upGot
  <2> QED BY Zenon, <1>0, <2>1
<1>7. CASE UpJudges \/ UpCloses
  <2>1. u.flight BY Zenon, <1>a, <1>7 DEF BatchShape, UpJudges, UpCloses
  <2>2. u'.flight = u.flight /\ u'.pc # "none"
    BY <1>7 DEF UpJudges, UpCloses, verdict
  <2> QED BY Zenon, <2>1, <2>2
<1>8. CASE u' = u
  BY Zenon, <1>0, <1>8
<1> QED
  BY Zenon, <1>1, <1>2, <1>3, <1>4, <1>5, <1>6, <1>7, <1>8, BatchSteps DEF FlushStep

\* What UpDelivered and DownDelivered promise, short of the scheduling: there is
\* always a goroutine left to carry the bytes or to tell the owner.  In particular a
\* Write that finds a flushLoop about to end is not forgotten.
THEOREM AlwaysCarried == Spec => []NothingStranded
<1> DEFINE I == Spoken /\ Flushing
<1>1. Init => I
  BY Zenon, InitSpoken
<1>2. IInv /\ I /\ [Next]_vars => I'
  <2> SUFFICES ASSUME IInv, I, [Next]_vars PROVE I'
    OBVIOUS
  <2>1. CASE Next
    BY Zenon, <2>1, NextSpoken, NextFlushing DEF IInv
  <2>2. CASE UNCHANGED vars
    <3>1. mode' = mode /\ c' = c /\ d' = d /\ u' = u
      BY Zenon, <2>2 DEF vars
    <3> QED BY Zenon, <3>1 DEF Spoken, Flushing, told
  <2> QED BY Zenon, <2>1, <2>2
<1>3. IInv /\ I => NothingStranded
  <2> SUFFICES ASSUME IInv, I, ~told, ~u.abandoned, session # "closed", u.writer # "start",
                      u.pc \in {"none", "end"}
               PROVE  ~(u.got < u.written)
    BY Zenon DEF NothingStranded, Spoken
  <2>1. session = "open" /\ ~c.ctx /\ Unspoilt
    BY Zenon DEF IInv, Flags, Spoken, Unspoilt, told
  <2>2. mode.up = "batch" /\ u.pc = "none"
    BY Zenon DEF IInv, Up, StreamShape, StreamPlaces, Spoken
  <2>3. u.got = u.taken
    BY Zenon, <2>1, <2>2 DEF IInv, BatchOrder, Flushed
  <2>4. u.taken = u.written
    BY Zenon, <2>2 DEF Flushing
  <2>5. u.written \in Nat
    BY Zenon DEF IInv, Up, UpNumbers
  <2> QED BY <2>3, <2>4, <2>5
<1> QED
  BY <1>1, <1>2, <1>3, Invariant, PTL DEF Spec
=============================================================================
