---------------------------- MODULE Attachments ----------------------------
(***************************************************************************)
(* One transport per direction on a resumable session (resume_server.go),  *)
(* with the loops of the handlers that take the directions: stream polls,  *)
(* send streams, batch requests, WebSockets, and resume handshakes.  Every *)
(* handler is one request, a goroutine of its own.                         *)
(*                                                                         *)
(* Of the bytes only what moves a handler is kept: whether an ack is due,  *)
(* and the out pipe's pending interrupt.  Data, heartbeats, network errors *)
(* and the end of the session may come at any time.  There is no clock: a  *)
(* timeout may fire whenever its timer runs.                               *)
(***************************************************************************)
EXTENDS Naturals, Sequences, FiniteSets

CONSTANTS
    Handlers,  \* requests
    None,      \* nil
    Sessions   \* the kinds of requests a session may see: functions on Handlers

Kinds == {"poll", "sendStream", "batchDown", "batchUp", "ws", "resume"}

ASSUME SessionsAssumption == Sessions \subseteq [Handlers -> Kinds]
ASSUME NoneAssumption == None \notin Handlers

\* A session negotiated for WebSocket transport takes no poll and no send, and
\* another session takes no WebSocket.
ASSUME TransportAssumption ==
    \A k \in Sessions : \A g, h \in Handlers :
        k[g] = "ws" => k[h] \in {"ws", "resume"}

Directions == {"down", "up"}

\* The directions attach claims for a kind of handler, in order.
directions ==
    [k \in Kinds |->
        CASE k \in {"poll", "batchDown"} -> <<"down">>
          [] k \in {"sendStream", "batchUp"} -> <<"up">>
          [] k = "ws" -> <<"down", "up">>
          [] k = "resume" -> <<>>]

\* Variant: a stream poll's kick only interrupts the pipe.
kickEffectNoDeadline ==
    [k \in Kinds |->
        CASE k = "sendStream" -> {"read"}
          [] k \in {"batchDown", "batchUp"} -> {"ctx", "after", "read", "write"}
          [] k = "ws" -> {"ctx"}
          [] k \in {"poll", "resume"} -> {}]

\* What a kick does besides interrupting the pipe: the deadlines it moves into
\* the past and the context it cancels, which starts a batch request's AfterFunc.
kickEffect ==
    [k \in Kinds |->
        CASE k = "poll" -> {"write"}
          [] k = "sendStream" -> {"read"}
          [] k \in {"batchDown", "batchUp"} -> {"ctx", "after", "read", "write"}
          [] k = "ws" -> {"ctx"}
          [] k = "resume" -> {}]

interrupts(k) == k # "sendStream"

VARIABLES
    kind,      \* kind[h]: what h is
    slot,      \* attachments.down and .up: the owner of each direction
    resuming,  \* attachments.resuming
    pc,        \* pc[h]: where h is
    todo,      \* todo[h]: directions still to claim, or owners still to kick
    old,       \* old[h]: the owner h is kicking or waiting out
    done,      \* the attachments whose done channel is closed
    dead,      \* dead[h]: the parts of a kick in force on h
    kicked,    \* history: the attachments whose kick has returned
    intr,      \* the out pipe's pending interrupt
    received,  \* recvOffset # 0
    ackDue,    \* recvOffset # lastAck
    pumps,     \* pumps[h]: a WebSocket's pumps still running
    busy       \* WebSockets whose write pump is inside a write

vars == <<kind, slot, resuming, pc, todo, old, done, dead, kicked, intr,
          received, ackDue, pumps, busy>>
ring == <<slot, resuming, todo, old, done>>
pipe == <<intr, received, ackDue>>
wsvars == <<pumps, busy>>

\* The types of the state; attach and kickAll never keep a nil owner to kick.
TypeOK ==
    /\ kind \in Sessions
    /\ slot \in [Directions -> Handlers \cup {None}]
    /\ resuming \in BOOLEAN
    /\ pc \in [Handlers -> {"attach", "kick", "nudge", "wait", "detach", "close", "gone",
                            "resume", "snapshot", "kickNext", "rewind", "endResume",
                            "serve", "parked", "reading", "got", "writing", "pumps", "join"}]
    /\ todo \in [Handlers -> Seq(Directions \cup Handlers)]
    /\ old \in [Handlers -> Handlers \cup {None}]
    /\ done \subseteq Handlers
    /\ dead \in [Handlers -> SUBSET {"ctx", "after", "read", "write"}]
    /\ kicked \subseteq Handlers
    /\ intr \in BOOLEAN /\ received \in BOOLEAN /\ ackDue \in BOOLEAN
    /\ pumps \in [Handlers -> SUBSET {"r", "w"}]
    /\ busy \subseteq Handlers

Init ==
    /\ kind \in Sessions
    /\ slot = [d \in Directions |-> None]
    /\ resuming = FALSE
    /\ pc = [h \in Handlers |-> IF kind[h] = "resume" THEN "resume" ELSE "attach"]
    /\ todo = [h \in Handlers |-> directions[kind[h]]]
    /\ old = [h \in Handlers |-> None]
    /\ done = {}
    /\ dead = [h \in Handlers |-> {}]
    /\ kicked = {}
    /\ intr = FALSE /\ received = FALSE /\ ackDue = FALSE
    /\ pumps = [h \in Handlers |-> {}]
    /\ busy = {}

goto(h, l) == pc' = [pc EXCEPT ![h] = l]

-----------------------------------------------------------------------------
(* attach, one pass of its loop per step.                                  *)

AttachRefused(h) ==
    /\ pc[h] = "attach"
    /\ resuming
    /\ goto(h, "detach")
    /\ UNCHANGED <<kind, ring, dead, kicked, pipe, wsvars>>

\* Variant: attach does not look at the resuming flag.
AttachDuringResume(h) ==
    /\ pc[h] = "attach"
    /\ slot[Head(todo[h])] = None
    /\ slot' = [slot EXCEPT ![Head(todo[h])] = h]
    /\ todo' = [todo EXCEPT ![h] = Tail(@)]
    /\ goto(h, IF Len(todo[h]) = 1 THEN "serve" ELSE "attach")
    /\ UNCHANGED <<kind, resuming, old, done, dead, kicked, pipe, wsvars>>

AttachClaim(h) ==
    /\ pc[h] = "attach"
    /\ ~resuming
    /\ slot[Head(todo[h])] = None
    /\ slot' = [slot EXCEPT ![Head(todo[h])] = h]
    /\ todo' = [todo EXCEPT ![h] = Tail(@)]
    /\ goto(h, IF Len(todo[h]) = 1 THEN "serve" ELSE "attach")
    /\ UNCHANGED <<kind, resuming, old, done, dead, kicked, pipe, wsvars>>

AttachTaken(h) ==
    /\ pc[h] = "attach"
    /\ ~resuming
    /\ slot[Head(todo[h])] # None
    /\ old' = [old EXCEPT ![h] = slot[Head(todo[h])]]
    /\ goto(h, "kick")
    /\ UNCHANGED <<kind, slot, resuming, todo, done, dead, kicked, pipe, wsvars>>

\* kickAndWait: the kick's deadlines and cancellation first, then the interrupt.
Kick(h) ==
    /\ pc[h] = "kick"
    /\ dead' = [dead EXCEPT ![old[h]] = @ \cup kickEffect[kind[old[h]]]]
    /\ goto(h, "nudge")
    /\ UNCHANGED <<kind, ring, kicked, pipe, wsvars>>

Nudge(h) ==
    /\ pc[h] = "nudge"
    /\ intr' = (intr \/ interrupts(kind[old[h]]))
    /\ kicked' = kicked \cup {old[h]}
    /\ goto(h, "wait")
    /\ UNCHANGED <<kind, ring, dead, received, ackDue, wsvars>>

KickDone(h) ==
    /\ pc[h] = "wait"
    /\ old[h] \in done
    /\ goto(h, IF kind[h] = "resume" THEN "kickNext" ELSE "attach")
    /\ UNCHANGED <<kind, ring, dead, kicked, pipe, wsvars>>

\* Variant: the newcomer takes the directions of an owner that does not leave.
KickTimeoutTakesOver(h) ==
    /\ pc[h] = "wait"
    /\ slot' = [d \in Directions |-> IF slot[d] = old[h] THEN None ELSE slot[d]]
    /\ goto(h, IF kind[h] = "resume" THEN "endResume" ELSE "attach")
    /\ UNCHANGED <<kind, resuming, todo, old, done, dead, kicked, pipe, wsvars>>

\* Variant: a handshake waits for done alone.
KickTimeoutNotInResume(h) ==
    /\ pc[h] = "wait"
    /\ kind[h] # "resume"
    /\ goto(h, "detach")
    /\ UNCHANGED <<kind, ring, dead, kicked, pipe, wsvars>>

\* Variant: a handshake that is given up does not run endResume.
KickTimeoutKeepsFlag(h) ==
    /\ pc[h] = "wait"
    /\ goto(h, IF kind[h] = "resume" THEN "gone" ELSE "detach")
    /\ UNCHANGED <<kind, ring, dead, kicked, pipe, wsvars>>

\* detachWait has passed.
KickTimeout(h) ==
    /\ pc[h] = "wait"
    /\ goto(h, IF kind[h] = "resume" THEN "endResume" ELSE "detach")
    /\ UNCHANGED <<kind, ring, dead, kicked, pipe, wsvars>>

\* Variant: detach gives up one direction only.
DetachDown(h) ==
    /\ pc[h] = "detach"
    /\ slot' = [slot EXCEPT !["down"] = IF @ = h THEN None ELSE @]
    /\ goto(h, "close")
    /\ UNCHANGED <<kind, resuming, todo, old, done, dead, kicked, pipe, wsvars>>

\* detach gives up the directions under the lock, then closes done.
Detach(h) ==
    /\ pc[h] = "detach"
    /\ slot' = [d \in Directions |-> IF slot[d] = h THEN None ELSE slot[d]]
    /\ goto(h, "close")
    /\ UNCHANGED <<kind, resuming, todo, old, done, dead, kicked, pipe, wsvars>>

CloseDone(h) ==
    /\ pc[h] = "close"
    /\ done' = done \cup {h}
    /\ goto(h, "gone")
    /\ UNCHANGED <<kind, slot, resuming, todo, old, dead, kicked, pipe, wsvars>>

-----------------------------------------------------------------------------
(* ResumeHandler, from beginResume to endResume.                           *)

BeginResume(h) ==
    /\ pc[h] = "resume"
    /\ goto(h, IF resuming THEN "gone" ELSE "snapshot")
    /\ resuming' = TRUE
    /\ UNCHANGED <<kind, slot, todo, old, done, dead, kicked, pipe, wsvars>>

owner(d) == IF slot[d] = None THEN <<>> ELSE <<slot[d]>>

KickAllSnapshot(h) ==
    /\ pc[h] = "snapshot"
    /\ todo' = [todo EXCEPT ![h] = owner("down") \o owner("up")]
    /\ goto(h, "kickNext")
    /\ UNCHANGED <<kind, slot, resuming, old, done, dead, kicked, pipe, wsvars>>

KickAllNext(h) ==
    /\ pc[h] = "kickNext"
    /\ IF todo[h] = <<>>
       THEN goto(h, "rewind") /\ UNCHANGED <<todo, old>>
       ELSE /\ old' = [old EXCEPT ![h] = Head(todo[h])]
            /\ todo' = [todo EXCEPT ![h] = Tail(@)]
            /\ goto(h, "kick")
    /\ UNCHANGED <<kind, slot, resuming, done, dead, kicked, pipe, wsvars>>

\* resumeOut and recvOffsetNow, or markBroken: either way the handler ends here.
Rewind(h) ==
    /\ pc[h] = "rewind"
    /\ goto(h, "endResume")
    /\ UNCHANGED <<kind, ring, dead, kicked, pipe, wsvars>>

EndResume(h) ==
    /\ pc[h] = "endResume"
    /\ resuming' = FALSE
    /\ goto(h, "gone")
    /\ UNCHANGED <<kind, slot, todo, old, done, dead, kicked, pipe, wsvars>>

-----------------------------------------------------------------------------
(* pollStream: resetAck, the headers, then pollStreamResumable's loop.     *)

PollStart(h) ==
    /\ pc[h] = "serve" /\ kind[h] = "poll"
    /\ ackDue' = received
    /\ goto(h, "writing")
    /\ UNCHANGED <<kind, ring, dead, kicked, intr, received, wsvars>>

isCurrent(h) == \E d \in Directions : slot[d] = h

\* Where the loop goes on errPipeInterrupted.  With no ack due nothing is
\* written and the loop goes round, unless it sees the rollover deadline or the
\* end of the request.
afterInterrupt(h) ==
    IF ~isCurrent(h) THEN {"detach"}
    ELSE IF ackDue THEN {"writing"}
    ELSE {"parked", "detach"}

PollInterrupted(h) ==
    /\ pc[h] = "parked" /\ kind[h] = "poll"
    /\ intr
    /\ intr' = FALSE
    /\ ackDue' = (ackDue /\ ~isCurrent(h))
    /\ \E l \in afterInterrupt(h) : goto(h, l)
    /\ UNCHANGED <<kind, ring, dead, kicked, received, wsvars>>

\* nextOut returns data, or nothing for HeartbeatInterval.
PollDue(h) ==
    /\ pc[h] = "parked" /\ kind[h] = "poll"
    /\ ackDue' = FALSE
    /\ goto(h, "writing")
    /\ UNCHANGED <<kind, ring, dead, kicked, intr, received, wsvars>>

\* nextOut returns io.EOF: the session is closed.
PollEOF(h) ==
    /\ pc[h] = "parked" /\ kind[h] = "poll"
    /\ goto(h, "detach")
    /\ UNCHANGED <<kind, ring, dead, kicked, pipe, wsvars>>

PollWritten(h) ==
    /\ pc[h] = "writing" /\ kind[h] = "poll"
    /\ "write" \notin dead[h]
    /\ \E l \in {"parked", "detach"} : goto(h, l)
    /\ UNCHANGED <<kind, ring, dead, kicked, pipe, wsvars>>

\* A write fails: the deadline is past, or the connection is gone.
WriteFails(h) ==
    /\ pc[h] = "writing"
    /\ goto(h, "detach")
    /\ UNCHANGED <<kind, ring, dead, kicked, pipe, wsvars>>

-----------------------------------------------------------------------------
(* pollSendStream.  A frame that is already buffered is read whatever the  *)
(* deadline says.                                                          *)

SendStreamStart(h) ==
    /\ pc[h] = "serve" /\ kind[h] = "sendStream"
    /\ goto(h, "reading")
    /\ UNCHANGED <<kind, ring, dead, kicked, pipe, wsvars>>

FrameRead(h) ==
    /\ pc[h] = "reading"
    /\ goto(h, "got")
    /\ UNCHANGED <<kind, ring, dead, kicked, pipe, wsvars>>

\* fr.next or the body fails or ends: deadline, network, frameEnd, EOF.
ReadEnds(h) ==
    /\ pc[h] = "reading"
    /\ goto(h, "detach")
    /\ UNCHANGED <<kind, ring, dead, kicked, pipe, wsvars>>

\* recvIn, which interrupts the sender once ackEager bytes are unacknowledged,
\* or ack, or a heartbeat.
Absorb ==
    \/ UNCHANGED pipe
    \/ /\ received' = TRUE /\ ackDue' = TRUE
       /\ intr' \in {intr, TRUE}

\* resetDeadline, then the frame; a frame that is refused ends the handler.
SendStreamFrame(h) ==
    /\ pc[h] = "got" /\ kind[h] = "sendStream"
    /\ dead' = [dead EXCEPT ![h] = @ \ {"read"}]
    /\ \/ Absorb /\ goto(h, "reading")
       \/ UNCHANGED pipe /\ goto(h, "detach")
    /\ UNCHANGED <<kind, ring, kicked, wsvars>>

-----------------------------------------------------------------------------
(* pollBatchResumable.                                                     *)

\* Variant: the read deadline is set after the attach, over a kick's.
BatchUpStartLate(h) ==
    /\ pc[h] = "serve" /\ kind[h] = "batchUp"
    /\ dead' = [dead EXCEPT ![h] = @ \ {"read"}]
    /\ goto(h, "reading")
    /\ UNCHANGED <<kind, ring, kicked, pipe, wsvars>>

BatchUpStart(h) ==
    /\ pc[h] = "serve" /\ kind[h] = "batchUp"
    /\ goto(h, "reading")
    /\ UNCHANGED <<kind, ring, dead, kicked, pipe, wsvars>>

BatchUpApply(h) ==
    /\ pc[h] = "got" /\ kind[h] = "batchUp"
    /\ IF "ctx" \in dead[h] THEN UNCHANGED pipe ELSE Absorb
    /\ goto(h, "detach")
    /\ UNCHANGED <<kind, ring, dead, kicked, wsvars>>

\* The context check, ack and rewindToAcked, on the way into nextOut.
BatchDownStart(h) ==
    /\ pc[h] = "serve" /\ kind[h] = "batchDown"
    /\ goto(h, IF "ctx" \in dead[h] THEN "detach" ELSE "parked")
    /\ UNCHANGED <<kind, ring, dead, kicked, pipe, wsvars>>

\* nextOut returns: interrupted, or with data, nothing or io.EOF.
BatchDownWoken(h) ==
    /\ pc[h] = "parked" /\ kind[h] = "batchDown"
    /\ intr' \in {intr, FALSE}
    /\ goto(h, "got")
    /\ UNCHANGED <<kind, ring, dead, kicked, received, ackDue, wsvars>>

BatchDownReply(h) ==
    /\ pc[h] = "got" /\ kind[h] = "batchDown"
    /\ goto(h, IF "ctx" \in dead[h] THEN "detach" ELSE "writing")
    /\ UNCHANGED <<kind, ring, dead, kicked, pipe, wsvars>>

\* The client's disconnection cancels the request's context.
BatchClientGone(h) ==
    /\ kind[h] \in {"batchDown", "batchUp"}
    /\ pc[h] \in {"serve", "parked", "reading", "got", "writing"}
    /\ "ctx" \notin dead[h]
    /\ dead' = [dead EXCEPT ![h] = @ \cup {"ctx", "after"}]
    /\ UNCHANGED <<kind, ring, pc, kicked, pipe, wsvars>>

\* context.AfterFunc interrupts the pipe from a goroutine of its own, perhaps
\* when the handler has gone and another is using the pipe.
AfterFunc(h) ==
    /\ "after" \in dead[h]
    /\ dead' = [dead EXCEPT ![h] = @ \ {"after"}]
    /\ intr' = TRUE
    /\ UNCHANGED <<kind, ring, pc, kicked, received, ackDue, wsvars>>

-----------------------------------------------------------------------------
(* WebSocketHandler: two pumps under one context, and the handler that     *)
(* waits for the first to end, cancels, and joins the other.               *)

\* beginWebSocket and Accept, either of which may refuse; resetAck.
WsStart(h) ==
    /\ pc[h] = "serve" /\ kind[h] = "ws"
    /\ \/ goto(h, "detach") /\ UNCHANGED <<pipe, pumps>>
       \/ /\ goto(h, "pumps")
          /\ pumps' = [pumps EXCEPT ![h] = {"r", "w"}]
          /\ ackDue' = received
          /\ UNCHANGED <<intr, received>>
    /\ UNCHANGED <<kind, ring, dead, kicked, busy>>

endPump(h, p) == pumps' = [pumps EXCEPT ![h] = @ \ {p}]

WsFrame(h) ==
    /\ "r" \in pumps[h]
    /\ "ctx" \notin dead[h]
    /\ Absorb
    /\ UNCHANGED <<kind, ring, pc, dead, kicked, wsvars>>

WsReadEnds(h) ==
    /\ "r" \in pumps[h]
    /\ endPump(h, "r")
    /\ UNCHANGED <<kind, ring, pc, dead, kicked, pipe, busy>>

WsInterrupted(h) ==
    /\ "w" \in pumps[h] /\ h \notin busy
    /\ intr
    /\ intr' = FALSE
    /\ IF "ctx" \in dead[h] \/ ~isCurrent(h)
       THEN endPump(h, "w") /\ UNCHANGED <<ackDue, busy>>
       ELSE /\ ackDue' = FALSE
            /\ busy' = IF ackDue THEN busy \cup {h} ELSE busy
            /\ UNCHANGED pumps
    /\ UNCHANGED <<kind, ring, pc, dead, kicked, received>>

WsDue(h) ==
    /\ "w" \in pumps[h] /\ h \notin busy
    /\ ackDue' = FALSE
    /\ busy' = busy \cup {h}
    /\ UNCHANGED <<kind, ring, pc, dead, kicked, intr, received, pumps>>

WsWritten(h) ==
    /\ h \in busy
    /\ "ctx" \notin dead[h]
    /\ busy' = busy \ {h}
    /\ UNCHANGED <<kind, ring, pc, dead, kicked, pipe, pumps>>

\* A write fails, or nextOut returns io.EOF.
WsWriteEnds(h) ==
    /\ "w" \in pumps[h]
    /\ endPump(h, "w")
    /\ busy' = busy \ {h}
    /\ UNCHANGED <<kind, ring, pc, dead, kicked, pipe>>

WsCancel(h) ==
    /\ pc[h] = "pumps" /\ pumps[h] # {"r", "w"}
    /\ dead' = [dead EXCEPT ![h] = @ \cup {"ctx"}]
    /\ intr' = TRUE
    /\ goto(h, "join")
    /\ UNCHANGED <<kind, ring, kicked, received, ackDue, wsvars>>

WsJoin(h) ==
    /\ pc[h] = "join" /\ pumps[h] = {}
    /\ goto(h, "detach")
    /\ UNCHANGED <<kind, ring, dead, kicked, pipe, wsvars>>

-----------------------------------------------------------------------------
AttachStep(h) ==
    \/ AttachRefused(h) \/ AttachClaim(h) \/ AttachTaken(h)
    \/ Kick(h) \/ Nudge(h) \/ KickDone(h) \/ KickTimeout(h)
    \/ Detach(h) \/ CloseDone(h)

ResumeStep(h) ==
    \/ BeginResume(h) \/ KickAllSnapshot(h) \/ KickAllNext(h)
    \/ Rewind(h) \/ EndResume(h)

PollStep(h) ==
    \/ PollStart(h) \/ PollInterrupted(h) \/ PollDue(h) \/ PollEOF(h)
    \/ PollWritten(h) \/ WriteFails(h)

UploadStep(h) ==
    \/ SendStreamStart(h) \/ FrameRead(h) \/ ReadEnds(h) \/ SendStreamFrame(h)

BatchStep(h) ==
    \/ BatchUpStart(h) \/ BatchUpApply(h)
    \/ BatchDownStart(h) \/ BatchDownWoken(h) \/ BatchDownReply(h)
    \/ BatchClientGone(h) \/ AfterFunc(h)

WsStep(h) ==
    \/ WsStart(h) \/ WsFrame(h) \/ WsReadEnds(h)
    \/ WsInterrupted(h) \/ WsDue(h) \/ WsWritten(h) \/ WsWriteEnds(h)
    \/ WsCancel(h) \/ WsJoin(h)

Next ==
    \E h \in Handlers :
        \/ AttachStep(h) \/ ResumeStep(h) \/ PollStep(h)
        \/ UploadStep(h) \/ BatchStep(h) \/ WsStep(h)

Spec == Init /\ [][Next]_vars

\* A runnable goroutine runs, a timer fires, and an operation that a past
\* deadline or a cancelled context covers fails.  Nothing is assumed of the
\* network: a peer need not read what is written to it nor send anything.
Fairness ==
    \A h \in Handlers :
        /\ WF_vars(AttachStep(h))
        /\ WF_vars(ResumeStep(h))
        /\ WF_vars(PollStart(h)) /\ WF_vars(PollInterrupted(h)) /\ WF_vars(PollDue(h))
        /\ WF_vars("write" \in dead[h] /\ WriteFails(h))
        /\ WF_vars(SendStreamStart(h)) /\ WF_vars(SendStreamFrame(h))
        /\ WF_vars("read" \in dead[h] /\ ReadEnds(h))
        /\ WF_vars(BatchUpStart(h)) /\ WF_vars(BatchUpApply(h))
        /\ WF_vars(BatchDownStart(h)) /\ WF_vars(BatchDownWoken(h))
        /\ WF_vars(BatchDownReply(h)) /\ WF_vars(AfterFunc(h))
        /\ WF_vars(WsStart(h)) /\ WF_vars(WsInterrupted(h)) /\ WF_vars(WsDue(h))
        /\ WF_vars("ctx" \in dead[h] /\ WsReadEnds(h))
        /\ WF_vars("ctx" \in dead[h] /\ h \in busy /\ WsWriteEnds(h))
        /\ WF_vars(WsCancel(h)) /\ WF_vars(WsJoin(h))

FairSpec == Spec /\ Fairness

-----------------------------------------------------------------------------
\* h has its directions and has not let go of them.
Serving(h) == pc[h] \in {"serve", "parked", "reading", "got", "writing", "pumps", "join"}

Uses(h, d) == Serving(h) /\ \E i \in DOMAIN directions[kind[h]] : directions[kind[h]][i] = d

(* "Only one transport owns each direction at a time" (README): no two     *)
(* handlers are between attach and detach for one direction, so nextOut    *)
(* has one caller and recvIn one.                                          *)
OneUser ==
    \A d \in Directions : \A g, h \in Handlers :
        Uses(g, d) /\ Uses(h, d) => g = h

(* "... including during a resume handshake": while ResumeHandler trusts   *)
(* the offsets, no handler uses either direction, although attaches,       *)
(* kicks and other resumes run beside it.                                  *)
QuietResume ==
    \A r \in Handlers : pc[r] = "rewind" => \A h \in Handlers : ~Serving(h)

(* A direction is never lost: its owner has yet to run detach.  An attach  *)
(* that fails half way gives back what it had claimed.                     *)
NoOrphan ==
    \A d \in Directions : slot[d] # None => pc[slot[d]] \notin {"close", "gone"}

(* Nobody waits for an owner while being one, so that handlers never wait  *)
(* in a circle for each other to let go.                                   *)
NoHoldAndWait ==
    \A h \in Handlers : pc[h] \in {"kick", "nudge", "wait"} => ~isCurrent(h)

(* The resuming flag is up exactly while one handshake is in progress: a   *)
(* handshake that is given up does not leave the session refusing attaches *)
(* for ever, and two handshakes do not overlap.                            *)
ResumeFlag ==
    LET handshakes == {h \in Handlers : kind[h] = "resume" /\ pc[h] \notin {"resume", "gone"}}
    IN  Cardinality(handshakes) = IF resuming THEN 1 ELSE 0

\* Whatever h is blocked on, something in force will end it.
Awake(h) ==
    /\ pc[h] = "parked" => intr
    /\ pc[h] = "reading" => "read" \in dead[h]
    /\ pc[h] = "writing" => "write" \in dead[h]
    /\ pumps[h] # {} => "ctx" \in dead[h]
    /\ "w" \in pumps[h] /\ h \notin busy => intr

(* "The kick cancels every wait the old handler can be in": a batch        *)
(* request or a WebSocket that has been kicked is never parked with        *)
(* nothing left to wake it, whatever it was doing when the kick came.      *)
KickWakes ==
    \A h \in kicked : kind[h] \in {"batchDown", "batchUp", "ws"} => Awake(h)

(* The same of a stream poll (pollStreamResumable).                        *)
KickWakesPoll ==
    \A h \in kicked : kind[h] = "poll" => Awake(h)

(* The same of a send stream (pollSendStream).                             *)
KickWakesSendStream ==
    \A h \in kicked : kind[h] = "sendStream" => Awake(h)

(* Every resume handshake is answered, whatever the handlers it kicks do.  *)
ResumeAnswered ==
    \A h \in Handlers : pc[h] = "resume" ~> pc[h] = "gone"

(* A kicked handler lets go in the end: a stream poll at the latest when a *)
(* heartbeat's write fails.                                                *)
KickedLeaves ==
    \A h \in Handlers :
        (h \in kicked /\ kind[h] # "sendStream") ~> pc[h] = "gone"
=============================================================================
