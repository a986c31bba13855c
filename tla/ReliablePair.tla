---------------------------- MODULE ReliablePair ----------------------------
(***************************************************************************)
(* The two reliable layers of a resumable session over the most general    *)
(* transport: what either end ever sent (a data frame, an acknowledgement, *)
(* an offset of a resume handshake) may reach the other end at any later   *)
(* time, in any order, any number of times, or never.  Batch requests,     *)
(* streams and WebSockets, their failures, retries and stale requests that *)
(* a proxy delivers late, are all special cases.                           *)
(*                                                                         *)
(* What the general transport does not grant is two senders in one         *)
(* direction: nextOut is called by one transport at a time, and a resume   *)
(* rewinds a direction only while nobody is in nextOut.  The callers       *)
(* guarantee that (attachments on the server, runLegs on the client).      *)
(***************************************************************************)
EXTENDS Reliable

CONSTANT MaxBytes  \* bound: how many bytes each application writes

ASSUME MaxBytesAssumption ==
    /\ MaxBytes \in [{"client", "server"} -> Nat]

Ends == {"client", "server"}

peer == [e \in Ends |-> IF e = "client" THEN "server" ELSE "client"]

VARIABLES
    rel,        \* rel[e]: the end's reliable struct
    written,    \* written[e]: bytes e's application has written so far
    out,        \* out[e]: the pipe of bytes waiting to be sent
    in,         \* in[e]: every byte recvIn has written to the in pipe, in order
    pc,         \* pc[e]: where e's sender is in nextOut
    held,       \* held[e]: bytes taken from out that have no offset yet
    sent,       \* sent[e]: the data frames e has handed to a transport
    reported    \* reported[e]: the receive offsets e has told its peer

vars == <<rel, written, out, in, pc, held, sent, reported>>

Frames == [off : Nat, data : Seq(Nat)]

\* The types of the state: the offsets stay natural numbers, also through the
\* subtractions of ack, resumeOut and nextOut.
TypeOK ==
    /\ rel \in [Ends -> Reliables]
    /\ written \in [Ends -> Nat]
    /\ out \in [Ends -> Seq(Nat)]
    /\ in \in [Ends -> Seq(Nat)]
    /\ pc \in [Ends -> {"idle", "waiting", "taken"}]
    /\ held \in [Ends -> Seq(Nat)]
    /\ sent \in [Ends -> SUBSET Frames]
    /\ reported \in [Ends -> SUBSET Nat]

Init ==
    /\ rel = [e \in Ends |-> newReliable]
    /\ written = [e \in Ends |-> 0]
    /\ out = [e \in Ends |-> <<>>]
    /\ in = [e \in Ends |-> <<>>]
    /\ pc = [e \in Ends |-> "idle"]
    /\ held = [e \in Ends |-> <<>>]
    /\ sent = [e \in Ends |-> {}]
    /\ reported = [e \in Ends |-> {}]

-----------------------------------------------------------------------------
(* The application.  A closed out pipe is one that is not written to any   *)
(* more.                                                                   *)

Write(e, n) ==
    /\ written[e] + n <= MaxBytes[e]
    /\ written' = [written EXCEPT ![e] = @ + n]
    /\ out' = [out EXCEPT ![e] = @ \o Bytes(written[e] + 1, written[e] + n)]
    /\ UNCHANGED <<rel, in, pc, held, sent, reported>>

-----------------------------------------------------------------------------
(* nextOut, which gives up r.mu while it waits on the pipe.                *)

NextOutReplay(e) ==
    /\ pc[e] = "idle"
    /\ pendingReplay(rel[e])
    /\ rel' = [rel EXCEPT ![e] = afterReplay(@)]
    /\ sent' = [sent EXCEPT ![e] = @ \cup {replayChunk(rel[e])}]
    /\ UNCHANGED <<written, out, in, pc, held, reported>>

NextOutWait(e) ==
    /\ pc[e] = "idle"
    /\ ~pendingReplay(rel[e])
    /\ pc' = [pc EXCEPT ![e] = "waiting"]
    /\ UNCHANGED <<rel, written, out, in, held, sent, reported>>

\* ReadAvailable returns data: as much as fits the buffer.
NextOutRead(e) ==
    /\ pc[e] = "waiting"
    /\ out[e] # <<>>
    /\ LET n == Lesser(BufSize, Len(out[e]))
       IN  /\ held' = [held EXCEPT ![e] = Take(out[e], n)]
           /\ out' = [out EXCEPT ![e] = Drop(@, n)]
    /\ pc' = [pc EXCEPT ![e] = "taken"]
    /\ UNCHANGED <<rel, written, in, sent, reported>>

\* ReadAvailable returns nothing: a timeout, an interrupt, or a closed pipe.
NextOutNothing(e) ==
    /\ pc[e] = "waiting"
    /\ pc' = [pc EXCEPT ![e] = "idle"]
    /\ UNCHANGED <<rel, written, out, in, held, sent, reported>>

NextOutNumber(e) ==
    /\ pc[e] = "taken"
    /\ rel' = [rel EXCEPT ![e] = number(@, held[e])]
    /\ sent' = [sent EXCEPT
         ![e] = @ \cup {[off |-> rel[e].sendOffset, data |-> held[e]]}]
    /\ held' = [held EXCEPT ![e] = <<>>]
    /\ pc' = [pc EXCEPT ![e] = "idle"]
    /\ UNCHANGED <<written, out, in, reported>>

-----------------------------------------------------------------------------
(* The receiving side: any frame the peer ever sent.  The in pipe accepts  *)
(* all of the fresh bytes, or none once it is closed.                      *)

RecvIn(e, f) ==
    /\ f \in sent[peer[e]]
    /\ \E p \in {fresh(rel[e], f.off, f.data), <<>>} :
          /\ in' = [in EXCEPT ![e] = @ \o p]
          /\ rel' = [rel EXCEPT ![e] = recvIn(@, f.off, p)]
    /\ UNCHANGED <<written, out, pc, held, sent, reported>>

Ack(e, n) ==
    /\ n \in reported[peer[e]]
    /\ rel' = [rel EXCEPT ![e] = ack(@, n)]
    /\ UNCHANGED <<written, out, in, pc, held, sent, reported>>

-----------------------------------------------------------------------------
(* What an end tells its peer it has received.                             *)

TakeAck(e) ==
    /\ ackDue(rel[e])
    /\ reported' = [reported EXCEPT ![e] = @ \cup {rel[e].recvOffset}]
    /\ rel' = [rel EXCEPT ![e] = takeAck(@)]
    /\ UNCHANGED <<written, out, in, pc, held, sent>>

ResetAck(e) ==
    /\ rel' = [rel EXCEPT ![e] = resetAck(@)]
    /\ UNCHANGED <<written, out, in, pc, held, sent, reported>>

\* A resume request or response, or a batch request or response.
RecvOffsetNow(e) ==
    /\ reported' = [reported EXCEPT ![e] = @ \cup {rel[e].recvOffset}]
    /\ UNCHANGED <<rel, written, out, in, pc, held, sent>>

-----------------------------------------------------------------------------
(* Resume and rewind, while no transport is in nextOut.                    *)

\* Variant: the direction is rewound while a transport is still in nextOut.
ResumeWhileSending(e, n) ==
    /\ n \in reported[peer[e]]
    /\ canResume(rel[e], n)
    /\ rel' = [rel EXCEPT ![e] = resumeOut(@, n)]
    /\ UNCHANGED <<written, out, in, pc, held, sent, reported>>

Resume(e, n) ==
    /\ n \in reported[peer[e]]
    /\ pc[e] = "idle"
    /\ canResume(rel[e], n)
    /\ rel' = [rel EXCEPT ![e] = resumeOut(@, n)]
    /\ UNCHANGED <<written, out, in, pc, held, sent, reported>>

\* The server gives the session up for good; the client fails the connection,
\* which leaves its layer alone.
RefuseResume(e, n) ==
    /\ n \in reported[peer[e]]
    /\ pc[e] = "idle"
    /\ ~canResume(rel[e], n)
    /\ rel' = IF e = "server" THEN [rel EXCEPT ![e] = markBrokenLocked(@)] ELSE rel
    /\ UNCHANGED <<written, out, in, pc, held, sent, reported>>

RewindToAcked(e) ==
    /\ pc[e] = "idle"
    /\ rel' = [rel EXCEPT ![e] = rewindToAcked(@)]
    /\ UNCHANGED <<written, out, in, pc, held, sent, reported>>

-----------------------------------------------------------------------------
Step(e) ==
    \/ \E n \in 1..MaxBytes[e] : Write(e, n)
    \/ NextOutReplay(e)
    \/ NextOutWait(e)
    \/ NextOutRead(e)
    \/ NextOutNothing(e)
    \/ NextOutNumber(e)
    \/ \E f \in sent[peer[e]] : RecvIn(e, f)
    \/ \E n \in reported[peer[e]] : Ack(e, n) \/ Resume(e, n) \/ RefuseResume(e, n)
    \/ TakeAck(e)
    \/ ResetAck(e)
    \/ RecvOffsetNow(e)
    \/ RewindToAcked(e)

Next == \E e \in Ends : Step(e)

Spec == Init /\ [][Next]_vars

-----------------------------------------------------------------------------
(* What recvIn has written to the in pipe is the peer's stream from its    *)
(* first byte, without a hole, a repetition or a byte out of place, and    *)
(* recvOffset counts exactly those bytes ("so recvOffset never runs ahead  *)
(* of what is actually in the pipe"): reliable.go, recvIn.                 *)
StreamIntact ==
    \A e \in Ends :
        /\ in[e] = Bytes(1, rel[e].recvOffset)
        /\ rel[e].recvOffset <= rel[peer[e]].sendOffset
        /\ rel[e].recvOffset <= written[peer[e]]

\* An offset and the bytes that belong there.
Genuine(f) == f.data = Bytes(f.off + 1, f.off + Len(f.data))

(* Every data frame carries the bytes that belong at its offset, although  *)
(* nextOut numbers bytes in a critical section other than the one that     *)
(* found no replay pending, and acks, gaps and overflow come in between.   *)
FramesGenuine ==
    \A e \in Ends : \A f \in sent[e] :
        /\ Genuine(f)
        /\ f.off + Len(f.data) <= rel[e].sendOffset

(* While an end is not broken it can still send every byte its peer does   *)
(* not have: replay holds exactly [ackedOffset, sendOffset) and nothing    *)
(* the peer lacks has been released by ack or resumeOut.                   *)
NothingForgotten ==
    \A e \in Ends :
        ~rel[e].broken =>
            /\ rel[e].replay = Bytes(rel[e].ackedOffset + 1, rel[e].sendOffset)
            /\ rel[e].ackedOffset <= rel[peer[e]].recvOffset

(* The field comment of sentCursor: acked <= cursor <= sent, through acks, *)
(* resumes, rewinds and the loss of the replay buffer.                     *)
CursorInRange ==
    \A e \in Ends :
        /\ rel[e].ackedOffset <= rel[e].sentCursor
        /\ rel[e].sentCursor <= rel[e].sendOffset

(* "No correct peer" sends an ack that errBadAck refuses: no offset an end *)
(* has ever reported, however late it arrives, is beyond what was sent.    *)
NoBadAck ==
    \A e \in Ends : \A n \in reported[peer[e]] : ~badAck(rel[e], n)

(* An end never takes back an acknowledgement it has accepted, and never   *)
(* forgets a byte it has received.                                         *)
OffsetsOnlyGrow ==
    [][\A e \in Ends :
          /\ rel'[e].ackedOffset >= rel[e].ackedOffset
          /\ rel'[e].recvOffset >= rel[e].recvOffset
          /\ rel'[e].sendOffset >= rel[e].sendOffset]_vars

(* A sender hands its frames out in order: each new one starts where the   *)
(* previous one ended or where a resume or a rewind put the cursor, so     *)
(* that no resend is passed over.  nextOut decides that nothing is pending *)
(* and numbers new bytes in two critical sections with a wait in between.  *)
FramesContiguous ==
    [][\A e \in Ends : \A f \in sent'[e] \ sent[e] : f.off = rel[e].sentCursor]_vars

(* The pair implements the ordered byte stream of ByteStream, with what    *)
(* recvIn wrote to the in pipes as the bytes delivered.                    *)
Stream == INSTANCE ByteStream WITH delivered <- in

ImplementsByteStream == Stream!StreamSpec
=============================================================================
