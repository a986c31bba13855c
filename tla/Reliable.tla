------------------------------ MODULE Reliable ------------------------------
(***************************************************************************)
(* The resumable transport's byte layer (reliable.go), as operators on one *)
(* end's state.  Each operator is one critical section of r.mu.            *)
(*                                                                         *)
(* A byte is abstracted to its position in the stream it was written to:   *)
(* the first byte an application writes is 1, the next 2, and so on.  No   *)
(* branch of the code looks at a byte, and with positions for bytes a byte *)
(* that is lost, repeated or given the wrong offset shows at once.         *)
(***************************************************************************)
EXTENDS Naturals, Sequences

CONSTANTS
    MaxReplay,  \* reliable.maxReplay, in bytes
    BufSize     \* len(buf) of the callers of nextOut

ASSUME MaxReplayAssumption == MaxReplay \in Nat
ASSUME BufSizeAssumption == BufSize \in Nat \ {0}

Lesser(a, b) == IF a <= b THEN a ELSE b

\* The bytes at positions lo .. hi of a stream.
Bytes(lo, hi) == [i \in 1..((hi + 1) - lo) |-> (lo + i) - 1]

\* p[n:] of a slice.
Drop(p, n) == SubSeq(p, n + 1, Len(p))

\* p[:n] of a slice, n <= len(p).
Take(p, n) == SubSeq(p, 1, n)

Reliables ==
    [sendOffset : Nat, ackedOffset : Nat, sentCursor : Nat, replay : Seq(Nat),
     broken : BOOLEAN, recvOffset : Nat, lastAck : Nat]

newReliable ==
    [sendOffset |-> 0, ackedOffset |-> 0, sentCursor |-> 0, replay |-> <<>>,
     broken |-> FALSE, recvOffset |-> 0, lastAck |-> 0]

markBrokenLocked(r) ==
    [r EXCEPT !.broken = TRUE, !.replay = <<>>,
              !.ackedOffset = r.sendOffset, !.sentCursor = r.sendOffset]

-----------------------------------------------------------------------------
(* nextOut: its first critical section either answers with pending replay  *)
(* or lets the caller wait on the pipe; its second one numbers what the    *)
(* pipe gave.                                                              *)

pendingReplay(r) == ~r.broken /\ r.sentCursor < r.sendOffset

\* n = copy(buf, r.replay[start:])
replayChunk(r) ==
    LET rest == Drop(r.replay, r.sentCursor - r.ackedOffset)
    IN  [off |-> r.sentCursor, data |-> Take(rest, Lesser(BufSize, Len(rest)))]

afterReplay(r) == [r EXCEPT !.sentCursor = @ + Len(replayChunk(r).data)]

\* Variant: a broken layer stops counting what it sends.
numberUnlessBroken(r, p) ==
    LET next == r.sendOffset + Len(p)
        kept == [r EXCEPT !.sendOffset = next, !.sentCursor = next,
                          !.replay = r.replay \o p]
    IN  IF r.broken THEN r
        ELSE IF Len(kept.replay) > MaxReplay THEN markBrokenLocked(kept)
        ELSE kept

\* The second critical section, given the bytes p that ReadAvailable returned.
number(r, p) ==
    LET next == r.sendOffset + Len(p)
        sent == [r EXCEPT !.sendOffset = next, !.sentCursor = next]
        kept == [sent EXCEPT !.replay = r.replay \o p]
    IN  IF r.broken THEN sent
        ELSE IF Len(kept.replay) > MaxReplay THEN markBrokenLocked(kept)
        ELSE kept

-----------------------------------------------------------------------------
(* recvIn takes the part of a frame that extends recvOffset, and counts    *)
(* what the in pipe accepted of it.  A gap also returns errReplayGap.      *)

replayGap(r, off) == off > r.recvOffset

\* Variant: a frame that overlaps what is already in the pipe is not trimmed.
freshUntrimmed(r, off, p) ==
    IF replayGap(r, off) \/ off + Len(p) <= r.recvOffset THEN <<>> ELSE p

\* Variant: a frame that leaves a gap is written to the pipe all the same.
freshAcrossGap(r, off, p) ==
    IF off + Len(p) <= r.recvOffset THEN <<>>
    ELSE IF replayGap(r, off) THEN p
    ELSE Drop(p, r.recvOffset - off)

\* p[r.recvOffset-off:]; nothing of a gap or of a full duplicate.
fresh(r, off, p) ==
    IF replayGap(r, off) \/ off + Len(p) <= r.recvOffset THEN <<>>
    ELSE Drop(p, r.recvOffset - off)

\* wrote: what r.in.Write accepted of fresh(r, off, p).
recvIn(r, off, wrote) ==
    IF replayGap(r, off) THEN markBrokenLocked(r)
    ELSE [r EXCEPT !.recvOffset = @ + Len(wrote)]

-----------------------------------------------------------------------------
badAck(r, n) == n > r.sendOffset

\* Variant: n is taken for a count of bytes instead of an offset.
releaseCount(r, n) ==
    [r EXCEPT !.replay = Drop(r.replay, n), !.ackedOffset = n]

release(r, n) ==
    [r EXCEPT !.replay = Drop(r.replay, n - r.ackedOffset), !.ackedOffset = n]

ack(r, n) ==
    IF badAck(r, n) THEN markBrokenLocked(r)
    ELSE IF r.broken \/ n <= r.ackedOffset THEN r
    ELSE [release(r, n) EXCEPT !.sentCursor = IF @ < n THEN n ELSE @]

ackDue(r) == r.recvOffset # r.lastAck

takeAck(r) == [r EXCEPT !.lastAck = r.recvOffset]

resetAck(r) == [r EXCEPT !.lastAck = 0]

canResume(r, peerRecv) ==
    ~r.broken /\ r.ackedOffset <= peerRecv /\ peerRecv <= r.sendOffset

resumeOut(r, peerRecv) == [release(r, peerRecv) EXCEPT !.sentCursor = peerRecv]

rewindToAcked(r) ==
    IF r.broken THEN r ELSE [r EXCEPT !.sentCursor = r.ackedOffset]
=============================================================================
