---------------------------- MODULE BufferedPipe ----------------------------
(***************************************************************************)
(* The in-memory pipe of pipe.go: one mutex, one condition variable, the   *)
(* two-phase wait of ReadAvailable with its timers, the level-triggered    *)
(* interrupt, and Close.  An action is one critical section: from taking   *)
(* the lock to Wait or to the return.  Bytes are counted, not told apart.  *)
(***************************************************************************)
EXTENDS Naturals, Sequences, FiniteSets

CONSTANTS
    Readers,        \* goroutines that may read
    Dst,            \* len(dst)
    WarnThreshold,  \* 0: none
    MaxBytes        \* bound on the bytes written

ASSUME SizesAssumption == Dst \in Nat \ {0} /\ WarnThreshold \in Nat /\ MaxBytes \in Nat

VARIABLES
    calls,    \* calls[r]: the method r calls: "Read", "ReadAvailable" or "none"
    buf,      \* len(p.buf)
    written,  \* history: bytes accepted by Write
    closed, intr, hiWater, warned,
    queue,    \* the goroutines in cond.Wait, oldest first
    at,       \* at[r]: "out", "wait" or "woken"
    phase,    \* phase[r]: the wait r is in: 0 in Read, 1 or 2 in ReadAvailable
    timedOut, \* timedOut[r]: of r's current timer
    stray,    \* a timer that fired too late for Stop waits for the lock
    result,   \* result[r]: what r's last call returned
    since     \* history: calls that returned data while an interrupt was pending

vars == <<calls, buf, written, closed, intr, hiWater, warned, queue, at, phase,
          timedOut, stray, result, since>>

\* What no reader's step changes.
writerVars == <<calls, written, closed, hiWater, warned>>

\* With the types, what HiWater and the warning mean: the mark covers what is
\* buffered, and the warning has been given once the mark is at the threshold.
TypeOK ==
    /\ calls \in [Readers -> {"Read", "ReadAvailable", "none"}]
    /\ written \in 0..MaxBytes /\ hiWater \in 0..written /\ buf \in 0..hiWater
    /\ closed \in BOOLEAN /\ intr \in BOOLEAN /\ warned \in BOOLEAN /\ stray \in BOOLEAN
    /\ warned <=> WarnThreshold > 0 /\ hiWater >= WarnThreshold
    /\ queue \in Seq(Readers)
    /\ at \in [Readers -> {"out", "wait", "woken"}]
    /\ phase \in [Readers -> 0..2]
    /\ timedOut \in [Readers -> BOOLEAN]
    /\ result \in [Readers -> {"new", "data", "nothing", "eof", "interrupted"}]
    /\ since \in Nat

\* A pipe is read with one of the methods: by the application, or by handlers.
Init ==
    /\ \E m \in {"Read", "ReadAvailable"} : calls \in [Readers -> {m, "none"}]
    /\ buf = 0 /\ written = 0 /\ hiWater = 0
    /\ closed = FALSE /\ intr = FALSE /\ warned = FALSE /\ stray = FALSE
    /\ queue = <<>>
    /\ at = [r \in Readers |-> "out"]
    /\ phase = [r \in Readers |-> 0]
    /\ timedOut = [r \in Readers |-> FALSE]
    /\ result = [r \in Readers |-> "new"]
    /\ since = 0

-----------------------------------------------------------------------------
(* sync.Cond.                                                              *)

Broadcast ==
    /\ at' = [r \in Readers |-> IF at[r] = "wait" THEN "woken" ELSE at[r]]
    /\ queue' = <<>>

Signal ==
    IF queue = <<>> THEN UNCHANGED <<at, queue>>
    ELSE at' = [at EXCEPT ![Head(queue)] = "woken"] /\ queue' = Tail(queue)

\* Wait in a given phase; timed says whether its timer has fired.
Wait(r, ph, timed) ==
    /\ at' = [at EXCEPT ![r] = "wait"]
    /\ queue' = Append(queue, r)
    /\ phase' = [phase EXCEPT ![r] = ph]
    /\ timedOut' = [timedOut EXCEPT ![r] = timed]
    /\ UNCHANGED <<buf, intr, result, since>>

Return(r, what, taken) ==
    /\ at' = [at EXCEPT ![r] = "out"]
    /\ buf' = buf - taken
    /\ intr' = (intr /\ what # "interrupted")
    /\ result' = [result EXCEPT ![r] = what]
    /\ phase' = [phase EXCEPT ![r] = 0]
    /\ timedOut' = [timedOut EXCEPT ![r] = FALSE]
    /\ since' = IF intr /\ what = "data" THEN since + 1 ELSE IF intr' THEN since ELSE 0
    /\ UNCHANGED queue

\* n := copy(dst, p.buf)
Copy(r) ==
    LET n == IF buf < Dst THEN buf ELSE Dst
    IN  Return(r, IF n = 0 THEN "nothing" ELSE "data", n)

-----------------------------------------------------------------------------
Write(n) ==
    /\ ~closed
    /\ written + n <= MaxBytes
    /\ written' = written + n
    /\ buf' = buf + n
    /\ Signal
    /\ hiWater' = IF buf + n > hiWater THEN buf + n ELSE hiWater
    /\ warned' = (warned \/ (buf + n > hiWater /\ WarnThreshold > 0 /\ buf + n >= WarnThreshold))
    /\ UNCHANGED <<calls, closed, intr, phase, timedOut, stray, result, since>>

interrupt ==
    /\ intr' = TRUE
    /\ Broadcast
    /\ UNCHANGED <<writerVars, buf, phase, timedOut, stray, result, since>>

\* Variant: Close wakes one reader.
CloseSignals ==
    /\ closed' = TRUE
    /\ Signal
    /\ UNCHANGED <<calls, buf, written, intr, hiWater, warned, phase, timedOut, stray, result, since>>

Close ==
    /\ closed' = TRUE
    /\ Broadcast
    /\ UNCHANGED <<calls, buf, written, intr, hiWater, warned, phase, timedOut, stray, result, since>>

\* Variant: the timer sets its flag and wakes nobody.
TimerSilent(r) ==
    /\ phase[r] # 0 /\ ~timedOut[r]
    /\ timedOut' = [timedOut EXCEPT ![r] = TRUE]
    /\ UNCHANGED <<writerVars, buf, intr, queue, at, phase, stray, result, since>>

\* The AfterFunc of the wait r is in.
TimerFires(r) ==
    /\ phase[r] # 0 /\ ~timedOut[r]
    /\ timedOut' = [timedOut EXCEPT ![r] = TRUE]
    /\ Broadcast
    /\ UNCHANGED <<writerVars, buf, intr, phase, stray, result, since>>

\* The AfterFunc of a wait that is over.
StrayTimer ==
    /\ stray
    /\ stray' = FALSE
    /\ Broadcast
    /\ UNCHANGED <<writerVars, buf, intr, phase, timedOut, result, since>>

\* timer.Stop may come too late for a timer that has not set timedOut yet.
Stop(r) == stray' \in {stray, stray \/ (phase[r] # 0 /\ ~timedOut[r])}

-----------------------------------------------------------------------------
(* The loops, with the lock held.                                          *)

ReadLoop(r) ==
    IF buf # 0 THEN Copy(r)
    ELSE IF closed THEN Return(r, "eof", 0)
    ELSE Wait(r, 0, FALSE)

\* Phase 2 of ReadAvailable: coalesce.
Coalesce(r, timed) ==
    IF buf < Dst /\ ~closed /\ ~intr /\ ~timed THEN Wait(r, 2, timed) ELSE Copy(r)

\* Variant: looks at closed before the buffer.
FirstByteClosedFirst(r, timed) ==
    IF closed THEN Return(r, "eof", 0)
    ELSE IF buf # 0 THEN Coalesce(r, FALSE)
    ELSE IF intr THEN Return(r, "interrupted", 0)
    ELSE IF timed THEN Return(r, "nothing", 0)
    ELSE Wait(r, 1, timed)

\* Variant: a timeout hides that the pipe was closed meanwhile.
FirstByteTimeoutFirst(r, timed) ==
    IF buf # 0 THEN Coalesce(r, FALSE)
    ELSE IF timed THEN Return(r, "nothing", 0)
    ELSE IF closed THEN Return(r, "eof", 0)
    ELSE IF intr THEN Return(r, "interrupted", 0)
    ELSE Wait(r, 1, timed)

\* Phase 1 of ReadAvailable: wait for the first byte.
FirstByte(r, timed) ==
    IF buf # 0 THEN Coalesce(r, FALSE)
    ELSE IF closed THEN Return(r, "eof", 0)
    ELSE IF intr THEN Return(r, "interrupted", 0)
    ELSE IF timed THEN Return(r, "nothing", 0)
    ELSE Wait(r, 1, timed)

\* A caller gives up on io.EOF.
Read(r) ==
    /\ calls[r] = "Read" /\ at[r] = "out" /\ result[r] # "eof"
    /\ ReadLoop(r)
    /\ UNCHANGED <<writerVars, stray>>

\* Variant: buffered data goes before a pending interrupt.
ReadAvailableDataFirst(r) ==
    /\ calls[r] = "ReadAvailable" /\ at[r] = "out" /\ result[r] # "eof"
    /\ FirstByte(r, FALSE)
    /\ UNCHANGED <<writerVars, stray>>

ReadAvailable(r) ==
    /\ calls[r] = "ReadAvailable" /\ at[r] = "out" /\ result[r] # "eof"
    /\ IF intr THEN Return(r, "interrupted", 0) ELSE FirstByte(r, FALSE)
    /\ UNCHANGED <<writerVars, stray>>

\* Wait returns, and the loop looks again.
Woken(r) ==
    /\ at[r] = "woken"
    /\ CASE phase[r] = 0 -> ReadLoop(r)
         [] phase[r] = 1 -> FirstByte(r, timedOut[r])
         [] phase[r] = 2 -> Coalesce(r, timedOut[r])
    /\ IF at'[r] = "out" \/ phase'[r] # phase[r] THEN Stop(r) ELSE UNCHANGED stray
    /\ UNCHANGED writerVars

Reads(r) == Read(r) \/ ReadAvailable(r) \/ Woken(r)

Next ==
    \/ \E n \in 1..MaxBytes : Write(n)
    \/ interrupt \/ Close \/ StrayTimer
    \/ \E r \in Readers : Reads(r) \/ TimerFires(r)

Spec == Init /\ [][Next]_vars

\* Goroutines run, loops call again, timers fire.
Fairness ==
    /\ \A r \in Readers : WF_vars(Reads(r)) /\ WF_vars(TimerFires(r))
    /\ WF_vars(StrayTimer)

FairSpec == Spec /\ Fairness

-----------------------------------------------------------------------------
(* Properties.                                                             *)

\* r is the pipe's only reader, as the session's ownership rules make it.
Sole(r) == \A q \in Readers \ {r} : calls[q] = "none"

\* No wake-up is missed: a goroutine asleep in cond.Wait has nothing to wake up
\* for.  Close, a timer and an interrupt reach every sleeper although several
\* may sleep; a Write signals one goroutine, which is enough for a sole reader,
\* also when it sleeps in the coalesce window.
NoMissedWakeup ==
    \A r \in Readers : at[r] = "wait" =>
        /\ ~closed /\ ~timedOut[r]
        /\ phase[r] # 0 => ~intr
        /\ Sole(r) => buf < IF phase[r] = 2 THEN Dst ELSE 1

\* io.EOF is the end: whoever has seen it, every byte Write accepted before the
\* Close has been read and none will come (Read, ReadAvailable).
EndIsFinal == \A r \in Readers : result[r] = "eof" => closed /\ buf = 0

\* "Returns (0, nil) if the timeout expires with no data at all", and never for
\* a pipe that is closed, which the caller "must distinguish from that timeout",
\* whether the close comes before, with or after the timer (ReadAvailable).
EmptyHandedIsTimeout ==
    [][\A r \in Readers :
          at[r] # "out" /\ at'[r] = "out" /\ result'[r] = "nothing" /\ Sole(r)
          => ~closed /\ buf = 0 /\ timedOut[r]]_vars

\* An interrupt "that lands during the coalesce window is reported on the
\* following call, after that call's data has been returned": one call at most
\* returns data before the interrupt is seen (interrupt, ReadAvailable).
InterruptPrompt == (\E r \in Readers : Sole(r) /\ calls[r] = "ReadAvailable") => since <= 1

\* Every ReadAvailable returns, whatever the writers do, and a sole Read does
\* once there is data or the pipe is closed.
CallsReturn ==
    \A r \in Readers :
        /\ (calls[r] = "ReadAvailable" /\ at[r] # "out") ~> at[r] = "out"
        /\ (calls[r] = "Read" /\ Sole(r) /\ (buf # 0 \/ closed) /\ at[r] # "out") ~> at[r] = "out"
=============================================================================
