------------------------- MODULE BufferedPipeProofs -------------------------
(***************************************************************************)
(* Proofs about BufferedPipe, for any number of readers, any buffer sizes  *)
(* and any threshold.  What a reader does with the lock held is first      *)
(* reduced to two cases, it goes to sleep or it returns, each with what it *)
(* has seen.                                                               *)
(***************************************************************************)
EXTENDS BufferedPipe, TLAPS

\* r is in its first critical section of a call, or in a later one.
Enters(r) ==
    \/ at[r] = "out" /\ calls[r] # "none" /\ result[r] # "eof"
    \/ at[r] = "woken"

\* How much a sleeper of a phase may leave in the buffer.
Enough(ph) == IF ph = 2 THEN Dst ELSE 1

Sleeps(r) ==
    \E ph \in 0..2 :
        /\ Wait(r, ph, FALSE) \/ (~timedOut[r] /\ Wait(r, ph, timedOut[r]))
        /\ ~closed /\ buf < Enough(ph)
        /\ ph # 0 => ~intr
        /\ ph = 2 => buf # 0 \/ (at[r] = "woken" /\ phase[r] = 2)
        /\ at[r] = "out" /\ calls[r] = "ReadAvailable" => ~intr

TakesData(r) ==
    \E n \in 1..buf :
        /\ Return(r, "data", n)
        /\ at[r] = "out" /\ calls[r] = "ReadAvailable" => ~intr

TakesNothing(r) ==
    /\ Return(r, "nothing", 0)
    /\ at[r] = "woken" /\ buf = 0
    /\ phase[r] = 2 \/ (phase[r] = 1 /\ timedOut[r] /\ ~closed)

SeesEnd(r) == Return(r, "eof", 0) /\ closed /\ buf = 0

SeesInterrupt(r) == Return(r, "interrupted", 0) /\ intr

Returns(r) == TakesData(r) \/ TakesNothing(r) \/ SeesEnd(r) \/ SeesInterrupt(r)

\* The numbers, and the queue of cond.Wait: whoever sleeps is in it once.
Numbers ==
    /\ written \in 0..MaxBytes /\ hiWater \in 0..written /\ buf \in 0..hiWater
    /\ since \in Nat

Sleepers ==
    /\ at \in [Readers -> {"out", "wait", "woken"}]
    /\ phase \in [Readers -> 0..2]
    /\ calls \in [Readers -> {"Read", "ReadAvailable", "none"}]
    /\ result \in [Readers -> {"new", "data", "nothing", "eof", "interrupted"}]
    /\ DOMAIN timedOut = Readers
    /\ queue \in Seq(Readers)
    /\ \A i \in DOMAIN queue : at[queue[i]] = "wait"
    /\ \A i, j \in DOMAIN queue : queue[i] = queue[j] => i = j
    /\ \A r \in Readers : at[r] = "wait" => \E i \in DOMAIN queue : queue[i] = r
    /\ \A r \in Readers : at[r] # "out" => calls[r] # "none"

\* n := copy(dst, p.buf), with something in the buffer or nothing.
LEMMA Copies ==
    ASSUME Numbers, NEW r \in Readers, Copy(r)
    PROVE  IF buf = 0 THEN Return(r, "nothing", 0) ELSE \E n \in 1..buf : Return(r, "data", n)
<1>1. buf \in Nat /\ Dst \in Nat \ {0} BY SizesAssumption DEF Numbers
<1>2. CASE buf = 0 BY <1>1, <1>2 DEF Copy
<1>3. CASE buf # 0
  <2> DEFINE n == IF buf < Dst THEN buf ELSE Dst
  <2>1. n \in 1..buf /\ n # 0 BY <1>1, <1>3
  <2>2. Return(r, "data", n) BY <2>1 DEF Copy
  <2> HIDE DEF n
  <2>q. QED BY Zenon, <1>3, <2>1, <2>2
<1>q. QED BY <1>2, <1>3

\* The coalesce loop, entered with a byte in the buffer or woken in it.
LEMMA Coalesces ==
    ASSUME Numbers, NEW r \in Readers,
           \/ Coalesce(r, FALSE) /\ buf # 0
           \/ Coalesce(r, timedOut[r]) /\ at[r] = "woken" /\ phase[r] = 2,
           at[r] = "out" /\ calls[r] = "ReadAvailable" => ~intr
    PROVE  Sleeps(r) \/ Returns(r)
<1>1. CASE Copy(r)
  <2>1. CASE buf = 0
    <3>1. Return(r, "nothing", 0) BY <1>1, <2>1, Copies
    <3>q. QED BY <2>1, <3>1 DEF Returns, TakesNothing
  <2>2. CASE buf # 0
    <3>1. PICK n \in 1..buf : Return(r, "data", n) BY Zenon, <1>1, <2>2, Copies
    <3>q. QED BY Zenon, <3>1 DEF Returns, TakesData
  <2>q. QED BY Zenon, <2>1, <2>2
<1>2. CASE ~ Copy(r)
  <2>1. /\ Wait(r, 2, FALSE) \/ (~timedOut[r] /\ Wait(r, 2, timedOut[r]))
        /\ buf < Dst /\ ~closed /\ ~intr
        /\ buf # 0 \/ (at[r] = "woken" /\ phase[r] = 2)
    BY Zenon, <1>2 DEF Coalesce
  <2>2. 2 \in 0..2 /\ Enough(2) = Dst BY DEF Enough
  <2>q. QED BY Zenon, <2>1, <2>2 DEF Sleeps
<1>q. QED BY Zenon, <1>1, <1>2

\* The loop that waits for the first byte.
LEMMA FirstBytes ==
    ASSUME Numbers, NEW r \in Readers,
           \/ FirstByte(r, FALSE)
           \/ FirstByte(r, timedOut[r]) /\ at[r] = "woken" /\ phase[r] = 1,
           at[r] = "out" /\ calls[r] = "ReadAvailable" => ~intr
    PROVE  Sleeps(r) \/ Returns(r)
<1>0. buf \in Nat BY DEF Numbers
<1>1. CASE buf # 0
  <2>1. Coalesce(r, FALSE) BY Zenon, <1>1 DEF FirstByte
  <2>q. QED BY Zenon, <1>1, <2>1, Coalesces
<1>2. CASE buf = 0 /\ closed
  <2>1. Return(r, "eof", 0) BY <1>2 DEF FirstByte
  <2>q. QED BY Zenon, <1>2, <2>1 DEF Returns, SeesEnd
<1>3. CASE buf = 0 /\ ~closed /\ intr
  <2>1. Return(r, "interrupted", 0) BY <1>3 DEF FirstByte
  <2>q. QED BY Zenon, <1>3, <2>1 DEF Returns, SeesInterrupt
<1>4. CASE buf = 0 /\ ~closed /\ ~intr
  <2>1. \/ Wait(r, 1, FALSE) \/ (~timedOut[r] /\ Wait(r, 1, timedOut[r]))
        \/ Return(r, "nothing", 0) /\ at[r] = "woken" /\ phase[r] = 1 /\ timedOut[r]
    BY Zenon, <1>4 DEF FirstByte
  <2>2. CASE Wait(r, 1, FALSE) \/ (~timedOut[r] /\ Wait(r, 1, timedOut[r]))
    <3>1. 1 \in 0..2 /\ buf < Enough(1) /\ 1 # 2 BY <1>4 DEF Enough
    <3>q. QED BY Zenon, <1>4, <2>2, <3>1 DEF Sleeps
  <2>3. CASE Return(r, "nothing", 0) /\ at[r] = "woken" /\ phase[r] = 1 /\ timedOut[r]
    BY Zenon, <1>4, <2>3 DEF Returns, TakesNothing
  <2>q. QED BY Zenon, <2>1, <2>2, <2>3
<1>q. QED BY Zenon, <1>1, <1>2, <1>3, <1>4

\* Read's loop.
LEMMA ReadLoops ==
    ASSUME Numbers, NEW r \in Readers, ReadLoop(r),
           ~(at[r] = "out" /\ calls[r] = "ReadAvailable")
    PROVE  Sleeps(r) \/ Returns(r)
<1>0. buf \in Nat BY DEF Numbers
<1>1. CASE buf # 0
  <2>1. PICK n \in 1..buf : Return(r, "data", n) BY <1>1, Copies DEF ReadLoop
  <2>q. QED BY Zenon, <2>1 DEF Returns, TakesData
<1>2. CASE buf = 0 /\ closed
  <2>1. Return(r, "eof", 0) BY <1>2 DEF ReadLoop
  <2>q. QED BY <1>2, <2>1 DEF Returns, SeesEnd
<1>3. CASE buf = 0 /\ ~closed
  <2>1. Wait(r, 0, FALSE) BY Zenon, <1>3 DEF ReadLoop
  <2>2. 0 \in 0..2 /\ buf < Enough(0) /\ 0 # 2 BY <1>3 DEF Enough
  <2>q. QED BY Zenon, <1>3, <2>1, <2>2 DEF Sleeps
<1>q. QED BY <1>1, <1>2, <1>3

\* A reader's step sleeps or returns.
LEMMA ReaderSteps ==
    ASSUME Numbers, Sleepers, NEW r \in Readers, Reads(r)
    PROVE  /\ Enters(r)
           /\ UNCHANGED writerVars
           /\ Sleeps(r) \/ Returns(r)
<1>1. CASE Read(r)
  <2>1. ReadLoop(r) /\ calls[r] = "Read" BY <1>1 DEF Read
  <2>2. Sleeps(r) \/ Returns(r) BY <2>1, ReadLoops
  <2>q. QED BY <1>1, <2>2 DEF Read, Enters
<1>2. CASE ReadAvailable(r)
  <2>1. CASE intr
    <3>1. Return(r, "interrupted", 0) BY <1>2, <2>1 DEF ReadAvailable
    <3>q. QED BY <1>2, <2>1, <3>1 DEF ReadAvailable, Enters, Returns, SeesInterrupt
  <2>2. CASE ~intr
    <3>1. FirstByte(r, FALSE) BY Zenon, <1>2, <2>2 DEF ReadAvailable
    <3>2. Sleeps(r) \/ Returns(r) BY Zenon, <2>2, <3>1, FirstBytes
    <3>q. QED BY Zenon, <1>2, <3>2 DEF ReadAvailable, Enters
  <2>q. QED BY <2>1, <2>2
<1>3. CASE Woken(r)
  <2>0. at[r] = "woken" /\ UNCHANGED writerVars BY Zenon, <1>3 DEF Woken
  <2>1. CASE phase[r] = 0
    <3>1. ReadLoop(r) BY <1>3, <2>1 DEF Woken
    <3>q. QED BY <2>0, <3>1, ReadLoops DEF Enters
  <2>2. CASE phase[r] = 1
    <3>1. FirstByte(r, timedOut[r]) BY <1>3, <2>2 DEF Woken
    <3>q. QED BY Zenon, <2>0, <2>2, <3>1, FirstBytes DEF Enters
  <2>3. CASE phase[r] = 2
    <3>1. Coalesce(r, timedOut[r]) BY <1>3, <2>3 DEF Woken
    <3>q. QED BY Zenon, <2>0, <2>3, <3>1, Coalesces DEF Enters
  <2>q. QED BY <2>1, <2>2, <2>3 DEF Sleepers
<1>q. QED BY <1>1, <1>2, <1>3 DEF Reads

-----------------------------------------------------------------------------
(* The numbers and the queue.                                              *)

\* The steps that are no reader's, by whom they wake.
Broadcasts == interrupt \/ Close \/ StrayTimer \/ \E r \in Readers : TimerFires(r)

\* Every step is a write, a broadcast or a reader's.
LEMMA Steps ==
    ASSUME Next
    PROVE  (\E n \in 1..MaxBytes : Write(n)) \/ Broadcasts \/ (\E r \in Readers : Reads(r))
BY Zenon DEF Next, Broadcasts

\* What every broadcasting step does.
LEMMA BroadcastSteps ==
    ASSUME Broadcasts
    PROVE  Broadcast /\ UNCHANGED <<calls, buf, written, hiWater, warned, phase, result, since>>
BY DEF Broadcasts, interrupt, Close, StrayTimer, TimerFires, writerVars

\* Every step keeps the numbers.
LEMMA NextNumbers == Numbers /\ Sleepers /\ [Next]_vars => Numbers'
<1> SUFFICES ASSUME Numbers, Sleepers, [Next]_vars PROVE Numbers' OBVIOUS
<1>0. MaxBytes \in Nat BY SizesAssumption
<1>1. ASSUME NEW n \in 1..MaxBytes, Write(n) PROVE Numbers'
  BY <1>0, <1>1 DEF Write, Numbers
<1>2. CASE Broadcasts BY <1>2, BroadcastSteps DEF Numbers
<1>3. ASSUME NEW r \in Readers, Reads(r) PROVE Numbers'
  <2>1. UNCHANGED <<written, hiWater>> /\ (Sleeps(r) \/ Returns(r))
    BY <1>3, ReaderSteps DEF writerVars
  <2>2. CASE Sleeps(r) BY <2>1, <2>2 DEF Sleeps, Wait, Numbers
  <2>3. CASE Returns(r)
    <3>1. PICK n \in 0..buf, what \in {"data", "nothing", "eof", "interrupted"} :
              Return(r, what, n)
      BY <2>3 DEF Returns, TakesData, TakesNothing, SeesEnd, SeesInterrupt, Numbers
    <3>2. buf' = buf - n /\ (since' = since + 1 \/ since' = since \/ since' = 0)
      BY <3>1 DEF Return
    <3>q. QED BY <1>0, <2>1, <3>1, <3>2 DEF Numbers
  <2>q. QED BY <2>1, <2>2, <2>3
<1>4. CASE UNCHANGED vars BY <1>4 DEF vars, Numbers
<1>q. QED BY Zenon, <1>1, <1>2, <1>3, <1>4, Steps

\* Signal wakes the oldest sleeper, which leaves the queue.
LEMMA SignalSleepers ==
    ASSUME Sleepers, Signal, UNCHANGED <<phase, calls, result, timedOut>>
    PROVE  Sleepers'
<1>1. CASE queue = <<>> BY <1>1 DEF Signal, Sleepers
<1>2. CASE queue # <<>>
  <2> DEFINE h == Head(queue)
  <2>0. queue \in Seq(Readers) BY DEF Sleepers
  <2>1. h \in Readers /\ 1 \in DOMAIN queue /\ queue[1] = h BY <1>2, <2>0
  <2>2. queue' = Tail(queue) /\ at' = [at EXCEPT ![h] = "woken"] BY <1>2 DEF Signal
  <2>3. queue' \in Seq(Readers) BY <1>2, <2>0, <2>2
  <2>4. \A i \in DOMAIN queue' : i + 1 \in DOMAIN queue /\ queue'[i] = queue[i + 1] /\ i \in Nat /\ i # 0
    BY <1>2, <2>0, <2>2
  <2>5. \A i \in DOMAIN queue : i # 1 => i - 1 \in DOMAIN queue' /\ queue'[i - 1] = queue[i] /\ i \in Nat
    BY <1>2, <2>0, <2>2
  <2>6. ASSUME NEW i \in DOMAIN queue' PROVE at'[queue'[i]] = "wait"
    <3>1. at[queue[i + 1]] = "wait" /\ queue[i + 1] # h
      <4>1. i + 1 \in DOMAIN queue /\ i + 1 # 1 BY <2>4
      <4>q. QED BY <2>1, <4>1 DEF Sleepers
    <3>2. queue'[i] \in Readers BY <2>3
    <3>q. QED BY <2>2, <2>4, <3>1, <3>2 DEF Sleepers
  <2>7. ASSUME NEW i \in DOMAIN queue', NEW j \in DOMAIN queue', queue'[i] = queue'[j] PROVE i = j
    <3>1. i + 1 = j + 1 BY <2>4, <2>7 DEF Sleepers
    <3>q. QED BY <2>4, <3>1
  <2>8. ASSUME NEW r \in Readers, at'[r] = "wait" PROVE \E i \in DOMAIN queue' : queue'[i] = r
    <3>1. at[r] = "wait" /\ r # h BY <2>1, <2>2, <2>8 DEF Sleepers
    <3>2. PICK i \in DOMAIN queue : queue[i] = r BY <3>1 DEF Sleepers
    <3>3. i # 1 BY <2>1, <3>1, <3>2
    <3>q. QED BY <2>5, <3>2, <3>3
  <2>9. at' \in [Readers -> {"out", "wait", "woken"}] BY Zenon, <2>2 DEF Sleepers
  <2>10. \A r \in Readers : at'[r] # "out" => calls[r] # "none"
    BY <2>1, <2>2 DEF Sleepers
  <2>q. QED BY <2>3, <2>6, <2>7, <2>8, <2>9, <2>10 DEF Sleepers
<1>q. QED BY <1>1, <1>2

\* Who goes to sleep was not in the queue, and is its last.
LEMMA SleepSleepers ==
    ASSUME Sleepers, NEW r \in Readers, Enters(r), Sleeps(r), UNCHANGED calls
    PROVE  Sleepers'
<1>1. PICK ph \in 0..2 : Wait(r, ph, FALSE) \/ Wait(r, ph, timedOut[r]) BY Zenon DEF Sleeps
<1>2. /\ at' = [at EXCEPT ![r] = "wait"] /\ queue' = Append(queue, r)
      /\ phase' = [phase EXCEPT ![r] = ph] /\ DOMAIN timedOut' = DOMAIN timedOut
      /\ result' = result
  BY <1>1 DEF Wait
<1>3. queue \in Seq(Readers) /\ at[r] # "wait" BY DEF Sleepers, Enters
<1>4. queue' \in Seq(Readers) /\ Len(queue') = Len(queue) + 1 BY <1>2, <1>3
<1>5. /\ Len(queue) \in Nat /\ DOMAIN queue = 1..Len(queue)
      /\ DOMAIN queue' = 1..(Len(queue) + 1) /\ queue'[Len(queue) + 1] = r
      /\ \A i \in DOMAIN queue : queue'[i] = queue[i]
  BY <1>2, <1>3, <1>4
<1>6. \A i \in DOMAIN queue : queue[i] # r BY <1>3 DEF Sleepers
<1>7. \A i \in DOMAIN queue' : at'[queue'[i]] = "wait"
  BY <1>2, <1>3, <1>5 DEF Sleepers
<1>8. \A i, j \in DOMAIN queue' : queue'[i] = queue'[j] => i = j
  BY <1>5, <1>6 DEF Sleepers
<1>9. \A q \in Readers : at'[q] = "wait" => \E i \in DOMAIN queue' : queue'[i] = q
  <2> SUFFICES ASSUME NEW q \in Readers, at'[q] = "wait"
               PROVE  \E i \in DOMAIN queue' : queue'[i] = q
    OBVIOUS
  <2>1. CASE q = r
    <3>1. Len(queue) + 1 \in DOMAIN queue' BY <1>5
    <3>q. QED BY <1>5, <2>1, <3>1
  <2>2. CASE q # r
    <3>1. at[q] = "wait" BY <1>2, <2>2 DEF Sleepers
    <3>2. PICK i \in DOMAIN queue : queue[i] = q BY <3>1 DEF Sleepers
    <3>3. i \in DOMAIN queue' BY <1>5
    <3>q. QED BY <1>5, <3>2, <3>3
  <2>q. QED BY <2>1, <2>2
<1>10. at' \in [Readers -> {"out", "wait", "woken"}] /\ phase' \in [Readers -> 0..2]
  BY <1>2 DEF Sleepers
<1>11. \A q \in Readers : at'[q] # "out" => calls[q] # "none" BY <1>2 DEF Sleepers, Enters
<1>q. QED BY <1>2, <1>4, <1>7, <1>8, <1>9, <1>10, <1>11 DEF Sleepers

\* Who returns was not in the queue.
LEMMA ReturnSleepers ==
    ASSUME Numbers, Sleepers, NEW r \in Readers, Enters(r), Returns(r), UNCHANGED calls
    PROVE  Sleepers'
<1>1. PICK n \in 0..buf, what \in {"data", "nothing", "eof", "interrupted"} : Return(r, what, n)
  BY DEF Numbers, Returns, TakesData, TakesNothing, SeesEnd, SeesInterrupt
<1>2. /\ at' = [at EXCEPT ![r] = "out"] /\ queue' = queue
      /\ phase' = [phase EXCEPT ![r] = 0] /\ DOMAIN timedOut' = DOMAIN timedOut
      /\ result' = [result EXCEPT ![r] = what]
  BY <1>1 DEF Return
<1>3. at[r] # "wait" BY DEF Enters
<1>4. at' \in [Readers -> {"out", "wait", "woken"}] /\ phase' \in [Readers -> 0..2]
      /\ result' \in [Readers -> {"new", "data", "nothing", "eof", "interrupted"}]
  BY <1>2 DEF Sleepers
<1>5. \A i \in DOMAIN queue : at'[queue[i]] = "wait"
  <2> SUFFICES ASSUME NEW i \in DOMAIN queue PROVE at'[queue[i]] = "wait" OBVIOUS
  <2>1. queue[i] \in Readers /\ at[queue[i]] = "wait" BY DEF Sleepers
  <2>q. QED BY <1>2, <1>3, <2>1 DEF Sleepers
<1>q. QED BY <1>2, <1>4, <1>5 DEF Sleepers

\* Every step keeps the queue.
LEMMA NextSleepers == Numbers /\ Sleepers /\ [Next]_vars => Sleepers'
<1> SUFFICES ASSUME Numbers, Sleepers, [Next]_vars PROVE Sleepers' OBVIOUS
<1>1. ASSUME NEW n \in 1..MaxBytes, Write(n) PROVE Sleepers'
  <2>1. Signal /\ UNCHANGED <<phase, calls, result, timedOut>> BY <1>1 DEF Write
  <2>q. QED BY <2>1, SignalSleepers
<1>2. CASE Broadcasts
  <2>1. /\ at' = [r \in Readers |-> IF at[r] = "wait" THEN "woken" ELSE at[r]]
        /\ queue' = <<>> /\ UNCHANGED <<calls, phase, result>>
    BY <1>2, BroadcastSteps DEF Broadcast
  <2>2. DOMAIN timedOut' = DOMAIN timedOut
    BY <1>2 DEF Broadcasts, interrupt, Close, StrayTimer, TimerFires
  <2>3. \A r \in Readers : at'[r] # "wait" BY <2>1 DEF Sleepers
  <2>4. queue' \in Seq(Readers) /\ DOMAIN queue' = {} BY <2>1
  <2>5. at' \in [Readers -> {"out", "wait", "woken"}]
        /\ \A r \in Readers : at'[r] # "out" => at[r] # "out"
    BY <2>1 DEF Sleepers
  <2>q. QED BY <2>1, <2>2, <2>3, <2>4, <2>5 DEF Sleepers
<1>3. ASSUME NEW r \in Readers, Reads(r) PROVE Sleepers'
  <2>1. Enters(r) /\ UNCHANGED calls /\ (Sleeps(r) \/ Returns(r))
    BY <1>3, ReaderSteps DEF writerVars
  <2>q. QED BY <2>1, SleepSleepers, ReturnSleepers
<1>4. CASE UNCHANGED vars BY <1>4 DEF vars, Sleepers
<1>q. QED BY Zenon, <1>1, <1>2, <1>3, <1>4, Steps

-----------------------------------------------------------------------------
(* Wake-ups, the end and the interrupt.                                    *)

\* A sole reader that coalesces has a byte.
Held == \A r \in Readers : Sole(r) /\ phase[r] = 2 => buf # 0

\* No interrupt pending, nothing returned before it; one call at most has, and
\* the reader has yet to call again.
Pending ==
    /\ ~intr => since = 0
    /\ \A r \in Readers : Sole(r) /\ calls[r] = "ReadAvailable" =>
           since <= 1 /\ (since = 1 => at[r] = "out")

IInv == Numbers /\ Sleepers /\ NoMissedWakeup /\ EndIsFinal /\ Held /\ Pending

\* Nothing sleeps at first.
LEMMA InitIInv == Init => IInv
<1> SUFFICES ASSUME Init PROVE IInv OBVIOUS
<1>1. Numbers BY SizesAssumption DEF Init, Numbers
<1>2. calls \in [Readers -> {"Read", "ReadAvailable", "none"}] BY DEF Init
<1>3. Sleepers BY <1>2 DEF Init, Sleepers
<1>4. NoMissedWakeup /\ EndIsFinal /\ Held /\ Pending
  BY DEF Init, NoMissedWakeup, EndIsFinal, Held, Pending
<1>q. QED BY <1>1, <1>3, <1>4 DEF IInv

\* A sole reader is the only one that takes steps.
LEMMA SoleActs ==
    ASSUME Sleepers, NEW r \in Readers, NEW q \in Readers, Sole(r), Enters(q)
    PROVE  q = r
BY DEF Sole, Enters, Sleepers

\* A Write wakes a sole reader that sleeps.
LEMMA SignalWakesSole ==
    ASSUME Sleepers, Signal, NEW r \in Readers, Sole(r)
    PROVE  at'[r] # "wait"
<1>1. CASE at[r] # "wait" BY <1>1 DEF Signal, Sleepers
<1>2. CASE at[r] = "wait"
  <2>1. queue \in Seq(Readers) /\ \E i \in DOMAIN queue : queue[i] = r BY <1>2 DEF Sleepers
  <2>2. queue # <<>> BY <2>1
  <2>3. 1 \in DOMAIN queue /\ Head(queue) = queue[1] /\ queue[1] \in Readers BY <2>1, <2>2
  <2>4. at[queue[1]] = "wait" BY <2>3 DEF Sleepers
  <2>5. calls[queue[1]] # "none" BY <2>3, <2>4 DEF Sleepers
  <2>6. Head(queue) = r BY <2>3, <2>5 DEF Sole
  <2>q. QED BY <2>2, <2>6 DEF Signal, Sleepers
<1>q. QED BY <1>1, <1>2

\* Write keeps the invariant.
LEMMA WriteIInv ==
    ASSUME IInv, NEW n \in 1..MaxBytes, Write(n)
    PROVE  NoMissedWakeup' /\ EndIsFinal' /\ Held' /\ Pending'
<1>0. Numbers /\ Sleepers /\ buf \in Nat /\ n \in Nat \ {0} BY DEF IInv, Numbers
<1>1. /\ Signal /\ ~closed /\ buf' = buf + n
      /\ UNCHANGED <<calls, closed, intr, phase, timedOut, result, since>>
  BY DEF Write
<1>2. \A r \in Readers : at'[r] = "wait" => at[r] = "wait" BY <1>0, <1>1 DEF Signal, Sleepers
<1>3. \A r \in Readers : Sole(r)' <=> Sole(r) BY <1>1 DEF Sole
<1>4. \A r \in Readers : Sole(r) => at'[r] # "wait" BY <1>0, <1>1, SignalWakesSole
<1>5. NoMissedWakeup' BY <1>1, <1>2, <1>3, <1>4 DEF IInv, NoMissedWakeup
<1>6. EndIsFinal' BY <1>1 DEF IInv, EndIsFinal
<1>7. Held' BY <1>0, <1>1, <1>3 DEF Held
<1>8. \A r \in Readers : at[r] = "out" => at'[r] = "out"
  <2>1. CASE queue = <<>> BY <1>1, <2>1 DEF Signal
  <2>2. CASE queue # <<>>
    <3>1. 1 \in DOMAIN queue /\ Head(queue) = queue[1] BY <1>0, <2>2 DEF Sleepers
    <3>2. at[Head(queue)] = "wait" BY <1>0, <3>1 DEF Sleepers
    <3>q. QED BY <1>0, <1>1, <2>2, <3>2 DEF Signal, Sleepers
  <2>q. QED BY <2>1, <2>2
<1>9. Pending' BY <1>1, <1>3, <1>8 DEF IInv, Pending
<1>q. QED BY <1>5, <1>6, <1>7, <1>9

\* An interrupt, a Close and a timer keep the invariant: nobody sleeps on.
LEMMA BroadcastIInv ==
    ASSUME IInv, Broadcasts
    PROVE  NoMissedWakeup' /\ EndIsFinal' /\ Held' /\ Pending'
<1>0. Numbers /\ Sleepers BY DEF IInv
<1>1. /\ at' = [r \in Readers |-> IF at[r] = "wait" THEN "woken" ELSE at[r]]
      /\ UNCHANGED <<calls, buf, phase, result, since>>
  BY BroadcastSteps DEF Broadcast
<1>2. (closed => closed') /\ (intr => intr')
  BY DEF Broadcasts, interrupt, Close, StrayTimer, TimerFires, writerVars
<1>3. \A r \in Readers : at'[r] # "wait" /\ (at[r] = "out" => at'[r] = "out")
  BY <1>0, <1>1 DEF Sleepers
<1>4. \A r \in Readers : Sole(r)' <=> Sole(r) BY <1>1 DEF Sole
<1>5. NoMissedWakeup' BY <1>3 DEF NoMissedWakeup
<1>6. EndIsFinal' BY <1>1, <1>2 DEF IInv, EndIsFinal
<1>7. Held' BY <1>1, <1>4 DEF IInv, Held
<1>8. Pending' BY <1>1, <1>2, <1>3, <1>4 DEF IInv, Pending
<1>q. QED BY <1>5, <1>6, <1>7, <1>8

\* A reader that goes to sleep has nothing to wake up for.
LEMMA SleepIInv ==
    ASSUME IInv, NEW q \in Readers, Enters(q), Sleeps(q), UNCHANGED writerVars
    PROVE  NoMissedWakeup' /\ EndIsFinal' /\ Held' /\ Pending'
<1>0. Numbers /\ Sleepers BY DEF IInv
<1>1. PICK ph \in 0..2 :
        /\ Wait(q, ph, FALSE) \/ (~timedOut[q] /\ Wait(q, ph, timedOut[q]))
        /\ ~closed /\ buf < Enough(ph)
        /\ ph # 0 => ~intr
        /\ ph = 2 => buf # 0 \/ (at[q] = "woken" /\ phase[q] = 2)
        /\ at[q] = "out" /\ calls[q] = "ReadAvailable" => ~intr
  BY Zenon DEF Sleeps
<1>2. /\ at'[q] = "wait" /\ phase'[q] = ph /\ ~timedOut'[q]
      /\ \A r \in Readers \ {q} : at'[r] = at[r] /\ phase'[r] = phase[r] /\ timedOut'[r] = timedOut[r]
      /\ UNCHANGED <<buf, intr, result, since, calls, closed>>
  BY <1>0, <1>1 DEF Wait, Sleepers, writerVars
<1>3. \A r \in Readers : Sole(r)' <=> Sole(r) BY <1>2 DEF Sole
<1>4. NoMissedWakeup'
  BY Zenon, <1>1, <1>2, <1>3 DEF IInv, NoMissedWakeup, Enough
<1>5. EndIsFinal' BY <1>2 DEF IInv, EndIsFinal
<1>6. Held' BY Zenon, <1>1, <1>2, <1>3 DEF IInv, Held
<1>7. ASSUME NEW r \in Readers, Sole(r), calls[r] = "ReadAvailable" PROVE since <= 1 /\ since # 1
  <2>1. q = r BY <1>0, <1>7, SoleActs
  <2>2. since <= 1 /\ (since = 1 => at[r] = "out") /\ (~intr => since = 0)
    BY <1>7 DEF IInv, Pending
  <2>q. QED BY <1>1, <1>7, <2>1, <2>2
<1>8. Pending' BY <1>2, <1>3, <1>7 DEF IInv, Pending
<1>q. QED BY <1>4, <1>5, <1>6, <1>8

\* A call that returns leaves the others nothing to wake up for, does not hide
\* the end, and returns data before a pending interrupt once at most.
LEMMA ReturnIInv ==
    ASSUME IInv, NEW q \in Readers, Enters(q), Returns(q), UNCHANGED writerVars
    PROVE  NoMissedWakeup' /\ EndIsFinal' /\ Held' /\ Pending'
<1>0. Numbers /\ Sleepers /\ buf \in Nat BY DEF IInv, Numbers
<1>1. PICK n \in 0..buf, what \in {"data", "nothing", "eof", "interrupted"} :
        /\ Return(q, what, n)
        /\ what = "eof" => closed /\ buf = 0
        /\ what = "data" /\ at[q] = "out" /\ calls[q] = "ReadAvailable" => ~intr
  BY <1>0 DEF Returns, TakesData, TakesNothing, SeesEnd, SeesInterrupt
<1>2. /\ at'[q] = "out" /\ phase'[q] = 0 /\ result'[q] = what
      /\ \A r \in Readers \ {q} : /\ at'[r] = at[r] /\ phase'[r] = phase[r]
                                 /\ timedOut'[r] = timedOut[r] /\ result'[r] = result[r]
      /\ buf' = buf - n
      /\ intr' = (intr /\ what # "interrupted")
      /\ since' = IF intr /\ what = "data" THEN since + 1 ELSE IF intr' THEN since ELSE 0
      /\ UNCHANGED <<calls, closed>>
  BY <1>0, <1>1 DEF Return, Sleepers, writerVars
<1>3. \A r \in Readers : Sole(r)' <=> Sole(r) BY <1>2 DEF Sole
<1>4. \A r \in Readers : Sole(r) => r = q BY <1>0, SoleActs
<1>5. NoMissedWakeup' BY Zenon, <1>2, <1>3, <1>4 DEF IInv, NoMissedWakeup
<1>6. EndIsFinal' BY <1>0, <1>1, <1>2 DEF IInv, EndIsFinal
<1>7. Held' BY <1>2, <1>3, <1>4 DEF Held
<1>8. ~intr' => since' = 0 BY Zenon, <1>2
<1>9. ASSUME NEW r \in Readers, Sole(r), calls[r] = "ReadAvailable" PROVE since' <= 1
  <2>1. r = q BY <1>4, <1>9
  <2>2. since \in Nat /\ since <= 1 /\ (since = 1 => at[r] = "out") BY <1>9 DEF IInv, Pending, Numbers
  <2>3. CASE intr /\ what = "data"
    <3>1. at[r] # "out" BY <1>1, <1>9, <2>1, <2>3
    <3>2. since = 0 /\ since' = since + 1 BY <1>2, <2>2, <2>3, <3>1
    <3>q. QED BY <3>2
  <2>4. CASE ~(intr /\ what = "data") BY <1>2, <2>2, <2>4
  <2>q. QED BY <2>3, <2>4
<1>10. Pending' BY <1>2, <1>3, <1>4, <1>8, <1>9 DEF Pending
<1>q. QED BY <1>5, <1>6, <1>7, <1>10

\* Every step keeps the invariant.
LEMMA NextIInv == IInv /\ [Next]_vars => IInv'
<1> SUFFICES ASSUME IInv, [Next]_vars PROVE IInv' OBVIOUS
<1>1. Numbers' /\ Sleepers' BY NextNumbers, NextSleepers DEF IInv
<1>2. NoMissedWakeup' /\ EndIsFinal' /\ Held' /\ Pending'
  <2>1. ASSUME NEW r \in Readers, Reads(r) PROVE NoMissedWakeup' /\ EndIsFinal' /\ Held' /\ Pending'
    <3>1. Enters(r) /\ UNCHANGED writerVars /\ (Sleeps(r) \/ Returns(r))
      BY <2>1, ReaderSteps DEF IInv
    <3>q. QED BY Zenon, <3>1, SleepIInv, ReturnIInv
  <2>2. CASE UNCHANGED vars
    BY <2>2 DEF vars, IInv, NoMissedWakeup, EndIsFinal, Held, Pending, Sole
  <2>q. QED BY Zenon, <2>1, <2>2, WriteIInv, BroadcastIInv, Steps
<1>q. QED BY <1>1, <1>2 DEF IInv

-----------------------------------------------------------------------------
\* The inductive invariant holds of every reachable state.
THEOREM Invariant == Spec => []IInv
BY InitIInv, NextIInv, PTL DEF Spec

\* NoMissedWakeup: whoever sleeps in cond.Wait has nothing to wake up for.
THEOREM NoWakeupMissed == Spec => []NoMissedWakeup
<1>1. IInv => NoMissedWakeup BY DEF IInv
<1>q. QED BY <1>1, Invariant, PTL

\* EndIsFinal: io.EOF comes after the last byte.
THEOREM EndComesLast == Spec => []EndIsFinal
<1>1. IInv => EndIsFinal BY DEF IInv
<1>q. QED BY <1>1, Invariant, PTL

\* InterruptPrompt: an interrupt is seen by the second call at the latest.
THEOREM InterruptIsPrompt == Spec => []InterruptPrompt
<1>1. IInv => InterruptPrompt BY DEF IInv, Pending, InterruptPrompt
<1>q. QED BY <1>1, Invariant, PTL

\* EmptyHandedIsTimeout: a call of a sole reader that comes back with nothing
\* has timed out, with nothing buffered and the pipe open.
THEOREM EmptyHandedTimedOut == Spec => EmptyHandedIsTimeout
<1> DEFINE A == \A r \in Readers :
          at[r] # "out" /\ at'[r] = "out" /\ result'[r] = "nothing" /\ Sole(r)
          => ~closed /\ buf = 0 /\ timedOut[r]
<1>1. IInv /\ [Next]_vars => [A]_vars
  <2> SUFFICES ASSUME IInv, Next, NEW r \in Readers,
                      at[r] # "out", at'[r] = "out", result'[r] = "nothing", Sole(r)
               PROVE  ~closed /\ buf = 0 /\ timedOut[r]
    OBVIOUS
  <2>0. Numbers /\ Sleepers BY DEF IInv
  <2>1. ASSUME NEW n \in 1..MaxBytes, Write(n) PROVE FALSE
    BY <2>0, <2>1 DEF Write, Signal, Sleepers
  <2>2. CASE Broadcasts
    <3>1. at' = [q \in Readers |-> IF at[q] = "wait" THEN "woken" ELSE at[q]]
      BY <2>2, BroadcastSteps DEF Broadcast
    <3>q. QED BY <3>1
  <2>3. ASSUME NEW q \in Readers, Reads(q) PROVE ~closed /\ buf = 0 /\ timedOut[r]
    <3>1. Enters(q) /\ (Sleeps(q) \/ Returns(q)) BY <2>0, <2>3, ReaderSteps
    <3>2. q = r BY <2>0, <3>1, SoleActs
    <3>3. ~ Sleeps(r) BY <2>0 DEF Sleeps, Wait, Sleepers
    <3>4. TakesNothing(r)
      <4>1. ASSUME NEW n, NEW what, Return(r, what, n) PROVE what = "nothing"
        BY <2>0, <4>1 DEF Return, Sleepers
      <4>2. ~ TakesData(r) /\ ~ SeesEnd(r) /\ ~ SeesInterrupt(r)
        BY <4>1 DEF TakesData, SeesEnd, SeesInterrupt
      <4>q. QED BY <3>1, <3>2, <3>3, <4>2 DEF Returns
    <3>5. buf = 0 BY <3>4 DEF TakesNothing
    <3>6. phase[r] # 2 BY <3>5 DEF IInv, Held
    <3>q. QED BY <3>4, <3>5, <3>6 DEF TakesNothing
  <2>q. QED BY Zenon, <2>1, <2>2, <2>3, Steps
<1>q. QED BY <1>1, Invariant, PTL DEF Spec, EmptyHandedIsTimeout

-----------------------------------------------------------------------------
(* TypeOK.                                                                 *)

Flags ==
    /\ closed \in BOOLEAN /\ intr \in BOOLEAN /\ warned \in BOOLEAN /\ stray \in BOOLEAN
    /\ timedOut \in [Readers -> BOOLEAN]

Warning == warned <=> WarnThreshold > 0 /\ hiWater >= WarnThreshold

\* The flags stay Boolean.
LEMMA NextFlags == Numbers /\ Sleepers /\ Flags /\ [Next]_vars => Flags'
<1> SUFFICES ASSUME Numbers, Sleepers, Flags, [Next]_vars PROVE Flags' OBVIOUS
<1>1. ASSUME NEW n \in 1..MaxBytes, Write(n) PROVE Flags'
  BY Zenon, <1>1 DEF Write, Flags
<1>2. CASE Broadcasts
  <2>1. closed' \in BOOLEAN /\ intr' \in BOOLEAN /\ warned' \in BOOLEAN /\ stray' \in BOOLEAN
    BY Zenon, <1>2 DEF Broadcasts, interrupt, Close, StrayTimer, TimerFires, writerVars, Flags
  <2>2. timedOut' = timedOut \/ \E r \in Readers : timedOut' = [timedOut EXCEPT ![r] = TRUE]
    BY Zenon, <1>2 DEF Broadcasts, interrupt, Close, StrayTimer, TimerFires
  <2>3. timedOut' \in [Readers -> BOOLEAN] BY Zenon, <2>2 DEF Flags
  <2>q. QED BY <2>1, <2>3 DEF Flags
<1>3. ASSUME NEW r \in Readers, Reads(r) PROVE Flags'
  <2>1. UNCHANGED <<closed, warned>> /\ (Sleeps(r) \/ Returns(r))
    BY <1>3, ReaderSteps DEF writerVars
  <2>2. stray' \in BOOLEAN
    BY Zenon, <1>3 DEF Reads, Read, ReadAvailable, Woken, Stop, Flags
  <2>3. intr' \in BOOLEAN
    BY Zenon, <2>1 DEF Sleeps, Wait, Returns, TakesData, TakesNothing, SeesEnd, SeesInterrupt,
      Return, Flags
  <2>4. timedOut' = [timedOut EXCEPT ![r] = FALSE] \/ timedOut' = [timedOut EXCEPT ![r] = timedOut[r]]
    BY <2>1 DEF Sleeps, Wait, Returns, TakesData, TakesNothing, SeesEnd, SeesInterrupt, Return
  <2>5. timedOut' \in [Readers -> BOOLEAN] BY Zenon, <2>4 DEF Flags
  <2>q. QED BY Zenon, <2>1, <2>2, <2>3, <2>5 DEF Flags
<1>4. CASE UNCHANGED vars BY Zenon, <1>4 DEF vars, Flags
<1>q. QED BY Zenon, <1>1, <1>2, <1>3, <1>4, Steps

\* The warning is given when the mark first reaches the threshold.
LEMMA NextWarning == Numbers /\ Sleepers /\ Warning /\ [Next]_vars => Warning'
<1> SUFFICES ASSUME Numbers, Sleepers, Warning, [Next]_vars PROVE Warning' OBVIOUS
<1>1. ASSUME NEW n \in 1..MaxBytes, Write(n) PROVE Warning'
  <2> DEFINE over == buf + n > hiWater /\ WarnThreshold > 0 /\ buf + n >= WarnThreshold
             high == WarnThreshold > 0 /\ hiWater >= WarnThreshold
  <2>1. warned' = (warned \/ over) /\ hiWater' = IF buf + n > hiWater THEN buf + n ELSE hiWater
    BY <1>1 DEF Write
  <2>2. (high \/ over) <=> WarnThreshold > 0 /\ hiWater' >= WarnThreshold
    BY <2>1, SizesAssumption DEF Numbers
  <2>3. warned <=> high BY DEF Warning
  <2> HIDE DEF over, high
  <2>q. QED BY Zenon, <2>1, <2>2, <2>3 DEF Warning
<1>2. CASE Broadcasts BY <1>2, BroadcastSteps DEF Warning
<1>3. ASSUME NEW r \in Readers, Reads(r) PROVE Warning'
  BY <1>3, ReaderSteps DEF writerVars, Warning
<1>4. CASE UNCHANGED vars BY <1>4 DEF vars, Warning
<1>q. QED BY Zenon, <1>1, <1>2, <1>3, <1>4, Steps

\* TypeOK: the types, and that HiWater and the warning mean what they say.
THEOREM TypeCorrect == Spec => []TypeOK
<1>1. Init => Flags /\ Warning
  <2> SUFFICES ASSUME Init PROVE Flags /\ Warning OBVIOUS
  <2>1. closed \in BOOLEAN /\ intr \in BOOLEAN /\ warned \in BOOLEAN /\ stray \in BOOLEAN
    BY Zenon DEF Init
  <2>2. timedOut \in [Readers -> BOOLEAN] BY DEF Init
  <2>3. Warning BY SizesAssumption DEF Init, Warning
  <2>q. QED BY <2>1, <2>2, <2>3 DEF Flags
<1>2. IInv /\ Flags /\ Warning /\ [Next]_vars => Flags' /\ Warning'
  BY NextFlags, NextWarning DEF IInv
<1>3. IInv /\ Flags /\ Warning => TypeOK
  BY DEF IInv, Numbers, Sleepers, Flags, Warning, TypeOK
<1>q. QED BY <1>1, <1>2, <1>3, Invariant, PTL DEF Spec
=============================================================================
