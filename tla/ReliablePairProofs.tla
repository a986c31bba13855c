------------------------- MODULE ReliablePairProofs -------------------------
(***************************************************************************)
(* The safety properties of ReliablePair, for every replay limit, buffer   *)
(* size and number of bytes written, and the proof that the pair           *)
(* implements ByteStream.                                                  *)
(*                                                                         *)
(* StreamIntact is not inductive: that a frame brings the right bytes      *)
(* rests on how frames were numbered, which rests on what the out pipe and *)
(* the bytes between the pipe and their numbering hold.  IInv adds that.   *)
(***************************************************************************)
EXTENDS ReliablePair, SequenceTheorems, TLAPS

-----------------------------------------------------------------------------
(* The operators of Reliable, for every buffer size and every replay limit. *)

(* Bytes(lo, hi) is the sequence of the numbers lo .. hi.                  *)
LEMMA BytesProperties ==
    ASSUME NEW lo \in Nat, NEW hi \in Nat, lo <= hi + 1
    PROVE  /\ Bytes(lo, hi) \in Seq(Nat)
           /\ Len(Bytes(lo, hi)) = (hi + 1) - lo
           /\ \A i \in 1..((hi + 1) - lo) : Bytes(lo, hi)[i] = (lo + i) - 1
<1> DEFINE n == (hi + 1) - lo
<1>1. n \in Nat
    OBVIOUS
<1>2. \A i \in 1..n : (lo + i) - 1 \in Nat
    OBVIOUS
<1>3. Bytes(lo, hi) \in [1..n -> Nat]
    BY <1>2 DEF Bytes
<1>4. Bytes(lo, hi) \in Seq(Nat)
    BY <1>1, <1>3, SeqDef
<1>5. DOMAIN Bytes(lo, hi) = 1..n
    BY DEF Bytes
<1>6. Len(Bytes(lo, hi)) = n
    BY <1>1, <1>4, <1>5, LenProperties
<1> QED
    BY <1>4, <1>6 DEF Bytes

(* Two adjacent stretches of a stream concatenate.                         *)
LEMMA BytesConcat ==
    ASSUME NEW a \in Nat, NEW b \in Nat, NEW c \in Nat, a <= b + 1, b <= c
    PROVE  Bytes(a, b) \o Bytes(b + 1, c) = Bytes(a, c)
<1> DEFINE s == Bytes(a, b)
           t == Bytes(b + 1, c)
           u == Bytes(a, c)
<1>a. s \in Seq(Nat) /\ Len(s) = (b + 1) - a
    BY BytesProperties
<1>b. b + 1 \in Nat /\ b + 1 <= c + 1
    OBVIOUS
<1>c. t \in Seq(Nat) /\ Len(t) = (c + 1) - (b + 1)
    BY <1>b, BytesProperties
<1>d. u \in Seq(Nat) /\ Len(u) = (c + 1) - a
    BY BytesProperties
<1>1. /\ s \in Seq(Nat) /\ t \in Seq(Nat) /\ u \in Seq(Nat)
      /\ Len(s) = (b + 1) - a
      /\ Len(t) = (c + 1) - (b + 1)
      /\ Len(u) = (c + 1) - a
    BY <1>a, <1>c, <1>d
<1>2. /\ s \o t \in Seq(Nat)
      /\ Len(s \o t) = Len(s) + Len(t)
      /\ \A i \in 1..(Len(s) + Len(t)) :
            (s \o t)[i] = IF i <= Len(s) THEN s[i] ELSE t[i - Len(s)]
    BY Zenon, <1>1, ConcatProperties
<1>3. ASSUME NEW i \in 1..Len(u) PROVE (s \o t)[i] = u[i]
    <2>1. u[i] = (a + i) - 1
        <3>1. i \in 1..((c + 1) - a) /\ a <= c + 1
            BY <1>d
        <3> QED BY <3>1, BytesProperties
    <2>2. CASE i <= Len(s)
        <3>1. i \in 1..((b + 1) - a)
            BY <1>1, <2>2
        <3>2. s[i] = (a + i) - 1
            BY <3>1, BytesProperties
        <3> QED BY <1>1, <1>2, <2>1, <2>2, <3>2
    <2>3. CASE ~(i <= Len(s))
        <3>1. i - Len(s) \in 1..((c + 1) - (b + 1))
            BY <1>1, <2>3
        <3>2. t[i - Len(s)] = ((b + 1) + (i - Len(s))) - 1
            BY <1>b, <3>1, BytesProperties
        <3>3. i \in 1..(Len(s) + Len(t))
            BY <1>1
        <3>4. (s \o t)[i] = t[i - Len(s)]
            BY <1>2, <2>3, <3>3
        <3>5. ((b + 1) + (i - Len(s))) - 1 = (a + i) - 1
            BY <1>1
        <3> QED BY Zenon, <2>1, <3>2, <3>4, <3>5
    <2> QED BY Zenon, <2>2, <2>3
<1>4. Len(s \o t) = Len(u)
    BY <1>1, <1>2
<1> QED
    BY Zenon, <1>1, <1>2, <1>3, <1>4, SeqEqual

(* p[n:] keeps the last Len(p) - n elements.                               *)
LEMMA DropProperties ==
    ASSUME NEW p \in Seq(Nat), NEW n \in Nat, n <= Len(p)
    PROVE  /\ Drop(p, n) \in Seq(Nat)
           /\ Len(Drop(p, n)) = Len(p) - n
           /\ \A i \in 1..(Len(p) - n) : Drop(p, n)[i] = p[n + i]
<1> DEFINE m == n + 1
           k == Len(p)
<1>1. m \in Int /\ k \in Int /\ k \in Nat
    BY LenProperties
<1>2. \A i \in m..k : p[i] \in Nat
    BY <1>1, ElementOfSeq
<1>3. /\ SubSeq(p, m, k) \in Seq(Nat)
      /\ Len(SubSeq(p, m, k)) = IF m <= k THEN (k - m) + 1 ELSE 0
      /\ \A i \in 1..((k - m) + 1) : SubSeq(p, m, k)[i] = p[(m + i) - 1]
    BY <1>1, <1>2, SubSeqProperties
<1>4. Len(SubSeq(p, m, k)) = k - n
    BY <1>1, <1>3
<1>5. ASSUME NEW i \in 1..(k - n) PROVE SubSeq(p, m, k)[i] = p[n + i]
    <2>1. i \in 1..((k - m) + 1) /\ (m + i) - 1 = n + i
        BY <1>1
    <2> QED BY <1>3, <2>1
<1> QED
    BY SMTT(20), <1>3, <1>4, <1>5 DEF Drop

(* p[:n] keeps the first n elements.                                       *)
LEMMA TakeProperties ==
    ASSUME NEW p \in Seq(Nat), NEW n \in Nat, n <= Len(p)
    PROVE  /\ Take(p, n) \in Seq(Nat)
           /\ Len(Take(p, n)) = n
           /\ \A i \in 1..n : Take(p, n)[i] = p[i]
<1>1. 1 \in Int /\ n \in Int /\ Len(p) \in Nat
    BY LenProperties
<1>2. \A i \in 1..n : p[i] \in Nat
    BY <1>1, ElementOfSeq
<1>3. /\ SubSeq(p, 1, n) \in Seq(Nat)
      /\ Len(SubSeq(p, 1, n)) = IF 1 <= n THEN (n - 1) + 1 ELSE 0
      /\ \A i \in 1..((n - 1) + 1) : SubSeq(p, 1, n)[i] = p[(1 + i) - 1]
    BY <1>1, <1>2, SubSeqProperties
<1>4. Len(SubSeq(p, 1, n)) = n
    BY <1>3
<1>5. ASSUME NEW i \in 1..n PROVE SubSeq(p, 1, n)[i] = p[i]
    <2>1. i \in 1..((n - 1) + 1) /\ (1 + i) - 1 = i
        OBVIOUS
    <2> QED BY <1>3, <2>1
<1> QED
    BY <1>3, <1>4, <1>5 DEF Take

(* Dropping a prefix of a stretch leaves a stretch.                        *)
LEMMA BytesDrop ==
    ASSUME NEW a \in Nat, NEW b \in Nat, NEW n \in Nat, n <= (b + 1) - a
    PROVE  Drop(Bytes(a, b), n) = Bytes(a + n, b)
<1> DEFINE p == Bytes(a, b)
           s == Drop(p, n)
           lo == a + n
           t == Bytes(lo, b)
<1>1. lo \in Nat /\ lo <= b + 1 /\ a <= b + 1
    OBVIOUS
<1>2. /\ p \in Seq(Nat) /\ Len(p) = (b + 1) - a
      /\ \A i \in 1..((b + 1) - a) : p[i] = (a + i) - 1
    BY <1>1, BytesProperties
<1>3. t \in Seq(Nat) /\ Len(t) = (b + 1) - lo
    BY <1>1, BytesProperties
<1>4. /\ s \in Seq(Nat) /\ Len(s) = ((b + 1) - a) - n
      /\ \A i \in 1..(((b + 1) - a) - n) : s[i] = p[n + i]
    <2> HIDE DEF p
    <2>1. n <= Len(p)
        BY <1>2
    <2>2. /\ s \in Seq(Nat) /\ Len(s) = Len(p) - n
          /\ \A i \in 1..(Len(p) - n) : s[i] = p[n + i]
        BY <1>2, <2>1, DropProperties
    <2> HIDE DEF s
    <2> QED BY <1>2, <2>2
<1>5. ASSUME NEW i \in 1..Len(s) PROVE s[i] = t[i]
    <2>1. /\ i \in 1..((b + 1) - lo) /\ n + i \in 1..((b + 1) - a)
          /\ i \in 1..(((b + 1) - a) - n)
        BY <1>4
    <2>2. Bytes(a, b)[n + i] = (a + (n + i)) - 1
        BY <1>1, <2>1, BytesProperties
    <2>3. t[i] = (lo + i) - 1
        BY <1>1, <2>1, BytesProperties
    <2> QED BY <1>4, <2>1, <2>2, <2>3
<1>6. Len(s) = Len(t)
    BY <1>3, <1>4
<1> HIDE DEF s, t
<1>7. s = t
    BY <1>3, <1>4, <1>5, <1>6, SeqEqual
<1> QED
    BY <1>7 DEF s, t

(* Taking a prefix of a stretch leaves a stretch.                          *)
LEMMA BytesTake ==
    ASSUME NEW a \in Nat \ {0}, NEW b \in Nat, NEW n \in Nat, n <= (b + 1) - a
    PROVE  Take(Bytes(a, b), n) = Bytes(a, (a + n) - 1)
<1> DEFINE s == Take(Bytes(a, b), n)
           hi == (a + n) - 1
           t == Bytes(a, hi)
<1>1. hi \in Nat /\ a <= hi + 1 /\ a <= b + 1
    OBVIOUS
<1>2. Bytes(a, b) \in Seq(Nat) /\ Len(Bytes(a, b)) = (b + 1) - a
    BY <1>1, BytesProperties
<1>3. t \in Seq(Nat) /\ Len(t) = (hi + 1) - a
    BY SMTT(20), <1>1, BytesProperties
<1>4. /\ s \in Seq(Nat) /\ Len(s) = n
      /\ \A i \in 1..n : s[i] = Bytes(a, b)[i]
    BY <1>2, TakeProperties
<1>5. ASSUME NEW i \in 1..Len(s) PROVE s[i] = t[i]
    <2>1. i \in 1..((hi + 1) - a) /\ i \in 1..((b + 1) - a) /\ i \in 1..n
        BY <1>4
    <2>2. Bytes(a, b)[i] = (a + i) - 1
        BY <1>1, <2>1, BytesProperties
    <2>3. t[i] = (a + i) - 1
        BY <1>1, <2>1, BytesProperties
    <2> QED BY <1>4, <2>1, <2>2, <2>3
<1>6. Len(s) = Len(t)
    BY <1>3, <1>4
<1> HIDE DEF s, t
<1>7. s = t
    BY <1>3, <1>4, <1>5, <1>6, SeqEqual
<1> QED
    BY <1>7 DEF s, t

(* The empty stretch.                                                      *)
LEMMA BytesEmpty ==
    ASSUME NEW n \in Nat
    PROVE  Bytes(n + 1, n) = <<>>
<1>1. n + 1 \in Nat /\ n + 1 <= n + 1
    OBVIOUS
<1>2. Bytes(n + 1, n) \in Seq(Nat) /\ Len(Bytes(n + 1, n)) = 0
    BY <1>1, BytesProperties
<1> QED
    BY <1>2, EmptySeq

-----------------------------------------------------------------------------
(* What every critical section of reliable.go preserves.                   *)

RelOK(r) ==
    /\ r \in Reliables
    /\ r.ackedOffset <= r.sentCursor
    /\ r.sentCursor <= r.sendOffset
    /\ ~r.broken => r.replay = Bytes(r.ackedOffset + 1, r.sendOffset)
    /\ r.broken => r.sentCursor = r.sendOffset

\* r is followed by s in the same session: offsets do not go back, a broken
\* layer stays broken, and an ack is kept unless the layer breaks.
Follows(r, s) ==
    /\ s.sendOffset >= r.sendOffset
    /\ s.ackedOffset >= r.ackedOffset
    /\ s.recvOffset >= r.recvOffset
    /\ r.broken => s.broken

(* A fresh layer satisfies RelOK.                                          *)
LEMMA NewReliableOK == RelOK(newReliable)
<1>1. Bytes(0 + 1, 0) = <<>>
    BY BytesEmpty
<1>2. newReliable \in Reliables
    BY EmptySeq DEF newReliable, Reliables
<1> QED
    BY <1>1, <1>2 DEF RelOK, newReliable

(* markBroken forgets the replay buffer and nothing else.                  *)
LEMMA MarkBrokenOK ==
    ASSUME NEW r, RelOK(r)
    PROVE  LET s == markBrokenLocked(r)
           IN  /\ RelOK(s) /\ Follows(r, s) /\ s.broken
               /\ s.sendOffset = r.sendOffset /\ s.recvOffset = r.recvOffset
               /\ s.lastAck = r.lastAck
<1> DEFINE s == markBrokenLocked(r)
<1>1. r \in Reliables /\ r.ackedOffset <= r.sendOffset
    BY DEF RelOK, Reliables
<1>2. /\ s \in Reliables /\ s.broken = TRUE
      /\ s.sendOffset = r.sendOffset /\ s.recvOffset = r.recvOffset
      /\ s.lastAck = r.lastAck
      /\ s.ackedOffset = r.sendOffset /\ s.sentCursor = r.sendOffset
    BY Zenon, <1>1, EmptySeq DEF Reliables, markBrokenLocked
<1> HIDE DEF s
<1>3. RelOK(s)
    BY <1>1, <1>2 DEF RelOK, Reliables
<1>4. Follows(r, s)
    BY <1>1, <1>2 DEF Follows, Reliables
<1> QED
    BY <1>2, <1>3, <1>4 DEF s

(* Replay: the chunk nextOut answers with carries the bytes of its offset, *)
(* and the layer stays consistent.                                         *)
LEMMA ReplayOK ==
    ASSUME NEW r, RelOK(r), pendingReplay(r)
    PROVE  LET c == replayChunk(r)
               s == afterReplay(r)
           IN  /\ c.off = r.sentCursor /\ c.off \in Nat
               /\ c.data \in Seq(Nat)
               /\ c.data = Bytes(c.off + 1, c.off + Len(c.data))
               /\ c.off + Len(c.data) <= r.sendOffset
               /\ RelOK(s) /\ Follows(r, s) /\ s.broken = r.broken
               /\ s.sendOffset = r.sendOffset /\ s.recvOffset = r.recvOffset
               /\ s.ackedOffset = r.ackedOffset
<1> DEFINE a == r.ackedOffset
           k == r.sentCursor
           e == r.sendOffset
           rest == Drop(r.replay, k - a)
           n == Lesser(BufSize, Len(rest))
           d == Take(rest, n)
<1>1. /\ a \in Nat /\ k \in Nat /\ e \in Nat /\ a <= k /\ k < e
      /\ r.replay = Bytes(a + 1, e) /\ ~r.broken
    BY DEF RelOK, pendingReplay, Reliables
<1>2. a + 1 \in Nat /\ k - a \in Nat /\ k - a <= (e + 1) - (a + 1)
    BY <1>1
<1>3. rest = Bytes((a + 1) + (k - a), e)
    BY <1>1, <1>2, BytesDrop
<1> HIDE DEF a, k, e, rest
<1>4. rest = Bytes(k + 1, e)
    <2>1. (a + 1) + (k - a) = k + 1
        BY <1>1
    <2> QED BY <1>3, <2>1
<1>5. k + 1 \in Nat /\ k + 1 <= e + 1
    BY <1>1
<1>6. rest \in Seq(Nat) /\ Len(rest) = (e + 1) - (k + 1)
    BY Zenon, <1>1, <1>4, <1>5, BytesProperties
<1>7. n \in Nat /\ n <= Len(rest) /\ n <= (e + 1) - (k + 1)
    <2>1. Len(rest) \in Nat /\ BufSize \in Nat
        BY <1>1, <1>6, BufSizeAssumption
    <2> QED BY <1>6, <2>1 DEF Lesser
<1> HIDE DEF n
<1>8. d \in Seq(Nat) /\ Len(d) = n
    BY <1>6, <1>7, TakeProperties
<1>9. d = Bytes(k + 1, ((k + 1) + n) - 1)
    BY <1>1, <1>4, <1>5, <1>7, BytesTake
<1> HIDE DEF d
<1>10. d = Bytes(k + 1, k + Len(d))
    <2>1. ((k + 1) + n) - 1 = k + n
        BY <1>1, <1>7
    <2> QED BY <1>8, <1>9, <2>1
<1>11. replayChunk(r) = [off |-> k, data |-> d]
    BY DEF replayChunk, d, n, rest, k, a
<1>12. afterReplay(r) = [r EXCEPT !.sentCursor = k + Len(d)]
    <2>1. replayChunk(r).data = d
        BY <1>11
    <2> QED BY <2>1 DEF afterReplay, k
<1>13. k + n \in Nat /\ k + n <= e /\ a <= k + n
    BY <1>1, <1>7
<1>14. k + Len(d) \in Nat /\ k + Len(d) <= e /\ a <= k + Len(d)
    BY <1>8, <1>13
<1> DEFINE c == k + Len(d)
           s == afterReplay(r)
<1>15. r \in Reliables /\ s = [r EXCEPT !.sentCursor = c]
    BY <1>12 DEF RelOK
<1> HIDE DEF c, s
<1>16. /\ s \in Reliables /\ s.sentCursor = c /\ s.broken = r.broken
       /\ s.sendOffset = r.sendOffset /\ s.recvOffset = r.recvOffset
       /\ s.ackedOffset = r.ackedOffset /\ s.replay = r.replay
    BY SMTT(20), <1>14, <1>15 DEF Reliables, c
<1>17. c <= r.sendOffset /\ r.ackedOffset <= c
    BY <1>14 DEF c, e, a
<1>18. RelOK(s)
    <2>1. ~s.broken /\ s.replay = Bytes(s.ackedOffset + 1, s.sendOffset)
        BY <1>1, <1>16 DEF a, e
    <2>2. s.ackedOffset <= s.sentCursor /\ s.sentCursor <= s.sendOffset
        BY <1>16, <1>17
    <2> QED BY <1>16, <2>1, <2>2 DEF RelOK
<1>19. Follows(r, s)
    BY <1>15, <1>16 DEF Follows, Reliables
<1>20. /\ replayChunk(r).off = r.sentCursor /\ replayChunk(r).off \in Nat
       /\ replayChunk(r).data = d
    BY <1>1, <1>11 DEF k
<1>21. /\ d = Bytes(r.sentCursor + 1, r.sentCursor + Len(d))
       /\ r.sentCursor + Len(d) <= r.sendOffset
    BY <1>10, <1>14 DEF k, e
<1> QED
    BY <1>8, <1>16, <1>18, <1>19, <1>20, <1>21 DEF s

(* Numbering: bytes that belong at sendOffset extend the layer by their    *)
(* length, with or without an overflow of the replay buffer.               *)
LEMMA NumberOK ==
    ASSUME NEW r, RelOK(r), NEW p \in Seq(Nat),
           p = Bytes(r.sendOffset + 1, r.sendOffset + Len(p))
    PROVE  LET s == number(r, p)
           IN  /\ RelOK(s) /\ Follows(r, s)
               /\ s.sendOffset = r.sendOffset + Len(p)
               /\ s.sentCursor = s.sendOffset
               /\ s.recvOffset = r.recvOffset
               /\ ~s.broken => ~r.broken /\ s.ackedOffset = r.ackedOffset
<1> DEFINE next == r.sendOffset + Len(p)
           base == [r EXCEPT !.sendOffset = next, !.sentCursor = next]
           kept == [base EXCEPT !.replay = r.replay \o p]
<1>1. /\ r \in Reliables /\ r.sendOffset \in Nat /\ r.ackedOffset \in Nat
      /\ r.replay \in Seq(Nat) /\ r.ackedOffset <= r.sendOffset
    BY DEF RelOK, Reliables
<1>2. next \in Nat /\ next >= r.sendOffset
    BY <1>1, LenProperties
<1>3. r.replay \o p \in Seq(Nat)
    BY <1>1, ConcatProperties
<1>4. ASSUME ~r.broken PROVE r.replay \o p = Bytes(r.ackedOffset + 1, next)
    <2>1. r.replay = Bytes(r.ackedOffset + 1, r.sendOffset)
        BY <1>4 DEF RelOK
    <2>2. /\ r.ackedOffset + 1 \in Nat /\ r.ackedOffset + 1 <= r.sendOffset + 1
          /\ r.sendOffset <= next
        BY <1>1, <1>2
    <2>3. p = Bytes(r.sendOffset + 1, next)
        OBVIOUS
    <2> HIDE DEF next
    <2>4. Bytes(r.ackedOffset + 1, r.sendOffset) \o Bytes(r.sendOffset + 1, next)
            = Bytes(r.ackedOffset + 1, next)
        BY Zenon, <1>1, <1>2, <2>2, BytesConcat
    <2> QED BY <2>1, <2>3, <2>4
<1> HIDE DEF next
<1> DEFINE s == number(r, p)
<1>5. /\ s \in Reliables /\ s.sendOffset = next /\ s.sentCursor = next
      /\ s.recvOffset = r.recvOffset
      /\ \/ /\ s.broken = TRUE
            /\ s.ackedOffset = r.ackedOffset \/ s.ackedOffset = next
         \/ /\ s.broken = FALSE /\ r.broken = FALSE
            /\ s.ackedOffset = r.ackedOffset
            /\ s.replay = Bytes(r.ackedOffset + 1, next)
    <2>1. CASE r.broken
        <3>1. s = base
            BY <2>1 DEF number, next
        <3> QED BY Zenon, <1>1, <1>2, <2>1, <3>1 DEF Reliables
    <2>2. CASE ~r.broken /\ Len(kept.replay) > MaxReplay
        <3>1. s = markBrokenLocked(kept)
            BY <2>2 DEF number, next
        <3>2. kept \in Reliables /\ kept.sendOffset = next /\ kept.recvOffset = r.recvOffset
            BY Zenon, <1>1, <1>2, <1>3 DEF Reliables
        <3> HIDE DEF s, kept
        <3> QED BY Zenon, <1>2, <3>1, <3>2, EmptySeq DEF markBrokenLocked, Reliables
    <2>3. CASE ~r.broken /\ ~(Len(kept.replay) > MaxReplay)
        <3>1. s = kept
            BY <2>3 DEF number, next
        <3>2. r.broken = FALSE
            BY <1>1, <2>3 DEF Reliables
        <3>3. /\ kept \in Reliables /\ kept.sendOffset = next /\ kept.sentCursor = next
              /\ kept.recvOffset = r.recvOffset /\ kept.ackedOffset = r.ackedOffset
              /\ kept.replay = Bytes(r.ackedOffset + 1, next) /\ kept.broken = r.broken
            BY Zenon, <1>1, <1>2, <1>3, <1>4, <2>3 DEF Reliables
        <3> HIDE DEF s, kept
        <3> QED BY <3>1, <3>2, <3>3
    <2> QED BY Zenon, <2>1, <2>2, <2>3
<1> HIDE DEF s
<1>6. RelOK(s)
    <2>1. r.ackedOffset <= next
        BY <1>1, <1>2
    <2>2. s.ackedOffset <= s.sentCursor /\ s.sentCursor <= s.sendOffset
        BY <1>2, <1>5, <2>1
    <2>3. ~s.broken => s.replay = Bytes(s.ackedOffset + 1, s.sendOffset)
        BY <1>5
    <2> QED BY <1>5, <2>2, <2>3 DEF RelOK
<1>7. Follows(r, s)
    <2>1. s.sendOffset >= r.sendOffset
        BY <1>2, <1>5
    <2>2. s.ackedOffset >= r.ackedOffset
        BY <1>1, <1>2, <1>5
    <2>3. r.recvOffset \in Nat /\ s.recvOffset >= r.recvOffset
        BY <1>1, <1>5 DEF Reliables
    <2>4. r.broken => s.broken
        BY <1>5
    <2> QED BY <2>1, <2>2, <2>3, <2>4 DEF Follows
<1> QED
    BY <1>5, <1>6, <1>7 DEF s, next

(* Receiving: of a frame whose bytes belong at its offset, recvIn writes   *)
(* the bytes that continue recvOffset, and none beyond the frame's end.    *)
LEMMA FreshOK ==
    ASSUME NEW r, RelOK(r), NEW off \in Nat, NEW p \in Seq(Nat),
           p = Bytes(off + 1, off + Len(p))
    PROVE  LET q == fresh(r, off, p)
           IN  /\ q \in Seq(Nat)
               /\ q = Bytes(r.recvOffset + 1, r.recvOffset + Len(q))
               /\ q # <<>> => ~replayGap(r, off) /\ r.recvOffset + Len(q) = off + Len(p)
<1> DEFINE k == r.recvOffset
           e == off + Len(p)
           q == fresh(r, off, p)
<1>1. k \in Nat /\ e \in Nat /\ Len(p) \in Nat
    BY LenProperties DEF RelOK, Reliables
<1>2. CASE off > k \/ e <= k
    <2>1. q = <<>>
        BY <1>2 DEF fresh, replayGap
    <2>2. Len(<<>>) = 0 /\ <<>> \in Seq(Nat)
        BY EmptySeq
    <2>3. Bytes(k + 1, k) = <<>>
        BY Zenon, <1>1, BytesEmpty
    <2>4. k + 0 = k
        BY <1>1
    <2> HIDE DEF q
    <2> QED BY <2>1, <2>2, <2>3, <2>4 DEF q
<1>3. CASE ~(off > k \/ e <= k)
    <2>1. q = Drop(p, k - off)
        BY <1>3 DEF fresh, replayGap
    <2>2. /\ k - off \in Nat /\ k - off <= Len(p) /\ off + 1 \in Nat
          /\ k - off <= (e + 1) - (off + 1)
        BY <1>1, <1>3
    <2>3. p = Bytes(off + 1, e) /\ e = off + Len(p)
        OBVIOUS
    <2>4. ~replayGap(r, off)
        BY <1>3 DEF replayGap
    <2> HIDE DEF k, e, q
    <2>5. q \in Seq(Nat) /\ Len(q) = Len(p) - (k - off)
        BY <2>1, <2>2, DropProperties
    <2>6. Drop(Bytes(off + 1, e), k - off) = Bytes((off + 1) + (k - off), e)
        BY <1>1, <2>2, BytesDrop
    <2>7. (off + 1) + (k - off) = k + 1 /\ k + (Len(p) - (k - off)) = e
        BY <1>1, <2>3
    <2>8. q = Bytes(k + 1, k + Len(q))
        BY <2>1, <2>3, <2>5, <2>6, <2>7
    <2> QED BY <2>3, <2>4, <2>5, <2>7, <2>8 DEF q, k
<1> QED
    BY <1>2, <1>3

(* recvIn counts what the pipe accepted, or breaks the layer on a gap.     *)
LEMMA RecvInOK ==
    ASSUME NEW r, RelOK(r), NEW off \in Nat, NEW q \in Seq(Nat)
    PROVE  LET s == recvIn(r, off, q)
           IN  /\ RelOK(s) /\ Follows(r, s)
               /\ s.sendOffset = r.sendOffset
               /\ s.recvOffset = IF replayGap(r, off) THEN r.recvOffset
                                 ELSE r.recvOffset + Len(q)
               /\ ~s.broken => ~r.broken /\ s.ackedOffset = r.ackedOffset
<1> DEFINE s == recvIn(r, off, q)
<1>1. CASE replayGap(r, off)
    <2>1. s = markBrokenLocked(r)
        BY <1>1 DEF recvIn
    <2> QED BY <1>1, <2>1, MarkBrokenOK
<1>2. CASE ~replayGap(r, off)
    <2>1. s = [r EXCEPT !.recvOffset = r.recvOffset + Len(q)]
        BY <1>2 DEF recvIn, RelOK, Reliables
    <2>2. r.recvOffset + Len(q) \in Nat /\ r.recvOffset + Len(q) >= r.recvOffset
        BY LenProperties DEF RelOK, Reliables
    <2>3. /\ s \in Reliables /\ s.recvOffset = r.recvOffset + Len(q)
          /\ s.sendOffset = r.sendOffset /\ s.ackedOffset = r.ackedOffset
          /\ s.sentCursor = r.sentCursor /\ s.replay = r.replay /\ s.broken = r.broken
        BY Zenon, <2>1, <2>2 DEF RelOK, Reliables
    <2> HIDE DEF s
    <2>4. RelOK(s)
        BY <2>3 DEF RelOK
    <2>5. Follows(r, s)
        BY <2>2, <2>3 DEF Follows, RelOK, Reliables
    <2> QED BY <1>2, <2>3, <2>4, <2>5 DEF s
<1> QED
    BY <1>1, <1>2

(* release drops exactly the acknowledged prefix of replay.                *)
LEMMA ReleaseOK ==
    ASSUME NEW r, RelOK(r), ~r.broken, NEW n \in Nat,
           r.ackedOffset <= n, n <= r.sendOffset
    PROVE  /\ release(r, n) = [r EXCEPT !.replay = Bytes(n + 1, r.sendOffset),
                                        !.ackedOffset = n]
           /\ Bytes(n + 1, r.sendOffset) \in Seq(Nat)
<1> DEFINE a == r.ackedOffset
           e == r.sendOffset
<1>1. /\ a \in Nat /\ e \in Nat /\ n - a \in Nat /\ a + 1 \in Nat
      /\ n - a <= (e + 1) - (a + 1) /\ (a + 1) + (n - a) = n + 1
      /\ n + 1 \in Nat /\ n + 1 <= e + 1
    <2>1. a \in Nat /\ e \in Nat /\ a <= n /\ n <= e
        BY DEF RelOK, Reliables
    <2> HIDE DEF a, e
    <2> QED BY <2>1
<1>2. Drop(Bytes(a + 1, e), n - a) = Bytes((a + 1) + (n - a), e)
    BY Zenon, <1>1, BytesDrop
<1>3. r.replay = Bytes(a + 1, e)
    BY DEF RelOK
<1>4. Bytes(n + 1, e) \in Seq(Nat)
    BY Zenon, <1>1, BytesProperties
<1>5. Drop(r.replay, n - a) = Bytes(n + 1, e)
    BY <1>1, <1>2, <1>3
<1> QED
    BY Zenon, <1>4, <1>5 DEF release

(* A layer whose buffer was released up to n and whose cursor moved to c,  *)
(* as ack and resumeOut leave it.                                          *)
Moved(r, b, n, c) ==
    [[r EXCEPT !.replay = b, !.ackedOffset = n] EXCEPT !.sentCursor = c]

(* The fields of such a layer.                                             *)
LEMMA MovedFields ==
    ASSUME NEW r \in Reliables, NEW b \in Seq(Nat), NEW n \in Nat, NEW c \in Nat
    PROVE  LET s == Moved(r, b, n, c)
           IN  /\ s \in Reliables /\ s.recvOffset = r.recvOffset
               /\ s.sendOffset = r.sendOffset /\ s.ackedOffset = n
               /\ s.sentCursor = c /\ s.replay = b /\ s.broken = r.broken
<1> DEFINE s == Moved(r, b, n, c)
           q == [r EXCEPT !.replay = b, !.ackedOffset = n]
<1>1. q \in Reliables
    BY Zenon DEF Reliables
<1>2. /\ q.recvOffset = r.recvOffset /\ q.sendOffset = r.sendOffset
      /\ q.ackedOffset = n /\ q.replay = b /\ q.broken = r.broken
    BY DEF Reliables
<1>3. s = [q EXCEPT !.sentCursor = c]
    BY DEF Moved
<1> HIDE DEF q, s
<1>4. s \in Reliables
    BY Zenon, <1>1, <1>3 DEF Reliables
<1>5. /\ s.recvOffset = q.recvOffset /\ s.sendOffset = q.sendOffset
      /\ s.ackedOffset = q.ackedOffset /\ s.sentCursor = c
      /\ s.replay = q.replay /\ s.broken = q.broken
    BY <1>1, <1>3 DEF Reliables
<1> QED
    BY <1>2, <1>4, <1>5 DEF s

(* A later reading of an offset the peer reported: ack, resumeOut and      *)
(* rewindToAcked keep the layer consistent, and release nothing that was   *)
(* not acknowledged.                                                       *)
LEMMA AckOK ==
    ASSUME NEW r, RelOK(r), NEW n \in Nat
    PROVE  LET s == ack(r, n)
           IN  /\ RelOK(s) /\ Follows(r, s)
               /\ s.sendOffset = r.sendOffset /\ s.recvOffset = r.recvOffset
               /\ ~s.broken => ~r.broken /\ s.ackedOffset \in {r.ackedOffset, n}
               /\ pendingReplay(s) => pendingReplay(r)
<1> DEFINE s == ack(r, n)
<1>0. r \in Reliables
    BY DEF RelOK
<1>1. CASE badAck(r, n)
    <2>1. s = markBrokenLocked(r)
        BY <1>1 DEF ack
    <2> QED BY <2>1, MarkBrokenOK DEF pendingReplay
<1>2. CASE ~badAck(r, n) /\ (r.broken \/ n <= r.ackedOffset)
    <2>1. s = r
        BY <1>2 DEF ack
    <2>2. Follows(r, r)
        BY <1>0 DEF Follows, Reliables
    <2> QED BY <2>1, <2>2
<1>3. CASE ~badAck(r, n) /\ ~(r.broken \/ n <= r.ackedOffset)
    <2>1. n <= r.sendOffset /\ r.ackedOffset <= n /\ ~r.broken
        BY <1>0, <1>3 DEF badAck, Reliables
    <2>2. /\ release(r, n) = [r EXCEPT !.replay = Bytes(n + 1, r.sendOffset),
                                      !.ackedOffset = n]
          /\ Bytes(n + 1, r.sendOffset) \in Seq(Nat)
        BY Zenon, <2>1, ReleaseOK
    <2>3. s = [release(r, n) EXCEPT !.sentCursor = IF @ < n THEN n ELSE @]
        BY <1>3 DEF ack
    <2>4. /\ s \in Reliables /\ s.recvOffset = r.recvOffset
          /\ s.sendOffset = r.sendOffset /\ s.ackedOffset = n
          /\ s.sentCursor = (IF r.sentCursor < n THEN n ELSE r.sentCursor)
          /\ s.replay = Bytes(n + 1, r.sendOffset) /\ s.broken = r.broken
        <3> DEFINE b == Bytes(n + 1, r.sendOffset)
                   c == IF r.sentCursor < n THEN n ELSE r.sentCursor
        <3>1. b \in Seq(Nat) /\ c \in Nat
            BY <1>0, <2>2 DEF Reliables
        <3>2. release(r, n).sentCursor = r.sentCursor
            BY <1>0, <2>2 DEF Reliables
        <3>3. s = Moved(r, b, n, c)
            BY <2>2, <2>3, <3>2 DEF Moved
        <3> HIDE DEF b, c, s
        <3>4. /\ s \in Reliables /\ s.recvOffset = r.recvOffset
              /\ s.sendOffset = r.sendOffset /\ s.ackedOffset = n
              /\ s.sentCursor = c /\ s.replay = b /\ s.broken = r.broken
            <4> DEFINE q == Moved(r, b, n, c)
            <4>1. c \in Nat /\ b \in Seq(Nat) /\ n \in Nat
                BY <3>1
            <4>2. /\ q \in Reliables /\ q.recvOffset = r.recvOffset
                  /\ q.sendOffset = r.sendOffset /\ q.ackedOffset = n
                  /\ q.sentCursor = c /\ q.replay = b /\ q.broken = r.broken
                BY <1>0, <4>1, MovedFields
            <4> QED BY <3>3, <4>2
        <3> QED BY <3>4 DEF b, c
    <2> HIDE DEF s
    <2>5. RelOK(s)
        BY <1>0, <2>1, <2>4 DEF RelOK, Reliables
    <2>6. Follows(r, s)
        BY <1>0, <2>1, <2>4 DEF Follows, Reliables
    <2>7. pendingReplay(s) => pendingReplay(r)
        BY <1>0, <2>1, <2>4 DEF pendingReplay, Reliables
    <2> QED BY <2>1, <2>4, <2>5, <2>6, <2>7 DEF s
<1> QED
    BY <1>1, <1>2, <1>3

(* resumeOut rewinds to the offset the peer holds.                         *)
LEMMA ResumeOutOK ==
    ASSUME NEW r, RelOK(r), NEW n \in Nat, canResume(r, n)
    PROVE  LET s == resumeOut(r, n)
           IN  /\ RelOK(s) /\ Follows(r, s)
               /\ s.sendOffset = r.sendOffset /\ s.recvOffset = r.recvOffset
               /\ s.ackedOffset = n
<1> DEFINE s == resumeOut(r, n)
<1>0. r \in Reliables
    BY DEF RelOK
<1>1. n <= r.sendOffset /\ r.ackedOffset <= n /\ ~r.broken
    BY DEF canResume
<1>2. /\ release(r, n) = [r EXCEPT !.replay = Bytes(n + 1, r.sendOffset),
                                  !.ackedOffset = n]
      /\ Bytes(n + 1, r.sendOffset) \in Seq(Nat)
    BY Zenon, <1>1, ReleaseOK
<1>3. s = [release(r, n) EXCEPT !.sentCursor = n]
    BY DEF resumeOut
<1>4. /\ s \in Reliables /\ s.recvOffset = r.recvOffset
      /\ s.sendOffset = r.sendOffset /\ s.ackedOffset = n /\ s.sentCursor = n
      /\ s.replay = Bytes(n + 1, r.sendOffset) /\ s.broken = r.broken
    <2> DEFINE b == Bytes(n + 1, r.sendOffset)
    <2>1. b \in Seq(Nat)
        BY <1>2
    <2>2. s = Moved(r, b, n, n)
        BY <1>2, <1>3 DEF Moved
    <2> HIDE DEF b, s
    <2>3. /\ s \in Reliables /\ s.recvOffset = r.recvOffset
          /\ s.sendOffset = r.sendOffset /\ s.ackedOffset = n /\ s.sentCursor = n
          /\ s.replay = b /\ s.broken = r.broken
        <3> DEFINE q == Moved(r, b, n, n)
        <3>1. /\ q \in Reliables /\ q.recvOffset = r.recvOffset
              /\ q.sendOffset = r.sendOffset /\ q.ackedOffset = n
              /\ q.sentCursor = n /\ q.replay = b /\ q.broken = r.broken
            BY <1>0, <2>1, MovedFields
        <3> QED BY <2>2, <3>1
    <2> QED BY <2>3 DEF b
<1> HIDE DEF s
<1>5. RelOK(s)
    BY <1>0, <1>1, <1>4 DEF RelOK, Reliables
<1>6. Follows(r, s)
    BY <1>0, <1>1, <1>4 DEF Follows, Reliables
<1> QED
    BY <1>4, <1>5, <1>6 DEF s

(* rewindToAcked moves only the cursor, and within range.                  *)
LEMMA RewindOK ==
    ASSUME NEW r, RelOK(r)
    PROVE  LET s == rewindToAcked(r)
           IN  /\ RelOK(s) /\ Follows(r, s) /\ s.broken = r.broken
               /\ s.sendOffset = r.sendOffset /\ s.recvOffset = r.recvOffset
               /\ s.ackedOffset = r.ackedOffset
<1> DEFINE s == rewindToAcked(r)
<1>0. r \in Reliables /\ r.ackedOffset <= r.sendOffset
    BY DEF RelOK, Reliables
<1>1. /\ s \in Reliables /\ s.broken = r.broken /\ s.replay = r.replay
      /\ s.sendOffset = r.sendOffset /\ s.recvOffset = r.recvOffset
      /\ s.ackedOffset = r.ackedOffset
      /\ s.sentCursor = IF r.broken THEN r.sentCursor ELSE r.ackedOffset
    BY <1>0 DEF Reliables, rewindToAcked
<1> HIDE DEF s
<1>2. RelOK(s)
    BY <1>0, <1>1 DEF RelOK, Reliables
<1>3. Follows(r, s)
    BY <1>0, <1>1 DEF Follows, Reliables
<1> QED
    BY <1>1, <1>2, <1>3 DEF s

(* takeAck and resetAck touch lastAck and nothing else.                    *)
LEMMA LastAckOK ==
    ASSUME NEW r, RelOK(r), NEW s \in {takeAck(r), resetAck(r)}
    PROVE  /\ RelOK(s) /\ Follows(r, s) /\ s.broken = r.broken
           /\ s.sendOffset = r.sendOffset /\ s.recvOffset = r.recvOffset
           /\ s.ackedOffset = r.ackedOffset
           /\ pendingReplay(s) => pendingReplay(r)
<1>0. r \in Reliables
    BY DEF RelOK
<1>1. /\ s \in Reliables /\ s.broken = r.broken /\ s.replay = r.replay
      /\ s.sendOffset = r.sendOffset /\ s.recvOffset = r.recvOffset
      /\ s.ackedOffset = r.ackedOffset /\ s.sentCursor = r.sentCursor
    BY <1>0 DEF Reliables, takeAck, resetAck
<1>2. RelOK(s)
    BY <1>0, <1>1 DEF RelOK, Reliables
<1>3. Follows(r, s)
    BY <1>0, <1>1 DEF Follows, Reliables
<1> QED
    BY <1>1, <1>2, <1>3 DEF pendingReplay

-----------------------------------------------------------------------------
(* The pair.                                                               *)

(* An end's sending half: the bytes its application wrote are, in order,   *)
(* those numbered, those nextOut holds, and those in the out pipe.         *)
EndOK(e) ==
    LET numbered == rel[e].sendOffset
        taken == numbered + Len(held[e])
    IN  /\ RelOK(rel[e])
        /\ held[e] = Bytes(numbered + 1, taken)
        /\ out[e] = Bytes(taken + 1, written[e])
        /\ taken <= written[e]
        /\ pc[e] # "taken" => held[e] = <<>>
        /\ pc[e] # "idle" => ~pendingReplay(rel[e])

(* What has passed, or may still pass, from e to its peer and back.        *)
FrameOK(e, f) ==
    /\ f.data = Bytes(f.off + 1, f.off + Len(f.data))
    /\ f.off + Len(f.data) <= rel[e].sendOffset

LinkOK(e) ==
    /\ \A f \in sent[e] : FrameOK(e, f)
    /\ \A n \in reported[e] : n <= rel[e].recvOffset
    /\ in[e] = Bytes(1, rel[e].recvOffset)
    /\ rel[e].recvOffset <= rel[peer[e]].sendOffset
    /\ ~rel[e].broken => rel[e].ackedOffset <= rel[peer[e]].recvOffset

IInv == TypeOK /\ \A e \in Ends : EndOK(e) /\ LinkOK(e)

-----------------------------------------------------------------------------
(* The two ends are each other's peers.                                    *)
LEMMA PeerFacts ==
    ASSUME NEW e \in Ends
    PROVE  /\ peer[e] \in Ends /\ peer[e] # e /\ peer[peer[e]] = e
           /\ \A g \in Ends : g = e \/ g = peer[e]
    BY DEF Ends, peer

(* The initial state satisfies the invariant.                              *)
LEMMA InitIInv == Init => IInv
<1> SUFFICES ASSUME Init PROVE IInv
    OBVIOUS
<1>1. RelOK(newReliable) /\ newReliable \in Reliables
    BY NewReliableOK DEF RelOK
<1>2. <<>> \in Seq(Nat) /\ Len(<<>>) = 0
    BY EmptySeq
<1>3. TypeOK
    BY <1>1, <1>2 DEF Init, TypeOK
<1>4. Bytes(0 + 1, 0) = <<>>
    BY BytesEmpty
<1>5. Bytes(1, 0) = <<>>
    BY <1>4
<1>6. ASSUME NEW e \in Ends PROVE EndOK(e) /\ LinkOK(e)
    <2>1. /\ rel[e] = newReliable /\ rel[peer[e]] = newReliable
          /\ written[e] = 0 /\ out[e] = <<>> /\ in[e] = <<>> /\ pc[e] = "idle"
          /\ held[e] = <<>> /\ sent[e] = {} /\ reported[e] = {}
        BY PeerFacts DEF Init
    <2>2. /\ newReliable.sendOffset = 0 /\ newReliable.recvOffset = 0
          /\ newReliable.ackedOffset = 0
        BY DEF newReliable
    <2>3. EndOK(e)
        BY <1>1, <1>2, <1>5, <2>1, <2>2 DEF EndOK
    <2>4. LinkOK(e)
        BY <1>5, <2>1, <2>2 DEF LinkOK
    <2> QED BY <2>3, <2>4
<1> QED
    BY <1>3, <1>6 DEF IInv

(* Types of one end's state, unfolded from TypeOK.                         *)
LEMMA EndTypes ==
    ASSUME TypeOK, NEW e \in Ends
    PROVE  /\ rel[e] \in Reliables /\ written[e] \in Nat
           /\ rel[e].sendOffset \in Nat /\ rel[e].recvOffset \in Nat
           /\ rel[e].ackedOffset \in Nat
           /\ out[e] \in Seq(Nat) /\ in[e] \in Seq(Nat) /\ held[e] \in Seq(Nat)
           /\ Len(held[e]) \in Nat /\ Len(out[e]) \in Nat
           /\ sent[e] \subseteq Frames /\ reported[e] \subseteq Nat
           /\ pc[e] \in {"idle", "waiting", "taken"}
<1>1. rel[e] \in Reliables /\ held[e] \in Seq(Nat) /\ out[e] \in Seq(Nat)
    BY DEF TypeOK
<1>2. Len(held[e]) \in Nat /\ Len(out[e]) \in Nat
    BY <1>1, LenProperties
<1>3. /\ rel[e].sendOffset \in Nat /\ rel[e].recvOffset \in Nat
      /\ rel[e].ackedOffset \in Nat
    BY <1>1 DEF Reliables
<1> QED
    BY <1>1, <1>2, <1>3 DEF TypeOK

(* A step that changes nothing keeps the invariant.                        *)
LEMMA UnchangedIInv ==
    ASSUME IInv, UNCHANGED vars
    PROVE  IInv'
    BY DEF IInv, TypeOK, EndOK, LinkOK, FrameOK, vars

(* A critical section of e that moves neither e's sendOffset nor its       *)
(* recvOffset preserves the invariant, if what it releases is received and *)
(* it adds no pending replay under a sender that is past the check.  e may *)
(* report its receive offset in the same step.                             *)
LEMMA QuietSection ==
    ASSUME IInv, NEW e \in Ends, NEW s,
           RelOK(s), Follows(rel[e], s),
           s.sendOffset = rel[e].sendOffset, s.recvOffset = rel[e].recvOffset,
           ~s.broken => s.ackedOffset <= rel[peer[e]].recvOffset,
           pc[e] # "idle" => ~pendingReplay(s),
           rel' = [rel EXCEPT ![e] = s],
           reported' \in {reported,
                          [reported EXCEPT ![e] = @ \cup {rel[e].recvOffset}]},
           UNCHANGED <<written, out, in, pc, held, sent>>
    PROVE  IInv'
<1>1. TypeOK /\ EndOK(e) /\ LinkOK(e)
    BY DEF IInv
<1>2. s \in Reliables /\ rel[e].recvOffset \in Nat
    BY <1>1, EndTypes DEF RelOK
<1>3. TypeOK'
    <2>1. rel' \in [Ends -> Reliables]
        BY <1>1, <1>2 DEF TypeOK
    <2>2. reported' \in [Ends -> SUBSET Nat]
        <3>1. [reported EXCEPT ![e] = @ \cup {rel[e].recvOffset}] \in [Ends -> SUBSET Nat]
            BY <1>1, <1>2 DEF TypeOK
        <3> QED BY Zenon, <1>1, <3>1 DEF TypeOK
    <2> QED BY <1>1, <2>1, <2>2 DEF TypeOK
<1>4. rel'[e] = s /\ \A g \in Ends : g # e => rel'[g] = rel[g]
    BY <1>1 DEF TypeOK
<1>5. ASSUME NEW g \in Ends PROVE EndOK(g)' /\ LinkOK(g)'
    <2>1. EndOK(g) /\ LinkOK(g) /\ peer[g] \in Ends
        BY PeerFacts DEF IInv
    <2>2. /\ rel'[g].sendOffset = rel[g].sendOffset
          /\ rel'[g].recvOffset = rel[g].recvOffset
          /\ rel'[peer[g]].sendOffset = rel[peer[g]].sendOffset
          /\ rel'[peer[g]].recvOffset = rel[peer[g]].recvOffset
          /\ RelOK(rel'[g])
        BY <1>4, <2>1 DEF EndOK
    <2>3. pc[g] # "idle" => ~pendingReplay(rel'[g])
        BY <1>4, <2>1 DEF EndOK
    <2>4. ~rel'[g].broken => rel'[g].ackedOffset <= rel[peer[g]].recvOffset
        BY <1>4, <2>1 DEF LinkOK
    <2>5. EndOK(g)'
        BY <2>1, <2>2, <2>3 DEF EndOK
    <2>6. \A n \in reported'[g] : n <= rel'[g].recvOffset
        <3>1. reported'[g] \subseteq reported[g] \cup {rel[g].recvOffset}
            BY Zenon, <1>1 DEF TypeOK
        <3>2. rel[g].recvOffset \in Nat
            BY <1>1, EndTypes
        <3> QED BY <2>1, <2>2, <3>1, <3>2 DEF LinkOK
    <2>7. LinkOK(g)'
        BY Zenon, <2>1, <2>2, <2>4, <2>6 DEF LinkOK, FrameOK
    <2> QED BY <2>5, <2>7
<1> QED
    BY <1>3, <1>5 DEF IInv

-----------------------------------------------------------------------------
(* The critical sections that move neither offset, one by one.             *)
LEMMA QuietSteps ==
    ASSUME IInv, NEW e \in Ends,
           \/ \E n \in reported[peer[e]] : Ack(e, n) \/ Resume(e, n) \/ RefuseResume(e, n)
           \/ TakeAck(e) \/ ResetAck(e) \/ RecvOffsetNow(e) \/ RewindToAcked(e)
    PROVE  IInv'
<1> DEFINE r == rel[e]
<1>1. TypeOK /\ EndOK(e) /\ LinkOK(e) /\ LinkOK(peer[e]) /\ peer[e] \in Ends
    BY PeerFacts DEF IInv
<1>2. /\ RelOK(r) /\ (pc[e] # "idle" => ~pendingReplay(r))
      /\ ~r.broken => r.ackedOffset <= rel[peer[e]].recvOffset
    BY Zenon, <1>1 DEF EndOK, LinkOK
<1>3. \A n \in reported[peer[e]] : n \in Nat /\ n <= rel[peer[e]].recvOffset
    BY Zenon, <1>1, EndTypes DEF LinkOK
<1>4. rel[peer[e]].recvOffset \in Nat /\ r.ackedOffset \in Nat
    BY <1>1, EndTypes
<1>5. ASSUME NEW n \in reported[peer[e]], Ack(e, n) PROVE IInv'
    <2> DEFINE s == ack(r, n)
    <2>1. n \in Nat /\ n <= rel[peer[e]].recvOffset
        BY <1>3
    <2>2. /\ RelOK(s) /\ Follows(r, s)
          /\ s.sendOffset = r.sendOffset /\ s.recvOffset = r.recvOffset
          /\ ~s.broken => ~r.broken /\ s.ackedOffset \in {r.ackedOffset, n}
          /\ pendingReplay(s) => pendingReplay(r)
        BY <1>2, <2>1, AckOK
    <2>3. /\ rel' = [rel EXCEPT ![e] = s] /\ reported' = reported
          /\ UNCHANGED <<written, out, in, pc, held, sent>>
        BY <1>5 DEF Ack
    <2> HIDE DEF s
    <2>4. ~s.broken => s.ackedOffset <= rel[peer[e]].recvOffset
        BY <1>2, <2>1, <2>2
    <2>5. pc[e] # "idle" => ~pendingReplay(s)
        BY <1>2, <2>2
    <2> QED BY Zenon, <2>2, <2>3, <2>4, <2>5, QuietSection
<1>6. ASSUME NEW n \in reported[peer[e]], Resume(e, n) PROVE IInv'
    <2> DEFINE s == resumeOut(r, n)
    <2>1. n \in Nat /\ n <= rel[peer[e]].recvOffset
        BY <1>3
    <2>2. canResume(r, n) /\ pc[e] = "idle"
        BY <1>6 DEF Resume
    <2>3. /\ RelOK(s) /\ Follows(r, s)
          /\ s.sendOffset = r.sendOffset /\ s.recvOffset = r.recvOffset
          /\ s.ackedOffset = n
        BY <1>2, <2>1, <2>2, ResumeOutOK
    <2>4. /\ rel' = [rel EXCEPT ![e] = s] /\ reported' = reported
          /\ UNCHANGED <<written, out, in, pc, held, sent>>
        BY <1>6 DEF Resume
    <2> HIDE DEF s
    <2> QED BY Zenon, <2>1, <2>2, <2>3, <2>4, QuietSection
<1>7. ASSUME NEW n \in reported[peer[e]], RefuseResume(e, n) PROVE IInv'
    <2>1. CASE e = "server"
        <3> DEFINE s == markBrokenLocked(r)
        <3>1. /\ RelOK(s) /\ Follows(r, s) /\ s.broken
              /\ s.sendOffset = r.sendOffset /\ s.recvOffset = r.recvOffset
            BY <1>2, MarkBrokenOK
        <3>2. /\ rel' = [rel EXCEPT ![e] = s] /\ reported' = reported
              /\ UNCHANGED <<written, out, in, pc, held, sent>>
            BY <1>7, <2>1 DEF RefuseResume
        <3> HIDE DEF s
        <3>3. ~pendingReplay(s)
            BY <3>1 DEF pendingReplay
        <3> QED BY Zenon, <3>1, <3>2, <3>3, QuietSection
    <2>2. CASE e # "server"
        <3>1. UNCHANGED vars
            BY <1>7, <2>2 DEF RefuseResume, vars
        <3> QED BY <3>1, UnchangedIInv
    <2> QED BY <2>1, <2>2
<1>8. CASE TakeAck(e)
    <2> DEFINE s == takeAck(r)
    <2>1. /\ RelOK(s) /\ Follows(r, s) /\ s.broken = r.broken
          /\ s.sendOffset = r.sendOffset /\ s.recvOffset = r.recvOffset
          /\ s.ackedOffset = r.ackedOffset
          /\ pendingReplay(s) => pendingReplay(r)
        BY <1>2, LastAckOK
    <2>2. /\ rel' = [rel EXCEPT ![e] = s]
          /\ reported' = [reported EXCEPT ![e] = @ \cup {rel[e].recvOffset}]
          /\ UNCHANGED <<written, out, in, pc, held, sent>>
        BY <1>8 DEF TakeAck
    <2> HIDE DEF s
    <2> QED BY Zenon, <1>2, <2>1, <2>2, QuietSection
<1>9. CASE ResetAck(e)
    <2> DEFINE s == resetAck(r)
    <2>1. /\ RelOK(s) /\ Follows(r, s) /\ s.broken = r.broken
          /\ s.sendOffset = r.sendOffset /\ s.recvOffset = r.recvOffset
          /\ s.ackedOffset = r.ackedOffset
          /\ pendingReplay(s) => pendingReplay(r)
        BY Zenon, <1>2, LastAckOK
    <2>2. /\ rel' = [rel EXCEPT ![e] = s] /\ reported' = reported
          /\ UNCHANGED <<written, out, in, pc, held, sent>>
        BY <1>9 DEF ResetAck
    <2> HIDE DEF s
    <2> QED BY Zenon, <1>2, <2>1, <2>2, QuietSection
<1>10. CASE RecvOffsetNow(e)
    <2>1. /\ rel' = [rel EXCEPT ![e] = r]
          /\ reported' = [reported EXCEPT ![e] = @ \cup {rel[e].recvOffset}]
          /\ UNCHANGED <<written, out, in, pc, held, sent>>
        BY <1>1, <1>10 DEF RecvOffsetNow, TypeOK
    <2>2. Follows(r, r)
        BY <1>2 DEF Follows, RelOK, Reliables
    <2> QED BY Zenon, <1>2, <2>1, <2>2, QuietSection
<1>11. CASE RewindToAcked(e)
    <2> DEFINE s == rewindToAcked(r)
    <2>1. /\ RelOK(s) /\ Follows(r, s) /\ s.broken = r.broken
          /\ s.sendOffset = r.sendOffset /\ s.recvOffset = r.recvOffset
          /\ s.ackedOffset = r.ackedOffset
        BY <1>2, RewindOK
    <2>2. /\ rel' = [rel EXCEPT ![e] = s] /\ reported' = reported /\ pc[e] = "idle"
          /\ UNCHANGED <<written, out, in, pc, held, sent>>
        BY <1>11 DEF RewindToAcked
    <2> HIDE DEF s
    <2> QED BY Zenon, <1>2, <2>1, <2>2, QuietSection
<1> QED
    BY <1>5, <1>6, <1>7, <1>8, <1>9, <1>10, <1>11

-----------------------------------------------------------------------------
(* A step of e in which its offsets only grow leaves its peer's part of    *)
(* the invariant alone.                                                    *)
LEMMA PeerUndisturbed ==
    ASSUME IInv, NEW e \in Ends, NEW p \in Ends, p = peer[e],
           RelOK(rel'[e]), Follows(rel[e], rel'[e]),
           rel'[p] = rel[p], written'[p] = written[p], out'[p] = out[p],
           in'[p] = in[p], pc'[p] = pc[p], held'[p] = held[p],
           sent'[p] = sent[p], reported'[p] = reported[p]
    PROVE  EndOK(p)' /\ LinkOK(p)'
<1>1. TypeOK /\ EndOK(p) /\ LinkOK(p) /\ peer[p] = e
    BY PeerFacts DEF IInv
<1>2. EndOK(p)'
    BY Zenon, <1>1 DEF EndOK
<1>3. /\ rel[e].sendOffset \in Nat /\ rel[e].recvOffset \in Nat
      /\ rel[p].recvOffset \in Nat /\ rel[p].ackedOffset \in Nat
    BY <1>1, EndTypes
<1>4. rel'[e].sendOffset \in Nat /\ rel'[e].recvOffset \in Nat
    BY Zenon DEF RelOK, Reliables
<1>5. rel'[e].sendOffset >= rel[e].sendOffset /\ rel'[e].recvOffset >= rel[e].recvOffset
    BY DEF Follows
<1>6. /\ rel[p].recvOffset <= rel'[e].sendOffset
      /\ ~rel[p].broken => rel[p].ackedOffset <= rel'[e].recvOffset
    BY <1>1, <1>3, <1>4, <1>5 DEF LinkOK
<1>7. LinkOK(p)'
    BY <1>1, <1>6 DEF LinkOK, FrameOK
<1> QED
    BY <1>2, <1>7

(* The application's write extends the out pipe where it ends.             *)
LEMMA WriteStep ==
    ASSUME IInv, NEW e \in Ends, NEW n \in 1..MaxBytes[e], Write(e, n)
    PROVE  IInv'
<1> DEFINE w == written[e]
           t == rel[e].sendOffset + Len(held[e])
<1>0. TypeOK /\ EndOK(e) /\ LinkOK(e)
    BY DEF IInv
<1>1. n \in Nat /\ MaxBytes[e] \in Nat
    BY MaxBytesAssumption DEF Ends
<1>2. w \in Nat /\ t \in Nat /\ out[e] \in Seq(Nat)
    BY <1>0, EndTypes
<1>3. w + n \in Nat /\ w + 1 \in Nat /\ w + 1 <= (w + n) + 1 /\ w <= w + n
    <2> HIDE DEF w
    <2> QED BY <1>1, <1>2
<1>4. Bytes(w + 1, w + n) \in Seq(Nat)
    BY Zenon, <1>3, BytesProperties
<1>5. /\ out'[e] = out[e] \o Bytes(w + 1, w + n) /\ written'[e] = w + n
      /\ out' = [out EXCEPT ![e] = out[e] \o Bytes(w + 1, w + n)]
      /\ written' = [written EXCEPT ![e] = w + n]
    BY SMTT(20), <1>0 DEF Write, TypeOK
<1>6. out[e] \o Bytes(w + 1, w + n) \in Seq(Nat)
    BY <1>2, <1>4, ConcatProperties
<1>7. TypeOK'
    <2>1. written' \in [Ends -> Nat] /\ out' \in [Ends -> Seq(Nat)]
        BY <1>0, <1>3, <1>5, <1>6 DEF TypeOK
    <2> QED BY <1>0, <2>1 DEF TypeOK, Write
<1>8. out[e] = Bytes(t + 1, w) /\ t <= w
    BY <1>0 DEF EndOK
<1>9. t + 1 \in Nat /\ t + 1 <= w + 1 /\ t <= w + n
    <2> HIDE DEF t, w
    <2> QED BY <1>1, <1>2, <1>8
<1> HIDE DEF t, w
<1>10. Bytes(t + 1, w) \o Bytes(w + 1, w + n) = Bytes(t + 1, w + n)
    BY Zenon, <1>2, <1>3, <1>9, BytesConcat
<1>11. out'[e] = Bytes(t + 1, w + n)
    BY <1>5, <1>8, <1>10
<1>12. EndOK(e)'
    BY Zenon, <1>0, <1>5, <1>9, <1>11 DEF EndOK, Write, t, w
<1>13. LinkOK(e)'
    BY Zenon, <1>0 DEF LinkOK, FrameOK, Write
<1>14. EndOK(peer[e])' /\ LinkOK(peer[e])'
    <2>1. peer[e] \in Ends /\ peer[e] # e
        BY PeerFacts
    <2>2. EndOK(peer[e]) /\ LinkOK(peer[e])
        BY <2>1 DEF IInv
    <2>3. written'[peer[e]] = written[peer[e]] /\ out'[peer[e]] = out[peer[e]]
        BY <1>0, <1>5, <2>1 DEF TypeOK
    <2> QED BY Zenon, <2>2, <2>3 DEF EndOK, LinkOK, FrameOK, Write
<1> QED
    BY <1>7, <1>12, <1>13, <1>14, PeerFacts DEF IInv

(* nextOut enters and leaves its wait without touching the layer.          *)
LEMMA WaitSteps ==
    ASSUME IInv, NEW e \in Ends, NextOutWait(e) \/ NextOutNothing(e)
    PROVE  IInv'
<1>0. TypeOK
    BY DEF IInv
<1>1. /\ UNCHANGED <<rel, written, out, in, held, sent, reported>>
      /\ \A g \in Ends : g # e => pc'[g] = pc[g]
      /\ pc[e] # "taken" /\ pc'[e] # "taken"
      /\ pc'[e] # "idle" => ~pendingReplay(rel[e])
      /\ pc' \in [Ends -> {"idle", "waiting", "taken"}]
    BY Zenon, <1>0 DEF NextOutWait, NextOutNothing, TypeOK
<1>2. TypeOK'
    BY <1>0, <1>1 DEF TypeOK
<1>3. ASSUME NEW g \in Ends PROVE EndOK(g)' /\ LinkOK(g)'
    <2>1. EndOK(g) /\ LinkOK(g)
        BY DEF IInv
    <2>2. EndOK(g)'
        BY <1>1, <2>1 DEF EndOK
    <2>3. LinkOK(g)'
        BY Zenon, <1>1, <2>1 DEF LinkOK, FrameOK
    <2> QED BY <2>2, <2>3
<1> QED
    BY <1>2, <1>3 DEF IInv

(* A replayed chunk is a frame of the numbered part of the stream.         *)
LEMMA ReplayStep ==
    ASSUME IInv, NEW e \in Ends, NextOutReplay(e)
    PROVE  IInv'
<1> DEFINE r == rel[e]
           c == replayChunk(r)
           s == afterReplay(r)
<1>0. TypeOK /\ EndOK(e) /\ LinkOK(e) /\ RelOK(r) /\ pendingReplay(r)
    BY DEF IInv, EndOK, NextOutReplay
<1>1. /\ c.off \in Nat /\ c.data \in Seq(Nat)
      /\ c.data = Bytes(c.off + 1, c.off + Len(c.data))
      /\ c.off + Len(c.data) <= r.sendOffset
      /\ RelOK(s) /\ Follows(r, s) /\ s.broken = r.broken
      /\ s.sendOffset = r.sendOffset /\ s.recvOffset = r.recvOffset
      /\ s.ackedOffset = r.ackedOffset
    BY <1>0, ReplayOK
<1>2. c = [off |-> c.off, data |-> c.data]
    BY Zenon DEF replayChunk
<1>3. c \in Frames
    BY <1>1, <1>2 DEF Frames
<1>4. /\ rel' = [rel EXCEPT ![e] = s] /\ sent' = [sent EXCEPT ![e] = @ \cup {c}]
      /\ pc[e] = "idle" /\ UNCHANGED <<written, out, in, pc, held, reported>>
    BY DEF NextOutReplay
<1> HIDE DEF c, s
<1>5. TypeOK'
    <2>1. rel' \in [Ends -> Reliables] /\ sent' \in [Ends -> SUBSET Frames]
        BY Zenon, <1>0, <1>1, <1>3, <1>4 DEF TypeOK, RelOK
    <2> QED BY <1>0, <1>4, <2>1 DEF TypeOK
<1>6. rel'[e] = s /\ sent'[e] = sent[e] \cup {c}
    BY <1>0, <1>4 DEF TypeOK
<1>7. EndOK(e)'
    BY Zenon, <1>0, <1>1, <1>4, <1>6 DEF EndOK
<1>8. LinkOK(e)'
    <2>1. peer[e] \in Ends /\ peer[e] # e
        BY PeerFacts
    <2>2. rel'[peer[e]] = rel[peer[e]]
        BY <1>0, <1>4, <2>1 DEF TypeOK
    <2>3. \A f \in sent'[e] : FrameOK(e, f)'
        BY <1>0, <1>1, <1>6 DEF LinkOK, FrameOK
    <2> QED BY Zenon, <1>0, <1>1, <1>4, <1>6, <2>2, <2>3 DEF LinkOK
<1>9. EndOK(peer[e])' /\ LinkOK(peer[e])'
    <2>1. peer[e] \in Ends /\ peer[e] # e
        BY PeerFacts
    <2>2. rel'[peer[e]] = rel[peer[e]] /\ sent'[peer[e]] = sent[peer[e]]
        BY <1>0, <1>4, <2>1 DEF TypeOK
    <2>3. RelOK(rel'[e]) /\ Follows(rel[e], rel'[e])
        BY <1>1, <1>6
    <2> QED BY Zenon, <1>4, <2>1, <2>2, <2>3, PeerUndisturbed
<1> QED
    BY <1>5, <1>7, <1>8, <1>9, PeerFacts DEF IInv

(* ReadAvailable moves the head of the out pipe to nextOut's buffer.       *)
LEMMA ReadStep ==
    ASSUME IInv, NEW e \in Ends, NextOutRead(e)
    PROVE  IInv'
<1> DEFINE k == rel[e].sendOffset
           w == written[e]
           n == Lesser(BufSize, Len(out[e]))
           h == Take(out[e], n)
           d == Drop(out[e], n)
<1>0. TypeOK /\ EndOK(e) /\ LinkOK(e)
    BY DEF IInv
<1>1. k \in Nat /\ w \in Nat /\ out[e] \in Seq(Nat) /\ Len(out[e]) \in Nat
    BY <1>0, EndTypes
<1>2. held[e] = <<>> /\ Len(held[e]) = 0
    BY <1>0, EmptySeq DEF EndOK, NextOutRead
<1>3. out[e] = Bytes(k + 1, w) /\ k <= w
    BY <1>0, <1>1, <1>2 DEF EndOK
<1>4. k + 1 \in Nat \ {0} /\ k + 1 <= w + 1
    BY <1>1, <1>3
<1>5. Len(out[e]) = (w + 1) - (k + 1)
    BY Zenon, <1>1, <1>3, <1>4, BytesProperties
<1>6. n \in Nat /\ n <= Len(out[e]) /\ n <= (w + 1) - (k + 1)
    BY <1>1, <1>5, BufSizeAssumption DEF Lesser
<1>7. h \in Seq(Nat) /\ Len(h) = n
    BY <1>1, <1>6, TakeProperties
<1>8. d \in Seq(Nat)
    BY <1>1, <1>6, DropProperties
<1>9. Take(Bytes(k + 1, w), n) = Bytes(k + 1, ((k + 1) + n) - 1)
    BY Zenon, <1>1, <1>4, <1>6, BytesTake
<1>10. Drop(Bytes(k + 1, w), n) = Bytes((k + 1) + n, w)
    BY Zenon, <1>1, <1>4, <1>6, BytesDrop
<1>11. /\ ((k + 1) + n) - 1 = k + Len(h) /\ (k + 1) + n = (k + Len(h)) + 1
       /\ k + Len(h) <= w
    BY SMTT(20), <1>1, <1>5, <1>6, <1>7
<1>12. h = Bytes(k + 1, k + Len(h)) /\ d = Bytes((k + Len(h)) + 1, w)
    BY Zenon, <1>3, <1>9, <1>10, <1>11
<1>13. /\ held' = [held EXCEPT ![e] = h] /\ out' = [out EXCEPT ![e] = d]
       /\ pc' = [pc EXCEPT ![e] = "taken"] /\ pc[e] = "waiting"
       /\ UNCHANGED <<rel, written, in, sent, reported>>
    BY DEF NextOutRead
<1> HIDE DEF h, d
<1>14. TypeOK'
    <2>1. /\ held' \in [Ends -> Seq(Nat)] /\ out' \in [Ends -> Seq(Nat)]
          /\ pc' \in [Ends -> {"idle", "waiting", "taken"}]
        BY <1>0, <1>7, <1>8, <1>13 DEF TypeOK
    <2> QED BY <1>0, <1>13, <2>1 DEF TypeOK
<1>15. held'[e] = h /\ out'[e] = d /\ pc'[e] = "taken"
    BY <1>0, <1>13 DEF TypeOK
<1>16. EndOK(e)'
    BY Zenon, <1>0, <1>11, <1>12, <1>13, <1>15 DEF EndOK
<1>17. ASSUME NEW g \in Ends PROVE LinkOK(g)'
    <2>1. LinkOK(g)
        BY DEF IInv
    <2> QED BY Zenon, <1>13, <2>1 DEF LinkOK, FrameOK
<1>18. ASSUME NEW g \in Ends, g # e PROVE EndOK(g)'
    <2>1. EndOK(g)
        BY DEF IInv
    <2>2. held'[g] = held[g] /\ out'[g] = out[g] /\ pc'[g] = pc[g]
        BY <1>0, <1>13, <1>18 DEF TypeOK
    <2> QED BY Zenon, <1>13, <2>1, <2>2 DEF EndOK
<1> QED
    BY <1>14, <1>16, <1>17, <1>18 DEF IInv

(* Numbering turns the held bytes into a frame at sendOffset.              *)
LEMMA NumberStep ==
    ASSUME IInv, NEW e \in Ends, NextOutNumber(e)
    PROVE  IInv'
<1> DEFINE r == rel[e]
           h == held[e]
           c == [off |-> r.sendOffset, data |-> h]
           s == number(r, h)
<1>0. TypeOK /\ EndOK(e) /\ LinkOK(e) /\ RelOK(r)
    BY DEF IInv, EndOK
<1>1. /\ h \in Seq(Nat) /\ Len(h) \in Nat /\ r.sendOffset \in Nat
      /\ written[e] \in Nat /\ r.ackedOffset \in Nat
    BY <1>0, EndTypes
<1>2. h = Bytes(r.sendOffset + 1, r.sendOffset + Len(h))
    BY <1>0 DEF EndOK
<1>3. /\ RelOK(s) /\ Follows(r, s)
      /\ s.sendOffset = r.sendOffset + Len(h) /\ s.recvOffset = r.recvOffset
      /\ s.sentCursor = s.sendOffset
      /\ ~s.broken => ~r.broken /\ s.ackedOffset = r.ackedOffset
    BY Zenon, <1>0, <1>1, <1>2, NumberOK
<1>4. c \in Frames
    BY Zenon, <1>1 DEF Frames
<1>5. /\ rel' = [rel EXCEPT ![e] = s] /\ sent' = [sent EXCEPT ![e] = @ \cup {c}]
      /\ held' = [held EXCEPT ![e] = <<>>] /\ pc' = [pc EXCEPT ![e] = "idle"]
      /\ UNCHANGED <<written, out, in, reported>>
    BY Zenon DEF NextOutNumber
<1>6. ASSUME NEW f, f = c PROVE FrameOK(e, f)'
    <2>1. rel'[e] = s
        BY <1>0, <1>5 DEF TypeOK
    <2>2. f.off = r.sendOffset /\ f.data = h
        BY <1>6
    <2> HIDE DEF c, s
    <2>3. f.off + Len(f.data) <= rel'[e].sendOffset
        BY <1>1, <1>3, <2>1, <2>2
    <2> QED BY Zenon, <1>2, <2>2, <2>3 DEF FrameOK
<1> HIDE DEF c, s
<1>7. TypeOK'
    <2>1. /\ rel' \in [Ends -> Reliables] /\ sent' \in [Ends -> SUBSET Frames]
          /\ held' \in [Ends -> Seq(Nat)]
          /\ pc' \in [Ends -> {"idle", "waiting", "taken"}]
        BY <1>0, <1>3, <1>4, <1>5, EmptySeq DEF TypeOK, RelOK
    <2> QED BY <1>0, <1>5, <2>1 DEF TypeOK
<1>8. /\ rel'[e] = s /\ sent'[e] = sent[e] \cup {c}
      /\ held'[e] = <<>> /\ pc'[e] = "idle" /\ Len(held'[e]) = 0
    BY <1>0, <1>5, EmptySeq DEF TypeOK
<1>9. EndOK(e)'
    <2>1. s.sendOffset \in Nat /\ s.sendOffset + 0 = s.sendOffset
        BY <1>1, <1>3
    <2>2. Bytes(s.sendOffset + 1, s.sendOffset) = <<>>
        BY <2>1, BytesEmpty
    <2>3. out[e] = Bytes(s.sendOffset + 1, written[e]) /\ s.sendOffset <= written[e]
        BY Zenon, <1>0, <1>3 DEF EndOK
    <2> QED BY Zenon, <1>3, <1>5, <1>8, <2>1, <2>2, <2>3 DEF EndOK
<1>10. peer[e] \in Ends /\ peer[e] # e
    BY PeerFacts
<1>11. /\ rel'[peer[e]] = rel[peer[e]] /\ sent'[peer[e]] = sent[peer[e]]
       /\ held'[peer[e]] = held[peer[e]] /\ pc'[peer[e]] = pc[peer[e]]
    BY Zenon, <1>0, <1>5, <1>10 DEF TypeOK
<1>12. LinkOK(e)'
    <2>1. ASSUME NEW f \in sent[e] PROVE FrameOK(e, f)'
        <3>1. FrameOK(e, f) /\ f \in Frames
            BY Zenon, <1>0, EndTypes DEF LinkOK
        <3>2. f.off + Len(f.data) \in Nat
            BY <3>1, LenProperties DEF Frames
        <3> QED BY <1>1, <1>3, <1>8, <3>1, <3>2 DEF FrameOK
    <2>2. ASSUME NEW f \in sent'[e] PROVE FrameOK(e, f)'
        <3>1. f \in sent[e] \/ f = c
            BY <1>8, <2>2
        <3> QED BY <1>6, <2>1, <3>1
    <2> QED BY Zenon, <1>0, <1>3, <1>5, <1>8, <1>11, <2>2 DEF LinkOK
<1>13. EndOK(peer[e])' /\ LinkOK(peer[e])'
    <2>1. RelOK(rel'[e]) /\ Follows(rel[e], rel'[e])
        BY <1>3, <1>8
    <2> QED BY Zenon, <1>5, <1>10, <1>11, <2>1, PeerUndisturbed
<1> QED
    BY <1>7, <1>9, <1>12, <1>13, PeerFacts DEF IInv

(* A frame, whenever it arrives, extends the in pipe where it ends.        *)
LEMMA RecvStep ==
    ASSUME IInv, NEW e \in Ends, NEW f \in sent[peer[e]], RecvIn(e, f)
    PROVE  /\ IInv'
           /\ in' = in \/ (/\ in'[e] # in[e]
                          /\ in' = [in EXCEPT ![e] = in'[e]]
                          /\ rel'[e].recvOffset > rel[e].recvOffset)
<1> DEFINE r == rel[e]
           k == r.recvOffset
<1>0. /\ TypeOK /\ EndOK(e) /\ LinkOK(e) /\ RelOK(r)
      /\ peer[e] \in Ends /\ peer[e] # e /\ LinkOK(peer[e])
    BY Zenon, PeerFacts DEF IInv, EndOK
<1>1. PICK p \in {fresh(r, f.off, f.data), <<>>} :
          /\ in' = [in EXCEPT ![e] = @ \o p]
          /\ rel' = [rel EXCEPT ![e] = recvIn(r, f.off, p)]
    BY Zenon DEF RecvIn
<1> DEFINE s == recvIn(r, f.off, p)
<1>2. f.off \in Nat /\ f.data \in Seq(Nat) /\ FrameOK(peer[e], f)
    BY Zenon, <1>0, EndTypes DEF LinkOK, Frames
<1>3. /\ k \in Nat /\ r.ackedOffset \in Nat /\ in[e] \in Seq(Nat)
      /\ rel[peer[e]].sendOffset \in Nat
    BY Zenon, <1>0, EndTypes
<1>4. /\ p \in Seq(Nat) /\ p = Bytes(k + 1, k + Len(p))
      /\ p # <<>> => ~replayGap(r, f.off) /\ k + Len(p) = f.off + Len(f.data)
    <2>1. CASE p = fresh(r, f.off, f.data)
        BY Zenon, <1>0, <1>2, <2>1, FreshOK DEF FrameOK
    <2>2. CASE p = <<>>
        <3>1. Bytes(k + 1, k) = <<>>
            BY Zenon, <1>3, BytesEmpty
        <3>2. Len(<<>>) = 0 /\ <<>> \in Seq(Nat) /\ k + 0 = k
            BY <1>3, EmptySeq
        <3> QED BY Zenon, <2>2, <3>1, <3>2
    <2> QED BY Zenon, <2>1, <2>2
<1>5. /\ RelOK(s) /\ Follows(r, s) /\ s.sendOffset = r.sendOffset
      /\ s.recvOffset = (IF replayGap(r, f.off) THEN k ELSE k + Len(p))
      /\ ~s.broken => ~r.broken /\ s.ackedOffset = r.ackedOffset
    BY Zenon, <1>0, <1>2, <1>4, RecvInOK
<1>6. Len(p) \in Nat /\ (p = <<>> <=> Len(p) = 0)
    BY Zenon, <1>4, EmptySeq, LenProperties
<1>7. s.recvOffset = k + Len(p)
    BY <1>3, <1>4, <1>5, <1>6
<1> HIDE DEF s
<1>8. in[e] \o p \in Seq(Nat) /\ in[e] \o p = Bytes(1, k + Len(p))
    <2>1. in[e] \o p \in Seq(Nat)
        BY Zenon, <1>3, <1>4, ConcatProperties
    <2>2. 1 \in Nat /\ k + Len(p) \in Nat /\ 1 <= k + 1 /\ k <= k + Len(p)
        BY <1>3, <1>6
    <2>3. Bytes(1, k) \o Bytes(k + 1, k + Len(p)) = Bytes(1, k + Len(p))
        BY Zenon, <1>3, <2>2, BytesConcat
    <2> QED BY Zenon, <1>0, <1>4, <2>1, <2>3 DEF LinkOK
<1>9. /\ in' = [in EXCEPT ![e] = in[e] \o p] /\ rel' = [rel EXCEPT ![e] = s]
      /\ UNCHANGED <<written, out, pc, held, sent, reported>>
    BY Zenon, <1>1 DEF RecvIn, s
<1>10. TypeOK'
    <2>1. rel' \in [Ends -> Reliables] /\ in' \in [Ends -> Seq(Nat)]
        BY Zenon, <1>0, <1>5, <1>8, <1>9 DEF TypeOK, RelOK
    <2> QED BY Zenon, <1>0, <1>9, <2>1 DEF TypeOK
<1>11. /\ rel'[e] = s /\ in'[e] = in[e] \o p
       /\ rel'[peer[e]] = rel[peer[e]] /\ in'[peer[e]] = in[peer[e]]
    BY Zenon, <1>0, <1>9 DEF TypeOK
<1>12. EndOK(e)'
    <2>1. pendingReplay(s) => pendingReplay(r)
        <3>1. CASE replayGap(r, f.off)
            BY <1>0, <3>1, MarkBrokenOK DEF s, recvIn, pendingReplay
        <3>2. CASE ~replayGap(r, f.off)
            BY <1>0, <3>2 DEF s, recvIn, pendingReplay, RelOK, Reliables
        <3> QED BY <3>1, <3>2
    <2> QED BY Zenon, <1>0, <1>5, <1>9, <1>11, <2>1 DEF EndOK
<1>13. LinkOK(e)'
    <2>1. s.recvOffset <= rel[peer[e]].sendOffset
        <3>1. CASE p = <<>>
            BY <1>0, <1>3, <1>6, <1>7, <3>1 DEF LinkOK
        <3>2. CASE p # <<>>
            BY <1>2, <1>4, <1>7, <3>2 DEF FrameOK
        <3> QED BY <3>1, <3>2
    <2>2. ASSUME NEW n \in reported[e] PROVE n <= s.recvOffset
        <3>1. n \in Nat /\ n <= k
            BY Zenon, <1>0, EndTypes DEF LinkOK
        <3> QED BY <1>3, <1>6, <1>7, <3>1
    <2>3. ~s.broken => s.ackedOffset <= rel[peer[e]].recvOffset
        BY Zenon, <1>0, <1>5 DEF LinkOK
    <2>4. in'[e] = Bytes(1, s.recvOffset)
        BY Zenon, <1>7, <1>8, <1>11
    <2>5. ASSUME NEW g \in sent[e] PROVE FrameOK(e, g)'
        BY Zenon, <1>0, <1>5, <1>11 DEF LinkOK, FrameOK
    <2> QED BY Zenon, <1>9, <1>11, <2>1, <2>2, <2>3, <2>4, <2>5 DEF LinkOK
<1>14. EndOK(peer[e])' /\ LinkOK(peer[e])'
    <2>1. RelOK(rel'[e]) /\ Follows(rel[e], rel'[e])
        BY Zenon, <1>5, <1>11
    <2> QED BY Zenon, <1>0, <1>9, <1>11, <2>1, PeerUndisturbed
<1>15. IInv'
    BY <1>10, <1>12, <1>13, <1>14, PeerFacts DEF IInv
<1>16. in' = in \/ (/\ in'[e] # in[e] /\ in' = [in EXCEPT ![e] = in'[e]]
                   /\ rel'[e].recvOffset > k)
    <2>1. CASE p = <<>>
        <3>1. in[e] \o p = in[e]
            BY <1>3, <2>1, ConcatEmptySeq
        <3> QED BY Zenon, <1>0, <1>9, <3>1 DEF TypeOK
    <2>2. CASE p # <<>>
        <3>1. Len(in[e] \o p) = Len(in[e]) + Len(p) /\ Len(in[e]) \in Nat
            BY <1>3, <1>4, ConcatProperties, LenProperties
        <3>2. in'[e] # in[e]
            BY <1>6, <1>11, <2>2, <3>1
        <3>3. in' = [in EXCEPT ![e] = in'[e]]
            BY Zenon, <1>9, <1>11
        <3>4. rel'[e].recvOffset > k
            BY <1>3, <1>6, <1>7, <1>11, <2>2
        <3> QED BY <3>2, <3>3, <3>4
    <2> QED BY <2>1, <2>2
<1> QED
    BY <1>15, <1>16

-----------------------------------------------------------------------------
(* Every step of either end preserves the invariant.                       *)
LEMMA StepIInv ==
    ASSUME IInv, NEW e \in Ends, Step(e)
    PROVE  IInv'
<1>1. ASSUME NEW n \in 1..MaxBytes[e], Write(e, n) PROVE IInv'
    BY <1>1, WriteStep
<1>2. CASE NextOutReplay(e)
    BY <1>2, ReplayStep
<1>3. CASE NextOutWait(e) \/ NextOutNothing(e)
    BY <1>3, WaitSteps
<1>4. CASE NextOutRead(e)
    BY <1>4, ReadStep
<1>5. CASE NextOutNumber(e)
    BY <1>5, NumberStep
<1>6. ASSUME NEW f \in sent[peer[e]], RecvIn(e, f) PROVE IInv'
    BY <1>6, RecvStep
<1>7. CASE \/ \E n \in reported[peer[e]] : Ack(e, n) \/ Resume(e, n) \/ RefuseResume(e, n)
           \/ TakeAck(e) \/ ResetAck(e) \/ RecvOffsetNow(e) \/ RewindToAcked(e)
    BY Zenon, <1>7, QuietSteps
<1> QED
    BY Zenon, <1>1, <1>2, <1>3, <1>4, <1>5, <1>6, <1>7 DEF Step

(* The inductive invariant holds in every reachable state.                 *)
THEOREM Invariance == Spec => []IInv
<1>1. Init => IInv
    BY InitIInv
<1>2. IInv /\ [Next]_vars => IInv'
    BY StepIInv, UnchangedIInv DEF Next
<1> QED
    BY <1>1, <1>2, PTL DEF Spec

(* Every variable keeps its type.                                          *)
THEOREM TypeCorrect == Spec => []TypeOK
<1>1. IInv => TypeOK
    BY DEF IInv
<1> QED
    BY <1>1, Invariance, PTL

(* Each in pipe receives the peer's stream, from its first byte, with no   *)
(* hole, no repetition and no byte out of place, over any transport that   *)
(* loses, repeats, delays and reorders (recvIn, nextOut).                  *)
THEOREM StreamIntactTheorem == Spec => []StreamIntact
<1>1. ASSUME IInv PROVE StreamIntact
    <2> SUFFICES ASSUME NEW e \in Ends
                 PROVE  /\ in[e] = Bytes(1, rel[e].recvOffset)
                        /\ rel[e].recvOffset <= rel[peer[e]].sendOffset
                        /\ rel[e].recvOffset <= written[peer[e]]
        BY DEF StreamIntact
    <2>1. TypeOK /\ LinkOK(e) /\ EndOK(peer[e]) /\ peer[e] \in Ends
        BY <1>1, PeerFacts DEF IInv
    <2>2. rel[peer[e]].sendOffset <= written[peer[e]]
        BY <2>1, EndTypes DEF EndOK
    <2>3. /\ rel[e].recvOffset \in Nat /\ rel[peer[e]].sendOffset \in Nat
          /\ written[peer[e]] \in Nat
        BY Zenon, <2>1, EndTypes
    <2> QED BY <2>1, <2>2, <2>3 DEF LinkOK
<1> QED
    BY <1>1, Invariance, PTL

(* Every data frame carries the bytes that belong at its offset (nextOut). *)
THEOREM FramesGenuineTheorem == Spec => []FramesGenuine
<1>1. IInv => FramesGenuine
    BY Zenon DEF IInv, LinkOK, FrameOK, FramesGenuine, Genuine
<1> QED
    BY <1>1, Invariance, PTL

(* A layer that is not broken can still send every byte the peer lacks     *)
(* (ack, resumeOut, markBroken).                                           *)
THEOREM NothingForgottenTheorem == Spec => []NothingForgotten
<1>1. IInv => NothingForgotten
    BY Zenon DEF IInv, EndOK, LinkOK, RelOK, NothingForgotten
<1> QED
    BY <1>1, Invariance, PTL

(* ackedOffset <= sentCursor <= sendOffset, the comment of sentCursor.     *)
THEOREM CursorInRangeTheorem == Spec => []CursorInRange
<1>1. IInv => CursorInRange
    BY Zenon DEF IInv, EndOK, RelOK, CursorInRange
<1> QED
    BY <1>1, Invariance, PTL

(* No offset a correct peer ever reports is refused as a bad ack (ack).    *)
THEOREM NoBadAckTheorem == Spec => []NoBadAck
<1>1. ASSUME IInv PROVE NoBadAck
    <2> SUFFICES ASSUME NEW e \in Ends, NEW n \in reported[peer[e]]
                 PROVE  ~(n > rel[e].sendOffset)
        BY DEF NoBadAck, badAck
    <2>1. TypeOK /\ LinkOK(peer[e]) /\ peer[e] \in Ends /\ peer[peer[e]] = e
        BY <1>1, PeerFacts DEF IInv
    <2>2. n \in Nat /\ rel[peer[e]].recvOffset \in Nat /\ rel[e].sendOffset \in Nat
        BY <2>1, EndTypes
    <2>3. n <= rel[peer[e]].recvOffset /\ rel[peer[e]].recvOffset <= rel[e].sendOffset
        BY Zenon, <2>1 DEF LinkOK
    <2> QED BY <2>2, <2>3
<1> QED
    BY <1>1, Invariance, PTL

-----------------------------------------------------------------------------
(* No step takes an offset back or mends a broken layer.                   *)
LEMMA StepFollows ==
    ASSUME IInv, NEW e \in Ends, Step(e), NEW g \in Ends
    PROVE  Follows(rel[g], rel'[g])
<1> DEFINE r == rel[e]
<1>0. TypeOK /\ EndOK(e) /\ RelOK(r) /\ peer[e] \in Ends
    BY Zenon, PeerFacts DEF IInv, EndOK
<1>1. ASSUME NEW h \in Ends PROVE Follows(rel[h], rel[h])
    <2>1. rel[h] \in Reliables
        BY Zenon, <1>0, EndTypes
    <2> QED BY <2>1 DEF Follows, Reliables
<1>2. CASE \E s : rel' = [rel EXCEPT ![e] = s] /\ Follows(r, s)
    <2>1. PICK s : rel' = [rel EXCEPT ![e] = s] /\ Follows(r, s)
        BY Zenon, <1>2
    <2>2. rel'[e] = s /\ (g # e => rel'[g] = rel[g])
        BY Zenon, <1>0, <2>1 DEF TypeOK
    <2> QED BY <1>1, <2>1, <2>2
<1>3. CASE rel' = rel
    BY <1>1, <1>3
<1>4. CASE NextOutReplay(e)
    <2>1. Follows(r, afterReplay(r)) /\ rel' = [rel EXCEPT ![e] = afterReplay(r)]
        BY Zenon, <1>0, <1>4, ReplayOK DEF NextOutReplay
    <2> QED BY Zenon, <1>2, <2>1
<1>5. CASE NextOutNumber(e)
    <2>1. /\ held[e] \in Seq(Nat)
          /\ held[e] = Bytes(r.sendOffset + 1, r.sendOffset + Len(held[e]))
        BY <1>0, EndTypes DEF EndOK
    <2>2. Follows(r, number(r, held[e]))
        BY Zenon, <1>0, <2>1, NumberOK
    <2>3. rel' = [rel EXCEPT ![e] = number(r, held[e])]
        BY <1>5 DEF NextOutNumber
    <2> QED BY Zenon, <1>2, <2>2, <2>3
<1>6. ASSUME NEW f \in sent[peer[e]], RecvIn(e, f) PROVE Follows(rel[g], rel'[g])
    <2>1. f.off \in Nat /\ f.data \in Seq(Nat) /\ FrameOK(peer[e], f)
        BY Zenon, <1>0, EndTypes DEF IInv, LinkOK, Frames
    <2>2. PICK p \in {fresh(r, f.off, f.data), <<>>} :
              rel' = [rel EXCEPT ![e] = recvIn(r, f.off, p)]
        BY Zenon, <1>6 DEF RecvIn
    <2>3. p \in Seq(Nat)
        <3>1. fresh(r, f.off, f.data) \in Seq(Nat)
            BY Zenon, <1>0, <2>1, FreshOK DEF FrameOK
        <3> QED BY Zenon, <3>1, <2>2, EmptySeq
    <2>4. Follows(r, recvIn(r, f.off, p))
        BY Zenon, <1>0, <2>1, <2>3, RecvInOK
    <2> QED BY Zenon, <1>2, <2>2, <2>4
<1>7. ASSUME NEW n \in reported[peer[e]], Ack(e, n) \/ Resume(e, n) \/ RefuseResume(e, n)
      PROVE  Follows(rel[g], rel'[g])
    <2>1. n \in Nat
        BY <1>0, EndTypes
    <2>2. Follows(r, ack(r, n))
        BY Zenon, <1>0, <2>1, AckOK
    <2>3. canResume(r, n) => Follows(r, resumeOut(r, n))
        BY <1>0, <2>1, ResumeOutOK
    <2>4. Follows(r, markBrokenLocked(r))
        BY <1>0, MarkBrokenOK
    <2>5. CASE Ack(e, n)
        BY Zenon, <1>2, <2>2, <2>5 DEF Ack
    <2>6. CASE Resume(e, n)
        BY Zenon, <1>2, <2>3, <2>6 DEF Resume
    <2>7. CASE RefuseResume(e, n)
        BY <1>2, <1>3, <2>4, <2>7 DEF RefuseResume
    <2> QED BY <1>7, <2>5, <2>6, <2>7
<1>8. CASE TakeAck(e) \/ ResetAck(e)
    <2>1. Follows(r, takeAck(r))
        BY <1>0, LastAckOK
    <2>2. Follows(r, resetAck(r))
        BY <1>0, LastAckOK
    <2> QED BY <1>2, <1>8, <2>1, <2>2 DEF TakeAck, ResetAck
<1>9. CASE RewindToAcked(e)
    <2>1. Follows(r, rewindToAcked(r))
        BY <1>0, RewindOK
    <2> QED BY Zenon, <1>2, <1>9, <2>1 DEF RewindToAcked
<1>10. CASE \/ \E n \in 1..MaxBytes[e] : Write(e, n)
            \/ NextOutWait(e) \/ NextOutRead(e) \/ NextOutNothing(e) \/ RecvOffsetNow(e)
    BY Zenon, <1>3, <1>10 DEF Write, NextOutWait, NextOutRead, NextOutNothing, RecvOffsetNow
<1> QED
    BY Zenon, <1>4, <1>5, <1>6, <1>7, <1>8, <1>9, <1>10 DEF Step

(* An end never takes back an acknowledgement it has accepted and never    *)
(* forgets a byte it has received (ack, recvIn, resumeOut, markBroken).    *)
THEOREM OffsetsOnlyGrowTheorem == Spec => OffsetsOnlyGrow
<1> DEFINE Grow == \A e \in Ends :
                      /\ rel'[e].ackedOffset >= rel[e].ackedOffset
                      /\ rel'[e].recvOffset >= rel[e].recvOffset
                      /\ rel'[e].sendOffset >= rel[e].sendOffset
<1>1. IInv /\ [Next]_vars => [Grow]_vars
    BY StepFollows DEF Next, Follows
<1> QED
    BY <1>1, Invariance, PTL DEF Spec, OffsetsOnlyGrow

(* A sender hands out its frames in order of the cursor: a resend that is  *)
(* due is never passed over by new bytes (nextOut, resumeOut).             *)
THEOREM FramesContiguousTheorem == Spec => FramesContiguous
<1> DEFINE InOrder == \A e \in Ends : \A f \in sent'[e] \ sent[e] :
                         f.off = rel[e].sentCursor
<1>1. ASSUME IInv, [Next]_vars PROVE [InOrder]_vars
    <2>1. CASE UNCHANGED vars
        BY <2>1
    <2>2. ASSUME NEW e \in Ends, Step(e) PROVE InOrder
        <3>0. TypeOK /\ EndOK(e) /\ RelOK(rel[e])
            BY Zenon, <1>1 DEF IInv, EndOK
        <3>1. CASE NextOutReplay(e)
            <4>1. replayChunk(rel[e]).off = rel[e].sentCursor
                BY DEF replayChunk
            <4> QED BY Zenon, <3>0, <3>1, <4>1 DEF NextOutReplay, TypeOK
        <3>2. CASE NextOutNumber(e)
            <4>1. pc[e] = "taken" /\ rel[e] \in Reliables
                BY Zenon, <3>0, <3>2, EndTypes DEF NextOutNumber
            <4>2. rel[e].sendOffset = rel[e].sentCursor
                BY <3>0, <4>1 DEF EndOK, pendingReplay, RelOK, Reliables
            <4> QED BY <3>0, <3>2, <4>2 DEF NextOutNumber, TypeOK
        <3>3. CASE sent' = sent
            BY <3>3
        <3> QED BY Zenon, <2>2, <3>1, <3>2, <3>3 DEF Step, Write, NextOutWait, NextOutRead,
                NextOutNothing, RecvIn, Ack, Resume, RefuseResume, TakeAck, ResetAck,
                RecvOffsetNow, RewindToAcked
    <2> QED BY <1>1, <2>1, <2>2 DEF Next
<1> QED
    BY <1>1, Invariance, PTL DEF Spec, FramesContiguous

-----------------------------------------------------------------------------
(* The pair implements the ordered byte stream: the initial states map to  *)
(* initial states, an application's write to AppWrite, a reception that    *)
(* extends the in pipe to Deliver, and every other step to a stutter.      *)
THEOREM ImplementsByteStreamTheorem == Spec => ImplementsByteStream
<1>1. Init => Stream!StreamInit
    BY DEF Init, Stream!StreamInit
<1>2. ASSUME IInv, [Next]_vars, IInv' PROVE [Stream!StreamNext]_(Stream!streamVars)
    <2>1. CASE UNCHANGED vars
        BY <2>1 DEF vars, Stream!streamVars
    <2>2. ASSUME NEW e \in Ends, NEW n \in 1..MaxBytes[e], Write(e, n)
          PROVE  Stream!StreamNext
        <3>1. n \in Nat /\ n > 0 /\ MaxBytes[e] \in Nat
            BY MaxBytesAssumption DEF Ends
        <3>2. TypeOK /\ TypeOK' /\ written[e] \in Nat
            BY <1>2, EndTypes DEF IInv
        <3>3. /\ written' \in [Ends -> Nat]
              /\ written' = [written EXCEPT ![e] = written[e] + n] /\ in' = in
            BY <2>2, <3>2 DEF Write, TypeOK
        <3>4. written'[e] > written[e]
            BY <3>1, <3>2, <3>3 DEF TypeOK
        <3>5. \A g \in Ends \ {e} : written'[g] = written[g]
            BY <3>2, <3>3 DEF TypeOK
        <3>6. Stream!AppWrite(e)
            BY <3>3, <3>4, <3>5 DEF Stream!AppWrite
        <3> QED BY <3>6 DEF Stream!StreamNext
    <2>3. ASSUME NEW e \in Ends, NEW f \in sent[peer[e]], RecvIn(e, f)
          PROVE  [Stream!StreamNext]_(Stream!streamVars)
        <3> DEFINE m == rel'[e].recvOffset
        <3>1. written' = written
            BY <2>3 DEF RecvIn
        <3>2. CASE in' = in
            BY <3>1, <3>2 DEF Stream!streamVars
        <3>3. CASE /\ in'[e] # in[e]
                   /\ in' = [in EXCEPT ![e] = in'[e]]
                   /\ rel'[e].recvOffset > rel[e].recvOffset
            <4>1. /\ TypeOK /\ TypeOK' /\ LinkOK(e) /\ LinkOK(e)' /\ EndOK(peer[e])'
                  /\ peer[e] \in Ends
                BY <1>2, PeerFacts DEF IInv
            <4>2. /\ m \in Nat /\ rel[e].recvOffset \in Nat /\ written[peer[e]] \in Nat
                  /\ rel'[peer[e]].sendOffset \in Nat /\ Len(held'[peer[e]]) \in Nat
                <5>1. m \in Nat /\ rel'[peer[e]].sendOffset \in Nat
                    BY Zenon, <4>1 DEF TypeOK, Reliables
                <5>2. Len(held'[peer[e]]) \in Nat
                    BY Zenon, <4>1, LenProperties DEF TypeOK
                <5> QED BY Zenon, <4>1, <5>1, <5>2, EndTypes
            <4>3. m <= written[peer[e]]
                <5>1. m <= rel'[peer[e]].sendOffset
                    BY Zenon, <4>1 DEF LinkOK
                <5>2. rel'[peer[e]].sendOffset + Len(held'[peer[e]]) <= written[peer[e]]
                    BY Zenon, <3>1, <4>1 DEF EndOK
                <5> HIDE DEF m
                <5> QED BY <4>2, <5>1, <5>2
            <4>4. in'[e] = Bytes(1, m) /\ in[e] = Bytes(1, rel[e].recvOffset)
                BY Zenon, <4>1 DEF LinkOK
            <4>5. Len(in[e]) = rel[e].recvOffset
                <5>1. 1 \in Nat /\ 1 <= rel[e].recvOffset + 1
                    BY <4>2
                <5>2. Len(Bytes(1, rel[e].recvOffset)) = (rel[e].recvOffset + 1) - 1
                    BY Zenon, <4>2, <5>1, BytesProperties
                <5> QED BY <4>2, <4>4, <5>2
            <4>6. Bytes(1, m) = Stream!FirstBytes(m)
                BY <4>2 DEF Bytes, Stream!FirstBytes
            <4>7. m \in 1..written[peer[e]] /\ m > Len(in[e])
                BY <3>3, <4>2, <4>3, <4>5
            <4>8. in' = [in EXCEPT ![e] = Stream!FirstBytes(m)]
                BY <3>3, <4>4, <4>6
            <4> HIDE DEF m
            <4>9. Stream!Deliver(e)
                BY Zenon, <3>1, <4>7, <4>8 DEF Stream!Deliver
            <4> QED BY <4>9 DEF Stream!StreamNext
        <3> QED BY Zenon, <1>2, <2>3, <3>2, <3>3, RecvStep
    <2>4. ASSUME written' = written, in' = in
          PROVE  [Stream!StreamNext]_(Stream!streamVars)
        BY <2>4 DEF Stream!streamVars
    <2> QED BY Zenon, <1>2, <2>1, <2>2, <2>3, <2>4 DEF Next, Step, NextOutReplay, NextOutWait,
            NextOutRead, NextOutNothing, NextOutNumber, Ack, Resume, RefuseResume,
            TakeAck, ResetAck, RecvOffsetNow, RewindToAcked
<1> QED
    BY <1>1, <1>2, Invariance, PTL DEF Spec, ImplementsByteStream, Stream!StreamSpec
=============================================================================
