------------------------- MODULE SessionStoreProofs -------------------------
(***************************************************************************)
(* Proofs about SessionStore, for any number of sessions, requests and     *)
(* closers, any cap and any times.                                         *)
(***************************************************************************)
EXTENDS SessionStore, FiniteSetTheorems, TLAPS

-----------------------------------------------------------------------------
(* The inductive invariant.                                                *)

\* The requests that are attached to a session.
Users(s) == {r \in Requests : req[r].at \in {"poll", "ws"} /\ req[r].s = s}

\* Only a session that was created is held by anyone.
Known ==
    /\ \A r \in Requests : req[r].at # "idle" => req[r].s \in SessionIDs /\ phase[req[r].s] # "absent"
    /\ \A c \in Closers : closer[c].at # "idle" => closer[c].s \in SessionIDs /\ phase[closer[c].s] # "absent"
    /\ \A s \in store \cup piped \cup sweeper.expired : phase[s] # "absent"
    /\ \A s \in SessionIDs : reported[s] # 0 => phase[s] # "absent"
    /\ sweeper.at = "report" => sweeper.todo \subseteq sweeper.expired

\* pollInFlight counts the requests that are attached.
Counted == \A s \in SessionIDs : ses[s].pollInFlight = Cardinality(Users(s))

\* closed and the history of who set it agree.
Marked == \A s \in SessionIDs : ses[s].closed <=> closedBy[s] # "nobody"

\* A session closed for silence has no user.
Deserted ==
    \A s \in SessionIDs : closedBy[s] \in {"idle", "sweep", "cap"} => ses[s].pollInFlight = 0

\* A session that was not created is not closed.
Unborn == \A s \in SessionIDs : phase[s] = "absent" => closedBy[s] = "nobody"

\* The sweeper's clock reading is not ahead.
ClockRead == sweeper.now <= now

\* Whoever removed a session from the store alone will report it.
Owned ==
    /\ \A c \in Closers : closer[c].at # "idle" =>
          /\ closer[c].s \notin store \cup sweeper.expired
          /\ reported[closer[c].s] = 0
          /\ closer[c].at = "report" => closer[c].s \notin piped
          /\ \A d \in Closers : closer[d].at # "idle" /\ closer[d].s = closer[c].s => d = c
    /\ \A s \in sweeper.expired : s \notin store /\ reported[s] = 0
    /\ sweeper.at = "report" => sweeper.todo \cap piped = {}

\* The sweep under the store's lock sees what the store holds.
Locked ==
    /\ sweeper.at \in {"visit", "cap"} => sweeper.todo \subseteq store
    /\ sweeper.at = "visit" => sweeper.detached \subseteq store \ sweeper.todo
    /\ sweeper.at \in {"rest", "lock"} => sweeper.detached = {}

\* The sessions the cap is about.
Waiting ==
    {s \in store : ~ses[s].closed /\ Resumable(ses[s]) /\ detachedBeyondPollGapLocked(ses[s], sweeper.now)}

\* What is left to the cap while the sweep goes on.
Capped ==
    MaxDetached # 0 =>
        /\ sweeper.at = "visit" => Waiting \subseteq sweeper.todo \cup sweeper.detached
        /\ sweeper.at = "cap" => Cardinality(Waiting \ sweeper.todo) <= MaxDetached
        /\ sweeper.at \in {"tell", "report"} => Cardinality(Waiting) <= MaxDetached

-----------------------------------------------------------------------------
(* Session records.                                                        *)

\* markClosed changes closed only.
LEMMA CloseRecord ==
    ASSUME NEW x \in SessionRecords
    PROVE  LET y == [x EXCEPT !.closed = TRUE]
           IN  /\ y \in SessionRecords
               /\ y.closed
               /\ y.resumable = x.resumable /\ y.broken = x.broken
               /\ y.pollInFlight = x.pollInFlight
               /\ y.lastActive = x.lastActive /\ y.detachedAt = x.detachedAt
<1>1. [x EXCEPT !.closed = TRUE] \in SessionRecords
    BY Zenon DEF SessionRecords
<1> QED BY <1>1 DEF SessionRecords

\* markBroken changes broken only.
LEMMA BreakRecord ==
    ASSUME NEW x \in SessionRecords
    PROVE  LET y == [x EXCEPT !.broken = TRUE]
           IN  /\ y \in SessionRecords
               /\ y.broken
               /\ y.closed = x.closed /\ y.resumable = x.resumable
               /\ y.pollInFlight = x.pollInFlight
               /\ y.lastActive = x.lastActive /\ y.detachedAt = x.detachedAt
<1>1. [x EXCEPT !.broken = TRUE] \in SessionRecords
    BY Zenon DEF SessionRecords
<1> QED BY <1>1 DEF SessionRecords

\* beginPoll, or beginWebSocket, with touch counts one more.
LEMMA BeginRecord ==
    ASSUME NEW x \in SessionRecords, NEW t \in Nat, NEW y,
           \/ y = [x EXCEPT !.pollInFlight = @ + 1]
           \/ y = [x EXCEPT !.pollInFlight = @ + 1, !.wsAttached = TRUE]
    PROVE  LET z == [y EXCEPT !.lastActive = t]
           IN  /\ z \in SessionRecords
               /\ z.closed = x.closed /\ z.resumable = x.resumable /\ z.broken = x.broken
               /\ z.pollInFlight = x.pollInFlight + 1
               /\ z.detachedAt = x.detachedAt
<1>1. x.pollInFlight + 1 \in Nat
    BY DEF SessionRecords
<1>2. y \in SessionRecords
    BY Zenon, <1>1 DEF SessionRecords
<1>3. [y EXCEPT !.lastActive = t] \in SessionRecords
    BY Zenon, <1>2 DEF SessionRecords
<1>4. /\ y.closed = x.closed /\ y.resumable = x.resumable /\ y.broken = x.broken
      /\ y.pollInFlight = x.pollInFlight + 1 /\ y.detachedAt = x.detachedAt
    BY Zenon, <1>2 DEF SessionRecords
<1> QED BY <1>2, <1>3, <1>4 DEF SessionRecords

\* endPoll counts one less, and notes when the last one leaves.
LEMMA EndRecord ==
    ASSUME NEW x \in SessionRecords, x.pollInFlight # 0, NEW b \in BOOLEAN, now \in Nat
    PROVE  LET y == noteDetachedLocked([x EXCEPT !.pollInFlight = @ - 1, !.wsAttached = @ /\ b])
           IN  /\ y \in SessionRecords
               /\ y.closed = x.closed /\ y.resumable = x.resumable /\ y.broken = x.broken
               /\ y.pollInFlight = x.pollInFlight - 1
               /\ y.detachedAt \in {x.detachedAt, now}
               /\ y.resumable /\ y.pollInFlight = 0 => y.detachedAt = now
<1> DEFINE w == x.wsAttached /\ b
           y == [x EXCEPT !.pollInFlight = @ - 1, !.wsAttached = w]
<1>1. x.pollInFlight - 1 \in Nat /\ w \in BOOLEAN
    BY DEF SessionRecords
<1>2. y \in SessionRecords
    <2> HIDE DEF w
    <2> QED BY Zenon, <1>1 DEF SessionRecords
<1>3. /\ y.closed = x.closed /\ y.resumable = x.resumable /\ y.broken = x.broken
      /\ y.pollInFlight = x.pollInFlight - 1 /\ y.detachedAt = x.detachedAt
    <2> HIDE DEF w
    <2> QED BY <1>2 DEF SessionRecords
<1>4. [y EXCEPT !.detachedAt = now] \in SessionRecords
    <2> HIDE DEF y
    <2> QED BY Zenon, <1>2 DEF SessionRecords
<1>5. [x EXCEPT !.pollInFlight = @ - 1, !.wsAttached = @ /\ b] = y
    OBVIOUS
<1> HIDE DEF y
<1> QED BY <1>2, <1>3, <1>4, <1>5 DEF noteDetachedLocked, attached, SessionRecords

\* A session that was just created.
LEMMA NewRecord ==
    ASSUME NEW a \in BOOLEAN, NEW b \in BOOLEAN, now \in Nat
    PROVE  /\ newSession(a, b) \in SessionRecords
           /\ ~newSession(a, b).closed
           /\ newSession(a, b).pollInFlight = 0
           /\ newSession(a, b).detachedAt = now
<1>1. newSession(a, b) \in SessionRecords
    BY Zenon DEF newSession, SessionRecords
<1> QED BY <1>1 DEF newSession, SessionRecords
\* What most steps leave alone in a session.
Alike(x, y) ==
    /\ y.resumable = x.resumable /\ y.broken = x.broken
    /\ y.pollInFlight = x.pollInFlight /\ y.detachedAt = x.detachedAt

\* A step that disturbs no session but s.
Others(s) ==
    /\ ses' \in [SessionIDs -> SessionRecords]
    /\ \A u \in SessionIDs \ {s} : ses'[u] = ses[u]

\* One session's record is replaced.
LEMMA ReplacesOne ==
    ASSUME ses \in [SessionIDs -> SessionRecords], NEW s \in SessionIDs, NEW y \in SessionRecords,
           ses' = [ses EXCEPT ![s] = y]
    PROVE  Others(s) /\ ses'[s] = y
BY DEF Others

\* Closing one session.
LEMMA ClosesOne ==
    ASSUME TypeOK, NEW s \in SessionIDs, ses' = [ses EXCEPT ![s].closed = TRUE]
    PROVE  Others(s) /\ ses'[s].closed /\ Alike(ses[s], ses'[s])
<1> DEFINE y == [ses[s] EXCEPT !.closed = TRUE]
<1>1. ses[s] \in SessionRecords /\ ses' = [ses EXCEPT ![s] = y]
    BY DEF TypeOK
<1>2. y \in SessionRecords /\ y.closed /\ Alike(ses[s], y)
    BY <1>1, CloseRecord DEF Alike
<1> HIDE DEF y
<1>3. Others(s) /\ ses'[s] = y
    BY Zenon, <1>1, <1>2, ReplacesOne DEF TypeOK
<1> QED BY Zenon, <1>2, <1>3

\* Creating one session.
LEMMA ConnectNew ==
    ASSUME TypeOK, NEW s \in SessionIDs, Connect(s)
    PROVE  Others(s) /\ ~ses'[s].closed /\ ses'[s].pollInFlight = 0 /\ ses'[s].detachedAt = now
<1> DEFINE a == ses[s].resumable
           b == ses[s].ws
           y == newSession(a, b)
<1>1. a \in BOOLEAN /\ b \in BOOLEAN /\ now \in Nat
    BY TimesAssumption DEF TypeOK, SessionRecords
<1>2. ses' = [ses EXCEPT ![s] = y]
    BY Zenon DEF Connect
<1>3. y \in SessionRecords /\ ~y.closed /\ y.pollInFlight = 0 /\ y.detachedAt = now
    <2> HIDE DEF a, b
    <2> QED BY Zenon, <1>1, NewRecord
<1> HIDE DEF y
<1>4. Others(s) /\ ses'[s] = y
    BY Zenon, <1>2, <1>3, ReplacesOne DEF TypeOK
<1> QED BY Zenon, <1>3, <1>4

\* Marking one session broken.
LEMMA BreaksOne ==
    ASSUME TypeOK, NEW s \in SessionIDs, ses' = [ses EXCEPT ![s].broken = TRUE]
    PROVE  /\ Others(s)
           /\ ses'[s].broken /\ ses'[s].closed = ses[s].closed /\ ses'[s].resumable = ses[s].resumable
           /\ ses'[s].pollInFlight = ses[s].pollInFlight /\ ses'[s].detachedAt = ses[s].detachedAt
<1> DEFINE y == [ses[s] EXCEPT !.broken = TRUE]
<1>1. ses[s] \in SessionRecords /\ ses' = [ses EXCEPT ![s] = y]
    BY DEF TypeOK
<1>2. /\ y \in SessionRecords
      /\ y.broken /\ y.closed = ses[s].closed /\ y.resumable = ses[s].resumable
      /\ y.pollInFlight = ses[s].pollInFlight /\ y.detachedAt = ses[s].detachedAt
    BY <1>1, BreakRecord
<1> HIDE DEF y
<1>3. Others(s) /\ ses'[s] = y
    BY Zenon, <1>1, <1>2, ReplacesOne DEF TypeOK
<1> QED BY Zenon, <1>2, <1>3

\* A request attaches.
Attaches(r, s) ==
    /\ Others(s)
    /\ req[r].at = "got" /\ req[r].s = s
    /\ ~refusesAttach(ses[s])
    /\ ses'[s].closed = ses[s].closed
    /\ ses'[s].resumable = ses[s].resumable /\ ses'[s].broken = ses[s].broken
    /\ ses'[s].pollInFlight = ses[s].pollInFlight + 1
    /\ ses'[s].detachedAt = ses[s].detachedAt
    /\ \E a \in {"poll", "ws"} : req' = [req EXCEPT ![r].at = a]
    /\ UNCHANGED <<now, phase, store, closedBy, piped, reported, closer, sweeper>>

\* A request leaves.
Leaves(r, s) ==
    /\ Others(s)
    /\ req[r].at \in {"poll", "ws"} /\ req[r].s = s
    /\ ses'[s].closed = ses[s].closed
    /\ ses'[s].resumable = ses[s].resumable /\ ses'[s].broken = ses[s].broken
    /\ ses'[s].pollInFlight = ses[s].pollInFlight - 1
    /\ ses'[s].detachedAt \in {ses[s].detachedAt, now}
    /\ ses'[s].resumable /\ ses'[s].pollInFlight = 0 => ses'[s].detachedAt = now
    /\ req' = [req EXCEPT ![r] = idle]
    /\ UNCHANGED <<now, phase, store, closedBy, piped, reported, closer, sweeper>>

\* beginPoll and beginWebSocket attach the request, or refuse it.
LEMMA BeginSplits ==
    ASSUME TypeOK, Known, NEW r \in Requests, beginPoll(r) \/ beginWebSocket(r)
    PROVE  Refused(r) \/ (req[r].s \in SessionIDs /\ Attaches(r, req[r].s))
<1> DEFINE s == req[r].s
           x == ses[s]
<1>1. s \in SessionIDs /\ req[r].at = "got" /\ x \in SessionRecords /\ now \in Nat
    BY TimesAssumption DEF Known, TypeOK, beginPoll, beginWebSocket
<1>2. Refused(r) \/ ~refusesAttach(x)
    BY DEF beginPoll, beginWebSocket
<1>3. SUFFICES ASSUME NEW y, Begun(r, s, y),
                      ~refusesAttach(x),
                      \/ y = [x EXCEPT !.pollInFlight = @ + 1]
                      \/ y = [x EXCEPT !.pollInFlight = @ + 1, !.wsAttached = TRUE]
               PROVE  Attaches(r, s)
    BY <1>1, <1>2 DEF beginPoll, beginWebSocket
<1> DEFINE z == [y EXCEPT !.lastActive = now]
<1>4. /\ z \in SessionRecords
      /\ z.closed = x.closed /\ z.resumable = x.resumable /\ z.broken = x.broken
      /\ z.pollInFlight = x.pollInFlight + 1
      /\ z.detachedAt = x.detachedAt
    <2> HIDE DEF s, x
    <2> QED BY Zenon, <1>1, <1>3, BeginRecord
<1>5. ses' = [ses EXCEPT ![s] = z]
    BY <1>3 DEF Begun
<1>6. Others(s) /\ ses'[s] = z
    <2> HIDE DEF z
    <2> QED BY Zenon, <1>1, <1>4, <1>5, ReplacesOne DEF TypeOK
<1>7. \E a \in {"poll", "ws"} : req' = [req EXCEPT ![r].at = a]
    BY Zenon, <1>3 DEF Begun
<1> HIDE DEF z, s
<1> QED BY Zenon, <1>1, <1>3, <1>4, <1>6, <1>7 DEF Attaches, Begun, s
\* endPoll detaches the request.
LEMMA EndLeaves ==
    ASSUME TypeOK, Known, Counted, NEW r \in Requests, endPoll(r)
    PROVE  req[r].s \in SessionIDs /\ Leaves(r, req[r].s)
<1> DEFINE s == req[r].s
           x == ses[s]
           b == req[r].at # "ws"
           y == noteDetachedLocked([x EXCEPT !.pollInFlight = @ - 1, !.wsAttached = @ /\ b])
<1>1. s \in SessionIDs /\ req[r].at \in {"poll", "ws"} /\ x \in SessionRecords /\ now \in Nat
    BY TimesAssumption DEF Known, TypeOK, endPoll
<1>2. x.pollInFlight # 0
    <2>1. r \in Users(s) /\ IsFiniteSet(Users(s))
        BY <1>1, FS_Subset, FiniteAssumption DEF Users
    <2>2. Cardinality(Users(s)) # 0
        BY <2>1, FS_EmptySet
    <2> QED BY <1>1, <2>2 DEF Counted
<1>3. /\ y \in SessionRecords
      /\ y.closed = x.closed /\ y.resumable = x.resumable /\ y.broken = x.broken
      /\ y.pollInFlight = x.pollInFlight - 1
      /\ y.detachedAt \in {x.detachedAt, now}
      /\ y.resumable /\ y.pollInFlight = 0 => y.detachedAt = now
    <2>1. b \in BOOLEAN
        OBVIOUS
    <2> HIDE DEF s, x, b
    <2> QED BY Zenon, <1>1, <1>2, <2>1, EndRecord
<1>4. ses' = [ses EXCEPT ![s] = y]
    BY Zenon DEF endPoll
<1>5. Others(s) /\ ses'[s] = y
    <2> HIDE DEF y
    <2> QED BY Zenon, <1>1, <1>3, <1>4, ReplacesOne DEF TypeOK
<1> HIDE DEF y
<1> QED BY Zenon, <1>1, <1>3, <1>5 DEF Leaves, endPoll
-----------------------------------------------------------------------------
(* Types, and who may hold a session.                                      *)

Shape == TypeOK /\ Known

SweeperRecords ==
    [at : {"rest", "lock", "visit", "cap", "tell", "report"}, now : 0..MaxTime,
     todo : SUBSET SessionIDs, detached : SUBSET SessionIDs, expired : SUBSET SessionIDs]

Sweeper(a, n, t, d, e) == [at |-> a, now |-> n, todo |-> t, detached |-> d, expired |-> e]

\* The sweeper evicts s under the lock.
Evicts(s, why) ==
    /\ s \in sweeper.todo /\ ~ses[s].closed /\ ~attached(ses[s])
    /\ \/ why = "sweep" /\ sweeper.at = "visit" /\ sweepExpired(ses[s])
       \/ why = "cap" /\ sweeper.at = "cap" /\ sweeper.now - ses[s].detachedAt > PollGap
    /\ ses' = [ses EXCEPT ![s].closed = TRUE]
    /\ store' = store \ {s}
    /\ closedBy' = [closedBy EXCEPT ![s] = why]
    /\ sweeper' = Sweeper(sweeper.at, sweeper.now, sweeper.todo \ {s}, sweeper.detached,
                          sweeper.expired \cup {s})

\* The sweeper passes s by.
Keeps(s, d) ==
    /\ s \in sweeper.todo
    /\ sweeper.at \in {"visit", "cap"}
    /\ d # sweeper.detached => sweeper.at = "visit"
    /\ s \in Waiting => sweeper.at = "visit" /\ s \in d
    /\ UNCHANGED <<store, ses, closedBy>>
    /\ sweeper' = Sweeper(sweeper.at, sweeper.now, sweeper.todo \ {s}, d, sweeper.expired)

\* A visit, or a step of the cap, evicts the session or passes it by.
LEMMA VisitSplits ==
    ASSUME TypeOK, NEW s \in SessionIDs, SweepVisit(s) \/ SweepCap(s)
    PROVE  \/ \E why \in {"sweep", "cap"} : Evicts(s, why)
           \/ \E d \in {sweeper.detached, sweeper.detached \cup {s}} : Keeps(s, d)
<1> DEFINE x == ses[s]
           sw == [sweeper EXCEPT !.todo = @ \ {s}]
<1>1. /\ sw = Sweeper(sweeper.at, sweeper.now, sweeper.todo \ {s}, sweeper.detached, sweeper.expired)
      /\ [sw EXCEPT !.expired = @ \cup {s}]
          = Sweeper(sweeper.at, sweeper.now, sweeper.todo \ {s}, sweeper.detached, sweeper.expired \cup {s})
      /\ [sw EXCEPT !.detached = @ \cup {s}]
          = Sweeper(sweeper.at, sweeper.now, sweeper.todo \ {s}, sweeper.detached \cup {s}, sweeper.expired)
    <2>1. sweeper \in SweeperRecords
        BY DEF TypeOK, SweeperRecords
    <2>2. sweeper.todo \ {s} \in SUBSET SessionIDs /\ sweeper.detached \cup {s} \in SUBSET SessionIDs
        BY <2>1 DEF SweeperRecords
    <2>3. sw \in SweeperRecords /\ sw.detached = sweeper.detached /\ sw.expired = sweeper.expired
        BY <2>1, <2>2 DEF SweeperRecords
    <2>4. sw = Sweeper(sweeper.at, sweeper.now, sweeper.todo \ {s}, sweeper.detached, sweeper.expired)
        BY <2>1 DEF SweeperRecords, Sweeper
    <2>5. /\ [sw EXCEPT !.expired = @ \cup {s}] = [sw EXCEPT !.expired = sweeper.expired \cup {s}]
          /\ [sw EXCEPT !.detached = @ \cup {s}] = [sw EXCEPT !.detached = sweeper.detached \cup {s}]
        <3> HIDE DEF sw
        <3> QED BY Zenon, <2>3
    <2> DEFINE z == Sweeper(sweeper.at, sweeper.now, sweeper.todo \ {s}, sweeper.detached, sweeper.expired)
    <2>6. /\ [z EXCEPT !.expired = sweeper.expired \cup {s}]
              = Sweeper(sweeper.at, sweeper.now, sweeper.todo \ {s}, sweeper.detached, sweeper.expired \cup {s})
          /\ [z EXCEPT !.detached = sweeper.detached \cup {s}]
              = Sweeper(sweeper.at, sweeper.now, sweeper.todo \ {s}, sweeper.detached \cup {s}, sweeper.expired)
        BY DEF Sweeper
    <2> HIDE DEF sw, z
    <2>7. sw = z BY Zenon, <2>4 DEF z
    <2> QED BY Zenon, <2>4, <2>5, <2>6, <2>7
<1> HIDE DEF sw
<1>2. CASE SweepCap(s) /\ ~x.closed /\ detachedBeyondPollGapLocked(x, sweeper.now)
    <2>1. Evicts(s, "cap")
        BY <1>1, <1>2 DEF SweepCap, evict, Evicts, detachedBeyondPollGapLocked, sw
    <2> QED BY <2>1
<1>3. CASE SweepCap(s) /\ ~(~x.closed /\ detachedBeyondPollGapLocked(x, sweeper.now))
    <2>1. Keeps(s, sweeper.detached)
        BY <1>1, <1>3 DEF SweepCap, pass, Keeps, Waiting, sw
    <2> QED BY <2>1
<1>4. CASE SweepVisit(s) /\ (x.closed \/ attached(x))
    <2>1. Keeps(s, sweeper.detached)
        BY <1>1, <1>4 DEF SweepVisit, pass, Keeps, Waiting, detachedBeyondPollGapLocked, sw
    <2> QED BY <2>1
<1>5. CASE SweepVisit(s) /\ ~(x.closed \/ attached(x)) /\ sweepExpired(x)
    <2>1. Evicts(s, "sweep")
        BY <1>1, <1>5 DEF SweepVisit, evict, Evicts, sw
    <2> QED BY <2>1
<1>6. CASE /\ SweepVisit(s) /\ ~(x.closed \/ attached(x)) /\ ~sweepExpired(x)
           /\ Resumable(x) /\ detachedBeyondPollGapLocked(x, sweeper.now)
    <2>1. Keeps(s, sweeper.detached \cup {s})
        BY <1>1, <1>6 DEF SweepVisit, pass, Keeps, sw
    <2> QED BY <2>1
<1>7. CASE /\ SweepVisit(s) /\ ~(x.closed \/ attached(x)) /\ ~sweepExpired(x)
           /\ ~(Resumable(x) /\ detachedBeyondPollGapLocked(x, sweeper.now))
    <2>1. Keeps(s, sweeper.detached)
        BY <1>1, <1>7 DEF SweepVisit, pass, Keeps, Waiting, sw
    <2> QED BY <2>1
<1> QED BY <1>2, <1>3, <1>4, <1>5, <1>6, <1>7

\* The sweeper reports s.
LEMMA ReportStep ==
    ASSUME TypeOK, NEW s \in SessionIDs, SweepReport(s)
    PROVE  sweeper' = Sweeper("tell", sweeper.now, {}, sweeper.detached, sweeper.expired \ {s})
BY Zenon DEF TypeOK, SweepReport, Sweeper

\* The sweeper's steps keep the types.
LEMMA SweepShape ==
    ASSUME Shape, Locked, SweepStep
    PROVE  Shape'
<1> USE TimesAssumption DEF Shape, TypeOK, Known
<1>1. CASE SweepStart BY Zenon, <1>1 DEF SweepStart
<1>2. CASE SweepLock BY Zenon, <1>2 DEF SweepLock
<1>3. CASE SweepSort
    <2>1. PICK E \in SUBSET sweeper.detached :
              sweeper' = [sweeper EXCEPT !.at = "cap", !.todo = E, !.detached = {}]
        BY <1>3 DEF SweepSort, Excess
    <2> QED BY Zenon, <1>3, <2>1 DEF SweepSort
<1>4. CASE SweepUnlock BY <1>4 DEF SweepUnlock
<1>5. CASE SweepDone BY <1>5 DEF SweepDone, resting
<1>6. ASSUME NEW s \in SessionIDs, SweepPipes(s) PROVE Shape'
    BY Zenon, <1>6 DEF SweepPipes
<1>7. ASSUME NEW s \in SessionIDs, SweepReport(s) PROVE Shape'
    <2>1. sweeper' = Sweeper("tell", sweeper.now, {}, sweeper.detached, sweeper.expired \ {s})
        BY <1>7, ReportStep
    <2>2. sweeper' \in SweeperRecords
        BY <2>1 DEF Sweeper, SweeperRecords
    <2>3. reported' = [reported EXCEPT ![s] = @ + 1] /\ reported' \in [SessionIDs -> Nat]
        BY <1>7 DEF SweepReport
    <2>4. phase[s] # "absent"
        BY <1>7 DEF SweepReport
    <2>5. UNCHANGED <<now, phase, store, ses, closedBy, piped, req, closer>>
        BY <1>7 DEF SweepReport
    <2>6. TypeOK'
        BY Zenon, <2>2, <2>3, <2>5 DEF SweeperRecords
    <2> QED BY <2>1, <2>3, <2>4, <2>5, <2>6 DEF Sweeper
<1>8. ASSUME NEW s \in SessionIDs, NEW why \in {"sweep", "cap"}, Evicts(s, why), Locked,
             UNCHANGED <<now, phase, piped, reported, req, closer>>
      PROVE  Shape'
    <2>1. ses' \in [SessionIDs -> SessionRecords]
        BY Zenon, <1>8, ClosesOne DEF Evicts, Others
    <2>2. s \in store /\ sweeper.at \in {"visit", "cap"}
        BY <1>8 DEF Locked, Evicts
    <2>3. sweeper' \in SweeperRecords
        BY <1>8 DEF Sweeper, SweeperRecords, Evicts
    <2>4. closedBy' \in [SessionIDs -> ClosedBy] /\ store' \subseteq SessionIDs
        BY <1>8 DEF Evicts, ClosedBy
    <2>5. TypeOK'
        BY Zenon, <1>8, <2>1, <2>3, <2>4 DEF SweeperRecords
    <2> QED BY <1>8, <2>2, <2>5 DEF Evicts, Sweeper
<1>9. ASSUME NEW s \in SessionIDs, NEW d \in {sweeper.detached, sweeper.detached \cup {s}}, Keeps(s, d),
             UNCHANGED <<now, phase, piped, reported, req, closer>>
      PROVE  Shape'
    <2>1. sweeper' \in SweeperRecords
        BY <1>9 DEF Sweeper, SweeperRecords, Keeps
    <2>2. TypeOK'
        BY Zenon, <1>9, <2>1 DEF SweeperRecords, Keeps
    <2>3. sweeper'.at # "report" /\ sweeper'.expired = sweeper.expired
        BY <1>9 DEF Keeps, Sweeper
    <2>4. Known'
        BY <1>9, <2>3 DEF Keeps
    <2> QED BY <2>2, <2>4
<1>10. ASSUME NEW s \in SessionIDs, SweepVisit(s) \/ SweepCap(s) PROVE Shape'
    <2>1. UNCHANGED <<now, phase, piped, reported, req, closer>>
        BY <1>10 DEF SweepVisit, SweepCap
    <2> HIDE DEF TypeOK, Known
    <2>2. \/ \E why \in {"sweep", "cap"} : Evicts(s, why)
          \/ \E d \in {sweeper.detached, sweeper.detached \cup {s}} : Keeps(s, d)
        BY Zenon, <1>10, VisitSplits
    <2> QED BY Zenon, <1>8, <1>9, <2>1, <2>2
<1> QED
    BY Zenon, <1>1, <1>2, <1>3, <1>4, <1>5, <1>6, <1>7, <1>10 DEF SweepStep
\* A request's steps keep the types.
LEMMA RequestShape ==
    ASSUME Shape, Counted, NEW r \in Requests, RequestStep(r)
    PROVE  Shape'
<1> USE DEF Shape, TypeOK, Known
<1>1. CASE \E s \in SessionIDs : Get(r, s) BY <1>1 DEF Get
<1>2. CASE Refused(r) BY <1>2 DEF Refused, idle
<1>3. CASE req[r].s \in SessionIDs /\ Attaches(r, req[r].s) BY <1>3 DEF Attaches, Others
<1>4. CASE req[r].s \in SessionIDs /\ Leaves(r, req[r].s) BY <1>4 DEF Leaves, Others, idle
<1>5. CASE markBroken(r)
    <2>1. ses' \in [SessionIDs -> SessionRecords]
        BY Zenon, <1>5, BreaksOne DEF markBroken, Others
    <2> QED BY <1>5, <2>1 DEF markBroken
<1> HIDE DEF TypeOK, Known
<1>6. CASE beginPoll(r) \/ beginWebSocket(r)
    BY Zenon, <1>2, <1>3, <1>6, BeginSplits
<1>7. CASE endPoll(r)
    BY Zenon, <1>4, <1>7, EndLeaves
<1> QED BY Zenon, <1>1, <1>5, <1>6, <1>7 DEF RequestStep

\* A closer's steps keep the types.
LEMMA CloserShape ==
    ASSUME Shape, NEW c \in Closers, CloserStep(c)
    PROVE  Shape'
<1> USE DEF Shape, TypeOK, Known
<1>1. ASSUME NEW s \in SessionIDs, NEW requireIdle \in BOOLEAN, CloseSession(c, s, requireIdle)
      PROVE  Shape'
    <2>1. ses' \in [SessionIDs -> SessionRecords]
        BY Zenon, <1>1, ClosesOne DEF CloseSession, removeAndMarkClosed, Others
    <2>2. closedBy' \in [SessionIDs -> ClosedBy]
        BY <1>1 DEF CloseSession, ClosedBy
    <2>3. s \in store /\ store' = store \ {s}
        BY <1>1 DEF CloseSession, removeAndMarkClosed
    <2> QED BY <1>1, <2>1, <2>2, <2>3 DEF CloseSession
<1>2. CASE CloserPipes(c) BY <1>2 DEF CloserPipes
<1>3. CASE CloserReports(c) BY <1>3 DEF CloserReports, idle
<1> QED BY <1>1, <1>2, <1>3 DEF CloserStep

\* The steps of a connect keep the types.
LEMMA ConnectShape ==
    ASSUME Shape, NEW s \in SessionIDs, ConnectStep(s)
    PROVE  Shape'
<1> USE DEF Shape, TypeOK, Known
<1>1. CASE Connect(s)
    <2>1. ses' \in [SessionIDs -> SessionRecords]
        BY <1>1, ConnectNew DEF Others
    <2> QED BY <1>1, <2>1 DEF Connect
<1>2. CASE OnConnectAccepts(s) BY <1>2 DEF OnConnectAccepts
<1>3. CASE OnConnectRejects(s) BY <1>3 DEF OnConnectRejects
<1>4. CASE RejectCloses(s) \/ AppCloses(s)
    <2>1. PICK who \in {"reject", "app"} : closeOnce(s, who)
        BY <1>4 DEF RejectCloses, AppCloses
    <2>2. ses' \in [SessionIDs -> SessionRecords]
        BY Zenon, <2>1, ClosesOne DEF closeOnce, Others
    <2> QED BY <2>1, <2>2 DEF closeOnce, ClosedBy
<1> QED BY <1>1, <1>2, <1>3, <1>4 DEF ConnectStep
\* Every step keeps the types.
LEMMA NextShape ==
    ASSUME Shape, Counted, Locked, [Next]_vars
    PROVE  Shape'
<1>1. CASE Tick BY <1>1, TimesAssumption DEF Tick, Shape, TypeOK, Known
<1>2. CASE UNCHANGED vars BY <1>2 DEF vars, Shape, TypeOK, Known
<1> QED BY Zenon, <1>1, <1>2, SweepShape, RequestShape, CloserShape, ConnectShape DEF Next

-----------------------------------------------------------------------------
(* pollInFlight counts.                                                    *)

\* A step that moves no request and no count.
LEMMA CountedSame ==
    ASSUME Counted, UNCHANGED req,
           \A u \in SessionIDs : ses'[u].pollInFlight = ses[u].pollInFlight
    PROVE  Counted'
BY DEF Counted, Users

\* A step of a request that does not hold a session before or after it.
LEMMA CountedIdle ==
    ASSUME TypeOK, Counted, NEW r \in Requests, UNCHANGED ses,
           req[r].at \in {"idle", "got"}, req'[r].at \in {"idle", "got"},
           \A q \in Requests \ {r} : req'[q] = req[q]
    PROVE  Counted'
<1>1. \A s \in SessionIDs : Users(s)' = Users(s)
    BY DEF Users
<1> QED BY <1>1 DEF Counted

\* Attaching adds one user.
LEMMA CountedAttach ==
    ASSUME TypeOK, Counted, NEW r \in Requests, NEW s \in SessionIDs, Attaches(r, s)
    PROVE  Counted'
<1>1. \A u \in SessionIDs \ {s} : Users(u)' = Users(u)
    BY DEF Users, TypeOK, Attaches
<1>2. Users(s)' = Users(s) \cup {r} /\ r \notin Users(s)
    BY DEF Users, TypeOK, Attaches
<1>3. IsFiniteSet(Users(s))
    BY FS_Subset, FiniteAssumption DEF Users
<1>4. Cardinality(Users(s)') = Cardinality(Users(s)) + 1
    BY <1>2, <1>3, FS_AddElement
<1> QED BY <1>1, <1>4 DEF Counted, Attaches, Others

\* Leaving removes one.
LEMMA CountedLeave ==
    ASSUME TypeOK, Counted, NEW r \in Requests, NEW s \in SessionIDs, Leaves(r, s)
    PROVE  Counted'
<1>1. \A u \in SessionIDs \ {s} : Users(u)' = Users(u)
    BY DEF Users, TypeOK, Leaves, idle
<1>2. Users(s)' = Users(s) \ {r} /\ r \in Users(s)
    BY DEF Users, TypeOK, Leaves, idle
<1>3. IsFiniteSet(Users(s))
    BY FS_Subset, FiniteAssumption DEF Users
<1>4. Cardinality(Users(s)') = Cardinality(Users(s)) - 1
    BY Zenon, <1>2, <1>3, FS_RemoveElement
<1> QED BY <1>1, <1>4 DEF Counted, Leaves, Others
\* Every step keeps the count.
LEMMA NextCounted ==
    ASSUME Shape, Counted, [Next]_vars
    PROVE  Counted'
<1> USE DEF Shape
<1>1. ASSUME UNCHANGED <<ses, req>> PROVE Counted'
    BY <1>1, CountedSame
<1>2. ASSUME UNCHANGED req, NEW s \in SessionIDs, ses' = [ses EXCEPT ![s].closed = TRUE]
      PROVE  Counted'
    <2>1. Others(s) /\ Alike(ses[s], ses'[s])
        BY Zenon, <1>2, ClosesOne
    <2>2. \A u \in SessionIDs : ses'[u].pollInFlight = ses[u].pollInFlight
        BY <2>1 DEF Others, Alike
    <2> QED BY Zenon, <1>2, <2>2, CountedSame
<1>3. ASSUME NEW s \in SessionIDs, ConnectStep(s) PROVE Counted'
    <2>1. CASE Connect(s)
        <3>1. Others(s) /\ ses'[s].pollInFlight = 0 /\ UNCHANGED req
            BY Zenon, <2>1, ConnectNew DEF Connect
        <3>2. Users(s) = {}
            BY <2>1 DEF Known, Users, Connect
        <3>3. ses[s].pollInFlight = 0
            BY <3>2, FS_EmptySet DEF Counted
        <3>4. \A u \in SessionIDs : ses'[u].pollInFlight = ses[u].pollInFlight
            BY <3>1, <3>3 DEF Others
        <3> QED BY Zenon, <3>1, <3>4, CountedSame
    <2>2. CASE RejectCloses(s) \/ AppCloses(s)
        BY Zenon, <1>2, <2>2 DEF RejectCloses, AppCloses, closeOnce
    <2> QED BY Zenon, <1>1, <1>3, <2>1, <2>2 DEF ConnectStep, OnConnectAccepts, OnConnectRejects
<1>4. ASSUME NEW c \in Closers, CloserStep(c) PROVE Counted'
    BY Zenon, <1>1, <1>2, <1>4
       DEF CloserStep, CloseSession, removeAndMarkClosed, CloserPipes, CloserReports
<1>5. ASSUME NEW r \in Requests, RequestStep(r) PROVE Counted'
    <2>1. CASE \E s \in SessionIDs : Get(r, s)
        BY <2>1, CountedIdle DEF Get, idle, TypeOK
    <2>2. CASE beginPoll(r) \/ beginWebSocket(r)
        <3>1. req[r].at = "got"
            BY <2>2 DEF beginPoll, beginWebSocket
        <3>2. CASE Refused(r)
            BY <3>1, <3>2, CountedIdle DEF Refused, idle, TypeOK
        <3> QED BY Zenon, <2>2, <3>2, BeginSplits, CountedAttach
    <2>3. CASE endPoll(r)
        BY Zenon, <2>3, EndLeaves, CountedLeave
    <2>4. CASE markBroken(r)
        <3>1. req[r].s \in SessionIDs
            BY <2>4 DEF markBroken, Known
        <3>2. Others(req[r].s) /\ ses'[req[r].s].pollInFlight = ses[req[r].s].pollInFlight
            BY Zenon, <2>4, <3>1, BreaksOne DEF markBroken
        <3>3. \A u \in SessionIDs : ses'[u].pollInFlight = ses[u].pollInFlight
            BY <3>1, <3>2 DEF Others
        <3> QED BY Zenon, <2>4, <3>3, CountedSame DEF markBroken
    <2> QED BY Zenon, <1>5, <2>1, <2>2, <2>3, <2>4 DEF RequestStep
<1>6. CASE SweepStep
    <2>1. ASSUME NEW s \in SessionIDs, SweepVisit(s) \/ SweepCap(s) PROVE Counted'
        <3>1. UNCHANGED req
            BY <2>1 DEF SweepVisit, SweepCap
        <3> QED BY Zenon, <1>1, <1>2, <2>1, <3>1, VisitSplits DEF Evicts, Keeps
    <2> QED BY Zenon, <1>1, <1>6, <2>1
            DEF SweepStep, SweepStart, SweepLock, SweepSort, SweepUnlock, SweepDone, SweepPipes,
                SweepReport
<1>7. CASE Tick BY <1>1, <1>7 DEF Tick
<1>8. CASE UNCHANGED vars BY <1>1, <1>8 DEF vars
<1> QED BY Zenon, <1>3, <1>4, <1>5, <1>6, <1>7, <1>8 DEF Next
-----------------------------------------------------------------------------
(* What a step does to a session.                                          *)

\* Somebody closes s, and who does it for silence has looked.
Closes(s, who) ==
    /\ ~ses[s].closed /\ phase[s] # "absent"
    /\ ses' = [ses EXCEPT ![s].closed = TRUE]
    /\ closedBy' = [closedBy EXCEPT ![s] = who]
    /\ UNCHANGED now
    /\ who \in {"idle", "sweep", "cap"} => ~attached(ses[s])
    /\ who \in {"idle", "sweep"} /\ Resumable(ses[s]) => now - ses[s].detachedAt > ResumeGrace
    /\ who = "cap" => now - ses[s].detachedAt > PollGap

\* The kinds of step, for the sessions.
Kind ==
    \/ UNCHANGED <<ses, closedBy>> /\ now' \in {now, now + 1}
    \/ \E s \in SessionIDs, who \in ClosedBy \ {"nobody"} : Closes(s, who)
    \/ \E s \in SessionIDs : Connect(s)
    \/ \E r \in Requests : req[r].s \in SessionIDs /\ Attaches(r, req[r].s)
    \/ \E r \in Requests : req[r].s \in SessionIDs /\ Leaves(r, req[r].s)
    \/ \E r \in Requests : markBroken(r)

\* Every step is of one of them.
LEMMA NextKind ==
    ASSUME Shape, Counted, ClockRead, Locked, [Next]_vars
    PROVE  Kind
<1> USE DEF Shape
<1>1. ASSUME UNCHANGED <<ses, closedBy, now>> PROVE Kind
    BY Zenon, <1>1 DEF Kind
<1>2. ASSUME NEW s \in SessionIDs, NEW who \in ClosedBy \ {"nobody"}, Closes(s, who) PROVE Kind
    BY Zenon, <1>2 DEF Kind
<1>3. ASSUME NEW s \in SessionIDs, ConnectStep(s) PROVE Kind
    <2>1. CASE Connect(s)
        BY Zenon, <2>1 DEF Kind
    <2>2. CASE RejectCloses(s) \/ AppCloses(s)
        <3>1. PICK who \in {"reject", "app"} : closeOnce(s, who)
            BY <2>2 DEF RejectCloses, AppCloses
        <3>2. Closes(s, who) /\ who \in ClosedBy \ {"nobody"}
            BY <2>2, <3>1 DEF Closes, closeOnce, ClosedBy, RejectCloses, AppCloses
        <3> QED BY <1>2, <3>2
    <2> QED BY Zenon, <1>1, <1>3, <2>1, <2>2 DEF ConnectStep, OnConnectAccepts, OnConnectRejects
<1>4. ASSUME NEW c \in Closers, CloserStep(c) PROVE Kind
    <2>1. ASSUME NEW s \in SessionIDs, NEW requireIdle \in BOOLEAN, CloseSession(c, s, requireIdle)
          PROVE  Kind
        <3> DEFINE who == IF requireIdle THEN "idle" ELSE "close"
        <3>1. now \in Nat /\ ses[s].detachedAt \in Nat
            BY TimesAssumption DEF TypeOK, SessionRecords
        <3>2. Closes(s, who) /\ who \in ClosedBy \ {"nobody"}
            BY <2>1, <3>1, TimesAssumption
               DEF Closes, CloseSession, removeAndMarkClosed, inResumeGraceLocked, ClosedBy,
                   Known
        <3> QED BY <1>2, <3>2
    <2> QED BY Zenon, <1>1, <1>4, <2>1 DEF CloserStep, CloserPipes, CloserReports
<1>5. ASSUME NEW r \in Requests, RequestStep(r) PROVE Kind
    <2>1. CASE \E s \in SessionIDs : Get(r, s)
        BY <1>1, <2>1 DEF Get
    <2>2. CASE beginPoll(r) \/ beginWebSocket(r)
        BY Zenon, <1>1, <2>2, BeginSplits DEF Kind, Refused
    <2>3. CASE endPoll(r)
        BY Zenon, <2>3, EndLeaves DEF Kind
    <2>4. CASE markBroken(r)
        BY Zenon, <2>4 DEF Kind
    <2> QED BY Zenon, <1>5, <2>1, <2>2, <2>3, <2>4 DEF RequestStep
<1>6. CASE SweepStep
    <2>1. ASSUME NEW s \in SessionIDs, SweepVisit(s) \/ SweepCap(s) PROVE Kind
        <3>1. UNCHANGED now
            BY <2>1 DEF SweepVisit, SweepCap
        <3>2. now \in Nat /\ sweeper.now \in Nat /\ ses[s].detachedAt \in Nat
            BY TimesAssumption DEF TypeOK, SessionRecords
        <3>3. ASSUME NEW why \in {"sweep", "cap"}, Evicts(s, why) PROVE Kind
            <4>0. phase[s] # "absent"
                BY <3>3 DEF Locked, Known, Evicts
            <4>1. Closes(s, why) /\ why \in ClosedBy \ {"nobody"}
                BY <3>1, <3>2, <3>3, <4>0, TimesAssumption
                   DEF Closes, Evicts, ClosedBy, sweepExpired, ClockRead
            <4> QED BY <1>2, <4>1
        <3> QED BY Zenon, <1>1, <2>1, <3>1, <3>3, VisitSplits DEF Keeps
    <2> QED BY Zenon, <1>1, <1>6, <2>1
            DEF SweepStep, SweepStart, SweepLock, SweepSort, SweepUnlock, SweepDone, SweepPipes,
                SweepReport
<1>7. CASE Tick BY <1>7 DEF Tick, Kind
<1>8. CASE UNCHANGED vars BY <1>1, <1>8 DEF vars
<1> QED BY Zenon, <1>3, <1>4, <1>5, <1>6, <1>7, <1>8 DEF Next

\* A session is created once.
LEMMA PhaseGrows ==
    ASSUME Shape, [Next]_vars, NEW s \in SessionIDs, phase'[s] = "absent"
    PROVE  phase[s] = "absent"
<1>1. CASE UNCHANGED phase BY <1>1
<1>2. ASSUME NEW u \in SessionIDs, ConnectStep(u) PROVE phase[s] = "absent"
    BY <1>2 DEF Shape, TypeOK, ConnectStep, Connect, OnConnectAccepts, OnConnectRejects, RejectCloses,
                AppCloses, closeOnce
<1>3. ASSUME NEW r \in Requests, RequestStep(r) PROVE UNCHANGED phase
    BY Zenon, <1>3 DEF RequestStep, Get, beginPoll, beginWebSocket, Refused, Begun, endPoll, markBroken
<1>4. ASSUME NEW c \in Closers, CloserStep(c) PROVE UNCHANGED phase
    BY Zenon, <1>4 DEF CloserStep, CloseSession, CloserPipes, CloserReports
<1>5. SweepStep => UNCHANGED phase
    BY Zenon DEF SweepStep, SweepStart, SweepLock, SweepSort, SweepUnlock, SweepDone, SweepPipes,
                 SweepReport, SweepVisit, SweepCap
<1> QED BY Zenon, <1>1, <1>2, <1>3, <1>4, <1>5 DEF Next, Tick, vars

\* Silence: who is closed, why, and what was true of the session then.
Silence == Marked /\ Deserted /\ GraceHonoured /\ Unborn

\* Every step keeps it.
LEMMA NextSilence ==
    ASSUME Shape, Counted, ClockRead, Locked, Silence, [Next]_vars
    PROVE  Silence'
<1> USE TimesAssumption DEF Silence, Marked, Deserted, GraceHonoured, Unborn, Shape
<1>1. Kind BY Zenon, NextKind
<1>2. now \in Nat /\ \A s \in SessionIDs : ses[s].detachedAt \in Nat /\ ses[s].pollInFlight \in Nat
    BY DEF TypeOK, SessionRecords
<1>3. \A s \in SessionIDs : phase'[s] = "absent" => phase[s] = "absent"
    BY Zenon, PhaseGrows
<1>4. CASE UNCHANGED <<ses, closedBy>> /\ now' \in {now, now + 1}
    BY <1>2, <1>3, <1>4 DEF Resumable
<1>5. ASSUME NEW s \in SessionIDs, NEW who \in ClosedBy \ {"nobody"}, Closes(s, who) PROVE Silence'
    <2>1. Others(s) /\ ses'[s].closed /\ Alike(ses[s], ses'[s])
        BY Zenon, <1>5, ClosesOne DEF Closes
    <2>2. closedBy'[s] = who /\ \A u \in SessionIDs \ {s} : closedBy'[u] = closedBy[u]
        BY <1>5 DEF Closes, TypeOK
    <2>3. UNCHANGED now /\ phase[s] # "absent"
        BY <1>5 DEF Closes
    <2> QED BY <1>2, <1>3, <1>5, <2>1, <2>2, <2>3 DEF Others, Alike, Closes, Resumable, attached
<1>6. ASSUME NEW s \in SessionIDs, Connect(s) PROVE Silence'
    <2>1. Others(s) /\ ~ses'[s].closed
        BY Zenon, <1>6, ConnectNew
    <2>2. closedBy[s] = "nobody" /\ UNCHANGED <<now, closedBy>>
        BY <1>6 DEF Connect
    <2> QED BY <1>3, <2>1, <2>2 DEF Others
<1>7. ASSUME NEW r \in Requests, req[r].s \in SessionIDs, Attaches(r, req[r].s) PROVE Silence'
    <2> DEFINE s == req[r].s
    <2>1. closedBy[s] = "nobody" /\ UNCHANGED <<now, closedBy, phase>> /\ Others(s)
          /\ ~ses'[s].closed
        BY <1>7 DEF Attaches, refusesAttach
    <2> QED BY <1>7, <2>1 DEF Others
<1>8. ASSUME NEW r \in Requests, req[r].s \in SessionIDs, Leaves(r, req[r].s) PROVE Silence'
    <2> DEFINE s == req[r].s
    <2>1. UNCHANGED <<now, closedBy, phase>> /\ Others(s) /\ ses'[s].closed = ses[s].closed
        BY <1>8 DEF Leaves
    <2>2. closedBy[s] \notin {"idle", "sweep", "cap"}
        <3>1. r \in Users(s) /\ IsFiniteSet(Users(s))
            BY <1>8, FS_Subset, FiniteAssumption DEF Users, Leaves
        <3>2. Cardinality(Users(s)) # 0
            BY <3>1, FS_EmptySet
        <3> QED BY <1>8, <3>2 DEF Counted
    <2> HIDE DEF s
    <2> QED BY <1>8, <2>1, <2>2 DEF Others
<1>9. ASSUME NEW r \in Requests, markBroken(r) PROVE Silence'
    <2> DEFINE s == req[r].s
    <2>1. s \in SessionIDs /\ UNCHANGED <<now, closedBy, phase>>
        BY <1>9 DEF markBroken, Known
    <2>2. Others(s) /\ ses'[s].broken /\ ses'[s].closed = ses[s].closed
          /\ ses'[s].pollInFlight = ses[s].pollInFlight
        BY Zenon, <1>9, <2>1, BreaksOne DEF markBroken
    <2> HIDE DEF s
    <2> QED BY <2>1, <2>2 DEF Others, Resumable
<1> QED BY Zenon, <1>1, <1>4, <1>5, <1>6, <1>7, <1>8, <1>9 DEF Kind
-----------------------------------------------------------------------------
(* The sweep.                                                              *)

Sweeping == ClockRead /\ Locked

\* Who changes the store while the sweeper holds its lock.
LEMMA StoreKept ==
    ASSUME Shape, [Next]_vars, ~SweepStep, ~unlocked
    PROVE  UNCHANGED <<store, sweeper>>
<1>1. ASSUME NEW s \in SessionIDs, ConnectStep(s) PROVE UNCHANGED <<store, sweeper>>
    BY Zenon, <1>1 DEF ConnectStep, Connect, OnConnectAccepts, OnConnectRejects, RejectCloses,
                AppCloses, closeOnce
<1>2. ASSUME NEW r \in Requests, RequestStep(r) PROVE UNCHANGED <<store, sweeper>>
    BY Zenon, <1>2 DEF RequestStep, Get, beginPoll, beginWebSocket, Refused, Begun, endPoll, markBroken
<1>3. ASSUME NEW c \in Closers, CloserStep(c) PROVE UNCHANGED <<store, sweeper>>
    BY Zenon, <1>3 DEF CloserStep, CloseSession, removeAndMarkClosed, CloserPipes, CloserReports
<1> QED BY Zenon, <1>1, <1>2, <1>3 DEF Next, Tick, vars

\* Who moves the sweeper.
LEMMA SweeperKept ==
    ASSUME Shape, [Next]_vars, ~SweepStep
    PROVE  UNCHANGED sweeper
<1>1. ASSUME NEW s \in SessionIDs, ConnectStep(s) PROVE UNCHANGED sweeper
    BY Zenon, <1>1 DEF ConnectStep, Connect, OnConnectAccepts, OnConnectRejects, RejectCloses,
                AppCloses, closeOnce
<1>2. ASSUME NEW r \in Requests, RequestStep(r) PROVE UNCHANGED sweeper
    BY Zenon, <1>2 DEF RequestStep, Get, beginPoll, beginWebSocket, Refused, Begun, endPoll, markBroken
<1>3. ASSUME NEW c \in Closers, CloserStep(c) PROVE UNCHANGED sweeper
    BY Zenon, <1>3 DEF CloserStep, CloseSession, CloserPipes, CloserReports
<1> QED BY Zenon, <1>1, <1>2, <1>3 DEF Next, Tick, vars

\* The clock never goes back.
LEMMA TimeGrows ==
    ASSUME Shape, Counted, Sweeping, [Next]_vars
    PROVE  now' \in {now, now + 1}
BY Zenon, NextKind DEF Sweeping, Kind, Closes, Connect, Attaches, Leaves, markBroken

\* The sweeper's plain steps.
LEMMA SweepFields ==
    ASSUME TypeOK, SweepStep
    PROVE  \/ SweepStart /\ sweeper' = Sweeper("lock", now, sweeper.todo, sweeper.detached, sweeper.expired)
           \/ SweepLock /\ sweeper' = Sweeper("visit", sweeper.now, store, sweeper.detached, sweeper.expired)
           \/ SweepSort /\ \E E \in Excess(sweeper.detached, MaxDetached) :
                  sweeper' = Sweeper("cap", sweeper.now, E, {}, sweeper.expired)
           \/ SweepUnlock /\ sweeper' = Sweeper("tell", sweeper.now, {}, sweeper.detached, sweeper.expired)
           \/ SweepDone /\ sweeper' = Sweeper("rest", 0, {}, {}, {})
           \/ \E s \in SessionIDs : SweepPipes(s) /\
                  sweeper' = Sweeper("report", sweeper.now, {s}, sweeper.detached, sweeper.expired)
           \/ \E s \in SessionIDs : SweepReport(s) /\
                  sweeper' = Sweeper("tell", sweeper.now, {}, sweeper.detached, sweeper.expired \ {s})
           \/ \E s \in SessionIDs, why \in {"sweep", "cap"} :
                  Evicts(s, why) /\ UNCHANGED <<now, phase, piped, reported, req, closer>>
           \/ \E s \in SessionIDs : \E d \in {sweeper.detached, sweeper.detached \cup {s}} :
                  Keeps(s, d) /\ UNCHANGED <<now, phase, piped, reported, req, closer>>
<1>0. sweeper \in SweeperRecords
    BY DEF TypeOK, SweeperRecords
<1>1. SweepStart => sweeper' = Sweeper("lock", now, sweeper.todo, sweeper.detached, sweeper.expired)
    BY Zenon, <1>0 DEF SweepStart, Sweeper, SweeperRecords
<1>2. SweepLock => sweeper' = Sweeper("visit", sweeper.now, store, sweeper.detached, sweeper.expired)
    BY Zenon, <1>0 DEF SweepLock, Sweeper, SweeperRecords
<1>3. SweepSort => \E E \in Excess(sweeper.detached, MaxDetached) :
                      sweeper' = Sweeper("cap", sweeper.now, E, {}, sweeper.expired)
    <2> SUFFICES ASSUME SweepSort,
                        NEW E \in Excess(sweeper.detached, MaxDetached),
                        sweeper' = [sweeper EXCEPT !.at = "cap", !.todo = E, !.detached = {}]
                 PROVE  sweeper' = Sweeper("cap", sweeper.now, E, {}, sweeper.expired)
        BY DEF SweepSort
    <2> QED BY Zenon, <1>0 DEF Sweeper, SweeperRecords
<1>4. SweepUnlock => sweeper' = Sweeper("tell", sweeper.now, {}, sweeper.detached, sweeper.expired)
    BY <1>0 DEF SweepUnlock, Sweeper, SweeperRecords
<1>5. SweepDone => sweeper' = Sweeper("rest", 0, {}, {}, {})
    BY DEF SweepDone, Sweeper, resting
<1>6. ASSUME NEW s \in SessionIDs, SweepPipes(s)
      PROVE  sweeper' = Sweeper("report", sweeper.now, {s}, sweeper.detached, sweeper.expired)
    BY Zenon, <1>0, <1>6 DEF SweepPipes, Sweeper, SweeperRecords
<1>7. ASSUME NEW s \in SessionIDs, SweepVisit(s) \/ SweepCap(s)
      PROVE  /\ UNCHANGED <<now, phase, piped, reported, req, closer>>
             /\ \/ \E why \in {"sweep", "cap"} : Evicts(s, why)
                \/ \E d \in {sweeper.detached, sweeper.detached \cup {s}} : Keeps(s, d)
    <2>1. UNCHANGED <<now, phase, piped, reported, req, closer>>
        BY <1>7 DEF SweepVisit, SweepCap
    <2> QED BY Zenon, <1>7, <2>1, VisitSplits
<1> QED BY Zenon, <1>1, <1>2, <1>3, <1>4, <1>5, <1>6, <1>7, ReportStep DEF SweepStep

\* Every step keeps what the sweeper knows.
LEMMA NextSweeping ==
    ASSUME Shape, Counted, Sweeping, [Next]_vars
    PROVE  Sweeping'
<1> USE DEF Sweeping, ClockRead, Locked, Shape
<1>1. now \in Nat /\ sweeper.now \in Nat /\ now' \in {now, now + 1} /\ sweeper \in SweeperRecords
    BY TimesAssumption, TimeGrows DEF TypeOK, SweeperRecords
<1>2. CASE ~SweepStep
    <2>1. UNCHANGED sweeper
        BY <1>2, SweeperKept
    <2>2. sweeper.at \in {"visit", "cap"} => UNCHANGED store
        BY <1>2, StoreKept DEF unlocked
    <2> QED BY <1>1, <2>1, <2>2
<1>3. CASE SweepStep
    <2> USE DEF Sweeper
    <2>1. CASE SweepStart /\ sweeper' = Sweeper("lock", now, sweeper.todo, sweeper.detached, sweeper.expired)
        BY <1>1, <2>1 DEF SweepStart
    <2>2. CASE SweepLock /\ sweeper' = Sweeper("visit", sweeper.now, store, sweeper.detached, sweeper.expired)
        BY <1>1, <2>2 DEF SweepLock
    <2>3. CASE SweepSort /\ \E E \in Excess(sweeper.detached, MaxDetached) :
                  sweeper' = Sweeper("cap", sweeper.now, E, {}, sweeper.expired)
        BY <1>1, <2>3 DEF SweepSort, Excess
    <2>4. CASE SweepUnlock /\ sweeper' = Sweeper("tell", sweeper.now, {}, sweeper.detached, sweeper.expired)
        BY <1>1, <2>4
    <2>5. CASE SweepDone /\ sweeper' = Sweeper("rest", 0, {}, {}, {})
        BY <1>1, <2>5
    <2>6. ASSUME NEW s \in SessionIDs,
                 sweeper' = Sweeper("report", sweeper.now, {s}, sweeper.detached, sweeper.expired)
                 \/ sweeper' = Sweeper("tell", sweeper.now, {}, sweeper.detached, sweeper.expired \ {s})
          PROVE  Sweeping'
        BY <1>1, <2>6
    <2>7. ASSUME NEW s \in SessionIDs, NEW why \in {"sweep", "cap"}, Evicts(s, why)
          PROVE  Sweeping'
        BY <1>1, <2>7 DEF Evicts, SweeperRecords
    <2>8. ASSUME NEW s \in SessionIDs, NEW d \in {sweeper.detached, sweeper.detached \cup {s}}, Keeps(s, d)
          PROVE  Sweeping'
        BY <1>1, <2>8 DEF Keeps, SweeperRecords
    <2> HIDE DEF Sweeper, Sweeping
    <2> QED BY Zenon, <1>3, <2>1, <2>2, <2>3, <2>4, <2>5, <2>6, <2>7, <2>8, SweepFields
<1> QED BY <1>2, <1>3
-----------------------------------------------------------------------------
(* Reports.                                                                *)

Reports == Owned /\ ReportedOnce

\* Every step keeps who will report, and how often it was done.
LEMMA NextReports ==
    ASSUME Shape, Counted, Sweeping, Reports, [Next]_vars
    PROVE  Reports'
<1> USE DEF Reports, Owned, ReportedOnce, Shape
<1>0. /\ sweeper \in SweeperRecords /\ store \subseteq SessionIDs /\ piped \subseteq SessionIDs
      /\ reported \in [SessionIDs -> Nat]
    BY DEF TypeOK, SweeperRecords
<1>1. ASSUME UNCHANGED <<closer, reported, sweeper>>, store' \subseteq store, piped' \subseteq piped
      PROVE  Reports'
    BY <1>1
<1>2. ASSUME NEW s \in SessionIDs, ConnectStep(s) PROVE Reports'
    <2>1. CASE Connect(s)
        <3>1. /\ s \notin sweeper.expired /\ reported[s] = 0
              /\ \A c \in Closers : closer[c].at # "idle" => closer[c].s # s
              /\ sweeper.at = "report" => s \notin sweeper.todo
            BY <1>0, <2>1 DEF Connect, Known
        <3> QED BY <2>1, <3>1 DEF Connect
    <2> QED BY <1>1, <1>2, <2>1
            DEF ConnectStep, OnConnectAccepts, OnConnectRejects, RejectCloses, AppCloses, closeOnce
<1>3. ASSUME NEW c \in Closers, CloserStep(c) PROVE Reports'
    <2>1. ASSUME NEW s \in SessionIDs, NEW requireIdle \in BOOLEAN, CloseSession(c, s, requireIdle)
          PROVE  Reports'
        <3>1. /\ s \in store /\ store' = store \ {s}
              /\ closer' = [closer EXCEPT ![c] = [s |-> s, at |-> "pipes"]]
              /\ UNCHANGED <<piped, reported, sweeper>>
            BY <2>1 DEF CloseSession, removeAndMarkClosed
        <3>2. /\ s \notin sweeper.expired /\ reported[s] = 0
              /\ \A d \in Closers : closer[d].at # "idle" => closer[d].s # s
            BY <1>0, <3>1
        <3>3. /\ closer'[c] = [s |-> s, at |-> "pipes"]
              /\ \A d \in Closers \ {c} : closer'[d] = closer[d]
            BY <3>1 DEF TypeOK
        <3>4. Owned'
            BY <3>1, <3>2, <3>3
        <3> QED BY <3>1, <3>4
    <2>2. CASE CloserPipes(c)
        BY <2>2 DEF CloserPipes, TypeOK
    <2>3. CASE CloserReports(c)
        <3> DEFINE s == closer[c].s
        <3>1. /\ s \in SessionIDs /\ s \notin store \cup sweeper.expired /\ reported[s] = 0 /\ s \notin piped
              /\ \A d \in Closers \ {c} : closer[d].at # "idle" => closer[d].s # s
              /\ sweeper.at = "report" => s \notin sweeper.todo
            BY <2>3 DEF CloserReports, Known
        <3>2. /\ reported' = [reported EXCEPT ![s] = @ + 1]
              /\ closer' = [closer EXCEPT ![c] = idle]
              /\ UNCHANGED <<store, piped, sweeper>>
            BY <2>3 DEF CloserReports
        <3> HIDE DEF s
        <3> QED BY <1>0, <3>1, <3>2 DEF TypeOK, idle
    <2> QED BY Zenon, <1>3, <2>1, <2>2, <2>3 DEF CloserStep
<1>4. ASSUME NEW r \in Requests, RequestStep(r) PROVE Reports'
    <2>1. UNCHANGED <<closer, reported, sweeper, store, piped>>
        BY Zenon, <1>4 DEF RequestStep, Get, beginPoll, beginWebSocket, Refused, Begun, endPoll, markBroken
    <2> QED BY <1>1, <2>1
<1>5. CASE SweepStep
    <2> USE DEF Sweeper
    <2>1. ASSUME sweeper'.expired \in {sweeper.expired, {}}, sweeper'.at # "report",
                 UNCHANGED <<closer, reported, store, piped>>
          PROVE  Reports'
        BY <2>1
    <2>2. CASE SweepStart \/ SweepLock \/ SweepUnlock \/ SweepDone \/ SweepSort
        <3>1. sweeper'.expired \in {sweeper.expired, {}} /\ sweeper'.at # "report"
            <4>1. CASE SweepDone BY <4>1 DEF SweepDone, resting
            <4>2. CASE SweepSort BY <1>0, <4>2 DEF SweepSort, SweeperRecords
            <4> QED BY Zenon, <1>0, <2>2, <4>1, <4>2 DEF SweepStart, SweepLock, SweepUnlock, SweeperRecords
        <3> QED BY <2>1, <2>2, <3>1 DEF SweepStart, SweepLock, SweepUnlock, SweepDone, SweepSort
    <2>3. ASSUME NEW s \in SessionIDs, SweepPipes(s),
                 sweeper' = Sweeper("report", sweeper.now, {s}, sweeper.detached, sweeper.expired)
          PROVE  Reports'
        BY <2>3 DEF SweepPipes
    <2>4. ASSUME NEW s \in SessionIDs, SweepReport(s),
                 sweeper' = Sweeper("tell", sweeper.now, {}, sweeper.detached, sweeper.expired \ {s})
          PROVE  Reports'
        <3>1. /\ s \in sweeper.expired /\ s \notin piped
              /\ \A c \in Closers : closer[c].at # "idle" => closer[c].s # s
            BY <2>4 DEF SweepReport, Known
        <3>2. reported' = [reported EXCEPT ![s] = @ + 1] /\ UNCHANGED <<store, piped, closer>>
            BY <2>4 DEF SweepReport
        <3> QED BY <1>0, <2>4, <3>1, <3>2 DEF Known
    <2>5. ASSUME NEW s \in SessionIDs, NEW why \in {"sweep", "cap"}, Evicts(s, why),
                 UNCHANGED <<piped, reported, closer>>
          PROVE  Reports'
        <3>1. s \in store
            BY <2>5 DEF Evicts, Sweeping, Locked
        <3> QED BY <1>0, <2>5, <3>1 DEF Evicts
    <2>6. ASSUME NEW s \in SessionIDs, NEW d, Keeps(s, d), UNCHANGED <<piped, reported, closer>>
          PROVE  Reports'
        BY <2>1, <2>6 DEF Keeps
    <2> HIDE DEF Sweeper, Reports
    <2> QED BY Zenon, <1>5, <2>2, <2>3, <2>4, <2>5, <2>6, SweepFields
<1>6. CASE Tick BY <1>1, <1>6 DEF Tick
<1>7. CASE UNCHANGED vars BY <1>1, <1>7 DEF vars
<1> QED BY Zenon, <1>2, <1>3, <1>4, <1>5, <1>6, <1>7 DEF Next
-----------------------------------------------------------------------------
(* The cap.                                                                *)

\* Only a connect adds to the store.
LEMMA StoreShrinks ==
    ASSUME TypeOK, [Next]_vars, \A s \in SessionIDs : ~Connect(s)
    PROVE  store' \subseteq store
<1>1. ASSUME NEW s \in SessionIDs, ConnectStep(s) PROVE store' \subseteq store
    BY <1>1 DEF ConnectStep, OnConnectAccepts, OnConnectRejects, RejectCloses, AppCloses, closeOnce
<1>2. ASSUME NEW r \in Requests, RequestStep(r) PROVE store' \subseteq store
    BY Zenon, <1>2 DEF RequestStep, Get, beginPoll, beginWebSocket, Refused, Begun, endPoll, markBroken
<1>3. ASSUME NEW c \in Closers, CloserStep(c) PROVE store' \subseteq store
    BY <1>3 DEF CloserStep, CloseSession, removeAndMarkClosed, CloserPipes, CloserReports
<1>4. CASE SweepStep
    <2>1. ASSUME NEW s \in SessionIDs, NEW why, Evicts(s, why) PROVE store' \subseteq store
        BY <2>1 DEF Evicts
    <2> QED BY Zenon, <1>4, <2>1, SweepFields
            DEF SweepStart, SweepLock, SweepSort, SweepUnlock, SweepDone, SweepPipes, SweepReport, Keeps
<1> QED BY Zenon, <1>1, <1>2, <1>3, <1>4 DEF Next, Tick, vars

\* x is open, can be resumed, has no transport, and lost it before the sweep began.
Before(x) ==
    ~x.closed /\ x.resumable /\ ~x.broken /\ x.pollInFlight = 0 /\ x.detachedAt < sweeper.now

\* While a sweep lasts no session starts to wait: one that is created or loses
\* its transport now is younger than the sweep.
LEMMA WaitsSince ==
    ASSUME Shape, Counted, Sweeping, [Next]_vars, sweeper'.now = sweeper.now,
           NEW u \in store', Before(ses[u])'
    PROVE  u \in store /\ Before(ses[u]) /\ ses'[u].detachedAt = ses[u].detachedAt
<1> DEFINE Same == u \in store /\ Before(ses[u]) /\ ses'[u].detachedAt = ses[u].detachedAt
<1> USE TimesAssumption DEF Shape, Before
<1>1. Kind BY Zenon, NextKind DEF Sweeping
<1>2. /\ u \in SessionIDs
      /\ now \in Nat /\ sweeper.now \in Nat /\ sweeper.now <= now
      /\ \A s \in SessionIDs : ses[s].detachedAt \in Nat /\ ses[s].pollInFlight \in Nat
    <2>1. TypeOK'
        BY NextShape DEF Sweeping
    <2> QED BY <2>1 DEF TypeOK, SessionRecords, Sweeping, ClockRead
<1>3. ASSUME NEW s \in SessionIDs, Connect(s) PROVE Same
    <2>1. Others(s) /\ ses'[s].detachedAt = now
        BY Zenon, <1>3, ConnectNew
    <2>2. store' = store \cup {s}
        BY <1>3 DEF Connect
    <2> QED BY <1>2, <2>1, <2>2 DEF Others
<1>4. ASSUME \A s \in SessionIDs : ~Connect(s) PROVE u \in store
    BY Zenon, <1>4, StoreShrinks
<1>5. ASSUME UNCHANGED ses, u \in store PROVE Same
    BY <1>5
<1>6. ASSUME NEW s \in SessionIDs, NEW who, Closes(s, who), u \in store
      PROVE  Same
    <2>1. Others(s) /\ ses'[s].closed
        BY Zenon, <1>6, ClosesOne DEF Closes
    <2> QED BY <1>2, <1>6, <2>1 DEF Others
<1>7. ASSUME NEW s \in SessionIDs, NEW r, Attaches(r, s) PROVE Same
    BY <1>2, <1>7 DEF Attaches, Others
<1>8. ASSUME NEW s \in SessionIDs, NEW r, Leaves(r, s) PROVE Same
    BY <1>2, <1>8 DEF Leaves, Others
<1>9. ASSUME NEW r \in Requests, markBroken(r) PROVE Same
    <2>1. req[r].s \in SessionIDs /\ UNCHANGED store
        BY <1>9 DEF markBroken, Known
    <2>2. Others(req[r].s) /\ ses'[req[r].s].broken
        BY Zenon, <1>9, <2>1, BreaksOne DEF markBroken
    <2> QED BY <1>2, <2>1, <2>2 DEF Others
<1> HIDE DEF Same, Shape, Before
<1>10. Same
    BY Zenon, <1>1, <1>3, <1>4, <1>5, <1>6, <1>7, <1>8, <1>9 DEF Kind
<1> QED BY Zenon, <1>10 DEF Same

\* Nor does one come under the cap.
LEMMA WaitingShrinks ==
    ASSUME Shape, Counted, Sweeping, [Next]_vars, sweeper'.now = sweeper.now
    PROVE  Waiting' \subseteq Waiting
<1> SUFFICES ASSUME NEW u \in Waiting' PROVE u \in Waiting OBVIOUS
<1> USE DEF Waiting, Resumable, detachedBeyondPollGapLocked, attached
<1>1. u \in store' /\ sweeper.now \in Nat /\ PollGap \in Nat
      /\ ses'[u].detachedAt \in Nat
    <2>1. TypeOK'
        BY NextShape DEF Sweeping, Shape
    <2> QED BY <2>1, TimesAssumption DEF TypeOK, SessionRecords, Shape
<1>2. Before(ses[u])'
    BY <1>1 DEF Before
<1>3. u \in store /\ Before(ses[u]) /\ ses'[u].detachedAt = ses[u].detachedAt
    BY Zenon, <1>1, <1>2, WaitsSince
<1> QED BY <1>1, <1>3 DEF Before

\* Every step keeps what is left to the cap.
LEMMA NextCapped ==
    ASSUME Shape, Counted, Sweeping, Capped, [Next]_vars
    PROVE  Capped'
<1> SUFFICES ASSUME MaxDetached # 0 PROVE Capped' BY DEF Capped
<1>0. IsFiniteSet(Waiting) /\ MaxDetached \in Nat
    <2>1. Waiting \subseteq SessionIDs
        BY DEF Waiting, Shape, TypeOK
    <2> QED BY <2>1, FS_Subset, FiniteAssumption, TimesAssumption
<1>1. ASSUME NEW S, NEW T, IsFiniteSet(S), T \subseteq S, Cardinality(S) <= MaxDetached
      PROVE  Cardinality(T) <= MaxDetached
    <2>1. Cardinality(T) <= Cardinality(S) /\ Cardinality(S) \in Nat /\ Cardinality(T) \in Nat
        BY <1>1, FS_Subset, FS_CardinalityType
    <2> QED BY <1>0, <1>1, <2>1
<1>2. ASSUME sweeper'.now = sweeper.now PROVE Waiting' \subseteq Waiting
    BY Zenon, <1>2, WaitingShrinks
<1>3. ASSUME Waiting' \subseteq Waiting,
             \/ UNCHANGED sweeper
             \/ sweeper.at = "cap" /\ sweeper.todo = {} /\ sweeper'.at = "tell"
             \/ sweeper.at \in {"tell", "report"} /\ sweeper'.at \in {"tell", "report"}
      PROVE  Capped'
    <2>1. IsFiniteSet(Waiting \ sweeper.todo) /\ Waiting' \ sweeper.todo \subseteq Waiting \ sweeper.todo
        BY Zenon, <1>0, <1>3, FS_Difference
    <2>2. Cardinality(Waiting) <= MaxDetached => Cardinality(Waiting') <= MaxDetached
        BY <1>0, <1>1, <1>3
    <2>3. Cardinality(Waiting \ sweeper.todo) <= MaxDetached
          => Cardinality(Waiting' \ sweeper.todo) <= MaxDetached
        BY <1>1, <2>1
    <2>4. sweeper.todo = {} => Waiting \ sweeper.todo = Waiting
        OBVIOUS
    <2>5. CASE UNCHANGED sweeper
        BY <1>3, <2>2, <2>3, <2>5 DEF Capped
    <2> QED BY <1>3, <2>2, <2>4, <2>5 DEF Capped
<1>4. CASE ~SweepStep
    <2>1. UNCHANGED sweeper
        BY <1>4, SweeperKept
    <2> QED BY <1>2, <1>3, <2>1
<1>5. ASSUME sweeper'.at \in {"rest", "lock"} PROVE Capped'
    BY <1>5 DEF Capped
<1>6. ASSUME SweepLock, sweeper' = Sweeper("visit", sweeper.now, store, sweeper.detached, sweeper.expired)
      PROVE  Capped'
    <2>1. Waiting' \subseteq store
        BY <1>6 DEF SweepLock, Waiting
    <2> QED BY <1>6, <2>1 DEF Capped, Sweeper
<1>7. ASSUME SweepSort, NEW E \in Excess(sweeper.detached, MaxDetached),
             sweeper' = Sweeper("cap", sweeper.now, E, {}, sweeper.expired)
      PROVE  Capped'
    <2> DEFINE D == sweeper.detached
    <2>1. Waiting' \subseteq Waiting /\ Waiting \subseteq D
        BY <1>2, <1>7 DEF Capped, SweepSort, Sweeper
    <2>2. IsFiniteSet(D)
        BY FS_Subset, FiniteAssumption DEF Shape, TypeOK
    <2>3. Cardinality(D \ E) <= MaxDetached /\ IsFiniteSet(D \ E)
        <3>1. Cardinality(D) \in Nat
            BY <2>2, FS_CardinalityType
        <3>2. CASE Cardinality(D) - MaxDetached <= 0
            <4>1. E = {} /\ D \ E = D
                BY <1>0, <1>7, <3>1, <3>2 DEF Excess
            <4> QED BY <1>0, <2>2, <3>1, <3>2, <4>1
        <3>3. CASE ~(Cardinality(D) - MaxDetached <= 0)
            <4>1. E \subseteq D /\ Cardinality(E) = Cardinality(D) - MaxDetached /\ D \cap E = E
                BY <1>0, <1>7, <3>1, <3>3 DEF Excess
            <4>2. IsFiniteSet(D \ E) /\ Cardinality(D \ E) = Cardinality(D) - Cardinality(E)
                BY <2>2, <4>1, FS_Difference
            <4> QED BY <1>0, <3>1, <4>1, <4>2
        <3> QED BY <3>2, <3>3
    <2>4. Waiting' \ E \subseteq D \ E
        BY <2>1
    <2>5. Cardinality(Waiting' \ E) <= MaxDetached
        BY <1>1, <2>3, <2>4
    <2> QED BY <1>7, <2>5 DEF Capped, Sweeper
<1>8. ASSUME NEW s \in SessionIDs, NEW d,
             sweeper.at \in {"visit", "cap"}, sweeper'.at = sweeper.at, sweeper'.now = sweeper.now,
             sweeper'.todo = sweeper.todo \ {s}, sweeper'.detached = d, sweeper.detached \subseteq d,
             s \in Waiting' => sweeper.at = "visit" /\ s \in d
      PROVE  Capped'
    <2>1. Waiting' \subseteq Waiting
        BY <1>2, <1>8
    <2>2. CASE sweeper.at = "visit"
        BY <1>8, <2>1, <2>2 DEF Capped
    <2>3. CASE sweeper.at = "cap"
        <3>1. Waiting' \ (sweeper.todo \ {s}) \subseteq Waiting \ sweeper.todo
            BY <1>8, <2>1, <2>3
        <3>2. IsFiniteSet(Waiting \ sweeper.todo)
            BY Zenon, <1>0, FS_Difference
        <3>3. Cardinality(Waiting \ sweeper.todo) <= MaxDetached
            BY <2>3 DEF Capped
        <3>4. Cardinality(Waiting' \ (sweeper.todo \ {s})) <= MaxDetached
            BY <1>1, <3>1, <3>2, <3>3
        <3> QED BY <1>8, <2>3, <3>4 DEF Capped
    <2> QED BY <1>8, <2>2, <2>3
<1>9. ASSUME NEW s \in SessionIDs, NEW why \in {"sweep", "cap"}, Evicts(s, why) PROVE Capped'
    <2>1. s \notin Waiting'
        BY <1>9 DEF Evicts, Waiting
    <2> QED BY <1>8, <1>9, <2>1 DEF Evicts, Sweeper
<1>10. ASSUME NEW s \in SessionIDs, NEW d \in {sweeper.detached, sweeper.detached \cup {s}}, Keeps(s, d)
       PROVE  Capped'
    <2>1. sweeper'.now = sweeper.now /\ sweeper'.at = sweeper.at /\ sweeper'.detached = d
          /\ sweeper'.todo = sweeper.todo \ {s}
        BY <1>10 DEF Keeps, Sweeper
    <2>2. Waiting' \subseteq Waiting
        BY <1>2, <2>1
    <2>3. s \in Waiting' => sweeper.at = "visit" /\ s \in d
        BY <1>10, <2>2 DEF Keeps
    <2>4. sweeper.at \in {"visit", "cap"} /\ sweeper.detached \subseteq d
        BY <1>10 DEF Keeps
    <2> QED BY <1>8, <2>1, <2>3, <2>4
<1>11. ASSUME SweepUnlock,
              sweeper' = Sweeper("tell", sweeper.now, {}, sweeper.detached, sweeper.expired)
       PROVE  Capped'
    BY <1>2, <1>3, <1>11 DEF SweepUnlock, Sweeper
<1>12. ASSUME NEW s \in SessionIDs,
              \/ SweepPipes(s) /\ sweeper' = Sweeper("report", sweeper.now, {s}, sweeper.detached, sweeper.expired)
              \/ SweepReport(s) /\ sweeper' = Sweeper("tell", sweeper.now, {}, sweeper.detached,
                                                     sweeper.expired \ {s})
       PROVE  Capped'
    BY <1>2, <1>3, <1>12 DEF SweepPipes, SweepReport, Sweeper
<1>13. CASE SweepStep
    <2>1. ASSUME \/ sweeper' = Sweeper("lock", now, sweeper.todo, sweeper.detached, sweeper.expired)
                 \/ sweeper' = Sweeper("rest", 0, {}, {}, {})
          PROVE  Capped'
        BY <1>5, <2>1 DEF Sweeper
    <2>2. TypeOK
        BY DEF Shape
    <2>3. ASSUME NEW s \in SessionIDs, NEW why \in {"sweep", "cap"},
                 Evicts(s, why) /\ UNCHANGED <<now, phase, piped, reported, req, closer>>
          PROVE  Capped'
        BY Zenon, <1>9, <2>3
    <2>4. ASSUME NEW s \in SessionIDs, NEW d \in {sweeper.detached, sweeper.detached \cup {s}},
                 Keeps(s, d) /\ UNCHANGED <<now, phase, piped, reported, req, closer>>
          PROVE  Capped'
        BY Zenon, <1>10, <2>4
    <2> QED BY Zenon, <1>6, <1>7, <1>11, <1>12, <1>13, <2>1, <2>2, <2>3, <2>4, SweepFields
<1> QED BY <1>4, <1>13

-----------------------------------------------------------------------------
(* The theorems.                                                           *)

IInv == Shape /\ Counted /\ Silence /\ Sweeping /\ Reports /\ Capped

\* Init establishes the inductive invariant.
LEMMA InitIInv == Init => IInv
<1> SUFFICES ASSUME Init PROVE IInv OBVIOUS
<1>1. /\ ses \in [SessionIDs -> SessionRecords]
      /\ \A s \in SessionIDs : ses[s].pollInFlight = 0 /\ ~ses[s].closed
    <2>1. now \in Nat
        BY DEF Init
    <2>2. ASSUME NEW s \in SessionIDs
          PROVE  ses[s] \in SessionRecords /\ ses[s].pollInFlight = 0 /\ ~ses[s].closed
        <3>1. PICK k \in Kinds : ses[s] = newSession(k.resumable, k.ws)
            BY DEF Init
        <3>2. k.resumable \in BOOLEAN /\ k.ws \in BOOLEAN
            BY KindsAssumption
        <3> QED BY Zenon, <2>1, <3>1, <3>2, NewRecord
    <2>3. ses \in [SessionIDs -> {newSession(k.resumable, k.ws) : k \in Kinds}]
        BY Zenon DEF Init
    <2> QED BY <2>2, <2>3
<1>2. Shape
    BY <1>1, TimesAssumption DEF Init, Shape, TypeOK, Known, ClosedBy, idle, resting
<1>3. Counted
    <2>1. \A s \in SessionIDs : Users(s) = {}
        BY DEF Init, Users, idle
    <2> QED BY <1>1, <2>1, FS_EmptySet DEF Counted
<1>4. Silence
    BY <1>1 DEF Init, Silence, Marked, Deserted, GraceHonoured, Unborn
<1>5. Sweeping
    BY DEF Init, Sweeping, ClockRead, Locked, resting
<1>6. Reports
    BY DEF Init, Reports, Owned, ReportedOnce, idle, resting
<1>7. Capped
    BY DEF Init, Capped, resting
<1> QED BY <1>2, <1>3, <1>4, <1>5, <1>6, <1>7 DEF IInv

\* Every step keeps it.
LEMMA NextIInv == IInv /\ [Next]_vars => IInv'
BY Zenon, NextShape, NextCounted, NextSilence, NextSweeping, NextReports, NextCapped DEF IInv, Sweeping

\* The invariant the other theorems rest on.
THEOREM Invariant == Spec => []IInv
BY InitIInv, NextIInv, PTL DEF Spec

\* The state keeps its types: no endPoll ever takes pollInFlight below zero.
THEOREM TypeCorrect == Spec => []TypeOK
BY Invariant, PTL DEF IInv, Shape

\* No request serves a session that was evicted or closed for being idle.
THEOREM NeverEvictedUnderPoll == Spec => []NoEvictionUnderPoll
<1>1. IInv => NoEvictionUnderPoll
    <2> SUFFICES ASSUME IInv, NEW r \in Requests, req[r].at \in {"poll", "ws"}
                 PROVE  closedBy[req[r].s] \notin {"idle", "sweep", "cap"}
        BY DEF NoEvictionUnderPoll
    <2> DEFINE s == req[r].s
    <2>1. s \in SessionIDs
        BY DEF IInv, Shape, Known
    <2>2. r \in Users(s) /\ IsFiniteSet(Users(s))
        BY FS_Subset, FiniteAssumption DEF Users
    <2>3. Cardinality(Users(s)) # 0
        BY <2>2, FS_EmptySet
    <2> QED BY <2>1, <2>3 DEF IInv, Counted, Silence, Deserted
<1> QED BY <1>1, Invariant, PTL

\* A resumable session is closed for silence only after its grace, by the cap
\* only after its gap between polls.
THEOREM GraceIsHonoured == Spec => []GraceHonoured
BY Invariant, PTL DEF IInv, Silence

\* OnDisconnect runs at most once, for a session that is over.
THEOREM ReportedAtMostOnce == Spec => []ReportedOnce
BY Invariant, PTL DEF IInv, Reports

\* A sweep leaves no more than MaxDetached of the sessions that were waiting.
THEOREM CapIsHeld == Spec => []CapHolds
<1>1. IInv => CapHolds
    BY DEF IInv, Capped, CapHolds, Waiting
<1> QED BY <1>1, Invariant, PTL
\* Once the grace of a detached session is over it stays over, until the end.
THEOREM ExpiredStaysExpired == Spec => ExpiredForGood
<1> DEFINE Stays == \A s \in SessionIDs :
                       phase[s] # "absent" /\ resumeExpiredLocked(ses[s]) => resumeExpiredLocked(ses[s])'
<1>1. IInv /\ [Next]_vars => Stays
    <2> SUFFICES ASSUME IInv, [Next]_vars, NEW s \in SessionIDs,
                        phase[s] # "absent", resumeExpiredLocked(ses[s])
                 PROVE  resumeExpiredLocked(ses[s])'
        OBVIOUS
    <2> USE TimesAssumption DEF resumeExpiredLocked, Resumable, attached
    <2>1. Kind
        BY Zenon, NextKind DEF IInv, Sweeping
    <2>2. now \in Nat /\ ses[s].detachedAt \in Nat
        BY DEF IInv, Shape, TypeOK, SessionRecords
    <2>3. CASE UNCHANGED <<ses, closedBy>> /\ now' \in {now, now + 1}
        BY <2>2, <2>3
    <2>4. ASSUME NEW u \in SessionIDs, NEW who, Closes(u, who) PROVE resumeExpiredLocked(ses[s])'
        <3>1. Others(u) /\ Alike(ses[u], ses'[u]) /\ UNCHANGED now
            BY Zenon, <2>4, ClosesOne DEF Closes, IInv, Shape
        <3> QED BY <3>1 DEF Others, Alike
    <2>5. ASSUME NEW u \in SessionIDs, Connect(u) PROVE resumeExpiredLocked(ses[s])'
        <3>1. Others(u) /\ UNCHANGED now /\ u # s
            BY Zenon, <2>5, ConnectNew DEF Connect, IInv, Shape
        <3> QED BY <3>1 DEF Others
    <2>6. ASSUME NEW r \in Requests, req[r].s \in SessionIDs, Attaches(r, req[r].s)
          PROVE  resumeExpiredLocked(ses[s])'
        <3>1. req[r].s # s
            BY <2>6 DEF Attaches, refusesAttach
        <3> QED BY <2>6, <3>1 DEF Attaches, Others
    <2>7. ASSUME NEW r \in Requests, req[r].at \in {"poll", "ws"} PROVE req[r].s # s
        <3>1. SUFFICES ASSUME req[r].s = s PROVE FALSE OBVIOUS
        <3>2. r \in Users(s) /\ IsFiniteSet(Users(s))
            BY <2>7, <3>1, FS_Subset, FiniteAssumption DEF Users
        <3>3. Cardinality(Users(s)) # 0
            BY <3>2, FS_EmptySet
        <3> QED BY <3>3 DEF IInv, Counted
    <2>8. ASSUME NEW r \in Requests, req[r].s \in SessionIDs, Leaves(r, req[r].s)
          PROVE  resumeExpiredLocked(ses[s])'
        BY <2>7, <2>8 DEF Leaves, Others
    <2>9. ASSUME NEW r \in Requests, markBroken(r) PROVE resumeExpiredLocked(ses[s])'
        <3>1. req[r].s \in SessionIDs /\ req[r].s # s /\ UNCHANGED now
            BY <2>7, <2>9 DEF markBroken, IInv, Shape, Known
        <3>2. Others(req[r].s)
            BY Zenon, <2>9, <3>1, BreaksOne DEF markBroken, IInv, Shape
        <3> QED BY <3>1, <3>2 DEF Others
    <2> HIDE DEF resumeExpiredLocked
    <2> QED BY Zenon, <2>1, <2>3, <2>4, <2>5, <2>6, <2>8, <2>9 DEF Kind
<1> QED BY <1>1, Invariant, PTL DEF ExpiredForGood, Spec

-----------------------------------------------------------------------------
(* Nobody's session.                                                       *)

\* Somebody has yet to report s.
Responsible(s) ==
    \/ s \in sweeper.expired
    \/ \E c \in Closers : closer[c].at # "idle" /\ closer[c].s = s

\* A session that a close or an eviction took out of the store has been reported to
\* OnDisconnect, or the goroutine that took it is still there and has yet to: no
\* interleaving of deletes, reapers, sweeps and Session.Close loses the report, and
\* the sweeper does not rest while it owes one.
NoReportLost ==
    /\ \A s \in SessionIDs :
          closedBy[s] \in {"close", "idle", "sweep", "cap"} => reported[s] = 1 \/ Responsible(s)
    /\ sweeper.at \in {"rest", "lock"} => sweeper.expired = {}

\* The reports of the sweeper.
LEMMA SweepOwes ==
    ASSUME IInv, NoReportLost, SweepStep
    PROVE  NoReportLost'
<1> USE DEF NoReportLost, Responsible
<1>0. /\ sweeper \in SweeperRecords /\ reported \in [SessionIDs -> Nat]
      /\ closedBy \in [SessionIDs -> ClosedBy]
    BY DEF IInv, Shape, TypeOK, SweeperRecords
<1>1. ASSUME sweeper'.expired = sweeper.expired, UNCHANGED <<closer, reported, closedBy>>,
             sweeper'.at = "lock" => sweeper.at = "rest", sweeper'.at # "rest"
      PROVE  NoReportLost'
    BY Zenon, <1>1
<1>2. CASE \/ SweepStart /\ sweeper' = Sweeper("lock", now, sweeper.todo, sweeper.detached, sweeper.expired)
           \/ SweepLock /\ sweeper' = Sweeper("visit", sweeper.now, store, sweeper.detached, sweeper.expired)
           \/ SweepUnlock /\ sweeper' = Sweeper("tell", sweeper.now, {}, sweeper.detached, sweeper.expired)
    <2>1. sweeper'.expired = sweeper.expired /\ sweeper'.at # "rest"
          /\ (sweeper'.at = "lock" => sweeper.at = "rest")
        BY <1>2 DEF Sweeper, SweepStart
    <2>2. UNCHANGED <<closer, reported, closedBy>>
        BY <1>2 DEF SweepStart, SweepLock, SweepUnlock
    <2> QED BY Zenon, <1>1, <2>1, <2>2
<1>3. ASSUME NEW E, SweepSort, sweeper' = Sweeper("cap", sweeper.now, E, {}, sweeper.expired)
      PROVE  NoReportLost'
    <2>1. sweeper'.expired = sweeper.expired /\ sweeper'.at = "cap"
        BY <1>3 DEF Sweeper
    <2> QED BY Zenon, <1>1, <1>3, <2>1 DEF SweepSort
<1>4. CASE SweepDone /\ sweeper' = Sweeper("rest", 0, {}, {}, {})
    <2>1. sweeper'.expired = {} /\ sweeper.expired = {} /\ UNCHANGED <<closer, reported, closedBy>>
        BY <1>4 DEF Sweeper, SweepDone
    <2> QED BY Zenon, <2>1
<1>5. ASSUME NEW s \in SessionIDs, SweepPipes(s),
             sweeper' = Sweeper("report", sweeper.now, {s}, sweeper.detached, sweeper.expired)
      PROVE  NoReportLost'
    <2>1. sweeper'.expired = sweeper.expired /\ sweeper'.at = "report"
        BY <1>5 DEF Sweeper
    <2> QED BY Zenon, <1>1, <1>5, <2>1 DEF SweepPipes
<1>6. ASSUME NEW s \in SessionIDs, SweepReport(s),
             sweeper' = Sweeper("tell", sweeper.now, {}, sweeper.detached, sweeper.expired \ {s})
      PROVE  NoReportLost'
    <2>1. sweeper'.expired = sweeper.expired \ {s} /\ sweeper'.at = "tell"
        BY <1>6 DEF Sweeper
    <2>2. s \in sweeper.expired
        BY <1>6 DEF SweepReport, IInv, Shape, Known
    <2>3. reported[s] = 0
        BY <2>2 DEF IInv, Reports, Owned
    <2>4. reported'[s] = 1 /\ \A x \in SessionIDs \ {s} : reported'[x] = reported[x]
        BY <1>0, <1>6, <2>3 DEF SweepReport
    <2>5. UNCHANGED <<closer, closedBy>>
        BY <1>6 DEF SweepReport
    <2> QED BY <2>1, <2>4, <2>5
<1>7. ASSUME NEW s \in SessionIDs, NEW why \in {"sweep", "cap"}, Evicts(s, why),
             UNCHANGED <<now, phase, piped, reported, req, closer>>
      PROVE  NoReportLost'
    <2>1. /\ sweeper'.expired = sweeper.expired \cup {s} /\ sweeper'.at = sweeper.at
          /\ sweeper.at \in {"visit", "cap"}
        BY <1>7 DEF Evicts, Sweeper
    <2>2. \A x \in SessionIDs \ {s} : closedBy'[x] = closedBy[x]
        BY <1>0, <1>7 DEF Evicts
    <2> QED BY <1>7, <2>1, <2>2
<1>8. ASSUME NEW s \in SessionIDs, NEW d, Keeps(s, d),
             UNCHANGED <<now, phase, piped, reported, req, closer>>
      PROVE  NoReportLost'
    <2>1. /\ sweeper'.expired = sweeper.expired /\ sweeper'.at = sweeper.at
          /\ sweeper.at \in {"visit", "cap"}
        BY <1>8 DEF Keeps, Sweeper
    <2> QED BY Zenon, <1>1, <1>8, <2>1 DEF Keeps
<1> HIDE DEF NoReportLost
<1> QED BY Zenon, <1>2, <1>3, <1>4, <1>5, <1>6, <1>7, <1>8, SweepFields DEF IInv, Shape

\* The reports of the others.
LEMMA OthersOwe ==
    ASSUME IInv, NoReportLost, [Next]_vars, ~SweepStep
    PROVE  NoReportLost'
<1> USE DEF NoReportLost, Responsible
<1>0. /\ reported \in [SessionIDs -> Nat] /\ closedBy \in [SessionIDs -> ClosedBy]
      /\ closer \in [Closers -> [s : SessionIDs \cup {None}, at : {"idle", "pipes", "report"}]]
    BY DEF IInv, Shape, TypeOK
<1>1. UNCHANGED sweeper
    BY SweeperKept DEF IInv, Shape
<1>2. CASE UNCHANGED <<closer, reported, closedBy>>
    BY Zenon, <1>1, <1>2
<1>3. ASSUME NEW s \in SessionIDs, NEW who \in {"reject", "app"}, closeOnce(s, who)
      PROVE  NoReportLost'
    <2>1. closedBy' = [closedBy EXCEPT ![s] = who] /\ UNCHANGED <<closer, reported>>
        BY <1>3 DEF closeOnce
    <2>2. closedBy'[s] = who /\ \A x \in SessionIDs \ {s} : closedBy'[x] = closedBy[x]
        BY <1>0, <2>1
    <2> QED BY <1>1, <2>1, <2>2
<1>4. ASSUME NEW c \in Closers, NEW s \in SessionIDs, NEW requireIdle \in BOOLEAN,
             CloseSession(c, s, requireIdle)
      PROVE  NoReportLost'
    <2>1. closer[c].at = "idle"
        BY <1>4 DEF CloseSession, idle
    <2>2. closer'[c].s = s /\ closer'[c].at = "pipes" /\ \A g \in Closers \ {c} : closer'[g] = closer[g]
        BY <1>0, <1>4 DEF CloseSession
    <2>3. \A x \in SessionIDs \ {s} : closedBy'[x] = closedBy[x]
        BY <1>0, <1>4 DEF CloseSession
    <2>4. UNCHANGED reported
        BY <1>4 DEF CloseSession
    <2> QED BY <1>1, <2>1, <2>2, <2>3, <2>4
<1>5. ASSUME NEW c \in Closers, CloserPipes(c) PROVE NoReportLost'
    <2>1. /\ closer[c].at # "idle" /\ closer'[c].s = closer[c].s /\ closer'[c].at = "report"
          /\ \A g \in Closers \ {c} : closer'[g] = closer[g]
        BY <1>0, <1>5 DEF CloserPipes
    <2>2. UNCHANGED <<reported, closedBy>>
        BY <1>5 DEF CloserPipes
    <2> QED BY <1>1, <2>1, <2>2
<1>6. ASSUME NEW c \in Closers, CloserReports(c) PROVE NoReportLost'
    <2> DEFINE s == closer[c].s
    <2>1. s \in SessionIDs /\ reported[s] = 0
        BY <1>6 DEF CloserReports, IInv, Shape, Known, Reports, Owned
    <2>2. reported'[s] = 1 /\ \A x \in SessionIDs \ {s} : reported'[x] = reported[x]
        BY <1>0, <1>6, <2>1 DEF CloserReports
    <2>3. \A g \in Closers \ {c} : closer'[g] = closer[g]
        BY <1>0, <1>6 DEF CloserReports
    <2>4. UNCHANGED closedBy
        BY <1>6 DEF CloserReports
    <2> QED BY <1>1, <2>1, <2>2, <2>3, <2>4
<1>7. ASSUME NEW r \in Requests, RequestStep(r) PROVE UNCHANGED <<closer, reported, closedBy>>
    BY Zenon, <1>7 DEF RequestStep, Get, beginPoll, beginWebSocket, Refused, Begun, endPoll, markBroken
<1>8. ASSUME NEW s \in SessionIDs, Connect(s) \/ OnConnectAccepts(s) \/ OnConnectRejects(s)
      PROVE  UNCHANGED <<closer, reported, closedBy>>
    BY Zenon, <1>8 DEF Connect, OnConnectAccepts, OnConnectRejects
<1>9. CASE Tick \/ UNCHANGED vars
    BY Zenon, <1>2, <1>9 DEF Tick, vars
<1> HIDE DEF NoReportLost
<1>10. ASSUME NEW s \in SessionIDs, ConnectStep(s) PROVE NoReportLost'
    BY Zenon, <1>2, <1>3, <1>8, <1>10 DEF ConnectStep, RejectCloses, AppCloses
<1>11. ASSUME NEW c \in Closers, CloserStep(c) PROVE NoReportLost'
    BY Zenon, <1>4, <1>5, <1>6, <1>11 DEF CloserStep
<1> QED BY Zenon, <1>2, <1>7, <1>9, <1>10, <1>11 DEF Next

\* No report is lost: what RemovedIsReported says of every run, short of the
\* scheduling that lets the goroutine go on.
THEOREM ReportsAreOwed == Spec => []NoReportLost
<1>1. Init => NoReportLost
    BY DEF Init, NoReportLost, resting
<1>2. IInv /\ NoReportLost /\ [Next]_vars => NoReportLost'
    BY Zenon, SweepOwes, OthersOwe
<1> QED BY <1>1, <1>2, Invariant, PTL DEF Spec

-----------------------------------------------------------------------------
(* A sweep is thorough.                                                    *)

\* The sessions whose grace was over when the sweep began.
Overdue ==
    {s \in store : /\ ~ses[s].closed /\ Resumable(ses[s]) /\ ~attached(ses[s])
                   /\ sweeper.now - ses[s].detachedAt > ResumeGrace}

\* A sweep that has visited all sessions has left none whose grace was over when it
\* began, whatever attaches, leaves or connects while it goes on: the window in which
\* a dead session holds its buffers is the grace and the time between two sweeps.
SweepThorough ==
    /\ sweeper.at = "visit" => Overdue \subseteq sweeper.todo
    /\ sweeper.at \in {"cap", "tell", "report"} => Overdue = {}

\* While a sweep lasts no session becomes overdue for it.
LEMMA OverdueShrinks ==
    ASSUME Shape, Counted, Sweeping, [Next]_vars, sweeper'.now = sweeper.now
    PROVE  Overdue' \subseteq Overdue
<1> SUFFICES ASSUME NEW u \in Overdue' PROVE u \in Overdue OBVIOUS
<1> USE DEF Overdue, Resumable, attached
<1>1. u \in store' /\ sweeper.now \in Nat /\ ResumeGrace \in Nat
      /\ ses'[u].detachedAt \in Nat
    <2>1. TypeOK'
        BY NextShape DEF Sweeping, Shape
    <2> QED BY <2>1, TimesAssumption DEF TypeOK, SessionRecords, Shape
<1>2. Before(ses[u])'
    BY <1>1 DEF Before
<1>3. u \in store /\ Before(ses[u]) /\ ses'[u].detachedAt = ses[u].detachedAt
    BY Zenon, <1>1, <1>2, WaitsSince
<1> QED BY <1>1, <1>3 DEF Before

\* A session that has been visited is not overdue.
LEMMA VisitSettles ==
    ASSUME TypeOK, NEW s \in SessionIDs, SweepVisit(s)
    PROVE  /\ s \notin Overdue'
           /\ sweeper'.now = sweeper.now /\ sweeper'.at = "visit"
           /\ sweeper'.todo = sweeper.todo \ {s}
<1>1. /\ sweeper.at = "visit"
      /\ \/ \E why \in {"sweep", "cap"} : Evicts(s, why)
         \/ \E d \in {sweeper.detached, sweeper.detached \cup {s}} : Keeps(s, d)
    BY Zenon, VisitSplits DEF SweepVisit
<1>2. sweeper'.now = sweeper.now /\ sweeper'.at = "visit" /\ sweeper'.todo = sweeper.todo \ {s}
    BY <1>1 DEF Evicts, Keeps, Sweeper
<1>3. \/ store' = store \ {s}
      \/ UNCHANGED ses /\ (ses[s].closed \/ attached(ses[s]) \/ ~sweepExpired(ses[s]))
    BY Zenon DEF SweepVisit, evict, pass
<1>4. s \notin Overdue'
    BY <1>2, <1>3 DEF Overdue, sweepExpired
<1> QED BY <1>2, <1>4

\* Every step keeps the sweep thorough.
LEMMA NextThorough ==
    ASSUME IInv, SweepThorough, [Next]_vars
    PROVE  SweepThorough'
<1>0. Shape /\ Counted /\ Sweeping /\ TypeOK
    BY Zenon DEF IInv, Shape
<1>1. ASSUME sweeper'.now = sweeper.now PROVE Overdue' \subseteq Overdue
    BY Zenon, <1>0, <1>1, OverdueShrinks
<1>2. CASE ~SweepStep
    <2>1. UNCHANGED sweeper
        BY Zenon, <1>0, <1>2, SweeperKept
    <2>2. Overdue' \subseteq Overdue
        BY Zenon, <1>1, <2>1
    <2> QED BY <2>1, <2>2 DEF SweepThorough
<1>3. ASSUME NEW s \in SessionIDs, SweepVisit(s) PROVE SweepThorough'
    <2>1. /\ s \notin Overdue' /\ sweeper'.now = sweeper.now /\ sweeper'.at = "visit"
          /\ sweeper'.todo = sweeper.todo \ {s}
        BY Zenon, <1>0, <1>3, VisitSettles
    <2>2. Overdue' \subseteq Overdue /\ sweeper.at = "visit"
        BY Zenon, <1>1, <1>3, <2>1 DEF SweepVisit
    <2> QED BY <2>1, <2>2 DEF SweepThorough
<1>4. ASSUME sweeper'.now = sweeper.now, sweeper'.at \in {"cap", "tell", "report"},
             \/ sweeper.at \in {"cap", "tell", "report"}
             \/ sweeper.at = "visit" /\ sweeper.todo = {}
      PROVE  SweepThorough'
    <2>1. Overdue' \subseteq Overdue
        BY Zenon, <1>1, <1>4
    <2> QED BY <1>4, <2>1 DEF SweepThorough
<1>5. ASSUME SweepLock, sweeper' = Sweeper("visit", sweeper.now, store, sweeper.detached, sweeper.expired)
      PROVE  SweepThorough'
    BY <1>5 DEF SweepLock, SweepThorough, Overdue, Sweeper
<1>6. ASSUME NEW s \in SessionIDs, SweepCap(s) PROVE SweepThorough'
    <2>1. /\ sweeper.at = "cap"
          /\ \/ \E why \in {"sweep", "cap"} : Evicts(s, why)
             \/ \E d \in {sweeper.detached, sweeper.detached \cup {s}} : Keeps(s, d)
        BY Zenon, <1>0, <1>6, VisitSplits DEF SweepCap
    <2>2. sweeper'.now = sweeper.now /\ sweeper'.at = "cap"
        BY <2>1 DEF Evicts, Keeps, Sweeper
    <2> QED BY <1>4, <2>1, <2>2
<1>7. CASE SweepStep /\ \A s \in SessionIDs : ~SweepVisit(s) /\ ~SweepCap(s)
    <2>0. sweeper \in SweeperRecords
        BY <1>0 DEF TypeOK, SweeperRecords
    <2>1. CASE SweepStart \/ SweepDone
        <3>1. sweeper'.at \in {"rest", "lock"}
            <4>1. SweepStart => sweeper'.at = "lock"
                BY Zenon, <2>0 DEF SweepStart, SweeperRecords
            <4>2. SweepDone => sweeper'.at = "rest"
                BY DEF SweepDone, resting
            <4> QED BY <2>1, <4>1, <4>2
        <3> QED BY <3>1 DEF SweepThorough
    <2>2. CASE SweepLock
        <3>1. sweeper' = Sweeper("visit", sweeper.now, store, sweeper.detached, sweeper.expired)
            BY Zenon, <2>0, <2>2 DEF SweepLock, Sweeper, SweeperRecords
        <3> QED BY Zenon, <1>5, <2>2, <3>1
    <2>3. CASE SweepSort \/ SweepUnlock
        <3>1. /\ sweeper'.now = sweeper.now /\ sweeper'.at \in {"cap", "tell"}
              /\ sweeper.at \in {"visit", "cap"} /\ sweeper.todo = {}
            BY Zenon, <2>0, <2>3 DEF SweepSort, SweepUnlock, SweeperRecords
        <3> QED BY <1>4, <3>1
    <2>4. ASSUME NEW s \in SessionIDs, SweepPipes(s) \/ SweepReport(s) PROVE SweepThorough'
        <3>1. /\ sweeper'.now = sweeper.now /\ sweeper'.at \in {"report", "tell"}
              /\ sweeper.at \in {"report", "tell"}
            BY Zenon, <2>0, <2>4 DEF SweepPipes, SweepReport, SweeperRecords
        <3> QED BY <1>4, <3>1
    <2> QED BY Zenon, <1>7, <2>1, <2>2, <2>3, <2>4 DEF SweepStep
<1> QED BY Zenon, <1>2, <1>3, <1>6, <1>7

\* The sweep misses nobody whose grace was over when it began, although sessions are
\* judged one by one, by a clock read before the lock, while transports come and go.
\* Together with the fairness of the sweeper it gives SilentIsClosed for sessions that
\* can be resumed.
THEOREM SweepMissesNobody == Spec => []SweepThorough
<1>1. Init => SweepThorough
    BY DEF Init, resting, SweepThorough
<1>2. IInv /\ SweepThorough /\ [Next]_vars => SweepThorough'
    BY Zenon, NextThorough
<1> QED BY <1>1, <1>2, Invariant, PTL DEF Spec
=============================================================================
