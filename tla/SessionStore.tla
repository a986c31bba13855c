---------------------------- MODULE SessionStore ----------------------------
(***************************************************************************)
(* The life of server sessions (session.go, store.go and the lifecycle     *)
(* half of handler.go): connect, the requests that attach to a session,    *)
(* the calls that close one, and the sweeper.  An action is one critical   *)
(* section of SessionStore.mu or Session.mu, or one call made outside      *)
(* both.  Time is a clock that ticks between them.                         *)
(***************************************************************************)
EXTENDS Integers, FiniteSets

CONSTANTS
    SessionIDs,   \* sessions that may be created
    Requests,     \* polls, sends, resumes and WebSockets
    Closers,      \* goroutines that close sessions: deletes, shutdown, reapers
    None,
    Kinds,        \* the negotiated kinds of session: [resumable, ws]
    ResumeGrace, SessionTimeout, PollGap,  \* ServerConfig, and Session.pollGap
    MaxDetached,  \* ServerConfig.MaxDetachedResumable; 0 is no cap
    MaxTime       \* bound on the clock

ASSUME TimesAssumption ==
    ResumeGrace \in Nat /\ SessionTimeout \in Nat /\ PollGap \in Nat
    /\ MaxDetached \in Nat /\ MaxTime \in Nat
ASSUME NoneAssumption == None \notin SessionIDs
ASSUME FiniteAssumption == IsFiniteSet(SessionIDs) /\ IsFiniteSet(Requests)
ASSUME KindsAssumption == Kinds \subseteq [resumable : BOOLEAN, ws : BOOLEAN]

VARIABLES
    now,
    phase,       \* phase[s]: "absent", "connecting" (OnConnect runs), "live", "rejected"
    store,       \* SessionStore.sessions
    ses,         \* ses[s]: the Session struct
    closedBy,    \* history: who set closed
    piped,       \* sessions whose pipes are open
    reported,    \* reported[s]: how often OnDisconnect ran for s
    req,         \* req[r]: the session a request found, and whether it is attached
    closer,      \* closer[c]: the session a closer has marked and its next step
    sweeper      \* the sweeper's locals

vars == <<now, phase, store, ses, closedBy, piped, reported, req, closer, sweeper>>

SessionRecords ==
    [resumable : BOOLEAN, broken : BOOLEAN, ws : BOOLEAN,
     pollInFlight : Nat, wsAttached : BOOLEAN, closed : BOOLEAN,
     lastActive : Nat, detachedAt : Nat]

newSession(resumable, ws) ==
    [resumable |-> resumable, broken |-> FALSE, ws |-> ws,
     pollInFlight |-> 0, wsAttached |-> FALSE, closed |-> FALSE,
     lastActive |-> now, detachedAt |-> now]

ClosedBy == {"nobody", "reject", "app", "close", "idle", "sweep", "cap"}

idle == [s |-> None, at |-> "idle"]

resting == [at |-> "rest", now |-> 0, todo |-> {}, detached |-> {}, expired |-> {}]

\* The types of the state: every endPoll has its beginPoll, so that the count of
\* polls in flight stays a natural number.
TypeOK ==
    /\ now \in 0..MaxTime
    /\ phase \in [SessionIDs -> {"absent", "connecting", "live", "rejected"}]
    /\ store \subseteq SessionIDs
    /\ ses \in [SessionIDs -> SessionRecords]
    /\ closedBy \in [SessionIDs -> ClosedBy]
    /\ piped \subseteq SessionIDs
    /\ reported \in [SessionIDs -> Nat]
    /\ req \in [Requests -> [s : SessionIDs \cup {None}, at : {"idle", "got", "poll", "ws"}]]
    /\ closer \in [Closers -> [s : SessionIDs \cup {None}, at : {"idle", "pipes", "report"}]]
    /\ sweeper \in [at : {"rest", "lock", "visit", "cap", "tell", "report"}, now : 0..MaxTime,
                    todo : SUBSET SessionIDs, detached : SUBSET SessionIDs,
                    expired : SUBSET SessionIDs]

Init ==
    /\ now = 0
    /\ phase = [s \in SessionIDs |-> "absent"]
    /\ store = {}
    /\ ses \in [SessionIDs -> {newSession(k.resumable, k.ws) : k \in Kinds}]
    /\ closedBy = [s \in SessionIDs |-> "nobody"]
    /\ piped = {}
    /\ reported = [s \in SessionIDs |-> 0]
    /\ req = [r \in Requests |-> idle]
    /\ closer = [c \in Closers |-> idle]
    /\ sweeper = resting

Tick ==
    /\ now < MaxTime
    /\ now' = now + 1
    /\ UNCHANGED <<phase, store, ses, closedBy, piped, reported, req, closer, sweeper>>

-----------------------------------------------------------------------------
(* Conditions of session.go, with s.mu held.                               *)

attached(x) == x.pollInFlight # 0

Resumable(x) == x.resumable /\ ~x.broken

inResumeGraceLocked(x) ==
    Resumable(x) /\ ~attached(x) /\ now - x.detachedAt <= ResumeGrace

resumeExpiredLocked(x) ==
    Resumable(x) /\ ~attached(x) /\ now - x.detachedAt > ResumeGrace

\* Variant: forgets that a grace can be over before the sweeper comes by.
refusesOnlyClosed(x) == x.closed

refusesAttach(x) == x.closed \/ resumeExpiredLocked(x)

detachedBeyondPollGapLocked(x, t) == ~attached(x) /\ t - x.detachedAt > PollGap

noteDetachedLocked(x) ==
    IF x.resumable /\ ~attached(x) THEN [x EXCEPT !.detachedAt = now] ELSE x

\* The store's lock is free: the sweeper holds it while it visits and caps.
unlocked == sweeper.at \notin {"visit", "cap"}

-----------------------------------------------------------------------------
(* ConnectHandler: register, run OnConnect, and undo it on an error.       *)

Connect(s) ==
    /\ phase[s] = "absent" /\ unlocked
    /\ phase' = [phase EXCEPT ![s] = "connecting"]
    /\ ses' = [ses EXCEPT ![s] = newSession(@.resumable, @.ws)]
    /\ store' = store \cup {s}
    /\ piped' = piped \cup {s}
    /\ UNCHANGED <<now, closedBy, reported, req, closer, sweeper>>

OnConnectAccepts(s) ==
    /\ phase[s] = "connecting"
    /\ phase' = [phase EXCEPT ![s] = "live"]
    /\ UNCHANGED <<now, store, ses, closedBy, piped, reported, req, closer, sweeper>>

\* st.Remove(id)
OnConnectRejects(s) ==
    /\ phase[s] = "connecting" /\ unlocked
    /\ phase' = [phase EXCEPT ![s] = "rejected"]
    /\ store' = store \ {s}
    /\ UNCHANGED <<now, ses, closedBy, piped, reported, req, closer, sweeper>>

\* markClosedLocked of closeOnce, then closePipes.
closeOnce(s, who) ==
    /\ ~ses[s].closed
    /\ ses' = [ses EXCEPT ![s].closed = TRUE]
    /\ closedBy' = [closedBy EXCEPT ![s] = who]
    /\ piped' = piped \ {s}
    /\ UNCHANGED <<now, phase, store, reported, req, closer, sweeper>>

RejectCloses(s) == phase[s] = "rejected" /\ closeOnce(s, "reject")

\* Session.Close by the application, or by the yamux session on top of it.
AppCloses(s) == phase[s] # "absent" /\ closeOnce(s, "app")

-----------------------------------------------------------------------------
(* Requests.  A request holds on to the session that Get found.            *)

Get(r, s) ==
    /\ req[r] = idle /\ unlocked
    /\ s \in store
    /\ req' = [req EXCEPT ![r] = [s |-> s, at |-> "got"]]
    /\ UNCHANGED <<now, phase, store, ses, closedBy, piped, reported, closer, sweeper>>

\* Answered 410 or 409.
Refused(r) ==
    /\ req' = [req EXCEPT ![r] = idle]
    /\ UNCHANGED <<now, phase, store, ses, closedBy, piped, reported, closer, sweeper>>

\* beginPoll or beginWebSocket, and touch.
Begun(r, s, x) ==
    /\ req' = [req EXCEPT ![r].at = IF x.wsAttached /\ ~ses[s].wsAttached THEN "ws" ELSE "poll"]
    /\ ses' = [ses EXCEPT ![s] = [x EXCEPT !.lastActive = now]]
    /\ UNCHANGED <<now, phase, store, closedBy, piped, reported, closer, sweeper>>

beginPoll(r) ==
    LET s == req[r].s
    IN  /\ req[r].at = "got"
        /\ IF refusesAttach(ses[s]) THEN Refused(r)
           ELSE Begun(r, s, [ses[s] EXCEPT !.pollInFlight = @ + 1])

beginWebSocket(r) ==
    LET s == req[r].s
    IN  /\ req[r].at = "got"
        /\ ses[s].ws
        /\ IF refusesAttach(ses[s]) \/ ses[s].wsAttached THEN Refused(r)
           ELSE Begun(r, s, [ses[s] EXCEPT !.pollInFlight = @ + 1, !.wsAttached = TRUE])

\* endPoll and endWebSocket.
endPoll(r) ==
    LET s == req[r].s
        x == [ses[s] EXCEPT !.pollInFlight = @ - 1,
                            !.wsAttached = @ /\ req[r].at # "ws"]
    IN  /\ req[r].at \in {"poll", "ws"}
        /\ ses' = [ses EXCEPT ![s] = noteDetachedLocked(x)]
        /\ req' = [req EXCEPT ![r] = idle]
        /\ UNCHANGED <<now, phase, store, closedBy, piped, reported, closer, sweeper>>

\* An attached request finds a gap or a bad ack, overflows replay, or is a
\* resume that is refused.
markBroken(r) ==
    /\ req[r].at \in {"poll", "ws"}
    /\ Resumable(ses[req[r].s])
    /\ ses' = [ses EXCEPT ![req[r].s].broken = TRUE]
    /\ UNCHANGED <<now, phase, store, closedBy, piped, reported, req, closer, sweeper>>

-----------------------------------------------------------------------------
(* Closing from outside: DeleteHandler, CloseSession, a protocol violation *)
(* ("close"), and CloseSessionIfNoPollInFlight ("idle").                   *)

\* Variant: the poll count is not consulted.
removeUnderPoll(s, requireIdle) ==
    /\ unlocked
    /\ s \in store
    /\ ~ses[s].closed
    /\ requireIdle => ~inResumeGraceLocked(ses[s])
    /\ ses' = [ses EXCEPT ![s].closed = TRUE]
    /\ store' = store \ {s}

\* Variant: a detached session is idle at once.
removeInGrace(s, requireIdle) ==
    /\ unlocked
    /\ s \in store
    /\ ~ses[s].closed
    /\ requireIdle => ~attached(ses[s])
    /\ ses' = [ses EXCEPT ![s].closed = TRUE]
    /\ store' = store \ {s}

\* Variant: whoever calls wins, also when another call has closed it already.
removeTwice(s, requireIdle) ==
    /\ unlocked
    /\ phase[s] # "absent"
    /\ ses' = [ses EXCEPT ![s].closed = TRUE]
    /\ store' = store \ {s}

removeAndMarkClosed(s, requireIdle) ==
    /\ unlocked
    /\ s \in store
    /\ ~ses[s].closed
    /\ requireIdle => ~attached(ses[s]) /\ ~inResumeGraceLocked(ses[s])
    /\ ses' = [ses EXCEPT ![s].closed = TRUE]
    /\ store' = store \ {s}

\* A call that removes nothing changes nothing.
CloseSession(c, s, requireIdle) ==
    /\ closer[c] = idle
    /\ removeAndMarkClosed(s, requireIdle)
    /\ closedBy' = [closedBy EXCEPT ![s] = IF requireIdle THEN "idle" ELSE "close"]
    /\ closer' = [closer EXCEPT ![c] = [s |-> s, at |-> "pipes"]]
    /\ UNCHANGED <<now, phase, piped, reported, req, sweeper>>

CloserPipes(c) ==
    /\ closer[c].at = "pipes"
    /\ piped' = piped \ {closer[c].s}
    /\ closer' = [closer EXCEPT ![c].at = "report"]
    /\ UNCHANGED <<now, phase, store, ses, closedBy, reported, req, sweeper>>

CloserReports(c) ==
    /\ closer[c].at = "report"
    /\ reported' = [reported EXCEPT ![closer[c].s] = @ + 1]
    /\ closer' = [closer EXCEPT ![c] = idle]
    /\ UNCHANGED <<now, phase, store, ses, closedBy, piped, req, sweeper>>

-----------------------------------------------------------------------------
(* sweep.  The clock is read before the lock; each session is judged under *)
(* its own lock while the store's is held throughout.                      *)

SweepStart ==
    /\ sweeper.at = "rest"
    /\ sweeper' = [sweeper EXCEPT !.at = "lock", !.now = now]
    /\ UNCHANGED <<now, phase, store, ses, closedBy, piped, reported, req, closer>>

SweepLock ==
    /\ sweeper.at = "lock"
    /\ sweeper' = [sweeper EXCEPT !.at = "visit", !.todo = store]
    /\ UNCHANGED <<now, phase, store, ses, closedBy, piped, reported, req, closer>>

\* Variant: a broken session is judged by a grace it no longer has.
sweepForgetsBroken(x) ==
    IF x.resumable THEN Resumable(x) /\ sweeper.now - x.detachedAt > ResumeGrace
                   ELSE sweeper.now - x.lastActive > SessionTimeout

sweepExpired(x) ==
    IF Resumable(x) THEN sweeper.now - x.detachedAt > ResumeGrace
                    ELSE sweeper.now - x.lastActive > SessionTimeout

\* Variant: evicted and not appended to expired.
evictSilently(s, why, sw) ==
    /\ ses' = [ses EXCEPT ![s].closed = TRUE]
    /\ store' = store \ {s}
    /\ closedBy' = [closedBy EXCEPT ![s] = why]
    /\ sweeper' = sw

\* closed = true, delete, append to expired.
evict(s, why, sw) ==
    /\ ses' = [ses EXCEPT ![s].closed = TRUE]
    /\ store' = store \ {s}
    /\ closedBy' = [closedBy EXCEPT ![s] = why]
    /\ sweeper' = [sw EXCEPT !.expired = @ \cup {s}]

pass(sw) == sweeper' = sw /\ UNCHANGED <<store, ses, closedBy>>

SweepVisit(s) ==
    LET x == ses[s]
        sw == [sweeper EXCEPT !.todo = @ \ {s}]
    IN  /\ sweeper.at = "visit" /\ s \in sweeper.todo
        /\ IF x.closed \/ attached(x) THEN pass(sw)
           ELSE IF sweepExpired(x) THEN evict(s, "sweep", sw)
           ELSE IF Resumable(x) /\ detachedBeyondPollGapLocked(x, sweeper.now)
                THEN pass([sw EXCEPT !.detached = @ \cup {s}])
           ELSE pass(sw)
        /\ UNCHANGED <<now, phase, piped, reported, req, closer>>

\* Variant: keeps one more than the cap allows.
ExcessOffByOne(detached, max) ==
    LET n == Cardinality(detached) - max - 1
    IN  IF max = 0 \/ n <= 0 THEN {{}}
        ELSE {E \in SUBSET detached : Cardinality(E) = n}

\* detached[:len-max] after the sort.  The sort reads detachedAt without the
\* session's lock: when a transport came back meanwhile the order is anything.
Excess(detached, max) ==
    LET n == Cardinality(detached) - max
        moved == \E s \in detached : ~detachedBeyondPollGapLocked(ses[s], sweeper.now)
    IN  IF max = 0 \/ n <= 0 THEN {{}}
        ELSE {E \in SUBSET detached :
                /\ Cardinality(E) = n
                /\ moved \/ \A a \in E, b \in detached \ E :
                               ses[a].detachedAt <= ses[b].detachedAt}

SweepSort ==
    /\ sweeper.at = "visit" /\ sweeper.todo = {}
    /\ \E E \in Excess(sweeper.detached, MaxDetached) :
          sweeper' = [sweeper EXCEPT !.at = "cap", !.todo = E, !.detached = {}]
    /\ UNCHANGED <<now, phase, store, ses, closedBy, piped, reported, req, closer>>

SweepCap(s) ==
    LET sw == [sweeper EXCEPT !.todo = @ \ {s}]
    IN  /\ sweeper.at = "cap" /\ s \in sweeper.todo
        /\ IF ~ses[s].closed /\ detachedBeyondPollGapLocked(ses[s], sweeper.now)
           THEN evict(s, "cap", sw)
           ELSE pass(sw)
        /\ UNCHANGED <<now, phase, piped, reported, req, closer>>

SweepUnlock ==
    /\ sweeper.at = "cap" /\ sweeper.todo = {}
    /\ sweeper' = [sweeper EXCEPT !.at = "tell"]
    /\ UNCHANGED <<now, phase, store, ses, closedBy, piped, reported, req, closer>>

SweepPipes(s) ==
    /\ sweeper.at = "tell" /\ s \in sweeper.expired
    /\ piped' = piped \ {s}
    /\ sweeper' = [sweeper EXCEPT !.at = "report", !.todo = {s}]
    /\ UNCHANGED <<now, phase, store, ses, closedBy, reported, req, closer>>

SweepReport(s) ==
    /\ sweeper.at = "report" /\ s \in sweeper.todo
    /\ reported' = [reported EXCEPT ![s] = @ + 1]
    /\ sweeper' = [sweeper EXCEPT !.at = "tell", !.todo = {}, !.expired = @ \ {s}]
    /\ UNCHANGED <<now, phase, store, ses, closedBy, piped, req, closer>>

SweepDone ==
    /\ sweeper.at = "tell" /\ sweeper.expired = {}
    /\ sweeper' = resting
    /\ UNCHANGED <<now, phase, store, ses, closedBy, piped, reported, req, closer>>

SweepStep ==
    \/ SweepStart \/ SweepLock \/ SweepSort \/ SweepUnlock \/ SweepDone
    \/ \E s \in SessionIDs : SweepVisit(s) \/ SweepCap(s) \/ SweepPipes(s) \/ SweepReport(s)

RequestStep(r) ==
    \/ \E s \in SessionIDs : Get(r, s)
    \/ beginPoll(r) \/ beginWebSocket(r) \/ endPoll(r) \/ markBroken(r)

CloserStep(c) ==
    \/ \E s \in SessionIDs, requireIdle \in BOOLEAN : CloseSession(c, s, requireIdle)
    \/ CloserPipes(c) \/ CloserReports(c)

ConnectStep(s) ==
    \/ Connect(s) \/ OnConnectAccepts(s) \/ OnConnectRejects(s) \/ RejectCloses(s)
    \/ AppCloses(s)

Next ==
    \/ Tick
    \/ SweepStep
    \/ \E r \in Requests : RequestStep(r)
    \/ \E c \in Closers : CloserStep(c)
    \/ \E s \in SessionIDs : ConnectStep(s)

Spec == Init /\ [][Next]_vars

\* Goroutines run, the sweeper's ticker fires, and callbacks return.
Fairness ==
    /\ WF_vars(SweepStep)
    /\ \A c \in Closers : WF_vars(CloserPipes(c) \/ CloserReports(c))

FairSpec == Spec /\ Fairness

-----------------------------------------------------------------------------
(* Properties.                                                             *)

\* "A session with a poll in flight is never evicted" (StartSweeper), nor
\* closed by CloseSessionIfNoPollInFlight: a request that attached before the
\* session was judged, or races with the judgement, keeps it alive, and one that
\* comes after is refused, so no attached request ever serves such a session.
NoEvictionUnderPoll ==
    \A r \in Requests :
        req[r].at \in {"poll", "ws"} => closedBy[req[r].s] \notin {"idle", "sweep", "cap"}

\* A session that can still be resumed is closed for silence only when its
\* grace has run out, or, by the cap, after its normal gap between polls; the
\* sweeper's old clock reading and a detach that races with it never shorten
\* either (removeAndMarkClosed with requireIdle, sweep).
GraceHonoured ==
    \A s \in SessionIDs :
        Resumable(ses[s]) =>
            /\ closedBy[s] \in {"idle", "sweep"} => now - ses[s].detachedAt > ResumeGrace
            /\ closedBy[s] = "cap" => now - ses[s].detachedAt > PollGap

\* OnDisconnect runs at most once however deletes, conditional closes, eviction
\* and Session.Close race, and only once the session has left the store and its
\* pipes are closed, so the callback sees a session that is over.
ReportedOnce ==
    \A s \in SessionIDs :
        /\ reported[s] <= 1
        /\ reported[s] = 1 => s \notin store /\ s \notin piped

\* "The recovery window is exactly resume_grace_ms": from the moment the grace
\* of a detached session has run out, whether or not the sweeper has come by,
\* no request attaches to it again and nothing makes it look alive.
ExpiredForGood ==
    [][\A s \in SessionIDs :
          phase[s] # "absent" /\ resumeExpiredLocked(ses[s]) => resumeExpiredLocked(ses[s])']_vars

\* After a sweep's cap pass no more than MaxDetached of the sessions that have
\* been waiting since the sweep began are left, whatever came back meanwhile.
CapHolds ==
    sweeper.at = "tell" /\ MaxDetached # 0 =>
        Cardinality({s \in store : ~ses[s].closed /\ Resumable(ses[s])
                                   /\ detachedBeyondPollGapLocked(ses[s], sweeper.now)})
            <= MaxDetached

\* A session removed from the store by a close or an eviction has its pipes
\* closed and is reported to OnDisconnect (closeSession, sweep).
RemovedIsReported ==
    \A s \in SessionIDs :
        closedBy[s] \in {"close", "idle", "sweep", "cap"} ~> (reported[s] = 1 /\ s \notin piped)

\* No transport, and past the time the sweeper allows.
silent(s) ==
    LET x == ses[s]
    IN  /\ s \in store
        /\ ~attached(x)
        /\ IF Resumable(x) THEN now - x.detachedAt > ResumeGrace
                           ELSE now - x.lastActive > SessionTimeout

\* Silence ends a session: one that stays unattached past its time is closed
\* by the sweeper, also when it lost resumability while it had a grace to wait.
SilentIsClosed == \A s \in SessionIDs : silent(s) ~> (ses[s].closed \/ ~silent(s))

\* "OnDisconnect runs when a session ends, whatever ended it" (Hooks), for a
\* session that OnConnect accepted.
EndIsReported ==
    \A s \in SessionIDs : (phase[s] = "live" /\ ses[s].closed) ~> (reported[s] = 1)
=============================================================================
