--------------------------- MODULE MCSessionStore ---------------------------
(* Small instances of SessionStore. *)
EXTENDS SessionStore, TLC

CONSTANTS s1, s2, r1, r2, c1, c2

AllKinds == [resumable : BOOLEAN, ws : BOOLEAN]

-----------------------------------------------------------------------------
(* s1 meets two requests, two closers and the sweeper until s2 connects     *)
(* beside it, so that the cap has something to choose from.  From then on   *)
(* the sweeper, one request for either session, and AppCloses go on.        *)

alone == phase[s2] = "absent"

\* A session with a WebSocket does all that one without does.
MCInit == Init /\ ses[s1].ws /\ ses[s2] = newSession(TRUE, FALSE)

\* Where the two sessions meet: nothing else is under way at s1.
mayJoin ==
    /\ ses[s1].resumable /\ phase[s1] = "live"
    /\ \A c \in Closers : closer[c] = idle
    /\ req[r2] = idle

\* Bound: when both sessions are connected, the clock stops at JoinedTime.
JoinedTime == 2

MCNext ==
    \/ (alone \/ now < JoinedTime) /\ Tick
    \/ SweepStep
    \/ RequestStep(r1)
    \/ alone /\ (RequestStep(r2) \/ \E c \in Closers : CloserStep(c))
    \/ ConnectStep(s1)
    \/ mayJoin /\ ((now = 0 /\ Connect(s2)) \/ OnConnectAccepts(s2) \/ AppCloses(s2))

MCSpec == MCInit /\ [][MCNext]_vars /\ Fairness
=============================================================================
