----------------------------- MODULE ClientLoop -----------------------------
(***************************************************************************)
(* A client that stays connected: ReconnectLoop.Run (reconnect.go) around  *)
(* AcceptLoop (accept.go), over a yamux session (external), over a         *)
(* connection that keeps Conn's contract, negotiated as Negotiation says.  *)
(* Another user of the same Connector may connect at any time, and the     *)
(* link may die at any time.                                               *)
(***************************************************************************)
EXTENDS Naturals, Conn, Negotiation

CONSTANTS InitialBackoff, MaxBackoff

\* orDuration replaces what is not positive.
ASSUME BackoffAssumption == InitialBackoff \in Nat \ {0} /\ MaxBackoff \in Nat \ {0}

VARIABLES
    link,    \* what was negotiated
    dead,    \* the session is closed at the server, or out of reach
    mux,     \* the yamux session: none, up, ended by Read's error, or on its own
    loop,    \* where Run is
    why,     \* the Outcome of Serve
    long,    \* Serve ran for MinStableDuration
    backoff,
    ctx      \* Run's context is cancelled

vars == <<conn, active, link, dead, mux, loop, why, long, backoff, ctx>>

Init ==
    /\ conn = newConn /\ active = "older"
    /\ link = noLink /\ dead = FALSE /\ mux = "none"
    /\ loop = "top" /\ why = "none" /\ long = FALSE
    /\ backoff = InitialBackoff /\ ctx = FALSE

-----------------------------------------------------------------------------
(* Connect.                                                                *)

\* The new connection is running; a plain WebSocket is not yet adopted.  What
\* is left of the previous one only touches its own session.
Connects(l) ==
    /\ loop = "top" /\ ~ctx /\ l.refusal = ""
    /\ conn' = newConn /\ link' = l /\ dead' = FALSE /\ mux' = "none"
    /\ active' = IF plainWebSocket(l) THEN "older" ELSE "me"
    /\ loop' = "connected"
    /\ UNCHANGED <<why, long, backoff, ctx>>

\* connect refuses what was negotiated; the network, the server or a hook says
\* no.  Under a cancelled context Run ends.
ConnectFails ==
    /\ loop = "top"
    /\ link' \in {noLink} \cup {l \in Links : l.refusal # ""}
    /\ loop' = IF ctx THEN "stopped" ELSE "sleep"
    /\ UNCHANGED <<conn, active, dead, mux, why, long, backoff, ctx>>

\* 426, or an answer of another version.
VersionRejected ==
    /\ loop = "top"
    /\ loop' = "stopped"
    /\ why' = "version"
    /\ UNCHANGED <<conn, active, link, dead, mux, long, backoff, ctx>>

\* connectWebSocket adopts its session; Serve starts yamux and AcceptLoop.
ServeStarts ==
    /\ loop = "connected"
    /\ active' = IF plainWebSocket(link) THEN "me" ELSE active
    /\ mux' = "up"
    /\ loop' = "serve"
    /\ UNCHANGED <<conn, link, dead, why, long, backoff, ctx>>

-----------------------------------------------------------------------------
(* The connection and what happens to it.                                  *)

rest == <<link, loop, why, long, backoff, ctx>>

Dies ==
    /\ loop \in {"connected", "serve"} /\ ~dead
    /\ dead' = TRUE
    /\ UNCHANGED <<conn, active, mux, rest>>

Judges == dead /\ (Fails \/ Supersedes) /\ UNCHANGED <<dead, mux, rest>>

Releases == Ends /\ UNCHANGED <<dead, mux, rest>>

Finishes == Stops /\ UNCHANGED <<dead, mux, rest>>

\* Another Connect of the same Connector adopts its session.
RivalAdopts == active # "newer" /\ Adopts("newer") /\ UNCHANGED <<dead, mux, rest>>

\* yamux's reader gets an error from Read.
MuxEOF ==
    /\ mux = "up" /\ conn.ended
    /\ mux' = "eof"
    /\ UNCHANGED <<conn, active, dead, rest>>

\* The peer ends the yamux session, or a keepalive does.
MuxEnds ==
    /\ mux = "up"
    /\ mux' = "own"
    /\ UNCHANGED <<conn, active, dead, rest>>

\* A yamux session that is over closes the connection under it.
MuxCloses == mux \in {"eof", "own"} /\ Closes /\ UNCHANGED <<dead, mux, rest>>

-----------------------------------------------------------------------------
(* AcceptLoop.                                                             *)

classifyClose == IF conn.failed THEN "failed" ELSE "peer"

\* Variant: the context is left to the connection.
outcomesWithoutContext ==
    {o \in {"failed", "superseded", classifyClose} :
        \/ o = "failed" /\ conn.failed
        \/ o = "superseded" /\ conn.superseded
        \/ o = classifyClose /\ mux # "up"}

\* The cases of the select that are ready.
outcomes ==
    {o \in {"shutdown", "failed", "superseded", classifyClose} :
        \/ o = "shutdown" /\ ctx
        \/ o = "failed" /\ conn.failed
        \/ o = "superseded" /\ conn.superseded
        \/ o = classifyClose /\ mux # "up"}

ServeEnds ==
    /\ loop = "serve"
    /\ why' \in outcomes
    /\ long' \in BOOLEAN
    /\ loop' = "close"
    /\ UNCHANGED <<conn, active, link, dead, mux, backoff, ctx>>

-----------------------------------------------------------------------------
(* Run, after Serve.                                                       *)

\* conn.Close: when yamux was first, it returns at once.
LoopCloses ==
    /\ loop = "close"
    /\ IF conn.closed THEN loop' = "decide" /\ UNCHANGED <<conn, active>>
       ELSE loop' = "closing" /\ Closes
    /\ UNCHANGED <<link, dead, mux, why, long, backoff, ctx>>

CloseReturns ==
    /\ loop = "closing" /\ conn.done
    /\ loop' = "decide"
    /\ UNCHANGED <<conn, active, link, dead, mux, why, long, backoff, ctx>>

\* Variant: only a transport failure is worth a reconnect.
DecidesOnFailure ==
    /\ loop = "decide"
    /\ loop' = IF why = "failed" THEN "sleep" ELSE "stopped"
    /\ backoff' = IF why = "failed" /\ long THEN InitialBackoff ELSE backoff
    /\ UNCHANGED <<conn, active, link, dead, mux, why, long, ctx>>

Decides ==
    /\ loop = "decide"
    /\ loop' = CASE why = "failed" -> "sleep" [] why = "peer" -> "pause" [] OTHER -> "stopped"
    /\ backoff' = IF why = "failed" /\ long THEN InitialBackoff ELSE backoff
    /\ UNCHANGED <<conn, active, link, dead, mux, why, long, ctx>>

doubled == IF 2 * backoff <= MaxBackoff THEN 2 * backoff ELSE MaxBackoff

\* sleepOrDone: the timer, or the context.
Wakes ==
    /\ loop \in {"sleep", "pause"}
    /\ \/ /\ loop' = "top"
          /\ backoff' = IF loop = "sleep" THEN doubled ELSE backoff
       \/ ctx /\ loop' = "stopped" /\ UNCHANGED backoff
    /\ why' = "none" /\ long' = FALSE
    /\ UNCHANGED <<conn, active, link, dead, mux, ctx>>

Cancel ==
    /\ ~ctx
    /\ ctx' = TRUE
    /\ UNCHANGED <<conn, active, link, dead, mux, loop, why, long, backoff>>

Finished == loop = "stopped" /\ UNCHANGED vars

-----------------------------------------------------------------------------
Run ==
    \/ \E l \in Links : Connects(l)
    \/ ConnectFails \/ VersionRejected \/ ServeStarts
    \/ ServeEnds \/ LoopCloses \/ CloseReturns \/ Decides \/ Wakes

Next ==
    \/ Run
    \/ Dies \/ Judges \/ Releases \/ Finishes \/ RivalAdopts
    \/ MuxEOF \/ MuxEnds \/ MuxCloses
    \/ Cancel \/ Finished

Spec == Init /\ [][Next]_vars

\* Run goes on, connects end one way or another, and the connection and yamux do
\* what they promise.  Nothing makes a link die or a peer leave.
FairSpec ==
    /\ Spec
    /\ WF_vars(Run) /\ WF_vars(Judges /\ ~conn.failed /\ ~conn.superseded)
    /\ WF_vars(Releases) /\ WF_vars(Finishes)
    /\ WF_vars(MuxEOF) /\ WF_vars(MuxCloses)

-----------------------------------------------------------------------------
(* Properties.                                                             *)

\* Whatever is negotiated, client and server agree on it.
Agreed == SameLanguage(link)

\* A broken link is never taken for a peer that left, which would be retried
\* without backoff: when yamux ends because Read failed, classifyClose sees
\* TransportFailed, whatever order the goroutines run in.  Only a superseded
\* connection can look like that.
FailureNotPeer == why = "peer" /\ mux = "eof" => conn.superseded

\* A client whose link dies connects again, unless it is told to stop or a later
\* Connect has replaced it (or is thought to have).
Reconnects ==
    (loop = "serve" /\ dead) ~> (loop = "top" \/ (loop = "stopped" /\ (ctx \/ conn.superseded)))

\* Run returns when its context is cancelled, from wherever it is.
ShutdownReturns == ctx ~> loop = "stopped"
=============================================================================
