-------------------------- MODULE ClientLoopProofs --------------------------
(***************************************************************************)
(* Proofs about ClientLoop: what Run concludes from the way a connection   *)
(* ends, for every backoff, and what client and server agree on, for every *)
(* Connector and every ServerConfig.                                       *)
(***************************************************************************)
EXTENDS ClientLoop, TLAPS

(* Negotiation.                                                            *)

\* The sessions our own ConnectHandler and Connector agree on: whoever asks for
\* resume understands numbered batches too.
Offered ==
    {s \in [pollMode : {"batch", "stream"}, uploadStream : BOOLEAN, transport : {"", "websocket"},
            rs : BOOLEAN, batchResume : BOOLEAN] : s.batchResume <=> s.rs}

\* ConnectHandler publishes such a session, without streamed uploads when connect
\* asks for none.
LEMMA SessionOffered ==
    ASSUME NEW cfg \in Configs, NEW p \in Connectors, NEW resume \in BOOLEAN, NEW force \in BOOLEAN
    PROVE  LET s == newSession(cfg, ConnectRequest(p, resume, force))
           IN  s \in Offered /\ (force => ~s.uploadStream)
<1> DEFINE req == ConnectRequest(p, resume, force)
           pollMode == negotiatePollMode(cfg.PollMode, req.PreferStreamMode)
           uploadMode == negotiatePollMode(cfg.PollMode, req.PreferStreamUpload)
           transport == IF cfg.EnableWebSocket /\ req.PreferWebSocket THEN "websocket" ELSE ""
           resumable == negotiateResume(cfg, req, transport, pollMode, uploadMode)
           s == newSession(cfg, req)
<1>1. pollMode \in {"batch", "stream"} /\ uploadMode \in {"batch", "stream"}
  BY Zenon DEF negotiatePollMode
<1>2. transport \in {"", "websocket"} BY Zenon
<1>3. req.PreferStreamUpload = (~force /\ p.UploadStreamPreference # "batch")
      /\ req.PreferResume = resume /\ req.BatchResume = resume
  BY Zenon DEF ConnectRequest
<1>4. resumable \in BOOLEAN /\ (resumable => req.BatchResume)
  <2>1. resumable => resume BY Zenon, <1>3 DEF negotiateResume
  <2>q. QED BY Zenon, <2>1, <1>3 DEF negotiateResume
<1>5. force => uploadMode = "batch" BY Zenon, <1>3 DEF negotiatePollMode
<1> HIDE DEF pollMode, uploadMode, transport, resumable
<1>6. s = [pollMode |-> pollMode, uploadStream |-> uploadMode = "stream", transport |-> transport,
           rs |-> resumable, batchResume |-> resumable /\ req.BatchResume]
  BY Zenon DEF newSession, pollMode, uploadMode, transport, resumable
<1>7. (uploadMode = "stream") \in BOOLEAN /\ (resumable /\ req.BatchResume) \in BOOLEAN
  BY Zenon
<1> HIDE DEF s, req
<1>8. s.uploadStream = (uploadMode = "stream") /\ s.rs = resumable
      /\ s.batchResume = (resumable /\ req.BatchResume)
  BY Zenon, <1>6
<1>9. s \in Offered BY Zenon, <1>1, <1>2, <1>4, <1>6, <1>7, <1>8 DEF Offered
<1>10. force => ~s.uploadStream BY Zenon, <1>5, <1>8
<1>q. QED BY Zenon, <1>9, <1>10 DEF s, req

\* connect never refuses such a session, but for its own PollInterval.
LEMMA OfferAccepted ==
    ASSUME NEW p, NEW s \in Offered
    PROVE  refusal(p, s) \in {"", "interval"}
<1>1. s.batchResume <=> s.rs BY Zenon DEF Offered
<1>q. QED BY Zenon, <1>1 DEF refusal, streamLimits

\* The handlers' view of each request a connection makes is the connection's, as long
\* as a resumable connection streams its uploads exactly when its session does.
LEMMA OfferSpoken ==
    ASSUME NEW s \in Offered, NEW up \in BOOLEAN, NEW l,
           l.session = s, l.uploadStream = up,
           up => s.uploadStream,
           s.rs /\ s.uploadStream => up
    PROVE  \A r \in requests(l) : serves(l.session, r) = expects(l, r)
<1> SUFFICES ASSUME NEW r \in requests(l) PROVE serves(l.session, r) = expects(l, r)
  OBVIOUS
<1>1. l.session = s /\ l.uploadStream = up OBVIOUS
<1>2. /\ s.pollMode \in {"batch", "stream"} /\ s.transport \in {"", "websocket"}
      /\ s.rs \in BOOLEAN /\ s.uploadStream \in BOOLEAN /\ (s.batchResume <=> s.rs)
  BY Zenon DEF Offered
<1>3. CASE s.transport = "websocket"
  <2>1. r = "websocket" BY Zenon, <1>1, <1>3 DEF requests
  <2>2. serves(s, r) = [seq |-> s.rs, framed |-> TRUE] BY Zenon, <1>3, <2>1 DEF serves
  <2>3. expects(l, r) = [seq |-> s.rs, framed |-> TRUE]
    BY Zenon, <1>1, <2>1 DEF expects
  <2>q. QED BY Zenon, <1>1, <2>2, <2>3
<1>4. CASE s.transport # "websocket"
  <2>1. r \in {"poll", IF up THEN "sendStream" ELSE "send"} BY Zenon, <1>1, <1>4 DEF requests
  <2>2. CASE r = "poll"
    <3>1. serves(s, r) = [seq |-> s.rs, framed |-> s.pollMode = "stream"]
      BY Zenon, <1>2, <1>4, <2>2 DEF serves
    <3>2. expects(l, r) = [seq |-> s.rs, framed |-> s.pollMode = "stream"]
      BY Zenon, <1>1, <2>2 DEF expects
    <3>q. QED BY Zenon, <1>1, <3>1, <3>2
  <2>3. CASE r # "poll" /\ up
    <3>1. r = "sendStream" BY Zenon, <2>1, <2>3
    <3>2. serves(s, r) = [seq |-> s.rs, framed |-> TRUE] BY Zenon, <1>2, <1>4, <2>3, <3>1 DEF serves
    <3>3. expects(l, r) = [seq |-> s.rs, framed |-> TRUE] BY Zenon, <1>1, <3>1 DEF expects
    <3>q. QED BY Zenon, <1>1, <3>2, <3>3
  <2>4. CASE r # "poll" /\ ~up
    <3>1. r = "send" BY Zenon, <2>1, <2>4
    <3>2. serves(s, r) = [seq |-> s.rs, framed |-> FALSE]
      BY Zenon, <1>2, <1>4, <2>4, <3>1 DEF serves
    <3>3. expects(l, r) = [seq |-> s.rs, framed |-> FALSE] BY Zenon, <1>1, <3>1 DEF expects
    <3>q. QED BY Zenon, <1>1, <3>2, <3>3
  <2>q. QED BY Zenon, <1>2, <2>2, <2>3, <2>4
<1>q. QED BY Zenon, <1>3, <1>4

\* Whatever the server's configuration, the Connector and the outcome of the probe,
\* connect and ConnectHandler build a connection whose requests the handlers treat
\* as the connection does.
THEOREM LinksAgree == \A l \in Links : SameLanguage(l)
<1> SUFFICES ASSUME NEW l \in Links PROVE SameLanguage(l)
  OBVIOUS
<1>0. PICK cfg \in Configs, p \in Connectors, probed \in BOOLEAN : l = connect(cfg, p, probed)
  BY DEF Links
<1> DEFINE s == newSession(cfg, ConnectRequest(p, p.PreferResume, FALSE))
           s2 == newSession(cfg, ConnectRequest(p, s.batchResume, TRUE))
           anew == refusal(p, s) = "" /\ s.rs /\ probes(p, s) /\ ~probed
           up == s.uploadStream /\ (probes(p, s) => probed)
<1>1. p.PreferResume \in BOOLEAN BY Zenon DEF Connectors
<1>2. s \in Offered BY Zenon, <1>1, SessionOffered
<1>3. s.batchResume \in BOOLEAN /\ s.uploadStream \in BOOLEAN BY Zenon, <1>2 DEF Offered
<1>4. s2 \in Offered /\ ~s2.uploadStream
  <2> HIDE DEF s
  <2>q. QED BY Zenon, <1>3, SessionOffered
<1>5. l = IF anew THEN linkTo(p, s2, FALSE) ELSE linkTo(p, s, probes(p, s) => probed)
  BY Zenon, <1>0 DEF connect
<1> HIDE DEF s, s2
<1>6. CASE anew
  <2>1. l.session = s2 /\ l.uploadStream = FALSE /\ l.refusal = refusal(p, s2)
    <3>1. l = [session |-> s2, uploadStream |-> s2.uploadStream /\ FALSE, refusal |-> refusal(p, s2)]
      BY Zenon, <1>5, <1>6 DEF linkTo
    <3>2. (s2.uploadStream /\ FALSE) = FALSE BY Zenon
    <3>q. QED BY Zenon, <3>1, <3>2
  <2>2. refusal(p, s2) \in {"", "interval"} BY Zenon, <1>4, OfferAccepted
  <2>3. \A r \in requests(l) : serves(l.session, r) = expects(l, r)
    BY Zenon, <1>4, <2>1, OfferSpoken
  <2>q. QED BY Zenon, <2>1, <2>2, <2>3 DEF SameLanguage
<1>7. CASE ~anew
  <2>1. l.session = s /\ l.uploadStream = up /\ l.refusal = refusal(p, s)
    <3>1. l = [session |-> s, uploadStream |-> up, refusal |-> refusal(p, s)]
      BY Zenon, <1>5, <1>7 DEF linkTo
    <3> HIDE DEF up
    <3>q. QED BY Zenon, <3>1
  <2>2. refusal(p, s) \in {"", "interval"} BY Zenon, <1>2, OfferAccepted
  <2>3. CASE refusal(p, s) # ""
    BY Zenon, <2>1, <2>2, <2>3 DEF SameLanguage
  <2>4. CASE refusal(p, s) = ""
    <3>1. up \in BOOLEAN /\ (up => s.uploadStream) BY Zenon
    <3>2. s.rs /\ s.uploadStream => up BY Zenon, <1>7, <2>4
    <3> HIDE DEF up
    <3>3. \A r \in requests(l) : serves(l.session, r) = expects(l, r)
      BY Zenon, <1>2, <2>1, <3>1, <3>2, OfferSpoken
    <3>4. l.refusal = "" BY Zenon, <2>1, <2>4
    <3>q. QED BY Zenon, <3>3, <3>4 DEF SameLanguage
  <2>q. QED BY Zenon, <2>3, <2>4
<1>q. QED BY Zenon, <1>6, <1>7

-----------------------------------------------------------------------------
(* Run.                                                                    *)

Conns ==
    [failed : BOOLEAN, superseded : BOOLEAN, judged : {"me", "older", "newer"},
     ended : BOOLEAN, closed : BOOLEAN, done : BOOLEAN]

\* The delay is the first one, or positive and within its limit; the first may be
\* above the limit, since nothing compares the two.
Delays == {InitialBackoff} \cup 1..MaxBackoff

\* The shapes of the state.
LoopTypeOK ==
    /\ conn \in Conns /\ active \in {"me", "older", "newer"}
    /\ link \in {noLink} \cup Links
    /\ dead \in BOOLEAN /\ long \in BOOLEAN /\ ctx \in BOOLEAN
    /\ mux \in {"none", "up", "eof", "own"}
    /\ loop \in {"top", "connected", "serve", "close", "closing", "decide", "sleep", "pause", "stopped"}
    /\ why \in {"none", "failed", "peer", "superseded", "shutdown", "version"}
    /\ backoff \in Delays

\* The connection keeps Conn's promises: Read is released by a verdict or by Close.
ConnInv ==
    /\ conn.done => conn.closed
    /\ conn.ended => conn.failed \/ conn.superseded \/ conn.done

\* yamux belongs to the connection Run holds.  Until yamux is over nobody but Run,
\* after Serve, closes the connection under it.
MuxInv ==
    /\ loop = "connected" => mux = "none" /\ ~conn.closed
    /\ loop \in {"serve", "close"} => mux # "none"
    /\ loop = "serve" /\ mux = "up" => ~conn.closed
    /\ loop = "serve" /\ mux = "eof" => conn.failed \/ conn.superseded

\* An Outcome is still justified by what it was read from when Run acts on it.
OutcomeInv ==
    /\ loop \in {"top", "connected", "serve"} => why = "none"
    /\ loop \in {"close", "closing", "decide"} => why \in {"failed", "peer", "superseded", "shutdown"}
    /\ why = "failed" => conn.failed
    /\ why = "superseded" => conn.superseded
    /\ why = "shutdown" => ctx
    /\ why = "peer" => mux # "up" /\ (mux = "eof" => conn.superseded)

\* Before Run connects again, sleeps or returns, the connection it had is closed.
NothingLeftOpen == loop \notin {"connected", "serve", "close"} => mux = "none" \/ conn.closed

\* Run never gives up by itself: it has returned because it was told to, because
\* the server speaks another version, or because its session was superseded.
StopsForAReason == loop = "stopped" => ctx \/ why = "version" \/ conn.superseded

LoopInv ==
    /\ LoopTypeOK /\ ConnInv /\ MuxInv /\ OutcomeInv /\ NothingLeftOpen /\ StopsForAReason

-----------------------------------------------------------------------------
\* What the connection does on its own: it keeps its shape and its promises, takes
\* no verdict back, and is closed by Closes alone.
LEMMA ConnSteps ==
    ASSUME conn \in Conns, active \in {"me", "older", "newer"}, ConnInv,
           Fails \/ Supersedes \/ Ends \/ Closes \/ Stops \/ UNCHANGED conn
    PROVE  /\ conn' \in Conns /\ ConnInv'
           /\ conn.failed => conn'.failed
           /\ conn.superseded => conn'.superseded
           /\ conn.closed => conn'.closed
           /\ conn'.closed => conn.closed \/ Closes
<1>1. CASE Fails
  <2>1. /\ conn' \in Conns /\ conn'.failed /\ conn'.superseded = conn.superseded
        /\ conn'.closed = conn.closed /\ conn'.done = conn.done
    BY Zenon, <1>1 DEF Fails, Conns
  <2>q. QED BY Zenon, <2>1 DEF ConnInv
<1>2. CASE Supersedes
  <2>1. /\ conn' \in Conns /\ conn'.superseded /\ conn'.failed = conn.failed
        /\ conn'.closed = conn.closed /\ conn'.done = conn.done
    BY Zenon, <1>2 DEF Supersedes, Conns
  <2>q. QED BY Zenon, <2>1 DEF ConnInv
<1>3. CASE Ends
  <2>1. /\ conn' \in Conns /\ conn'.failed = conn.failed /\ conn'.superseded = conn.superseded
        /\ conn'.closed = conn.closed /\ conn'.done = conn.done
    BY Zenon, <1>3 DEF Ends, Conns
  <2>2. conn.failed \/ conn.superseded BY Zenon, <1>3 DEF Ends
  <2>q. QED BY Zenon, <2>1, <2>2 DEF ConnInv
<1>4. CASE Closes
  <2>1. /\ conn' \in Conns /\ conn'.failed = conn.failed /\ conn'.superseded = conn.superseded
        /\ conn'.closed /\ conn'.done = conn.done /\ conn'.ended = conn.ended
    BY Zenon, <1>4 DEF Closes, Conns
  <2>q. QED BY Zenon, <1>4, <2>1 DEF ConnInv
<1>5. CASE Stops
  <2>1. /\ conn' \in Conns /\ conn'.failed = conn.failed /\ conn'.superseded = conn.superseded
        /\ conn'.closed = conn.closed /\ conn'.done
    BY Zenon, <1>5 DEF Stops, Conns
  <2>2. conn.closed BY Zenon, <1>5 DEF Stops
  <2>q. QED BY Zenon, <2>1, <2>2 DEF ConnInv
<1>6. CASE UNCHANGED conn
  BY Zenon, <1>6 DEF ConnInv
<1>q. QED BY Zenon, <1>1, <1>2, <1>3, <1>4, <1>5, <1>6

\* The delay doubles up to its limit.
LEMMA DoubledBounded ==
    ASSUME backoff \in Delays
    PROVE  doubled \in Delays
BY BackoffAssumption DEF doubled, Delays

\* So is the delay Run starts with, and comes back to.
LEMMA InitialBounded == InitialBackoff \in Delays
BY DEF Delays

\* Every outcome of Serve is one of AcceptLoop's, and holds when it is read.
LEMMA OutcomesHold ==
    ASSUME NEW o \in outcomes
    PROVE  /\ o \in {"failed", "peer", "superseded", "shutdown"}
           /\ o = "failed" => conn.failed
           /\ o = "superseded" => conn.superseded
           /\ o = "shutdown" => ctx
           /\ o = "peer" => mux # "up" /\ ~conn.failed
<1>1. classifyClose \in {"failed", "peer"} /\ (classifyClose = "failed" <=> conn.failed)
  BY Zenon DEF classifyClose
<1>q. QED BY Zenon, <1>1 DEF outcomes

\* The initial state satisfies the invariant.
LEMMA LoopInvInit == Init => LoopInv
<1> SUFFICES ASSUME Init PROVE LoopInv
  OBVIOUS
<1>1. /\ conn \in Conns /\ ~conn.failed /\ ~conn.superseded /\ ~conn.ended /\ ~conn.closed
      /\ ~conn.done
  BY Zenon DEF Init, newConn, Conns
<1>2. LoopTypeOK BY Zenon, <1>1, InitialBounded DEF Init, LoopTypeOK
<1>q. QED BY Zenon, <1>1, <1>2
          DEF Init, LoopInv, ConnInv, MuxInv, OutcomeInv, NothingLeftOpen, StopsForAReason

\* What happens to the connection and to yamux, wherever Run is.
LEMMA WorldStep ==
    ASSUME LoopInv,
           Dies \/ Judges \/ Releases \/ Finishes \/ RivalAdopts \/ MuxEOF \/ MuxEnds \/ MuxCloses
    PROVE  LoopInv'
<1> DEFINE C == Fails \/ Supersedes \/ Ends \/ Closes \/ Stops \/ UNCHANGED conn
<1>1. LoopTypeOK /\ ConnInv /\ MuxInv /\ OutcomeInv /\ NothingLeftOpen /\ StopsForAReason
  BY Zenon DEF LoopInv
<1>2. conn \in Conns /\ active \in {"me", "older", "newer"} BY Zenon, <1>1 DEF LoopTypeOK
<1>3. UNCHANGED <<link, loop, why, long, backoff, ctx>>
  BY Zenon DEF Dies, Judges, Releases, Finishes, RivalAdopts, MuxEOF, MuxEnds, MuxCloses, rest
<1>4. UNCHANGED link /\ UNCHANGED loop /\ UNCHANGED why /\ UNCHANGED long /\ UNCHANGED backoff
      /\ UNCHANGED ctx
  BY Zenon, <1>3
<1>5. C
  BY Zenon DEF Dies, Judges, Releases, Finishes, RivalAdopts, MuxEOF, MuxEnds, MuxCloses, Adopts
<1>6. dead' \in BOOLEAN /\ active' \in {"me", "older", "newer"}
  BY Zenon, <1>1 DEF LoopTypeOK, Dies, Judges, Releases, Finishes, RivalAdopts, MuxEOF, MuxEnds,
       MuxCloses, Fails, Supersedes, Ends, Closes, Stops, Adopts
<1>7. \/ UNCHANGED mux
      \/ mux = "up" /\ mux' = "eof" /\ conn.ended /\ UNCHANGED conn
      \/ mux = "up" /\ mux' = "own" /\ UNCHANGED conn
  BY Zenon DEF Dies, Judges, Releases, Finishes, RivalAdopts, MuxEOF, MuxEnds, MuxCloses
<1>8. Closes => mux \in {"eof", "own"} /\ UNCHANGED mux
  <2>1. Closes => ~conn.closed /\ conn'.closed
    BY Zenon, <1>2 DEF Closes, Conns
  <2>2. MuxCloses \/ conn'.closed = conn.closed
    BY Zenon, <1>2 DEF Dies, Judges, Releases, Finishes, RivalAdopts, MuxEOF, MuxEnds, Adopts,
         Fails, Supersedes, Ends, Stops, Conns
  <2>q. QED BY Zenon, <2>1, <2>2 DEF MuxCloses
<1>9. /\ conn' \in Conns /\ ConnInv'
      /\ conn.failed => conn'.failed
      /\ conn.superseded => conn'.superseded
      /\ conn.closed => conn'.closed
      /\ conn'.closed => conn.closed \/ Closes
  BY Zenon, <1>1, <1>2, <1>5, ConnSteps
<1> HIDE DEF C
<1>10. LoopTypeOK' BY <1>1, <1>4, <1>6, <1>7, <1>9 DEF LoopTypeOK
<1>11. MuxInv'
  <2>1. (loop = "connected" => mux = "none" /\ ~conn.closed)'
    BY Zenon, <1>1, <1>4, <1>7, <1>8, <1>9 DEF MuxInv
  <2>2. (loop \in {"serve", "close"} => mux # "none")'
    BY Zenon, <1>1, <1>4, <1>7 DEF MuxInv
  <2>3. (loop = "serve" /\ mux = "up" => ~conn.closed)'
    BY Zenon, <1>1, <1>4, <1>7, <1>8, <1>9 DEF MuxInv
  <2>4. (loop = "serve" /\ mux = "eof" => conn.failed \/ conn.superseded)'
    BY Zenon, <1>1, <1>4, <1>7, <1>9 DEF MuxInv, ConnInv
  <2>q. QED BY Zenon, <2>1, <2>2, <2>3, <2>4 DEF MuxInv
<1>12. OutcomeInv' BY Zenon, <1>1, <1>4, <1>7, <1>9 DEF OutcomeInv
<1>13. NothingLeftOpen' /\ StopsForAReason'
  BY Zenon, <1>1, <1>4, <1>7, <1>9 DEF NothingLeftOpen, StopsForAReason
<1>q. QED BY Zenon, <1>9, <1>10, <1>11, <1>12, <1>13 DEF LoopInv

\* A step of Run, or of whoever cancels it.
LEMMA RunStep ==
    ASSUME LoopInv, Run \/ Cancel
    PROVE  LoopInv'
<1> USE DEF LoopInv
<1>1. ASSUME NEW l \in Links, Connects(l) PROVE LoopInv'
  <2>1. conn' \in Conns /\ ~conn'.closed /\ ~conn'.done /\ ~conn'.ended
    BY Zenon, <1>1 DEF Connects, newConn, Conns
  <2>2. active' \in {"me", "older", "newer"} /\ link' \in {noLink} \cup Links
    BY Zenon, <1>1 DEF Connects
  <2>3. /\ loop = "top" /\ loop' = "connected" /\ mux' = "none" /\ dead' = FALSE
        /\ why' = why /\ long' = long /\ backoff' = backoff /\ ctx' = ctx
    BY Zenon, <1>1 DEF Connects
  <2>4. LoopTypeOK' BY Zenon, <2>1, <2>2, <2>3 DEF LoopTypeOK
  <2>5. why' = "none" BY Zenon, <2>3 DEF OutcomeInv
  <2>6. ConnInv' /\ MuxInv' BY Zenon, <2>1, <2>3 DEF ConnInv, MuxInv
  <2>7. OutcomeInv' BY Zenon, <2>3, <2>5 DEF OutcomeInv
  <2>8. NothingLeftOpen' /\ StopsForAReason' BY Zenon, <2>3 DEF NothingLeftOpen, StopsForAReason
  <2>q. QED BY Zenon, <2>4, <2>6, <2>7, <2>8
<1>2. CASE ConnectFails
  <2>1. /\ loop = "top" /\ ((loop' = "stopped" /\ ctx) \/ loop' = "sleep")
        /\ conn' = conn /\ active' = active /\ dead' = dead /\ mux' = mux /\ why' = why
        /\ long' = long /\ backoff' = backoff /\ ctx' = ctx
    BY Zenon, <1>2 DEF ConnectFails
  <2>2. link' \in {noLink} \cup Links BY Zenon, <1>2 DEF ConnectFails
  <2>3. LoopTypeOK' BY <2>1, <2>2 DEF LoopTypeOK
  <2>4. ConnInv' /\ MuxInv' BY Zenon, <2>1 DEF ConnInv, MuxInv
  <2>5. OutcomeInv' BY Zenon, <2>1 DEF OutcomeInv
  <2>6. NothingLeftOpen' /\ StopsForAReason' BY Zenon, <2>1 DEF NothingLeftOpen, StopsForAReason
  <2>q. QED BY Zenon, <2>3, <2>4, <2>5, <2>6
<1>3. CASE VersionRejected
  <2>1. /\ loop = "top" /\ loop' = "stopped" /\ why' = "version" /\ conn' = conn
        /\ active' = active /\ link' = link /\ dead' = dead /\ mux' = mux
        /\ long' = long /\ backoff' = backoff /\ ctx' = ctx
    BY Zenon, <1>3 DEF VersionRejected
  <2>2. LoopTypeOK' BY <2>1 DEF LoopTypeOK
  <2>3. ConnInv' /\ MuxInv' /\ OutcomeInv' BY Zenon, <2>1 DEF ConnInv, MuxInv, OutcomeInv
  <2>4. NothingLeftOpen' /\ StopsForAReason' BY Zenon, <2>1 DEF NothingLeftOpen, StopsForAReason
  <2>q. QED BY Zenon, <2>2, <2>3, <2>4
<1>4. CASE ServeStarts
  <2>1. /\ loop = "connected" /\ loop' = "serve" /\ mux' = "up" /\ conn' = conn
        /\ link' = link /\ dead' = dead /\ why' = why
        /\ long' = long /\ backoff' = backoff /\ ctx' = ctx
    BY Zenon, <1>4 DEF ServeStarts
  <2>2. active' \in {"me", "older", "newer"} BY Zenon, <1>4 DEF ServeStarts, LoopTypeOK
  <2>3. LoopTypeOK' BY <2>1, <2>2 DEF LoopTypeOK
  <2>4. why = "none" /\ ~conn.closed BY Zenon, <2>1 DEF OutcomeInv, MuxInv
  <2>5. ConnInv' /\ MuxInv' /\ OutcomeInv'
    BY Zenon, <2>1, <2>4 DEF ConnInv, MuxInv, OutcomeInv
  <2>6. NothingLeftOpen' /\ StopsForAReason' BY Zenon, <2>1 DEF NothingLeftOpen, StopsForAReason
  <2>q. QED BY Zenon, <2>3, <2>5, <2>6
<1>5. CASE ServeEnds
  <2>1. /\ loop = "serve" /\ loop' = "close" /\ mux' = mux /\ conn' = conn
        /\ active' = active /\ link' = link /\ dead' = dead /\ why' \in outcomes
        /\ long' \in BOOLEAN /\ backoff' = backoff /\ ctx' = ctx
    BY Zenon, <1>5 DEF ServeEnds
  <2>2. /\ why' \in {"failed", "peer", "superseded", "shutdown"}
        /\ why' = "failed" => conn.failed
        /\ why' = "superseded" => conn.superseded
        /\ why' = "shutdown" => ctx
        /\ why' = "peer" => mux # "up" /\ ~conn.failed
    BY Zenon, <2>1, OutcomesHold
  <2>3. LoopTypeOK' BY <2>1, <2>2 DEF LoopTypeOK
  <2>4. ConnInv' /\ MuxInv' BY Zenon, <2>1 DEF ConnInv, MuxInv
  <2>5. OutcomeInv' BY Zenon, <2>1, <2>2 DEF OutcomeInv, MuxInv
  <2>6. NothingLeftOpen' /\ StopsForAReason' BY Zenon, <2>1 DEF NothingLeftOpen, StopsForAReason
  <2>q. QED BY Zenon, <2>3, <2>4, <2>5, <2>6
<1>6. CASE LoopCloses
  <2>1. /\ loop = "close" /\ mux' = mux /\ link' = link /\ dead' = dead /\ why' = why
        /\ long' = long /\ backoff' = backoff /\ ctx' = ctx /\ active' = active
        /\ \/ loop' = "decide" /\ conn.closed /\ conn' = conn
           \/ loop' = "closing" /\ Closes
    BY Zenon, <1>6 DEF LoopCloses, Closes
  <2>2. /\ conn' \in Conns /\ ConnInv' /\ (conn.failed => conn'.failed)
        /\ conn.superseded => conn'.superseded
        /\ conn.closed => conn'.closed
    BY Zenon, <2>1, ConnSteps DEF LoopTypeOK
  <2>3. conn'.closed BY Zenon, <2>1 DEF Closes, LoopTypeOK, Conns
  <2>4. LoopTypeOK' BY <2>1, <2>2 DEF LoopTypeOK
  <2>5. MuxInv' BY Zenon, <2>1 DEF MuxInv
  <2>6. OutcomeInv' BY Zenon, <2>1, <2>2 DEF OutcomeInv
  <2>7. NothingLeftOpen' /\ StopsForAReason' BY Zenon, <2>1, <2>3 DEF NothingLeftOpen, StopsForAReason
  <2>q. QED BY Zenon, <2>2, <2>4, <2>5, <2>6, <2>7
<1>7. CASE CloseReturns
  <2>1. /\ loop = "closing" /\ loop' = "decide" /\ mux' = mux /\ link' = link /\ dead' = dead
        /\ why' = why /\ long' = long /\ backoff' = backoff /\ ctx' = ctx /\ active' = active
        /\ conn' = conn /\ conn.done
    BY Zenon, <1>7 DEF CloseReturns
  <2>2. LoopTypeOK' BY <2>1 DEF LoopTypeOK
  <2>3. ConnInv' /\ MuxInv' /\ OutcomeInv' BY Zenon, <2>1 DEF ConnInv, MuxInv, OutcomeInv
  <2>4. NothingLeftOpen' /\ StopsForAReason'
    BY Zenon, <2>1 DEF ConnInv, NothingLeftOpen, StopsForAReason
  <2>q. QED BY Zenon, <2>2, <2>3, <2>4
<1>8. CASE Decides
  <2>1. /\ loop = "decide" /\ mux' = mux /\ link' = link /\ dead' = dead
        /\ why' = why /\ long' = long /\ ctx' = ctx /\ active' = active /\ conn' = conn
    BY Zenon, <1>8 DEF Decides
  <2>2. backoff' \in Delays
    BY Zenon, <1>8, InitialBounded DEF Decides, LoopTypeOK
  <2>3. \/ loop' = "sleep" /\ why = "failed"
        \/ loop' = "pause" /\ why = "peer"
        \/ loop' = "stopped" /\ why # "failed" /\ why # "peer"
    BY Zenon, <1>8 DEF Decides
  <2>4. LoopTypeOK' BY <2>1, <2>2, <2>3 DEF LoopTypeOK
  <2>5. ConnInv' /\ MuxInv' /\ OutcomeInv' BY Zenon, <2>1, <2>3 DEF ConnInv, MuxInv, OutcomeInv
  <2>6. NothingLeftOpen' BY Zenon, <2>1, <2>3 DEF NothingLeftOpen
  <2>7. StopsForAReason' BY Zenon, <2>1, <2>3 DEF OutcomeInv, StopsForAReason
  <2>q. QED BY Zenon, <2>4, <2>5, <2>6, <2>7
<1>9. CASE Wakes
  <2>1. /\ loop \in {"sleep", "pause"} /\ mux' = mux /\ link' = link /\ dead' = dead
        /\ why' = "none" /\ long' = FALSE /\ ctx' = ctx /\ active' = active /\ conn' = conn
        /\ loop' = "top" \/ (ctx /\ loop' = "stopped")
    BY Zenon, <1>9 DEF Wakes
  <2>2. backoff' \in Delays
    BY Zenon, <1>9, DoubledBounded DEF Wakes, LoopTypeOK
  <2>3. LoopTypeOK' BY Zenon, <2>1, <2>2 DEF LoopTypeOK
  <2>4. ConnInv' /\ MuxInv' /\ OutcomeInv' BY Zenon, <2>1 DEF ConnInv, MuxInv, OutcomeInv
  <2>5. NothingLeftOpen' /\ StopsForAReason' BY Zenon, <2>1 DEF NothingLeftOpen, StopsForAReason
  <2>q. QED BY Zenon, <2>3, <2>4, <2>5
<1>10. CASE Cancel
  <2>1. /\ loop' = loop /\ mux' = mux /\ link' = link /\ dead' = dead
        /\ why' = why /\ long' = long /\ ctx' = TRUE /\ active' = active /\ conn' = conn
        /\ backoff' = backoff
    BY Zenon, <1>10 DEF Cancel
  <2>2. LoopTypeOK' BY <2>1 DEF LoopTypeOK
  <2>3. ConnInv' /\ MuxInv' /\ OutcomeInv' BY Zenon, <2>1 DEF ConnInv, MuxInv, OutcomeInv
  <2>4. NothingLeftOpen' /\ StopsForAReason' BY Zenon, <2>1 DEF NothingLeftOpen, StopsForAReason
  <2>q. QED BY Zenon, <2>2, <2>3, <2>4
<1>q. QED BY Zenon, <1>1, <1>2, <1>3, <1>4, <1>5, <1>6, <1>7, <1>8, <1>9, <1>10 DEF Run

\* Every step keeps the invariant.
LEMMA LoopInvStep == LoopInv /\ [Next]_vars => LoopInv'
<1> SUFFICES ASSUME LoopInv, [Next]_vars PROVE LoopInv'
  OBVIOUS
<1>1. CASE Run \/ Cancel BY Zenon, <1>1, RunStep
<1>2. CASE Dies \/ Judges \/ Releases \/ Finishes \/ RivalAdopts \/ MuxEOF \/ MuxEnds \/ MuxCloses
  BY Zenon, <1>2, WorldStep
<1>3. CASE UNCHANGED vars \/ Finished
  <2>1. UNCHANGED vars BY Zenon, <1>3 DEF Finished
  <2>2. /\ conn' = conn /\ active' = active /\ link' = link /\ dead' = dead /\ mux' = mux
        /\ loop' = loop /\ why' = why /\ long' = long /\ backoff' = backoff /\ ctx' = ctx
    BY Zenon, <2>1 DEF vars
  <2>0. LoopTypeOK /\ ConnInv BY Zenon DEF LoopInv
  <2>3. LoopTypeOK' /\ ConnInv'
    <3>1. LoopTypeOK' BY <2>0, <2>2 DEF LoopTypeOK
    <3>2. ConnInv' BY Zenon, <2>0, <2>2 DEF ConnInv
    <3>q. QED BY Zenon, <3>1, <3>2
  <2>4. MuxInv' /\ OutcomeInv' BY Zenon, <2>2 DEF LoopInv, MuxInv, OutcomeInv
  <2>5. NothingLeftOpen' /\ StopsForAReason'
    BY Zenon, <2>2 DEF LoopInv, NothingLeftOpen, StopsForAReason
  <2>q. QED BY Zenon, <2>3, <2>4, <2>5 DEF LoopInv
<1>q. QED BY Zenon, <1>1, <1>2, <1>3 DEF Next

\* Run, the connection it holds and the yamux session over it agree at all times,
\* whatever the order of their goroutines, and the delay stays within its bounds.
THEOREM LoopInvariant == Spec => []LoopInv
<1>q. QED BY LoopInvInit, LoopInvStep, PTL DEF Spec

\* Whatever Connect negotiates with our own server, in whatever state of the loop,
\* the two sides treat every request of the connection alike.
THEOREM NegotiationAgrees == Spec => []Agreed
<1>1. SameLanguage(noLink)
  <2>1. noLink.refusal = "" /\ noLink.uploadStream = FALSE
    BY Zenon DEF noLink
  <2>2. noLink.session \in Offered /\ ~noLink.session.rs
    BY Zenon DEF noLink, Offered
  <2>3. \A r \in requests(noLink) : serves(noLink.session, r) = expects(noLink, r)
    BY Zenon, <2>1, <2>2, OfferSpoken
  <2>q. QED BY Zenon, <2>1, <2>3 DEF SameLanguage
<1>2. LoopInv => Agreed
  BY Zenon, <1>1, LinksAgree DEF LoopInv, LoopTypeOK, Agreed
<1>q. QED BY <1>2, LoopInvariant, PTL

\* A broken link is never retried as if the peer had left: classifyClose, which
\* looks at TransportFailed after yamux has seen Read fail, cannot miss it.
THEOREM BrokenLinkRecognised == Spec => []FailureNotPeer
<1>1. LoopInv => FailureNotPeer BY Zenon DEF LoopInv, OutcomeInv, FailureNotPeer
<1>q. QED BY <1>1, LoopInvariant, PTL

\* Run closes each connection before it sleeps, connects again or returns.
THEOREM LeavesNothingOpen == Spec => []NothingLeftOpen
<1>1. LoopInv => NothingLeftOpen BY Zenon DEF LoopInv
<1>q. QED BY <1>1, LoopInvariant, PTL

\* Run returns only when its context is cancelled, the version is rejected or its
\* session is superseded: no error of the link or of the peer ends it.
THEOREM KeepsTrying == Spec => []StopsForAReason
<1>1. LoopInv => StopsForAReason BY Zenon DEF LoopInv
<1>q. QED BY <1>1, LoopInvariant, PTL

\* Between two connects the loop, yamux and the rival Connect do to the connection
\* only what the interface Conn lets its owner do: what PlainConn and ResumableConn
\* are shown to promise is all that ClientLoop relies on.
THEOREM UsesConn == Spec => [][(\E l \in Links : Connects(l)) \/ Steps]_iface
<1>1. [Next]_vars => [(\E l \in Links : Connects(l)) \/ Steps]_iface
  <2> SUFFICES ASSUME [Next]_vars, ~UNCHANGED iface, ~\E l \in Links : Connects(l) PROVE Steps
    OBVIOUS
  <2>1. CASE Judges \/ Releases \/ Finishes \/ MuxCloses
    BY Zenon, <2>1 DEF Judges, Releases, Finishes, MuxCloses, Steps
  <2>2. CASE RivalAdopts BY Zenon, <2>2 DEF RivalAdopts, Steps
  <2>3. CASE LoopCloses
    BY Zenon, <2>3 DEF LoopCloses, Steps, iface
  <2>4. CASE ServeStarts
    BY Zenon, <2>4 DEF ServeStarts, Steps, Adopts, iface
  <2>5. CASE \/ ConnectFails \/ VersionRejected \/ ServeEnds \/ CloseReturns \/ Decides \/ Wakes
             \/ Dies \/ MuxEOF \/ MuxEnds \/ Cancel \/ Finished \/ UNCHANGED vars
    <3>1. conn' = conn /\ active' = active
      BY Zenon, <2>5 DEF ConnectFails, VersionRejected, ServeEnds, CloseReturns, Decides, Wakes,
           Dies, MuxEOF, MuxEnds, Cancel, Finished, vars
    <3>q. QED BY Zenon, <3>1 DEF iface
  <2>q. QED BY Zenon, <2>1, <2>2, <2>3, <2>4, <2>5 DEF Next, Run
<1>q. QED BY <1>1, PTL DEF Spec
=============================================================================
