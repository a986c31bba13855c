----------------------------- MODULE Negotiation -----------------------------
(***************************************************************************)
(* How client and server agree on the shape of a session: Connector.connect*)
(* and doConnect (client.go) on one side, ConnectHandler (handler.go) with *)
(* negotiatePollMode and negotiateResume on the other; and what the        *)
(* handlers make of the requests of a connection so built.  Of the limits  *)
(* handed down what matters is which are present.                          *)
(***************************************************************************)

\* ServerConfig: PollMode "" is batch.
Configs == [PollMode : {"batch", "stream"}, EnableWebSocket : BOOLEAN, EnableResume : BOOLEAN]

\* The Connector.  Its PollInterval is "short", reaches the server's resume grace, or
\* makes a poll cycle reach the server's session timeout.
Connectors ==
    [PreferStream : BOOLEAN, PreferWebSocket : BOOLEAN, PreferResume : BOOLEAN,
     UploadStreamPreference : {"", "batch", "stream"}, PollInterval : {"short", "grace", "timeout"}]

\* doConnect's ConnectRequest.
ConnectRequest(p, preferResume, forceBatchUpload) ==
    [PreferStreamMode |-> p.PreferStream,
     PreferStreamUpload |-> ~forceBatchUpload /\ p.UploadStreamPreference # "batch",
     PreferWebSocket |-> p.PreferWebSocket,
     PreferResume |-> preferResume,
     BatchResume |-> preferResume]

negotiatePollMode(serverMode, clientPrefersStream) ==
    IF serverMode = "stream" /\ clientPrefersStream THEN "stream" ELSE "batch"

negotiateResume(cfg, req, transport, pollMode, uploadMode) ==
    /\ cfg.EnableResume /\ req.PreferResume
    /\ \/ transport = "websocket"
       \/ req.BatchResume
       \/ pollMode = "stream" /\ uploadMode = "stream"

\* The Session ConnectHandler publishes.
newSession(cfg, req) ==
    LET pollMode == negotiatePollMode(cfg.PollMode, req.PreferStreamMode)
        uploadMode == negotiatePollMode(cfg.PollMode, req.PreferStreamUpload)
        transport == IF cfg.EnableWebSocket /\ req.PreferWebSocket THEN "websocket" ELSE ""
        resumable == negotiateResume(cfg, req, transport, pollMode, uploadMode)
    IN  [pollMode |-> pollMode, uploadStream |-> uploadMode = "stream", transport |-> transport,
         rs |-> resumable, batchResume |-> resumable /\ req.BatchResume]

\* limitsMode: whether HeartbeatIntervalMS and StreamMaxDurationMS are sent.
streamLimits(s) == s.pollMode = "stream" \/ s.uploadStream \/ s.transport = "websocket"

\* The answer says what the session is; why connect refuses it, or "".
refusal(p, s) ==
    IF s.rs /\ s.transport # "websocket" /\ ~s.batchResume /\ ~(s.pollMode = "stream" /\ s.uploadStream)
    THEN "resume"
    ELSE IF (s.transport = "websocket" \/ s.pollMode = "stream" \/ s.uploadStream) /\ ~streamLimits(s)
    THEN "limits"
    ELSE IF /\ s.transport # "websocket"
            /\ \/ p.PollInterval = "timeout"
               \/ s.rs /\ s.pollMode = "batch" /\ ~s.uploadStream /\ p.PollInterval = "grace"
    THEN "interval"
    ELSE ""

noLink ==
    [session |-> [pollMode |-> "batch", uploadStream |-> FALSE, transport |-> "", rs |-> FALSE,
                  batchResume |-> FALSE],
     uploadStream |-> FALSE, refusal |-> ""]

\* The probe is made when the Connector leaves the choice open.
probes(p, s) == s.transport = "" /\ s.uploadStream /\ p.UploadStreamPreference = ""

\* The session, and how the connection will upload.
linkTo(p, s, streamed) ==
    [session |-> s, uploadStream |-> s.uploadStream /\ streamed, refusal |-> refusal(p, s)]

\* Variant: a resumable session whose probe fails is used with batch uploads.
connectKeeps(cfg, p, probed) ==
    LET s == newSession(cfg, ConnectRequest(p, p.PreferResume, FALSE))
    IN  linkTo(p, s, probes(p, s) => probed)

\* connect: after a failed probe a plain connection falls back to batch uploads,
\* and a resumable one is negotiated anew without streamed uploads.
connect(cfg, p, probed) ==
    LET s == newSession(cfg, ConnectRequest(p, p.PreferResume, FALSE))
    IN  IF refusal(p, s) = "" /\ s.rs /\ probes(p, s) /\ ~probed
        THEN linkTo(p, newSession(cfg, ConnectRequest(p, s.batchResume, TRUE)), FALSE)
        ELSE linkTo(p, s, probes(p, s) => probed)

Links == {connect(cfg, p, probed) : cfg \in Configs, p \in Connectors, probed \in BOOLEAN}

plainWebSocket(l) == l.session.transport = "websocket" /\ ~l.session.rs

-----------------------------------------------------------------------------
(* The requests of a connection, and their handlers.                       *)

requests(l) ==
    IF l.session.transport = "websocket" THEN {"websocket"}
    ELSE {"poll", IF l.uploadStream THEN "sendStream" ELSE "send"}

\* How the connection reads or writes the body of a request: numbered, framed.
expects(l, r) ==
    [seq |-> l.session.rs,
     framed |-> \/ r \in {"websocket", "sendStream"}
                \/ r = "poll" /\ l.session.pollMode = "stream"]

refused == [seq |-> FALSE, framed |-> FALSE, refused |-> TRUE]

\* PollHandler and WebSocketHandler: 400, or how they treat the body.
serves(s, r) ==
    LET stream == r = "poll" /\ s.pollMode = "stream"
        body(framed) == [seq |-> s.rs, framed |-> framed]
    IN  CASE r = "websocket" -> IF s.transport = "websocket" THEN body(TRUE) ELSE refused
          [] r = "sendStream" ->
                IF s.rs /\ (s.transport = "websocket" \/ ~s.uploadStream) THEN refused ELSE body(TRUE)
          [] r \in {"poll", "send"} ->
                IF \/ ~s.rs
                   \/ /\ s.transport # "websocket"
                      /\ stream \/ (s.batchResume /\ (r = "poll" \/ ~s.uploadStream))
                THEN body(stream) ELSE refused

\* The two sides speak the same language: every request a connection makes is
\* accepted by the handler and its body is cut and numbered the way both sides
\* think, for every server configuration, every Connector and every outcome of
\* the upload probe; and connect never refuses what our own ConnectHandler
\* offers, unless its own PollInterval is too long.
SameLanguage(l) ==
    IF l.refusal # "" THEN l.refusal = "interval"
    ELSE \A r \in requests(l) : serves(l.session, r) = expects(l, r)
=============================================================================
