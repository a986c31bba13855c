# pollmux: TLA+ models and proofs

pollmux carries a byte stream (usually a yamux session) between a client and a
server over HTTP requests or a WebSocket, and can keep the stream alive across
a broken transport: both ends number the bytes they send, keep what has not
been acknowledged, and after a failure exchange offsets and replay. This
directory models that code, checks the models with TLC on small instances, and
proves their safety with TLAPS for every value of the constants.

## The system

| part | source | state | operations |
|---|---|---|---|
| byte layer | `reliable.go` | send, acked, receive offsets, cursor, replay buffer, broken | `nextOut`, `recvIn`, `ack`, `takeAck`, `resetAck`, `resumeOut`, `rewindToAcked`, `markBroken` |
| pipe | `pipe.go` | buffer, closed, pending interrupt, high-water mark | `Write`, `Read`, `ReadAvailable`, `interrupt`, `Close` |
| attachments | `resume_server.go` | owner of each direction, resuming flag | `attach`, `detach`, `kickAndWait`, `kickAll`, `beginResume`, `endResume` |
| resumable handlers | `handler.go`, `batch.go`, `websocket.go` | the handler's deadlines, context, pumps | stream poll, send stream, batch request, WebSocket, resume |
| sessions and store | `session.go`, `store.go`, `handler.go` | closed, polls in flight, `detachedAt`, `lastActive`, the store | connect, attach, detach, close, delete, conditional close, sweep |
| resumable client | `resumable_client.go`, `batch.go`, `session_guard.go` | legs, contexts, stability counters, end signals | `supervise`, `runLegs`, `resume`, `Close` |
| plain client and its handlers | `client.go`, `websocket.go`, `handler.go` | send buffer, pipes, end signals, requests and frames on their way | `Write`, `flushLoop`, `pollLoop`, `pollLoopStream`, `sendLoopStream`, `readLoop`, `writeLoop`, `Close`; `PollHandler`, `pollStream`, `pollSendStream`, the pumps |
| negotiation | `client.go`, `handler.go` | none | `connect`, `doConnect`, `ConnectHandler`, `negotiatePollMode`, `negotiateResume` |
| staying connected | `reconnect.go`, `accept.go` | backoff, outcome | `ReconnectLoop.Run`, `AcceptLoop`, `classifyClose` |

How they interact: an application writes into a pipe; a transport's sender
calls `nextOut`, which replays or takes new bytes from the pipe and numbers
them; the receiver calls `recvIn` and later acknowledges. On the server a
direction belongs to one request at a time (attachments); on the client one
supervisor runs the two legs, joins them, performs the resume handshake and
starts the next two. The session, meanwhile, lives in a store from which
deletes, the application and a sweeper remove it, unless a request is attached
or its grace has not run out. A connection that is not resumable does without
the byte layer: its loops send what Write left in a buffer, and the first
failure ends it. Whatever its kind, a connection tells its owner how it ended
through two channels, `TransportFailed` and `SessionSuperseded`, and releases
its reader; `AcceptLoop` turns that into an outcome, and `ReconnectLoop` decides
by the outcome whether to connect again.

What makes it hard: `nextOut` gives up its lock while it waits; everything sent
may arrive late or twice; requests outlive the client's interest in them; the
interrupt that tears a transport down is the same flag that asks for an early
ack; removal, eviction and attachment race on two locks; Close may come at
any point of a resume; without the byte layer every lost request is a hole
somebody must be told of; and the goroutines that notice the end of a
connection (two loops, Close, yamux, a newer Connect) race to name its reason.

## Modules

| module | models | one action is |
|---|---|---|
| `Reliable` | the reliable struct as a record, its methods as operators | (operators only) |
| `ReliablePair` | two ends over a lossy, duplicating, reordering transport | one critical section of `r.mu`, or one delivery |
| `ByteStream` | the abstract specification: what is delivered is a growing prefix of what was written | |
| `Attachments` | direction ownership and the loops of the five kinds of handlers | one critical section of `attachments.mu`, or one wait, wake-up, read or write of a handler |
| `SessionStore` | session lifecycle, store, sweeper, hooks, with a clock | one critical section of `SessionStore.mu` or `Session.mu`, or one call outside both |
| `BufferedPipe` | the pipe, with the queue of a `sync.Cond` and its timers | from taking the lock to `Wait` or the return |
| `ResumableConn` | the client's supervisor, legs, handshake, guards, Close | one call or one blocking operation |
| `Conn` | the abstract specification of a connection: two end signals, a reader, Close, and the Connector's active session | one change its owner can see |
| `PlainConn` | `httpConn` and `wsConn` with their loops, the handlers that serve them, the network between | one critical section, one request or frame sent, served or lost |
| `Negotiation` | both sides of connect for every Connector and server configuration, and what the handlers make of the requests | (operators only) |
| `ClientLoop` | `ReconnectLoop` and `AcceptLoop` over yamux (external) over any `Conn` | one step of Run, of the connection or of yamux |
| `ReliablePairProofs`, `AttachmentsProofs`, `SessionStoreProofs`, `BufferedPipeProofs`, `ResumableConnProofs`, `PlainConnProofs`, `ConnProofs`, `ClientLoopProofs` | lemmas and theorems | |
| `MC*` | instances for TLC | |

Names follow the source (`recvIn`, `resumeOut`, `noteDetachedLocked`, ...), and
`PROJECT.json` gives the lines each definition stands for. Definitions whose
comment begins with "Variant:" are deliberately wrong forms of the definition
that follows them. No specification uses them. Put in place of the right form,
each makes one property fail, which shows that the property depends on that
piece of code.

How the pieces compose. `ReliablePair` assumes of its callers that `nextOut`
has one caller per direction and that `resumeOut` and `rewindToAcked` run while
nobody is in it. On the server that is `OneUser` and `QuietResume` of
`Attachments`; on the client it is `QuietRewind` of `ResumableConn`. What
`Attachments` and `ResumableConn` assume of an interrupt (it stays pending until
a `ReadAvailable` reports it, and every wait ends) is `NoMissedWakeup`,
`InterruptPrompt` and `CallsReturn` of `BufferedPipe`. That a request
in `Attachments` has a live session to serve is `NoEvictionUnderPoll` of
`SessionStore`.

`Conn` ties the two kinds of connection to the loop that uses them. `PlainConn`
and `ResumableConn` each implement it (`ImplementsConn`), and `ClientLoop`
extends it: its connection takes exactly the steps `Conn` has, so what holds of
`ClientLoop` holds over either. What `Conn` promises is little and all
`classifyClose` needs: a verdict comes before the reader is released,
`SessionSuperseded` is only signalled while another session is the active one,
nothing is signalled once Close is through, every verdict releases the reader and
every Close returns. `PlainConn` has a session that is open or closed;
`SessionStore` says when it may be closed.

### Abstractions

- A byte is its position in the stream it was written to. No branch of the code
  looks at a byte, and any byte lost, repeated or misplaced shows.
- The transport of `ReliablePair` keeps all frames and offsets ever sent and
  delivers any of them at any time. Batches, streams, WebSockets, retries
  and late requests are special cases, so there is one model for all three.
- `Attachments` keeps of the data whether an ack is due and whether an interrupt
  is pending; arrivals, heartbeats and network errors may come at any time.
- `SessionStore` has a clock that ticks between any two critical sections.
  `detachedAt` and `lastActive` are clock readings.
- `BufferedPipe` counts bytes. A timer that `Stop` came too late for is a stray
  timer that broadcasts later, as `time.AfterFunc` allows.
- `ResumableConn` keeps of the layer whether it is broken and whether offsets
  moved since the legs started; the server answers anything.
- `PlainConn` keeps of a chunk or frame the positions of its first and last byte;
  `hole` records that something else than the next byte was delivered. Every
  byte is sent at most once, as the code never resends here. A request may be
  lost, or be served after its client has given it up. That the DELETE of Close,
  an eviction and an application's close are one action (`SessionCloses`) is
  justified by what the client can see of them: a 404 or 410.
- `isActiveSession` and the verdict that follows from it are one step. In
  `ResumableConn` that loses nothing, since a session that is not the active one
  never becomes it. In `PlainConn` a WebSocket judged before its adoption may be
  adopted before its channel is closed; the channel is closed all the same.
- `Negotiation` keeps of the limits which are present, and of a poll interval
  whether it reaches the resume grace or makes a poll cycle reach the session
  timeout.
- `ClientLoop` starts a new connection as a fresh `Conn`. What is left of the one
  before can touch only its own record; a Connector's other users are the rival
  that may adopt a newer session at any time.
- Times, sizes, status codes, logging, headers and JSON are left out wherever no
  guard depends on them.

## Runs

| run | instance | states | shows |
|---|---|---|---|
| `reliable_pair` | 3 bytes down, 1 up, replay of 2, buffer of 2 | 214 k | the byte stream properties and the refinement of `ByteStream` |
| `attachments` | 3 requests, ten mixes of kinds | 84 k | one owner per direction, none during a resume, no waiting in circles, kicks work |
| `poll_kick`, `send_stream_kick` | the same | | violated, see Findings |
| `session_store` | 1 session with 2 requests and 2 closers, a second session beside it, cap 1, grace 1, clock to 3 | 489 k | eviction, grace, the cap under concurrent re-attachment, reporting |
| `session_end` | 1 session, 1 request, 1 closer | | violated, see Findings |
| `buffered_pipe` | up to 2 readers, `dst` of 2, 4 bytes | 82 k | wake-ups, end of stream, interrupts, timeouts |
| `resumable_conn` | no constants | 520 k | quiet rewinds, release of everyone, no endless resumption, the refinement of `Conn` |
| `plain_conn` | 2 bytes, chunks of 1, buffers of 2; batch down and stream up, stream down and batch up, WebSocket | 273 k | no silent loss in either direction, delivery, ends noticed, nothing after Close, the refinement of `Conn` |
| `abandoned_leg` | the same | | violated, see Findings |
| `late_adoption` | the same | | violated, see Findings |
| `client_loop` | backoff 1 to 3, every negotiation | 131 k | agreement on the session, outcomes, reconnecting, shutdown |

Why the bounds are enough for the interesting cases:

- `reliable_pair`: three bytes with a replay of two overflow; with a buffer of
  two they make frames that overlap after a partial ack or a rewind; the one
  byte upstream makes acks and resumes go both ways. The proofs do not depend
  on any of the bounds.
- `attachments`: a collision needs an owner, a rival and a resume. Two owners of
  different directions, two rivals, and two overlapping resumes are all there.
  A handler is one request, so a fourth would only repeat a part.
- `session_store`: the code's decisions concern one session at a time, but for the
  cap. So one session, resumable or not, meets everything at once: two requests
  overlap, two closers race, and the clock passes the grace and the timeout. It may
  have a WebSocket, and does with its other requests all that a session without one
  does. A second session, resumable, may connect while the first is live and no
  closer or second request is under way (`mayJoin`). From then on the sweeper, a
  request that attaches to either session, the applications and the clock, up to
  `JoinedTime`, go on: one session more than the cap, with `PollGap` below the grace,
  so that the sweeper has a choice and either may come back while it makes it. Time
  stops at the bound, and a behaviour in which a session never becomes silent within
  it is covered by a shorter one. No step that fairness is about is left out.
- `buffered_pipe`: the second reader is there for `Signal` against `Broadcast`;
  four bytes fill `dst` twice, so data can arrive behind data.
- `resumable_conn` has the code's own limits 5 and 3.
- `plain_conn`: one byte per request and two bytes make two chunks of one buffer,
  or two flushes, so a chunk can be lost, late or overtaken. A frame of two bytes
  is over `MaxSendBytes`, so the limits of the handlers are met from both sides.
  A direction is either batch or stream whatever the other is, and the two
  directions of an HTTP connection share only the flags and the session: the
  three modes have every kind of download and every kind of upload once. The
  safety proofs are for any set of modes, any sizes and any number of bytes.
- `client_loop`: all 8 server configurations with all 72 Connectors and both
  outcomes of the probe; the backoff of 3 is reached from 1 and from 2. Where the
  loop is does not depend on how often it was there before.

Deadlock is checked for `BufferedPipe` (which never stops) and for
`ResumableConn`, `PlainConn` and `ClientLoop`, which may stop only when Close has
returned and the loops are over, or when Run has returned. The others do stop:
a bounded clock, bounded writes, requests that are all answered.

### Fairness

Liveness is checked under weak fairness of what the code or the runtime
guarantees and of nothing else: runnable goroutines run; timers fire (the
ticker of the sweeper, `detachWait`, heartbeats, the timeout and coalescing
timers, the deadline of `resume`); a read or write under a deadline that has
passed, or under a cancelled context, fails; requests with a timeout end one way
or the other; hooks return. The peer and the network owe nothing: no
action that delivers data, answers well or lets a write succeed is fair.
`Attachments` does not assume that a kicked handler is quick. `PlainConn` has one
fairness condition per goroutine, over all the steps of that goroutine. Its
requests either arrive or are broken off by their timeouts; a healthy one need
never break, a closed session need never have been closed, and nobody need write.
`ClientLoop` assumes that Run goes on (hooks and connects return, timers fire),
that the connection keeps `Conn`'s promises, that a dead link is noticed (the
timeouts of a plain connection, the give-up of a resumable one) and that yamux
closes its connection when it is over; not that a link dies, that a peer leaves or
that a connect succeeds.

### Properties

Byte layer: `StreamIntact` (what is delivered is a prefix of what was written),
`NothingForgotten` (replay covers all the peer may lack), `NoBadAck`,
`FramesContiguous` (no resend is passed over), `ImplementsByteStream`. Proved and
not in a run: `TypeOK`, `FramesGenuine`, `CursorInRange`, `OffsetsOnlyGrow`.

Attachments: `OneUser`, `QuietResume`, `NoOrphan`, `NoHoldAndWait`,
`ResumeFlag` (no handshake leaves the session refusing attaches), `KickWakes`,
`ResumeAnswered`, `KickedLeaves`. The last excludes send streams, which the second
finding below concerns. Proved and not in a run: `TypeOK`.

Sessions: `NoEvictionUnderPoll`, `GraceHonoured`, `ReportedOnce`,
`ExpiredForGood`, `CapHolds`, `RemovedIsReported`, `SilentIsClosed`. Proved and not in
a run: `NoReportLost`, `SweepThorough`.

Pipe: `NoMissedWakeup`, `EndIsFinal`, `EmptyHandedIsTimeout`, `InterruptPrompt`,
`CallsReturn`. With two concurrent readers a Write wakes only one, and data it
leaves may stay unread until the next write; the properties that need it say
`Sole`, which the ownership rules above provide.

Resumable client: `QuietRewind`, `Released`, `NoChurn`, `ImplementsConn`. Proved and
not in a run: `JoinWakes`, `CountersLeft`, `NobodyWaits`.

Plain client: `DownIntact` (what is read is a prefix), `NoSilentHole` (a hole in the
upload is never kept from the client's owner), `UpDelivered` and `DownDelivered`
(everything accepted arrives, or the owner is told), `EndNoticed` (a session closed
at the server is noticed), `NothingAfterClose`, `ImplementsConn`; and
`SupersededByNewer`, which is violated. Proved and not in a run: `NothingStranded`.

Staying connected: `Agreed` (every request a connection makes is understood by its
handler, for every negotiation), `FailureNotPeer` (a broken link is not taken for a
peer that left), `Reconnects`, `ShutdownReturns`. Proved and not in a run:
`NothingLeftOpen` (no connection is left open behind the loop), `StopsForAReason` (no
error of link or peer ends the loop).

## Findings

1. **A kicked idle stream poll parks again** (`poll_kick`). It consumes the
   interrupt, `isCurrent` is still true since a kick does not take the slot
   away, no ack is due, and it waits for the next heartbeat, whose write then
   fails. A resume meanwhile waits out `detachWait` and answers 503. Nothing is
   corrupted (`OneUser`, `QuietResume`) and the poll leaves in the end
   (`KickedLeaves`). With HTTP/2 the past write deadline may also cancel the
   request, which the model allows.
2. **A send stream can overwrite its kick** (`send_stream_kick`). The deadline
   is reset after each frame, also right after a kick has moved it into the
   past. `batch.go` states the rule that would prevent it.
3. **A session closed by `Session.Close` is never reported** (`session_end`),
   and stays in the store: removal and sweep both skip closed sessions. The
   comment of `OnDisconnect` says it runs "whatever ended it".
4. **A leg the server gives up can be taken for a clean rollover**
   (`abandoned_leg`). `pollSendStream` leaves without a response when its watchdog
   fires or a frame is over `MaxSendBytes`, and net/http answers for it with an
   empty 200. A feeder that has already ended the leg returns nil, the 200 counts,
   and the next leg goes on behind the frames nobody read. The comment at the
   return says the client will see a transport failure. `NoSilentHole` and
   `UpDelivered` hold with this case excepted (`abandoned`); a resumable
   session notices the gap.
5. **A WebSocket that dies early is taken for superseded** (`late_adoption`).
   `connectWebSocket` starts its loops before it adopts the session. A connection
   that breaks in between is judged against the session before it, or, on the first
   connect, against none, and signals `SessionSuperseded`, which the comments keep for
   a session "replaced by a newer connect". `ReconnectLoop` stops for good although
   nothing is connected. `Reconnects` holds with superseded connections excepted. The
   other two kinds of connection are adopted before their loops start.

Met while modelling, and stated here because a property excepts them or no
property is about them:

- OnConnect may close the older session before the newer one is adopted, and the
  older connection then reports a transport failure.
- `classifyClose` looks at `TransportFailed` only. A superseded session whose yamux
  ends first is reported as a peer that left, and the loop connects again;
  `FailureNotPeer` excepts it.
- A batch send whose session closes between `beginPoll` and `writeUpstream` is
  answered 200 and its bytes are dropped. The next request is answered 404 or 410,
  so the owner is told (`UpDelivered`, `EndNoticed`).
- `Write` may call `wg.Add` while Close is in `wg.Wait`. A flush started so late
  finds its context cancelled and sends nothing (`NothingAfterClose`).
- An error between the two steps of Close, setting `closed` and cancelling, is not
  signalled: the owner who closes gets no verdict, as `Conn` allows.
- A connect that refuses what the server offered leaves the server's session to
  the sweeper.

## Proofs

Every safety property that a passing run checks is proved for every value of the
constants, from these assumptions:

- `Reliable`, `ReliablePair`: `MaxReplay` is a natural number, `BufSize` a positive
  one, `MaxBytes` two natural numbers;
- `Attachments`: the kinds of a session's requests are known, and they are of one
  transport (`TransportAssumption`: a session negotiated for a WebSocket refuses polls
  and sends, and another refuses a WebSocket);
- `SessionStore`: finite sets of sessions and requests, natural numbers for times;
- `BufferedPipe`, `PlainConn`: positive sizes, any number of bytes, any modes;
- `ClientLoop`: two positive delays, in any order, as `orDuration` leaves them.

TLC evaluates each of them on its instance.

None of the properties is inductive alone. Each proof module has an inductive
invariant `IInv`, a theorem `Invariant` (`Invariance` for the byte layer) with one
step per action or group of actions, and short theorems that derive the
properties from it.

- `ReliablePairProofs`. That a frame is trimmed correctly needs the frame to be
  genuine; that replay is complete needs that no ack in transit exceeds what the
  peer has received; that a frame numbered in the second critical section belongs
  where it is put needs that bytes held by `nextOut` continue the stream and that
  nobody rewinds meanwhile. So `IInv` joins, for each end, acked <= cursor <= sent
  and a replay of exactly the bytes between, that sent, held and queued bytes make
  up what was written, that frames in transit are genuine, that reported offsets
  are within what was received, and that what was delivered is the stream up to
  `recvOffset`. The module begins with the lemmas about each operator of
  `Reliable`.
- `AttachmentsProofs`. A user of a direction is its owner (`Owned`); one who waits
  owns nothing (`NotWaiting`); there is one handshake at a time, who still serves
  during it is among those it has to see leave, and nobody serves past `kickAll`
  (`Quiet`); a handler does what its kind does
  (`Working`); and whoever is kicked has a deadline, a context or an interrupt
  left that ends its wait (`Kicked`).
- `SessionStoreProofs`. `pollInFlight` is the number of attached requests
  (`Counted`), so that a check of the counter under the lock is a check of the
  requests; a session closed for silence had nobody attached, and its grace over,
  when it was closed and has so since (`Silence`); the sweep sees what the store
  holds, by a clock reading that is not ahead (`Sweeping`); whoever took a session
  out of the store is alone in having to report it (`Reports`); the sessions a cap
  pass has yet to treat account for what is over the cap (`Capped`). `NoReportLost`
  is what `RemovedIsReported` needs besides fairness: a session a close or an eviction
  took away has been reported, or the goroutine that took it still has to.
  `SweepThorough` is what `SilentIsClosed` needs for sessions that can be resumed: a
  sweep leaves none whose grace was over when it began, since what detaches or connects
  meanwhile is younger than the sweep's clock reading (`WaitsSince`). It does not hold
  of other sessions: one whose long poll ends just after the visit is judged by
  `lastActive`, the time the poll began, and is left to the next sweep.
- `BufferedPipeProofs`. Who is in the cond's queue (`Sleepers`), what a reader in
  its second phase holds (`Held`) and what is pending for it (`Pending`).
- `ResumableConnProofs`. The legs' context is cancelled before they are interrupted
  (`CancelFirst`), a parked sender that is waited for has its interrupt pending
  (`JoinWakes`), Close goes on only after the supervisor (`Joined`), and the
  stability counters have room while it runs (`CountersLeft`); a verdict comes before
  the reader is released (`VerdictFirst`). `NobodyWaits` is what
  `Released` needs besides fairness: the connection's context is cancelled by Close,
  which goes on to release the reader, or by a newer session, which does so too
  (`CancelledBy`), so supervise has no way out that leaves Read blocked
  (`ReaderReleased`), and Close waits for nobody it has not woken (`CloseWakes`).
- `PlainConnProofs`. What has left one side's buffer is at the other side, on its
  way right behind it, or the loop that carried it has ended or is about to
  (`Down`, `BatchOrder`, `StreamOrder`); a loop ends with a verdict or because of
  Close (`Flags`). A batch request that is served late cannot do harm in silence,
  since the loop that gave it up is past sending. `NothingStranded` is what
  `UpDelivered` and `DownDelivered` need besides fairness: bytes that Write accepted
  and the server lacks have a goroutine that carries them. It rests on `flushInFlight`,
  which is up only while there is a `flushLoop` or one about to start, and down only
  when `writeBuf` is empty (`Flushing`), and on loops that leave after the owner has
  been told and not before (`Spoken`).
- `ClientLoopProofs`. `LinksAgree` goes through the negotiation: what `ConnectHandler`
  offers (`SessionOffered`), what connect accepts of it (`OfferAccepted`), what the
  handlers make of the requests of what was accepted (`OfferSpoken`). The loop's
  invariant joins what `Conn` promises (`ConnInv`), whose yamux session is up over
  which connection (`MuxInv`) and that an Outcome is still true when Run acts on it,
  several steps of others after it was read (`OutcomeInv`).

Refinements: `ReliablePair` implements `ByteStream` in both directions;
`ResumableConn` and `PlainConn` implement the safety part of `Conn`
(`C!Behaviour`), by the lemmas of `ConnProofs`, each of which says that one kind
of change to what the owner sees is a step of `Conn`. From the other side,
`UsesConn` says that between two connects the loop, yamux and a rival Connect do to
the connection only what `Conn` has as a step.

Only model-checked: all liveness (fairness and ENABLED are outside the prover), that
is `ResumeAnswered`, `KickedLeaves`, `RemovedIsReported`, `SilentIsClosed`,
`CallsReturn`, `Released`, `NoChurn`, `UpDelivered`, `DownDelivered`, `EndNoticed`,
`Reconnects`, `ShutdownReturns`, and the second half of `Conn`'s contract, which is a
part of `ImplementsConn` for `PlainConn` and is `Released` for `ResumableConn`.

## Not modelled

- yamux itself and its configuration, TLS and proxies, JSON, logging,
  authentication hooks, session identifiers, metadata, URLs and headers.
- `withDefaults` and `check`: they compute numbers once, before anything runs. What
  the models need of them is in their assumptions (sizes are positive) or
  enumerated in `Negotiation` (which limits are handed down, what is refused).
- The bytes of a frame header: writing and reading one is sequential code with an
  inverse by inspection. Kinds of frames and the length limit are in `PlainConn`.
- The lengths of timeouts. Timers fire at any time they can, except in
  `SessionStore`, where the clock decides between expired and not.
- The streams yamux accepts inside `AcceptLoop`, and the goroutine in it that may
  stay blocked on its channel when the loop has returned: nothing that is
  modelled depends on either.
- `LocalHealth`, which is a header of polls and changes nothing here, and heartbeats
  in `PlainConn`: they reset timers, and every timer there may fire at any time.
- Request parsing and status codes in the resumable handlers, beyond served,
  refused and gone.
