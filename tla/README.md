# TLA+ models of moxygen's MoQ session

This directory holds TLA+ models of `src/moxygen/MoQSession.cpp`, the Media
over QUIC (MoQ Transport) session of moxygen. It also holds the TLC
configurations that check those models. Each module is translated from the C++.
`PROJECT.json` records the mapping from each definition to the source lines it models,
the runs, the mutants that show each property can fail, the findings and the
hazards.

## The system

A `MoQSession` is one end of a MoQ connection over a WebTransport/QUIC
session. Both ends run the same class and differ only by `dir_` (client or server).

* **Control plane.** The control plane is one bidirectional stream.
  - `controlWriteLoop` drains `controlWriteBuf_` in order.
  - `controlReadLoop` parses and dispatches messages: setup, SUBSCRIBE,
    SUBSCRIBE_OK/ERROR/DONE, UNSUBSCRIBE, FETCH, FETCH_OK/ERROR, FETCH_CANCEL,
    MAX_SUBSCRIBE_ID, announces and goaway.
  - The client sends CLIENT_SETUP and waits for SERVER_SETUP, with a timeout
    (`setup`, `onServerSetup`).
* **Subscribe-ID credit.** Every SUBSCRIBE or FETCH uses a fresh subscribe ID
  below the peer's `maxSubscribeID_`.
  - The server checks the ID in `closeSessionIfSubscribeIdInvalid`.
  - `retireSubscribeId` counts finished requests. When the count reaches
    `maxConcurrentSubscribes_/2`, it raises the limit by that count and sends
    MAX_SUBSCRIBE_ID.
* **Receive states (client).** `SubscribeTrackReceiveState` and
  `FetchTrackReceiveState` each hold a promise for the OK/ERROR reply and a
  callback for data. They live in `subTracks_` and `fetches_` until the request
  ends.
* **Publishers (server).**
  - `TrackPublisherImpl` answers a subscription (subscribeOk, subscribeDone).
  - `FetchPublisherImpl` opens the unidirectional stream of a fetch. When that
    stream ends, it calls `fetchComplete`, which retires the ID.
  - `StreamPublisherImpl` is the writer of one data stream, in subgroup or
    fetch mode. It validates each application call, encodes objects and writes
    them, and handles STOP_SENDING and reset.
* **Data plane (client).** `unidirectionalReadLoop` and `ObjectStreamCallback`
  read the data streams. For a fetch stream, they look up `fetches_` by the ID in
  the FETCH_HEADER and deliver objects, the end of the stream, or a reset.
  For a subgroup stream, `onSubgroup` looks up `subTracks_` by the track
  alias, merges the state's cancel token, and calls `beginSubgroup` on the
  callback. Each later event goes to the `SubgroupConsumer` unless
  `isCancelled` says the subscription was unsubscribed. `onDatagram` delivers
  one object to the callback of the subscription it names.
* **Data plane (server).** `TrackPublisherImpl::beginSubgroup` and
  `objectStream` open a subgroup stream with its header. `datagram` sends a
  datagram.
* **Priority.** `getStreamPriority` packs the subscriber priority, publisher
  priority, group and subgroup into the 64-bit priority of a stream.
* **Drain and close.** `drain` asks the session to close once no request is
  open (`checkForCloseOnDrain`). `close` and `cleanup` fail every pending
  promise and release every state.

`src/moxygen/flv_parser/test/FlvTestUtils.h` is a test helper that manipulates
path strings. It has no state to model.

## Modules

| Module | Models | State | Actions |
|---|---|---|---|
| `PriorityEncoder` | `groupPriorityBits`, `subgroupPriorityBits`, `getStreamPriority` (lines 17-57), the priority use in `beginSubgroup` | `streams`: two open streams with their parameters | `OpenStream` with each choice of priorities, group, subgroup and order |
| `StreamPublisher` | `StreamPublisherImpl` (lines 470-760): both constructors, `object`, `beginObject`, `objectPayload`, `objectNotExists`, `groupNotExists`, `endOfGroup`, `endOfTrackAndGroup`, `endOfSubgroup`, `reset`, `onStopSending`, the `validate*` helpers and `writeToStream` | `sp`: one record with the writer's fields (`header_`, `currentLengthRemaining_`, `writeHandle_`, `streamComplete`) and what the transport received | one action for each interface method, plus a peer STOP_SENDING and a failing write |
| `SubscribeIdCredit` | What the subscribe-ID credit promises, without its counters: requests are accepted below the granted limit, each ended request returns one ID, and a grant never exceeds what was returned but must come once `Threshold` is owed | `limit`, `open`, `ended`, `closed` | `Accept`, `End`, `Close` |
| `MoQSession` | Two sessions, a client and a server, connected by ordered control channels and unordered fetch streams. It covers setup, subscribe/fetch/unsubscribe/fetchCancel and every handler of both, the credit window, the receive states, the publishers' `subscribeOk`/`subscribeDone`/`fetchOk`/`fetchError`, fetch streams (data, FIN, reset, STOP_SENDING), drain and close. It also covers `announce`, `subscribeAnnounces`, `unannounce`, their OK/ERROR on both sides, and the cleanup of the pending announce maps | client: `cSetup`, `cNext`, `cPeerMax`, `cSubs`, `cFetches`, `cDraining`, `cClosed`, `fut`, `consumerDone`; server: `sSetup`, `sMax`, `sConc`, `sClosedSubs`, `sPub`, `sUnsubs`, `sClosed`, `retired`, `finished`; announces: `cPend` (both pending maps, keyed by kind and namespace), `aCall`/`aFut`/`aBy` (each call, its future and the call whose answer fulfilled it), `sAnnReqs`, `unann`; network: `c2s`, `s2c`, `fs`; data plane: `ss` (one subgroup stream per subscription), `dlog` (what each consumer received), `unsubd`, `dgIn`/`dgSent`/`dgot` (datagrams in flight, sent, delivered) | `ClientStep` (application calls, message handlers, fetch stream reads) and `ServerStep` (message handlers, application answers, stream writes and resets, close). `AnnounceStep` holds the announce actions. `DataStep` holds `Unsubscribe`, the subgroup writer (`BeginSubgroup`, `ObjectStream`, `SubgroupWrite`, `SubgroupStopSending`), the reader (`ReadSubgroupHeader`, `ReadSubgroupNext`, `ReadSubgroupReset`, `SubgroupCancelled`) and the datagram actions |

Correspondences in `MoQSession`:

* One handler is one action, including everything it calls.
  - `OnFetchCancel` is the handler, the stream reset and `fetchComplete`,
    followed by `retireSubscribeId`.
  - `ServerEnds` is the erase from `pubTracks_`, the messages sent, and *n*
    calls of `retireSubscribeId` (RECURSIVE `RetireAt`, taken at the
    session's `maxConcurrentSubscribes_` as `Retire`).
* A message is a record on `c2s`/`s2c`, in send order. The write loop is folded
  into the send, because it writes the buffer in order and has no other effect
  on the state.
* `fut[id]` is the state of the application's future for request `id`:
  pending, ok, error or closed. `cSubs`/`cFetches` hold only what the code keeps
  in the maps: whether a callback is set.
* A fetch stream in `fs` has phases: opened, header written, FIN, reset. The
  client reads it in `ReadFetchHeader`, `ReadFetchEnd` and `ReadFetchReset`.
  These follow `ObjectStreamCallback`, including its early return when no
  header was parsed.
* Announce steps change only the announce variables and the channels. Every
  other step is wrapped in `Framed`, which keeps those variables unchanged.
  The exception is that a client close also runs `CleanupAnnounces`, the two
  loops of `cleanup()` over the pending maps.
* A second `announce` of a namespace that is already pending goes through
  `emplace` on an existing key. Whether the new promise is destroyed
  (BrokenPromise) or left unfulfilled depends on the map implementation, so
  the model chooses either outcome.
* A subgroup stream `ss[i]` is a sequence of events written by the server
  application: `begin` (the header), `obj`, `last` (an object sent with FIN),
  `end` (endOfGroup, endOfTrackAndGroup or endOfSubgroup) and `reset`. Its
  record also holds the writer's state (`srv`: open, fin or reset) and the
  reader's state (`hdr`, `got`, `sgcb` for `subgroupCallback_`, `cli`).
  `HeaderSent` says the header reached the wire: it is buffered until the
  first write, and a reset before that carries none.
* `Cb(i)` is the receive state's `callback_`, which the read loop holds even
  after `subTracks_` has erased the state. Only `unsubscribe()` clears it,
  and `unsubd` records that. `subscribeDone` erases the state but leaves the
  callback set. `Active(i)` is `isCancelled` negated.
* The lookups `getSubscribeTrackReceiveState` and
  `getFetchTrackReceiveState` are operators of the same names, shared by
  the header reads and `OnDatagram`. `StopUnlessFin` is the read loop's
  answer to an error: stopSending, unless the FIN came with the data.
* `DataIds` is the set of subscriptions on which the server sends data. Data
  steps change only the data variables, apart from `Unsubscribe`; every other
  step keeps them unchanged.
* The map in `PROJECT.json` names the lines of each definition.

Data is abstracted:

* Track names, payloads and extensions are absent.
* A payload is a byte length.
* Object and group IDs come from small sets.
* 64-bit priorities are kept exactly as three 21-bit digits, because TLC's
  integers are 32-bit. The 32-bit shift in `getStreamPriority` is kept as
  `% 2^32`.

## Runs

| Run | Expect | What it shows |
|---|---|---|
| `priority` | pass | Subscriber priority dominates publisher priority, which dominates group and subgroup. A lower subgroup is sent first. Checked over groups on both sides of 2^11. |
| `priority_group_order` | violation | Groups 2048 apart get the same priority, because `groupBits << 21` is a `uint32_t` shift (line 55). The comment promises that groups are ordered. |
| `writer` | pass | Covers every sequence of 4 calls on a subgroup or fetch writer, with write errors and STOP_SENDING. Object IDs on the wire increase and declared lengths are respected. On every end, the handle is released and completion is reported. Nothing is written after the stream ends. A fetch object is sent with the status it was published with. |
| `subgroup_status_leak` | violation | After `objectNotExists(id, fin=false)`, the next `object` is sent as OBJECT_NOT_EXIST, because `header_.status` is never reset (line 611). |
| `writer_after_end` | violation | A call after the stream has ended touches it again. `endOfSubgroup` writes through a null `writeHandle_` (line 702). A rejected fetch call resets the stream again and calls `onStreamComplete` a second time (line 718). |
| `session_safety` | pass | Covers fetches refused, cancelled and reset, either session closed, and the client running past its credit. A closed client has no pending future, a consumer gets at most one `onSubscribeDone`, and the server never closes with PROTOCOL_VIOLATION on a MAX_SUBSCRIBE_ID. A subgroup stream, written with any mix of objects, ends and resets and read while SUBSCRIBE_DONE, UNSUBSCRIBE and resets race it, reaches the consumer as written: in order, ending once, and complete once the FIN is read (`SubgroupRoundTrip`). After `unsubscribe`, no subgroup event or datagram is delivered (`NoDeliveryAfterUnsubscribe`). |
| `session_liveness` | pass | `retireSubscribeId` grants exactly the credit returned, below a threshold of up to 2, for windows 1 to 5 (`RetireGrantsReturnedCredit`). With normal endings, the credit window implements `SubscribeIdCredit` (`CreditRefinement`). Each finished request returns exactly one ID of credit, and the open requests never exceed `maxConcurrentSubscribes_`. Under fairness, every request resolves and every receive state is released. |
| `session_announce` | pass | Covers up to 3 announce and subscribeAnnounces calls, with write failures, answers in any order, UNANNOUNCE and closes. Each answer fulfils the request it answers. Under fairness every call resolves, and a close fails every pending call. |
| `session_duplicate_announce` | violation | A second `announce` of a namespace whose ANNOUNCE is pending is never resolved, not even by close (line 1851). The same holds for `subscribeAnnounces` (line 1902). |
| `session_double_retire` | violation | FETCH_CANCEL retires an ID that `fetchComplete` already retired, or whose request is still open (line 1689). The server then admits more concurrent requests than its limit. |
| `session_fetch_error_leak` | violation | `fetchError` never retires the ID (line 2214), so a refused FETCH permanently removes one ID of credit. |
| `session_reset_before_header` | violation | A fetch stream reset before its FETCH_HEADER is parsed leaves the `fetches_` entry in place permanently (line 1390), so a drained client never closes. |

Each property of a passing run has a mutant in `PROJECT.json`. A mutant is a
plausible bug in the modelled code, for example a missing reset, a dropped
guard, an off-by-one or a lost call. TLC finds the property violated for every
mutant.

## Bounds

* **MoQSession.**
  - `ClientMaxSubscribeId` and `ServerMaxSubscribeId` are 1 or 2, the smallest
    values for which the `/2` threshold matters. With 1 the threshold is 0, so
    every retirement sends a new limit. With 2, a retirement reaches the
    threshold and the limit moves. These windows never reach a threshold
    above 1, so a bump by one instead of `closedSubscribes_`, or a wrong
    rounding of `/2`, would not show in the session runs. A window of 4
    makes the liveness run too slow to finish in time. For that reason
    `RetireGrantsReturnedCredit` checks `RetireAt` by itself, for every
    window from 1 to 5, every `closedSubscribes_` below its threshold and
    1 to 4 retirements. It checks this against spec section 4.7: one ID is
    granted per retired request, less than the threshold stays owed, and
    the MAX_SUBSCRIBE_ID values written grow.
  - `MaxRequests` is 3 in the liveness run, so the third request needs the
    MAX_SUBSCRIBE_ID of the first retirement. It is 2 in the safety run, which
    also enables every failure path. With the server limit at 1, the second
    request can overrun the credit.
  - The feature flags (`ServerFetchErrors`, `ClientFetchCancels`,
    `ServerFetchResets`, `ServerCloses`) switch failure paths on or off, so
    each run asks its question without the paths that are known to break it.
    The violation runs enable exactly the path they are about.
  - The safety run sends data on subscription 0 only (`DataIds = {0}`), with
    up to 2 writes after the header (`MaxSubgroupWrites`) and 1 datagram
    (`MaxDatagrams`). Two writes are enough for an object followed by an end
    or a reset, which are the orders the round trip can get wrong. Data on
    both subscriptions multiplies the state space without adding a new
    interleaving, because the streams of two subscriptions share no state.
    The other runs set these bounds to 0.
  - The announce run has 3 calls and one namespace, so two calls of one kind
    meet on the same key. The application never repeats a pending namespace
    there. `session_duplicate_announce` lets it, with 2 calls. The other
    session runs set `MaxAnnounces` to 0, which keeps them small.
* **StreamPublisher.** Calls are capped at 4 (`MaxCalls`), enough for a
  begin/payload/end sequence around a failure or stop. There are 3 object IDs
  and lengths 0..2: 0 is the empty-object edge and 2 is a split payload.
* **PriorityEncoder.** Priorities include 0 and 255. Groups include 0, 7 and
  2048, which cross the 11-bit boundary.

Deadlock checking is off in the session and writer runs, because the
application's call budget ends every behaviour. Each cfg says so.

## Fairness

`FairSpec` assumes weak fairness on:

* delivery of control messages, because QUIC delivers a stream's bytes once
  the connection is up;
* the client's read of a fetch stream, because `unidirectionalReadLoop` keeps
  reading while the stream is open;
* the server application answering and ending each request, and answering
  each announce request.

The code relies on the application for the last one. `onSubscribe` hands the
request to the handler and never answers it itself; see the TODO there. No
fairness is assumed for client application calls, closes, cancels or resets.

## Not modelled

* `onAnnounceCancel` and `onUnsubscribeAnnounces`. `MoQSession` never sends
  their messages, and the handlers only enqueue or do nothing.
* Write errors of `announceOk`, `announceError` and `unannounce`. These are
  logged and then dropped, so the peer's request would stay pending.
* Parse errors in `onDatagram` and `ObjectStreamCallback`, and
  `onConnectionError`. These close the session or stop the stream, and
  depend only on the codec.
* More than one subgroup stream per subscription. Streams of one
  subscription share only the callback, and `subgroups_` only keeps the
  consumers alive. The object-level checks of the writer are in
  `StreamPublisher`.
* A faulty peer that reuses a subscribe ID (line 1522). The spec says a
  duplicate closes the session with PROTOCOL_VIOLATION. Instead, the code
  answers subscribeError, which retires the existing request's ID again.
* `subscribeUpdate` and `onSubscribeUpdate`. Their only effect is
  `setSubPriority` on the publisher, for subgroups it begins later (TODO at
  line 1552). Both were modelled, with a SUBSCRIBE_UPDATE message and a
  property that the publisher converges on the last priority asked for.
  They were then taken out again, because no run could check them within
  the five-minute budget:
  - in the safety run, one update did not finish in 15 minutes (5.2M states
    without it);
  - in the announce run, a subscription with two updates gave 5.2M states
    against 198k;
  - in the liveness run, one update gave 2.7M states against 267k.

  The project already has the maximum number of runs, so there was no room
  for a separate run.
* `trackStatus` and goaway. `onTrackStatusRequest`, `onTrackStatus` and
  `onGoaway` only enqueue the message for the application, and
  `MoQSession` has no method that sends them.
* A second control stream on the server (TODO at line 2262), which only a
  faulty peer opens.
* Write errors of the control write loop. The loop exits without closing
  the session (line 1005), so later requests stay pending. This is listed
  as a hazard, like the peer close below.
* The codec and the FLV test helper.
* The close path where the peer closes. `controlReadLoop` does not close the
  session when the control stream ends (TODO at line 1153), so a client whose
  server closed keeps its futures pending. This is listed as a hazard.
  `RequestsResolve` is checked only without server closes.

## Refinement

`SubscribeIdCredit` states what the credit window promises the peer.
`MoQSession` instantiates it with a refinement mapping from the server's
state:

* `limit` is `sMax`, or the initial window before setup;
* `open` is the domain of `sPub`;
* `ended` is `finished`;
* `closed` holds when the server has closed.

`Threshold` is `maxConcurrentSubscribes_/2`, or 1 when that is 0. The
liveness run checks `Credit!Spec` as a property. A late grant, where the bump
happens only after more than half the window is owed, violates it.

## Plan for later work

1. Several subgroup streams per subscription, and the parse-error paths.
   `subscribeUpdate` in a run of its own, if the run budget allows one.
2. A faulty peer that reuses subscribe IDs (line 1522), and the peer-close
   path once `controlReadLoop` closes the session.
3. A composition of `StreamPublisher` with the reader: the objects the reader
   delivers are those the writer accepted, in order.
