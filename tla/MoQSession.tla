---------------------------- MODULE MoQSession ----------------------------
(***************************************************************************)
(* The control plane of two MoQSession objects joined by one WebTransport  *)
(* session (MoQSession.cpp 862-2338): a client session C that subscribes   *)
(* and fetches, and a server session S that publishes.  Each handler of a  *)
(* control message, each call of an application on its session, and each  *)
(* step of the read loop of a FETCH data stream is one action.            *)
(*                                                                         *)
(* Control messages travel in order on the control stream (c2s, s2c).     *)
(* The controlWriteBuf_ and the write loop that drains it are folded into  *)
(* the channel: both preserve order and the loop always drains the buffer.*)
(* A FETCH response stream (fs) is a separate QUIC stream: it is not      *)
(* ordered with the control stream, and a reset may overtake its bytes.    *)
(* Once either side has closed, nothing more is delivered.                 *)
(*                                                                         *)
(* Requests are identified by their SubscribeID (TrackAlias = SubscribeID *)
(* in MoQSession::subscribe, so one map stands for subIdToTrackAlias_ and  *)
(* subTracks_).  Names, ranges, priorities and payloads are abstracted.   *)
(***************************************************************************)
EXTENDS Integers, Sequences, FiniteSets, Functions

SeqX == INSTANCE SequencesExt

CONSTANTS
  ClientMaxSubscribeId,  \* MAX_SUBSCRIBE_ID parameter of CLIENT_SETUP
  ServerMaxSubscribeId,  \* MAX_SUBSCRIBE_ID parameter of SERVER_SETUP
  MaxRequests,           \* bound on subscribe + fetch calls of the client
  RequestKinds,          \* subset of {"subscribe", "fetch"}
  ServerFetchErrors,     \* FETCH may be refused (range, app, no stream credit)
  ClientFetchCancels,    \* the client application may call fetchCancel
  ServerFetchResets,     \* the server application may reset a fetch stream
  ServerCloses,          \* the server application may close its session
  ClientRespectsCredit,  \* the client application waits for credit before
                         \* it subscribes or fetches
  Namespaces,            \* track namespaces (prefixes) the client announces
  AnnounceKinds,         \* subset of {"announce", "subscribeAnnounces"}
  MaxAnnounces,          \* bound on announce + subscribeAnnounces calls
  AppRepeatsPending,     \* the client application may repeat a request for
                         \* a namespace while its earlier one is pending
  MaxSubgroupWrites,     \* bound on the writes after beginSubgroup on the
                         \* subgroup stream of a subscription (0: no stream)
  MaxDatagrams,          \* bound on the datagrams of a subscription
  DataIds                \* the subscriptions whose publisher sends data

ASSUME ClientMaxSubscribeId \in Nat /\ ServerMaxSubscribeId \in Nat
ASSUME MaxRequests \in Nat /\ RequestKinds \subseteq {"subscribe", "fetch"}
ASSUME {ServerFetchErrors, ClientFetchCancels, ServerFetchResets,
        ServerCloses, ClientRespectsCredit, AppRepeatsPending} \subseteq BOOLEAN
ASSUME AnnounceKinds \subseteq {"announce", "subscribeAnnounces"}
ASSUME MaxAnnounces \in Nat
ASSUME MaxSubgroupWrites \in Nat /\ MaxDatagrams \in Nat

Ids == 0..(MaxRequests - 1)
ASSUME DataIds \subseteq Ids
Calls == 1..MaxAnnounces
Open == "open"

VARIABLES
  \* client session (subscriber)
  cSetup,        \* "init", "sent" (CLIENT_SETUP written) or "done"
  cNext,         \* nextSubscribeID_
  cPeerMax,      \* peerMaxSubscribeID_
  cSubs,         \* subTracks_: id -> the consumer callback is still set
  cFetches,      \* fetches_: id -> the fetch callback is still set
  cDraining,     \* draining_
  cClosed,       \* Open, or the SessionCloseErrorCode it closed with
  \* server session (publisher)
  sSetup,        \* setupComplete_
  sMax,          \* maxSubscribeID_
  sConc,         \* maxConcurrentSubscribes_
  sClosedSubs,   \* closedSubscribes_
  sPub,          \* pubTracks_: id -> [kind, phase]; a fetch publisher's
                 \* phase is "streaming" once beginFetch opened its stream
  sUnsubs,       \* UNSUBSCRIBEs enqueued to the server application
  sClosed,       \* Open, or the SessionCloseErrorCode it closed with
  \* transport
  c2s, s2c,      \* control stream, each direction
  fs,            \* FETCH data streams: id -> [srv, hdrSent, hdrRead, stop, cli]
  \* history
  fut,           \* id -> the request's promise ("none" before the call)
  consumerDone,  \* id -> subscribeDone calls on the client's TrackConsumer
  retired,       \* id -> retireSubscribeId calls made for it by the server
  finished,      \* ids whose request the server has ended or refused
  \* announce and subscribeAnnounces
  cPend,         \* pendingAnnounce_ and pendingSubscribeAnnounces_:
                 \* <<kind, namespace>> -> the call whose promise it holds
  sAnnReqs,      \* requests enqueued to the server application
  aNext,         \* number of announce calls made so far
  aCall,         \* call -> <<kind, namespace>> it asked for
  aFut,          \* call -> its result: "none", "pending", "ok", "error",
                 \* or "broken" (the promise was destroyed unfulfilled)
  aBy,           \* call -> the call whose answer resolved it (0: none)
  unann,         \* calls whose namespace the client has unannounced
  \* subscription data: subgroup streams and datagrams
  ss,            \* subgroup stream of a subscription: id -> [w, srv, stop,
                 \* hdr, got, sgcb, cli]; w is what the server wrote on it
  dlog,          \* id -> what the client's SubgroupConsumer received
  unsubd,        \* ids whose receive state was cancelled by unsubscribe()
  dgIn,          \* id -> datagrams in flight
  dgSent,        \* id -> datagrams sent
  dgot           \* id -> datagrams delivered to the TrackConsumer

cliVars == <<cSetup, cNext, cPeerMax, cSubs, cFetches, cDraining, cClosed>>
srvVars == <<sSetup, sMax, sConc, sClosedSubs, sPub, sUnsubs, sClosed>>
netVars == <<c2s, s2c, fs>>
histVars == <<fut, consumerDone, retired, finished>>
annVars == <<cPend, sAnnReqs, aNext, aCall, aFut, aBy, unann>>
dataVars == <<ss, dlog, unsubd, dgIn, dgSent, dgot>>
vars == <<cliVars, srvVars, netVars, histVars, annVars, dataVars>>

Msg(t, i) == [type |-> t, id |-> i]

\* Map helpers: add, drop and update an entry of a partial function.
Put(f, k, v) == [x \in DOMAIN f \cup {k} |-> IF x = k THEN v ELSE f[x]]
Drop(f, k) == Restrict(f, DOMAIN f \ {k})

Live == cClosed = Open /\ sClosed = Open
EmptyMap == [x \in {} |-> FALSE]

(***************************************************************************)
(* Client session: close, cleanup and checkForCloseOnDrain                 *)
(***************************************************************************)

\* Fault model: cleanup() without its loop over fetches_.
CloseClientNoFetchErrors(code, subs, fetches, f, cd) ==
  /\ cClosed' = code
  /\ cSubs' = EmptyMap
  /\ cFetches' = EmptyMap
  /\ fut' = [i \in Ids |->
              IF i \in DOMAIN subs /\ f[i] = "pending" THEN "error" ELSE f[i]]
  /\ consumerDone' = [i \in Ids |->
                       IF i \in DOMAIN subs /\ f[i] # "pending" /\ subs[i]
                       THEN cd[i] + 1 ELSE cd[i]]

\* close(code) -> cleanup() when a handler has left the receive states subs
\* and fetches, the promises f and the consumer calls cd: every pending
\* promise fails with "session closed"; a fulfilled subscribe delivers
\* subscribeDone(SESSION_CLOSED) to a consumer callback still set.
CloseClient(code, subs, fetches, f, cd) ==
  /\ cClosed' = code
  /\ cSubs' = EmptyMap
  /\ cFetches' = EmptyMap
  /\ fut' = [i \in Ids |->
              IF i \in DOMAIN subs \cup DOMAIN fetches /\ f[i] = "pending"
              THEN "error" ELSE f[i]]
  /\ consumerDone' = [i \in Ids |->
                       IF i \in DOMAIN subs /\ f[i] # "pending" /\ subs[i]
                       THEN cd[i] + 1 ELSE cd[i]]

\* The client's receive state after a handler, then checkForCloseOnDrain().
ClientAfter(subs, fetches, f, cd) ==
  IF cDraining /\ DOMAIN subs = {} /\ DOMAIN fetches = {}
  THEN CloseClient("NO_ERROR", subs, fetches, f, cd)
  ELSE /\ cSubs' = subs /\ cFetches' = fetches
       /\ fut' = f /\ consumerDone' = cd
       /\ UNCHANGED cClosed

\* Fault model: resetFetchCallback never erases the receive state.
ResetFetchCallbackNoErase(fetches, i) ==
  IF i \notin DOMAIN fetches THEN fetches ELSE [fetches EXCEPT ![i] = FALSE]

\* FetchTrackReceiveState::resetFetchCallback: clear the callback; erase the
\* state once the FETCH_OK promise is fulfilled too.
ResetFetchCallback(fetches, i) ==
  IF i \notin DOMAIN fetches THEN fetches
  ELSE IF fut[i] # "pending" THEN Drop(fetches, i)
  ELSE [fetches EXCEPT ![i] = FALSE]

(***************************************************************************)
(* Client application calls                                                *)
(***************************************************************************)

\* setup(): write CLIENT_SETUP and wait for SERVER_SETUP, with a timeout.
ClientSetup ==
  /\ cSetup = "init"
  /\ cSetup' = "sent"
  /\ c2s' = Append(c2s, Msg("CLIENT_SETUP", ClientMaxSubscribeId))
  /\ UNCHANGED <<cNext, cPeerMax, cSubs, cFetches, cDraining, cClosed,
                 srvVars, s2c, fs, histVars>>

\* The 5 s setup timeout fires before SERVER_SETUP was processed.
SetupTimeout ==
  /\ cSetup = "sent" /\ cClosed = Open
  /\ CloseClient("INTERNAL_ERROR", cSubs, cFetches, fut, consumerDone)
  /\ UNCHANGED <<cSetup, cNext, cPeerMax, cDraining, srvVars, netVars,
                 retired, finished>>

\* A new request: nextSubscribeID_++ (only a warning when it is not below
\* peerMaxSubscribeID_), the message written, the receive state added.
NewRequest ==
  /\ cSetup = "done" /\ cClosed = Open
  /\ cNext < MaxRequests
  /\ ClientRespectsCredit => cNext < cPeerMax
  /\ cNext' = cNext + 1
  /\ fut' = [fut EXCEPT ![cNext] = "pending"]
  /\ UNCHANGED <<cSetup, cPeerMax, cDraining, cClosed, srvVars, s2c, fs,
                 consumerDone, retired, finished>>

\* subscribe(sub, callback).
Subscribe ==
  /\ "subscribe" \in RequestKinds
  /\ NewRequest
  /\ c2s' = Append(c2s, Msg("SUBSCRIBE", cNext))
  /\ cSubs' = Put(cSubs, cNext, TRUE)
  /\ UNCHANGED cFetches

\* fetch(fetch, callback); the application may ask for end < start.
Fetch ==
  /\ "fetch" \in RequestKinds
  /\ NewRequest
  /\ \E rangeOk \in IF ServerFetchErrors THEN BOOLEAN ELSE {TRUE} :
       c2s' = Append(c2s, [type |-> "FETCH", id |-> cNext, rangeOk |-> rangeOk])
  /\ cFetches' = Put(cFetches, cNext, TRUE)
  /\ UNCHANGED cSubs

\* unsubscribe(): SubscribeTrackReceiveState::cancel clears the callback
\* (for the read loops that hold the state too) and cancels its token;
\* write UNSUBSCRIBE; the state stays until SUBSCRIBE_DONE.
Unsubscribe(i) ==
  /\ cClosed = Open
  /\ i \in DOMAIN cSubs /\ cSubs[i]
  /\ cSubs' = [cSubs EXCEPT ![i] = FALSE]
  /\ unsubd' = unsubd \cup {i}
  /\ c2s' = Append(c2s, Msg("UNSUBSCRIBE", i))
  /\ UNCHANGED <<cSetup, cNext, cPeerMax, cFetches, cDraining, cClosed,
                 srvVars, s2c, fs, histVars, annVars, ss, dlog, dgIn, dgSent,
                 dgot>>

\* fetchCancel(): FetchTrackReceiveState::cancel, write FETCH_CANCEL.
FetchCancel(i) ==
  /\ ClientFetchCancels /\ cClosed = Open
  /\ i \in DOMAIN cFetches /\ cFetches[i]
  /\ ClientAfter(cSubs, ResetFetchCallback(cFetches, i), fut, consumerDone)
  /\ c2s' = Append(c2s, Msg("FETCH_CANCEL", i))
  /\ UNCHANGED <<cSetup, cNext, cPeerMax, cDraining, srvVars, s2c, fs,
                 retired, finished>>

\* drain().
Drain ==
  /\ cClosed = Open /\ ~cDraining
  /\ cDraining' = TRUE
  /\ IF DOMAIN cSubs = {} /\ DOMAIN cFetches = {}
     THEN CloseClient("NO_ERROR", cSubs, cFetches, fut, consumerDone)
     ELSE UNCHANGED <<cSubs, cFetches, cClosed, fut, consumerDone>>
  /\ UNCHANGED <<cSetup, cNext, cPeerMax, srvVars, netVars, retired, finished>>

\* close(NO_ERROR) called by the client application.
ClientClose ==
  /\ cClosed = Open
  /\ CloseClient("NO_ERROR", cSubs, cFetches, fut, consumerDone)
  /\ UNCHANGED <<cSetup, cNext, cPeerMax, cDraining, srvVars, netVars,
                 retired, finished>>

(***************************************************************************)
(* Client control message handlers, fed from s2c by controlReadLoop        *)
(***************************************************************************)

\* onServerSetup: peerMaxSubscribeID_ from the setup parameter, then the
\* setup promise resumes setup(), which sets setupComplete_.
OnServerSetup(m) ==
  /\ cSetup = "sent"
  /\ cSetup' = "done" /\ cPeerMax' = m.id
  /\ UNCHANGED <<cNext, cSubs, cFetches, cDraining, cClosed, fut, consumerDone>>

OnSubscribeOk(m) ==
  /\ m.id \in DOMAIN cSubs
  /\ fut' = [fut EXCEPT ![m.id] = "ok"]
  /\ UNCHANGED <<cSetup, cNext, cPeerMax, cSubs, cFetches, cDraining, cClosed,
                 consumerDone>>

\* SubscribeTrackReceiveState::subscribeError: a pending promise fails; a
\* fulfilled one turns into subscribeDone to the consumer, if still set.
SubscribeErrorTo(i, f, cd) ==
  IF f[i] = "pending"
  THEN [f |-> [f EXCEPT ![i] = "error"], cd |-> cd]
  ELSE [f |-> f, cd |-> IF cSubs[i] THEN [cd EXCEPT ![i] = @ + 1] ELSE cd]

OnSubscribeError(m) ==
  /\ m.id \in DOMAIN cSubs
  /\ LET r == SubscribeErrorTo(m.id, fut, consumerDone)
     IN  ClientAfter(Drop(cSubs, m.id), cFetches, r.f, r.cd)
  /\ UNCHANGED <<cSetup, cNext, cPeerMax, cDraining>>

\* Fault model: SUBSCRIBE_DONE leaves the receive state in subTracks_.
onSubscribeDoneKeepsState(m) ==
  /\ m.id \in DOMAIN cSubs
  /\ ClientAfter(cSubs, cFetches, fut,
                 IF cSubs[m.id] THEN [consumerDone EXCEPT ![m.id] = @ + 1]
                 ELSE consumerDone)
  /\ UNCHANGED <<cSetup, cNext, cPeerMax, cDraining>>

\* onSubscribeDone: erase, then subscribeDone to the consumer unless
\* unsubscribe already removed the callback.
OnSubscribeDone(m) ==
  /\ m.id \in DOMAIN cSubs
  /\ ClientAfter(Drop(cSubs, m.id), cFetches, fut,
                 IF cSubs[m.id] THEN [consumerDone EXCEPT ![m.id] = @ + 1]
                 ELSE consumerDone)
  /\ UNCHANGED <<cSetup, cNext, cPeerMax, cDraining>>

\* onMaxSubscribeId: a value not above peerMaxSubscribeID_ closes the
\* session with PROTOCOL_VIOLATION.
OnMaxSubscribeId(m) ==
  \/ /\ m.id > cPeerMax
     /\ cPeerMax' = m.id
     /\ UNCHANGED <<cSetup, cNext, cSubs, cFetches, cDraining, cClosed, fut,
                    consumerDone>>
  \/ /\ m.id <= cPeerMax
     /\ CloseClient("PROTOCOL_VIOLATION", cSubs, cFetches, fut, consumerDone)
     /\ UNCHANGED <<cSetup, cNext, cPeerMax, cDraining>>

\* onFetchOk: fulfil the promise; erase once the stream has also ended.
OnFetchOk(m) ==
  /\ m.id \in DOMAIN cFetches
  /\ LET f == [fut EXCEPT ![m.id] = "ok"]
     IN  ClientAfter(cSubs,
                     IF cFetches[m.id] THEN cFetches ELSE Drop(cFetches, m.id),
                     f, consumerDone)
  /\ UNCHANGED <<cSetup, cNext, cPeerMax, cDraining>>

\* onFetchError: fail a pending promise, erase, checkForCloseOnDrain.
OnFetchError(m) ==
  /\ m.id \in DOMAIN cFetches
  /\ ClientAfter(cSubs, Drop(cFetches, m.id),
                 IF fut[m.id] = "pending" THEN [fut EXCEPT ![m.id] = "error"]
                 ELSE fut, consumerDone)
  /\ UNCHANGED <<cSetup, cNext, cPeerMax, cDraining>>

\* A message for an unknown id is logged and dropped.
UnknownId(m) ==
  /\ m.type \in {"SUBSCRIBE_OK", "SUBSCRIBE_ERROR", "SUBSCRIBE_DONE",
                  "FETCH_OK", "FETCH_ERROR"}
  /\ m.id \notin (IF m.type \in {"FETCH_OK", "FETCH_ERROR"}
                   THEN DOMAIN cFetches ELSE DOMAIN cSubs)
  /\ UNCHANGED <<cliVars, fut, consumerDone>>

\* controlReadLoop of the client: the next message of s2c is decoded and
\* dispatched.
ClientReceive ==
  /\ Live /\ s2c # <<>>
  /\ s2c' = Tail(s2c)
  /\ LET m == Head(s2c) IN
       \/ m.type = "SERVER_SETUP" /\ OnServerSetup(m)
       \/ m.type = "SUBSCRIBE_OK" /\ OnSubscribeOk(m)
       \/ m.type = "SUBSCRIBE_ERROR" /\ OnSubscribeError(m)
       \/ m.type = "SUBSCRIBE_DONE" /\ OnSubscribeDone(m)
       \/ m.type = "MAX_SUBSCRIBE_ID" /\ OnMaxSubscribeId(m)
       \/ m.type = "FETCH_OK" /\ OnFetchOk(m)
       \/ m.type = "FETCH_ERROR" /\ OnFetchError(m)
       \/ UnknownId(m)
  /\ UNCHANGED <<srvVars, c2s, fs, retired, finished>>

(***************************************************************************)
(* Client read loop of a FETCH data stream (unidirectionalReadLoop with    *)
(* its ObjectStreamCallback); objects and their payloads are abstracted.   *)
(***************************************************************************)

\* getSubscribeTrackReceiveState and getFetchTrackReceiveState: the
\* receive state is found while it is in subTracks_ or fetches_.
getSubscribeTrackReceiveState(i) == i \in DOMAIN cSubs
getFetchTrackReceiveState(i) == i \in DOMAIN cFetches

Reading(i) == Live /\ i \in DOMAIN fs /\ fs[i].cli = "reading"

\* onFetchHeader: look up fetches_; an unknown id is an error, and the loop
\* answers it with stopSending and exits.
ReadFetchHeader(i) ==
  /\ Reading(i) /\ fs[i].hdrSent /\ ~fs[i].hdrRead
  /\ fs' = IF getFetchTrackReceiveState(i)
           THEN [fs EXCEPT ![i].hdrRead = TRUE]
           ELSE [fs EXCEPT ![i].stop = "sent", ![i].cli = "done"]
  /\ UNCHANGED <<cliVars, srvVars, c2s, s2c, histVars>>

\* onEndOfStream: endOfFetch to a callback still set, then
\* resetFetchCallback; nothing when the fetch was cancelled.
ReadFetchEnd(i) ==
  /\ Reading(i) /\ fs[i].hdrRead /\ fs[i].srv = "fin"
  /\ fs' = [fs EXCEPT ![i].cli = "done"]
  /\ IF i \in DOMAIN cFetches /\ cFetches[i]
     THEN ClientAfter(cSubs, ResetFetchCallback(cFetches, i), fut, consumerDone)
     ELSE UNCHANGED <<cSubs, cFetches, cClosed, fut, consumerDone>>
  /\ UNCHANGED <<cSetup, cNext, cPeerMax, cDraining, srvVars, c2s, s2c,
                 retired, finished>>

\* A read error (RESET_STREAM): ObjectStreamCallback::reset returns false,
\* and does nothing, when no FETCH_HEADER was parsed; otherwise it resets
\* the consumer and calls resetFetchCallback.
ReadFetchReset(i) ==
  /\ Reading(i) /\ fs[i].srv = "reset"
  /\ fs' = [fs EXCEPT ![i].cli = "done"]
  /\ IF fs[i].hdrRead
     THEN ClientAfter(cSubs, ResetFetchCallback(cFetches, i), fut, consumerDone)
     ELSE UNCHANGED <<cSubs, cFetches, cClosed, fut, consumerDone>>
  /\ UNCHANGED <<cSetup, cNext, cPeerMax, cDraining, srvVars, c2s, s2c,
                 retired, finished>>

(***************************************************************************)
(* Server session: subscribe ID credit                                     *)
(***************************************************************************)

\* Fault model: closedSubscribes_ is not reset after the bump.
RECURSIVE RetireNoReset(_, _)
RetireNoReset(st, n) ==
  IF n = 0 THEN st
  ELSE LET closed == st.closed + 1
       IN  RetireNoReset(IF closed >= sConc \div 2
                  THEN [max |-> st.max + closed, closed |-> closed,
                        out |-> Append(st.out, Msg("MAX_SUBSCRIBE_ID", st.max + closed))]
                  ELSE [st EXCEPT !.closed = closed], n - 1)

\* Fault model: MAX_SUBSCRIBE_ID is written before maxSubscribeID_ grows.
RECURSIVE RetireSendsOld(_, _)
RetireSendsOld(st, n) ==
  IF n = 0 THEN st
  ELSE LET closed == st.closed + 1
       IN  RetireSendsOld(IF closed >= sConc \div 2
                  THEN [max |-> st.max + closed, closed |-> 0,
                        out |-> Append(st.out, Msg("MAX_SUBSCRIBE_ID", st.max))]
                  ELSE [st EXCEPT !.closed = closed], n - 1)

\* Fault model: the bump waits for closedSubscribes_ to pass the threshold.
RECURSIVE RetireLateBump(_, _)
RetireLateBump(st, n) ==
  IF n = 0 THEN st
  ELSE LET closed == st.closed + 1
       IN  RetireLateBump(IF closed > sConc \div 2
                  THEN [max |-> st.max + closed, closed |-> 0,
                        out |-> Append(st.out, Msg("MAX_SUBSCRIBE_ID", st.max + closed))]
                  ELSE [st EXCEPT !.closed = closed], n - 1)

\* Fault model: maxSubscribeID_ grows by one instead of closedSubscribes_.
RECURSIVE RetireAtBumpOne(_, _, _)
RetireAtBumpOne(st, n, conc) ==
  IF n = 0 THEN st
  ELSE LET closed == st.closed + 1
       IN  RetireAtBumpOne(IF closed >= conc \div 2
                  THEN [max |-> st.max + 1, closed |-> 0,
                        out |-> Append(st.out, Msg("MAX_SUBSCRIBE_ID", st.max + 1))]
                  ELSE [st EXCEPT !.closed = closed], n - 1, conc)

\* retireSubscribeId applied n times to the credit [max, closed] of a
\* session with maxConcurrentSubscribes_ = conc, with the MAX_SUBSCRIBE_ID
\* messages it writes in out.
RECURSIVE RetireAt(_, _, _)
RetireAt(st, n, conc) ==
  IF n = 0 THEN st
  ELSE LET closed == st.closed + 1
       IN  RetireAt(IF closed >= conc \div 2
                  THEN [max |-> st.max + closed, closed |-> 0,
                        out |-> Append(st.out, Msg("MAX_SUBSCRIBE_ID", st.max + closed))]
                  ELSE [st EXCEPT !.closed = closed], n - 1, conc)

\* retireSubscribeId of this server session.
Retire(st, n) == RetireAt(st, n, sConc)

\* Server state after writing msgs on the control stream and retiring the
\* id i n times; the publisher entry of i is erased.
ServerEnds(i, msgs, n) ==
  LET r == Retire([max |-> sMax, closed |-> sClosedSubs, out |-> <<>>], n)
  IN  /\ sPub' = Drop(sPub, i)
      /\ sMax' = r.max /\ sClosedSubs' = r.closed
      /\ s2c' = s2c \o msgs \o r.out
      /\ retired' = [retired EXCEPT ![i] = @ + n]
      /\ finished' = finished \cup {i}

\* retireSubscribeId without erasing the publisher entry.
RetireOnly(i) ==
  LET r == Retire([max |-> sMax, closed |-> sClosedSubs, out |-> <<>>], 1)
  IN  /\ sMax' = r.max /\ sClosedSubs' = r.closed
      /\ s2c' = s2c \o r.out
      /\ retired' = [retired EXCEPT ![i] = @ + 1]
      /\ UNCHANGED <<sPub, finished>>

Streaming(i) == i \in DOMAIN sPub /\ sPub[i] = [kind |-> "fetch", phase |-> "streaming"]
Requested(i, k) == i \in DOMAIN sPub /\ sPub[i] = [kind |-> k, phase |-> "requested"]

\* close(code) of the server: cleanup() resets every publisher.  A fetch
\* stream still open is reset; TrackPublisherImpl::reset is a no-op.  The
\* MAX_SUBSCRIBE_ID that fetchComplete then writes is never sent: the write
\* loop is cancelled.
CloseServer(code) ==
  /\ sClosed' = code
  /\ sPub' = EmptyMap
  /\ fs' = [i \in DOMAIN fs |->
             IF Streaming(i) THEN [fs[i] EXCEPT !.srv = "reset"] ELSE fs[i]]
  /\ UNCHANGED <<sSetup, sMax, sConc, sClosedSubs, sUnsubs, s2c>>

(***************************************************************************)
(* Server control message handlers, fed from c2s by controlReadLoop        *)
(***************************************************************************)

\* onClientSetup: the server application's setup callback answers with the
\* server's MAX_SUBSCRIBE_ID, which becomes maxSubscribeID_ and
\* maxConcurrentSubscribes_.
OnClientSetup(m) ==
  /\ sSetup' = TRUE
  /\ sMax' = ServerMaxSubscribeId /\ sConc' = ServerMaxSubscribeId
  /\ s2c' = Append(s2c, Msg("SERVER_SETUP", ServerMaxSubscribeId))
  /\ UNCHANGED <<sClosedSubs, sPub, sUnsubs, sClosed, fs, retired, finished>>

\* closeSessionIfSubscribeIdInvalid: maxSubscribeID_ <= id closes the
\* session with TOO_MANY_SUBSCRIBES.
IdInvalid(m) ==
  /\ sMax <= m.id
  /\ CloseServer("TOO_MANY_SUBSCRIBES")
  /\ UNCHANGED <<retired, finished>>

OnSubscribe(m) ==
  \/ IdInvalid(m)
  \/ /\ sMax > m.id
     /\ sPub' = Put(sPub, m.id, [kind |-> "sub", phase |-> "requested"])
     /\ UNCHANGED <<sSetup, sMax, sConc, sClosedSubs, sUnsubs, sClosed, s2c,
                    fs, retired, finished>>

\* onFetch: end < start is refused with fetchError(INVALID_RANGE).
OnFetch(m) ==
  \/ IdInvalid(m)
  \/ /\ sMax > m.id /\ ~m.rangeOk
     /\ s2c' = Append(s2c, Msg("FETCH_ERROR", m.id))
     /\ finished' = finished \cup {m.id}
     /\ UNCHANGED <<sSetup, sMax, sConc, sClosedSubs, sPub, sUnsubs, sClosed,
                    fs, retired>>
  \/ /\ sMax > m.id /\ m.rangeOk
     /\ sPub' = Put(sPub, m.id, [kind |-> "fetch", phase |-> "requested"])
     /\ UNCHANGED <<sSetup, sMax, sConc, sClosedSubs, sUnsubs, sClosed, s2c,
                    fs, retired, finished>>

\* onUnsubscribe: only enqueued to the server application.
OnUnsubscribe(m) ==
  /\ sUnsubs' = sUnsubs \cup {m.id}
  /\ UNCHANGED <<sSetup, sMax, sConc, sClosedSubs, sPub, sClosed, s2c, fs,
                 retired, finished>>

\* onFetchCancel: reset the publisher, then retireSubscribeId.  Resetting an
\* open stream completes it, and FetchPublisherImpl::onStreamComplete ->
\* fetchComplete erases the entry and retires the id as well.
OnFetchCancel(m) ==
  LET i == m.id IN
  \/ /\ Streaming(i)
     /\ fs' = [fs EXCEPT ![i].srv = "reset"]
     /\ ServerEnds(i, <<>>, 2)
     /\ UNCHANGED <<sSetup, sConc, sUnsubs, sClosed>>
  \/ /\ i \in DOMAIN sPub /\ ~Streaming(i)
     /\ RetireOnly(i)
     /\ UNCHANGED <<sSetup, sConc, sUnsubs, sClosed, fs>>
  \/ /\ i \notin DOMAIN sPub
     /\ UNCHANGED <<srvVars, s2c, fs, retired, finished>>

\* controlReadLoop of the server.
ServerReceive ==
  /\ Live /\ c2s # <<>>
  /\ c2s' = Tail(c2s)
  /\ LET m == Head(c2s) IN
       \/ m.type = "CLIENT_SETUP" /\ OnClientSetup(m)
       \/ m.type = "SUBSCRIBE" /\ OnSubscribe(m)
       \/ m.type = "FETCH" /\ OnFetch(m)
       \/ m.type = "UNSUBSCRIBE" /\ OnUnsubscribe(m)
       \/ m.type = "FETCH_CANCEL" /\ OnFetchCancel(m)
  /\ UNCHANGED <<cliVars, fut, consumerDone>>

(***************************************************************************)
(* Server application calls                                                *)
(***************************************************************************)

SrvApp == sClosed = Open

\* subscribeOk: write SUBSCRIBE_OK, hand the TrackPublisherImpl to the app.
SubscribeOkCall(i) ==
  /\ SrvApp /\ Requested(i, "sub")
  /\ sPub' = [sPub EXCEPT ![i].phase = "ok"]
  /\ s2c' = Append(s2c, Msg("SUBSCRIBE_OK", i))
  /\ UNCHANGED <<cliVars, c2s, fs, histVars, sSetup, sMax, sConc, sClosedSubs,
                 sUnsubs, sClosed>>

\* subscribeError: erase, write SUBSCRIBE_ERROR, retireSubscribeId.
SubscribeErrorCall(i) ==
  /\ SrvApp /\ Requested(i, "sub")
  /\ ServerEnds(i, <<Msg("SUBSCRIBE_ERROR", i)>>, 1)
  /\ sUnsubs' = sUnsubs \ {i}
  /\ UNCHANGED <<cliVars, c2s, fs, fut, consumerDone, sSetup, sConc, sClosed>>

\* Fault model: subscribeDone does not retire the id.
SubscribeDoneCallNoRetire(i) ==
  /\ SrvApp /\ i \in DOMAIN sPub /\ sPub[i] = [kind |-> "sub", phase |-> "ok"]
  /\ ServerEnds(i, <<Msg("SUBSCRIBE_DONE", i)>>, 0)
  /\ sUnsubs' = sUnsubs \ {i}
  /\ UNCHANGED <<cliVars, c2s, fs, fut, consumerDone, sSetup, sConc, sClosed>>

\* TrackPublisherImpl::subscribeDone -> MoQSession::subscribeDone: erase,
\* write SUBSCRIBE_DONE, retireSubscribeId.
SubscribeDoneCall(i) ==
  /\ SrvApp /\ i \in DOMAIN sPub /\ sPub[i] = [kind |-> "sub", phase |-> "ok"]
  /\ ServerEnds(i, <<Msg("SUBSCRIBE_DONE", i)>>, 1)
  /\ sUnsubs' = sUnsubs \ {i}
  /\ UNCHANGED <<cliVars, c2s, fs, fut, consumerDone, sSetup, sConc, sClosed>>

\* fetchError: erase the publisher (if any) and write FETCH_ERROR; the id
\* is not retired.
FetchErrorBody(i) ==
  /\ sPub' = Drop(sPub, i)
  /\ s2c' = Append(s2c, Msg("FETCH_ERROR", i))
  /\ finished' = finished \cup {i}
  /\ UNCHANGED <<sMax, sClosedSubs, retired, fs>>

\* Fault model: the publisher is marked like a subscription's ("ok").
FetchOkCallPhaseOk(i) ==
  /\ SrvApp /\ Requested(i, "fetch")
  /\ sPub' = [sPub EXCEPT ![i].phase = "ok"]
  /\ fs' = Put(fs, i, [srv |-> "open", hdrSent |-> FALSE, hdrRead |-> FALSE,
                       stop |-> "none", cli |-> "reading"])
  /\ s2c' = Append(s2c, Msg("FETCH_OK", i))
  /\ UNCHANGED <<cliVars, c2s, fut, consumerDone, sSetup, sConc, sUnsubs,
                 sClosed, sMax, sClosedSubs, retired, finished>>

\* Fault model: fetchOk returns before writing FETCH_OK.
FetchOkCallNoOk(i) ==
  /\ SrvApp /\ Requested(i, "fetch")
  /\ sPub' = [sPub EXCEPT ![i].phase = "streaming"]
  /\ fs' = Put(fs, i, [srv |-> "open", hdrSent |-> FALSE, hdrRead |-> FALSE,
                       stop |-> "none", cli |-> "reading"])
  /\ UNCHANGED <<cliVars, c2s, s2c, fut, consumerDone, sSetup, sConc, sUnsubs,
                 sClosed, sMax, sClosedSubs, retired, finished>>

\* fetchOk: beginFetch opens the fetch stream, then FETCH_OK is written.
\* When createUniStream fails (BLOCKED), fetchOk calls fetchError.
FetchOkCall(i) ==
  /\ SrvApp /\ Requested(i, "fetch")
  /\ \/ /\ sPub' = [sPub EXCEPT ![i].phase = "streaming"]
        /\ fs' = Put(fs, i, [srv |-> "open", hdrSent |-> FALSE,
                             hdrRead |-> FALSE, stop |-> "none",
                             cli |-> "reading"])
        /\ s2c' = Append(s2c, Msg("FETCH_OK", i))
        /\ UNCHANGED <<sMax, sClosedSubs, retired, finished>>
     \/ ServerFetchErrors /\ FetchErrorBody(i)
  /\ UNCHANGED <<cliVars, c2s, fut, consumerDone, sSetup, sConc, sUnsubs,
                 sClosed>>

\* fetchError called by the application instead of fetchOk.
FetchErrorCall(i) ==
  /\ SrvApp /\ ServerFetchErrors /\ Requested(i, "fetch")
  /\ FetchErrorBody(i)
  /\ UNCHANGED <<cliVars, c2s, fut, consumerDone, sSetup, sConc, sUnsubs,
                 sClosed>>

\* The first object on the fetch stream flushes the FETCH_HEADER.
FetchWrite(i) ==
  /\ SrvApp /\ Streaming(i) /\ fs[i].srv = "open" /\ ~fs[i].hdrSent
  /\ fs' = [fs EXCEPT ![i].hdrSent = TRUE]
  /\ UNCHANGED <<cliVars, srvVars, c2s, s2c, histVars>>

\* endOfFetch: FIN on the stream; onStreamComplete -> fetchComplete erases
\* the publisher and retires the id.
FetchEnd(i) ==
  /\ SrvApp /\ Streaming(i) /\ fs[i].srv = "open"
  /\ fs' = [fs EXCEPT ![i].srv = "fin", ![i].hdrSent = TRUE]
  /\ ServerEnds(i, <<>>, 1)
  /\ UNCHANGED <<cliVars, c2s, fut, consumerDone, sSetup, sConc, sUnsubs,
                 sClosed>>

\* StreamPublisherImpl::reset with the handle open: RESET_STREAM, then
\* fetchComplete.  Called by the application, or on STOP_SENDING.
ResetFetchStream(i, stop) ==
  /\ fs' = [fs EXCEPT ![i].srv = "reset", ![i].stop = stop]
  /\ ServerEnds(i, <<>>, 1)
  /\ UNCHANGED <<cliVars, c2s, fut, consumerDone, sSetup, sConc, sUnsubs,
                 sClosed>>

FetchReset(i) ==
  /\ SrvApp /\ ServerFetchResets /\ Streaming(i) /\ fs[i].srv = "open"
  /\ ResetFetchStream(i, fs[i].stop)

\* The STOP_SENDING cancellation callback of the fetch stream.
OnStopSending(i) ==
  /\ SrvApp /\ i \in DOMAIN fs /\ fs[i].stop = "sent"
  /\ IF fs[i].srv = "open"
     THEN ResetFetchStream(i, "done")
     ELSE /\ fs' = [fs EXCEPT ![i].stop = "done"]
          /\ UNCHANGED <<cliVars, srvVars, c2s, s2c, histVars>>

ServerClose ==
  /\ SrvApp /\ ServerCloses
  /\ CloseServer("NO_ERROR")
  /\ UNCHANGED <<cliVars, c2s, histVars>>

(***************************************************************************)
(* Announce and subscribeAnnounces: the client application asks, the      *)
(* server application answers.  A request of kind k travels as a REQUEST  *)
(* (ANNOUNCE or SUBSCRIBE_ANNOUNCES), its answers as OK and ERROR          *)
(* (ANNOUNCE_OK/_ERROR, SUBSCRIBE_ANNOUNCES_OK/_ERROR), and unannounce as  *)
(* WITHDRAW (UNANNOUNCE).  The code matches an answer to its request by    *)
(* namespace only; the call number in a message is history for the        *)
(* properties.                                                             *)
(***************************************************************************)

AnnMsg(t, k, ns, c) == [type |-> t, kind |-> k, ns |-> ns, call |-> c]

PendingCall(k, ns) ==
  \E c \in 1..aNext : aCall[c] = <<k, ns>> /\ aFut[c] = "pending"

\* Fault model: cleanup() clears the pending maps without failing the
\* promises in them.
CleanupAnnouncesNoError ==
  IF cClosed = Open /\ cClosed' # Open
  THEN /\ cPend' = [key \in {} |-> 0]
       /\ UNCHANGED aFut
  ELSE UNCHANGED <<cPend, aFut>>

\* The loops of cleanup() over pendingAnnounce_ and
\* pendingSubscribeAnnounces_: every promise in the maps fails with
\* "session closed" and the maps are cleared.  They run in every close of
\* the client session.
CleanupAnnounces ==
  IF cClosed = Open /\ cClosed' # Open
  THEN /\ aFut' = [c \in Calls |->
                    IF \E key \in DOMAIN cPend : cPend[key] = c THEN "error"
                    ELSE aFut[c]]
       /\ cPend' = [key \in {} |-> 0]
  ELSE UNCHANGED <<cPend, aFut>>

\* announce(ann) and subscribeAnnounces(sa): write the request; a failed
\* write returns an error ("local write failed") at once.  Otherwise the
\* promise is emplaced under the namespace.  When the map already holds a
\* promise for it, emplace keeps the old one, and the new promise is either
\* destroyed unfulfilled (the awaiting call ends in BrokenPromise) or left
\* in the coroutine frame, never to be fulfilled; which one depends on
\* whether the map builds its node before the lookup.
AnnounceCall(k, ns) ==
  /\ k \in AnnounceKinds
  /\ cSetup = "done" /\ cClosed = Open /\ aNext < MaxAnnounces
  /\ AppRepeatsPending \/ ~PendingCall(k, ns)
  /\ LET c == aNext + 1 IN
     /\ aNext' = c
     /\ aCall' = [aCall EXCEPT ![c] = <<k, ns>>]
     /\ \/ /\ aFut' = [aFut EXCEPT ![c] = "error"]
           /\ UNCHANGED <<c2s, cPend>>
        \/ /\ c2s' = Append(c2s, AnnMsg("REQUEST", k, ns, c))
           /\ IF <<k, ns>> \in DOMAIN cPend
              THEN /\ \E out \in {"broken", "pending"} :
                        aFut' = [aFut EXCEPT ![c] = out]
                   /\ UNCHANGED cPend
              ELSE /\ cPend' = Put(cPend, <<k, ns>>, c)
                   /\ aFut' = [aFut EXCEPT ![c] = "pending"]
  /\ UNCHANGED <<cliVars, srvVars, s2c, fs, histVars, sAnnReqs, aBy, unann>>

\* unannounce(unann) of a namespace the peer accepted: UNANNOUNCE is
\* written (a write error is only logged); nothing else changes.
Unannounce(c) ==
  /\ cClosed = Open /\ c \in 1..aNext /\ c \notin unann
  /\ aCall[c][1] = "announce" /\ aFut[c] = "ok"
  /\ c2s' = Append(c2s, AnnMsg("WITHDRAW", "announce", aCall[c][2], c))
  /\ unann' = unann \cup {c}
  /\ UNCHANGED <<cliVars, srvVars, s2c, fs, histVars, cPend, sAnnReqs, aNext,
                 aCall, aFut, aBy>>

\* Fault model: the answer erases the map entry without fulfilling the
\* promise.
OnAnnounceReplyNoValue(m) ==
  IF <<m.kind, m.ns>> \in DOMAIN cPend
  THEN /\ cPend' = Drop(cPend, <<m.kind, m.ns>>)
       /\ UNCHANGED <<aFut, aBy>>
  ELSE UNCHANGED <<cPend, aFut, aBy>>

\* Fault model: the answer fulfils the promise but leaves the map entry.
OnAnnounceReplyKeepsEntry(m) ==
  /\ <<m.kind, m.ns>> \in DOMAIN cPend
  /\ LET c == cPend[<<m.kind, m.ns>>] IN
       /\ aFut' = [aFut EXCEPT ![c] = IF m.type = "OK" THEN "ok" ELSE "error"]
       /\ aBy' = [aBy EXCEPT ![c] = m.call]
  /\ UNCHANGED cPend

\* onAnnounceOk, onAnnounceError, onSubscribeAnnouncesOk and
\* onSubscribeAnnouncesError: find the namespace in the pending map, fulfil
\* the promise with the answer and erase the entry; an unknown namespace
\* is logged and dropped.
OnAnnounceReply(m) ==
  IF <<m.kind, m.ns>> \in DOMAIN cPend
  THEN LET c == cPend[<<m.kind, m.ns>>] IN
       /\ aFut' = [aFut EXCEPT ![c] = IF m.type = "OK" THEN "ok" ELSE "error"]
       /\ aBy' = [aBy EXCEPT ![c] = m.call]
       /\ cPend' = Drop(cPend, <<m.kind, m.ns>>)
  ELSE UNCHANGED <<cPend, aFut, aBy>>

\* controlReadLoop of the client, for an answer to an announce request.
ClientReceiveAnnounce ==
  /\ Live /\ s2c # <<>> /\ Head(s2c).type \in {"OK", "ERROR"}
  /\ s2c' = Tail(s2c)
  /\ OnAnnounceReply(Head(s2c))
  /\ UNCHANGED <<cliVars, srvVars, c2s, fs, histVars, sAnnReqs, aNext, aCall,
                 unann>>

\* controlReadLoop of the server: onAnnounce and onSubscribeAnnounces
\* enqueue the request to the server application (controlMessages_);
\* onUnannounce enqueues the UNANNOUNCE, which asks for no answer.
ServerReceiveAnnounce ==
  /\ Live /\ c2s # <<>> /\ Head(c2s).type \in {"REQUEST", "WITHDRAW"}
  /\ c2s' = Tail(c2s)
  /\ sAnnReqs' = IF Head(c2s).type = "REQUEST" THEN sAnnReqs \cup {Head(c2s)}
                 ELSE sAnnReqs
  /\ UNCHANGED <<cliVars, srvVars, s2c, fs, histVars, cPend, aNext, aCall,
                 aFut, aBy, unann>>

\* announceOk / announceError and subscribeAnnouncesOk / _Error of the
\* server application: the answer is written on the control stream.
AnnounceReplyCall(m, ok) ==
  /\ SrvApp /\ m \in sAnnReqs
  /\ s2c' = Append(s2c, AnnMsg(IF ok THEN "OK" ELSE "ERROR", m.kind, m.ns, m.call))
  /\ sAnnReqs' = sAnnReqs \ {m}
  /\ UNCHANGED <<cliVars, srvVars, c2s, fs, histVars, cPend, aNext, aCall,
                 aFut, aBy, unann>>

AnnounceStep ==
  \/ \E k \in AnnounceKinds, ns \in Namespaces : AnnounceCall(k, ns)
  \/ \E c \in Calls : Unannounce(c)
  \/ ClientReceiveAnnounce \/ ServerReceiveAnnounce
  \/ \E m \in sAnnReqs, ok \in BOOLEAN : AnnounceReplyCall(m, ok)

(***************************************************************************)
(* Subscription data: the subgroup streams and datagrams of a             *)
(* TrackPublisherImpl, and their reading by unidirectionalReadLoop with   *)
(* ObjectStreamCallback and by onDatagram.  A subscription has at most    *)
(* one subgroup stream.  What the server writes on it is a sequence of    *)
(* events: "begin" (the SUBGROUP_HEADER), "obj" (an object), "last" (an   *)
(* object or status that ends the subgroup, sent with FIN), "end"         *)
(* (endOfSubgroup: FIN alone) and "reset" (RESET_STREAM).  What the       *)
(* client's consumer receives is written in the same words.  The objects' *)
(* ids, statuses and lengths are checked in StreamPublisher.              *)
(***************************************************************************)

\* The publisher handed to the application by subscribeOk, with its
\* session_ still set (subscribeDone clears it, and beginSubgroup and
\* datagram then fail with API_ERROR).
Publishing(i) ==
  SrvApp /\ i \in DataIds /\ i \in DOMAIN sPub /\ sPub[i] = [kind |-> "sub", phase |-> "ok"]

NewStream(w, srv) ==
  [w |-> w, srv |-> srv, stop |-> FALSE, hdr |-> FALSE, got |-> 1,
   sgcb |-> FALSE, cli |-> "reading"]

\* TrackPublisherImpl::beginSubgroup: createUniStream (BLOCKED when it
\* fails, with nothing changed) and a StreamPublisherImpl with the header.
BeginSubgroup(i) ==
  /\ Publishing(i) /\ i \notin DOMAIN ss /\ MaxSubgroupWrites > 0
  /\ ss' = Put(ss, i, NewStream(<<"begin">>, "open"))

\* objectStream and groupNotExists: beginSubgroup and one object or
\* status with FIN.
ObjectStream(i) ==
  /\ Publishing(i) /\ i \notin DOMAIN ss /\ MaxSubgroupWrites > 0
  /\ ss' = Put(ss, i, NewStream(<<"begin", "last">>, "fin"))

\* A call of the application on the SubgroupConsumer, which keeps its
\* write handle after subscribeDone: object, endOfGroup and the other
\* ends, endOfSubgroup, reset.
SubgroupWrite(i, e) ==
  /\ SrvApp /\ i \in DOMAIN ss /\ ss[i].srv = "open"
  /\ Len(ss[i].w) <= MaxSubgroupWrites
  /\ ss' = [ss EXCEPT ![i].w = Append(@, e),
                      ![i].srv = CASE e \in {"last", "end"} -> "fin"
                                   [] e = "reset" -> "reset"
                                   [] OTHER -> "open"]

\* StreamPublisherImpl::onStopSending on an open subgroup stream: reset.
SubgroupStopSending(i) ==
  /\ SrvApp /\ i \in DOMAIN ss /\ ss[i].stop /\ ss[i].srv = "open"
  /\ ss' = [ss EXCEPT ![i].w = Append(@, "reset"), ![i].srv = "reset"]

\* TrackPublisherImpl::datagram: sendDatagram; the datagram may be lost.
SendDatagram(i) ==
  /\ Publishing(i) /\ dgSent[i] < MaxDatagrams
  /\ dgSent' = [dgSent EXCEPT ![i] = @ + 1]
  /\ dgIn' = [dgIn EXCEPT ![i] = @ + 1]
  /\ UNCHANGED dgot

LoseDatagram(i) ==
  /\ dgIn[i] > 0
  /\ dgIn' = [dgIn EXCEPT ![i] = @ - 1]
  /\ UNCHANGED <<dgSent, dgot>>

\* onDatagram: look up subTracks_ by alias, deliver if the callback is set.
OnDatagram(i) ==
  /\ Live /\ dgIn[i] > 0
  /\ dgIn' = [dgIn EXCEPT ![i] = @ - 1]
  /\ dgot' = IF getSubscribeTrackReceiveState(i) /\ cSubs[i] THEN [dgot EXCEPT ![i] = @ + 1]
             ELSE dgot
  /\ UNCHANGED dgSent

SubReading(i) == Live /\ i \in DOMAIN ss /\ ss[i].cli = "reading"

\* The header is flushed with the first write after it; a stream reset
\* before that carries no header.
HeaderSent(st) == Len(st.w) >= 2 /\ st.w[2] # "reset"

\* The callback_ of the receive state, which the read loop holds even after
\* subTracks_ erased it: only unsubscribe() clears it.
Cb(i) == i \notin unsubd

\* Fault model: isCancelled looks only at the cached subgroupCallback_.
ActiveNoStateCheck(i) == ss[i].sgcb

\* ObjectStreamCallback::isCancelled, negated, for a subgroup stream.
Active(i) == ss[i].sgcb /\ Cb(i)

\* The read loop answers a parse or consume error with stopSending, unless
\* the data that caused it came with the FIN.
StopUnlessFin(st) == st.srv = "open"

\* onSubgroup: an unknown alias is an error, answered with STOP_SENDING
\* unless the FIN came with it; otherwise the token is merged with the
\* state's, and a callback still set gets beginSubgroup.
ReadSubgroupHeader(i) ==
  /\ SubReading(i) /\ ~ss[i].hdr /\ HeaderSent(ss[i])
  /\ IF getSubscribeTrackReceiveState(i)
     THEN /\ ss' = [ss EXCEPT ![i].hdr = TRUE, ![i].sgcb = cSubs[i]]
          /\ dlog' = IF cSubs[i] THEN [dlog EXCEPT ![i] = <<"begin">>] ELSE dlog
     ELSE /\ ss' = [ss EXCEPT ![i].cli = "done", ![i].stop = StopUnlessFin(ss[i])]
          /\ UNCHANGED dlog

\* Fault model: an object sent with FIN ends the subgroup with
\* endOfSubgroup(deliverCallback = true), so the consumer hears the end twice.
ReadSubgroupNextEndsTwice(i) ==
  /\ SubReading(i) /\ ss[i].hdr /\ ss[i].got < Len(ss[i].w)
  /\ LET e == ss[i].w[ss[i].got + 1] IN
       /\ e # "reset"
       /\ ss' = [ss EXCEPT ![i].got = @ + 1, ![i].sgcb = @ /\ e = "obj",
                           ![i].cli = IF e = "obj" THEN "reading" ELSE "done"]
       /\ dlog' = IF Active(i)
                  THEN [dlog EXCEPT ![i] = @ \o IF e = "last" THEN <<e, "end">>
                                                 ELSE <<e>>]
                  ELSE dlog

\* onObjectBegin, onObjectStatus and onEndOfStream for the next event:
\* delivered unless cancelled; an event that ends the subgroup resets
\* subgroupCallback_ (endOfSubgroup), and the FIN ends the loop.
ReadSubgroupNext(i) ==
  /\ SubReading(i) /\ ss[i].hdr /\ ss[i].got < Len(ss[i].w)
  /\ LET e == ss[i].w[ss[i].got + 1] IN
       /\ e # "reset"
       /\ ss' = [ss EXCEPT ![i].got = @ + 1, ![i].sgcb = @ /\ e = "obj",
                           ![i].cli = IF e = "obj" THEN "reading" ELSE "done"]
       /\ dlog' = IF Active(i) THEN [dlog EXCEPT ![i] = Append(@, e)] ELSE dlog

\* A read error (RESET_STREAM, which may overtake data): reset returns
\* false without a header; otherwise a callback not cancelled gets reset.
ReadSubgroupReset(i) ==
  /\ SubReading(i) /\ ss[i].srv = "reset"
  /\ ss' = [ss EXCEPT ![i].cli = "done", ![i].sgcb = FALSE]
  /\ dlog' = IF ss[i].hdr /\ Active(i) THEN [dlog EXCEPT ![i] = Append(@, "reset")]
             ELSE dlog

\* The token merged in onSubgroup is cancelled by unsubscribe(): the read
\* is interrupted and reset() finds the stream cancelled.
SubgroupCancelled(i) ==
  /\ SubReading(i) /\ ss[i].hdr /\ ~Cb(i)
  /\ ss' = [ss EXCEPT ![i].cli = "done", ![i].sgcb = FALSE]
  /\ UNCHANGED dlog

DataStep ==
  \/ \E i \in Ids : Unsubscribe(i)
  \/ /\ \E i \in Ids :
          \/ /\ \/ BeginSubgroup(i) \/ ObjectStream(i) \/ SubgroupStopSending(i)
                \/ \E e \in {"obj", "last", "end", "reset"} : SubgroupWrite(i, e)
             /\ UNCHANGED <<dlog, dgIn, dgSent, dgot>>
          \/ /\ \/ ReadSubgroupHeader(i) \/ ReadSubgroupNext(i)
                \/ ReadSubgroupReset(i) \/ SubgroupCancelled(i)
             /\ UNCHANGED <<dgIn, dgSent, dgot>>
          \/ /\ SendDatagram(i) \/ LoseDatagram(i) \/ OnDatagram(i)
             /\ UNCHANGED <<ss, dlog>>
     /\ UNCHANGED <<cliVars, srvVars, netVars, histVars, annVars, unsubd>>

-----------------------------------------------------------------------------
Init ==
  /\ cSetup = "init" /\ cNext = 0 /\ cPeerMax = 0
  /\ cSubs = EmptyMap /\ cFetches = EmptyMap
  /\ cDraining = FALSE /\ cClosed = Open
  /\ sSetup = FALSE /\ sMax = 0 /\ sConc = 0 /\ sClosedSubs = 0
  /\ sPub = EmptyMap /\ sUnsubs = {} /\ sClosed = Open
  /\ c2s = <<>> /\ s2c = <<>> /\ fs = EmptyMap
  /\ fut = [i \in Ids |-> "none"]
  /\ consumerDone = [i \in Ids |-> 0]
  /\ retired = [i \in Ids |-> 0]
  /\ finished = {}
  /\ cPend = [key \in {} |-> 0] /\ sAnnReqs = {}
  /\ aNext = 0 /\ aCall = [c \in Calls |-> <<>>]
  /\ aFut = [c \in Calls |-> "none"] /\ aBy = [c \in Calls |-> 0]
  /\ unann = {}
  /\ ss = [i \in {} |-> NewStream(<<>>, "open")] /\ dlog = [i \in Ids |-> <<>>]
  /\ unsubd = {} /\ dgIn = [i \in Ids |-> 0] /\ dgSent = [i \in Ids |-> 0]
  /\ dgot = [i \in Ids |-> 0]

ClientStep ==
  \/ ClientSetup \/ SetupTimeout \/ Subscribe \/ Fetch \/ Drain \/ ClientClose
  \/ ClientReceive
  \/ \E i \in Ids : \/ FetchCancel(i)
                   \/ ReadFetchHeader(i) \/ ReadFetchEnd(i) \/ ReadFetchReset(i)

ServerStep ==
  \/ ServerReceive \/ ServerClose
  \/ \E i \in Ids : \/ SubscribeOkCall(i) \/ SubscribeErrorCall(i)
                   \/ SubscribeDoneCall(i) \/ FetchOkCall(i) \/ FetchErrorCall(i)
                   \/ FetchWrite(i) \/ FetchEnd(i) \/ FetchReset(i)
                   \/ OnStopSending(i)

\* A step A of the subscribe and fetch machinery leaves the announce state
\* alone, except that a close of the client runs cleanup() on it.
Framed(A) ==
  /\ A
  /\ CleanupAnnounces
  /\ UNCHANGED <<sAnnReqs, aNext, aCall, aBy, unann>>
  /\ UNCHANGED dataVars

\* An announce step leaves the subscription data alone.
NoData(A) == A /\ UNCHANGED dataVars

Next == Framed(ClientStep \/ ServerStep) \/ NoData(AnnounceStep) \/ DataStep

\* Both event bases run their ready callbacks: messages and stream data
\* that have arrived are read, and a STOP_SENDING is acted upon.  The
\* server application answers every request, sends the objects of a fetch
\* it accepted and ends it, and ends a subscription it was asked to end
\* (the session itself has no timeout for these, see onSubscribe).
Fairness ==
  /\ WF_vars(Framed(ClientReceive)) /\ WF_vars(Framed(ServerReceive))
  /\ \A i \in Ids :
       /\ WF_vars(Framed(ReadFetchHeader(i))) /\ WF_vars(Framed(ReadFetchEnd(i)))
       /\ WF_vars(Framed(ReadFetchReset(i))) /\ WF_vars(Framed(OnStopSending(i)))
       /\ WF_vars(Framed(SubscribeOkCall(i) \/ SubscribeErrorCall(i)))
       /\ WF_vars(Framed(i \in sUnsubs /\ SubscribeDoneCall(i)))
       /\ WF_vars(Framed(FetchOkCall(i) \/ FetchErrorCall(i)))
       /\ WF_vars(Framed(FetchWrite(i))) /\ WF_vars(Framed(FetchEnd(i)))
  /\ WF_vars(NoData(ClientReceiveAnnounce))
  /\ WF_vars(NoData(ServerReceiveAnnounce))
  /\ WF_vars(NoData(\E m \in sAnnReqs, ok \in BOOLEAN : AnnounceReplyCall(m, ok)))

Spec == Init /\ [][Next]_vars
FairSpec == Spec /\ Fairness

-----------------------------------------------------------------------------
Codes == {Open, "NO_ERROR", "INTERNAL_ERROR", "PROTOCOL_VIOLATION",
          "TOO_MANY_SUBSCRIBES"}
Stream == [srv : {"open", "fin", "reset"}, hdrSent : BOOLEAN,
           hdrRead : BOOLEAN, stop : {"none", "sent", "done"},
           cli : {"reading", "done"}]

TypeOK ==
  /\ cSetup \in {"init", "sent", "done"} /\ cNext \in 0..MaxRequests
  /\ cPeerMax \in Nat /\ sMax \in Nat /\ sClosedSubs \in Nat
  /\ DOMAIN cSubs \subseteq Ids /\ \A i \in DOMAIN cSubs : cSubs[i] \in BOOLEAN
  /\ DOMAIN cFetches \subseteq Ids /\ \A i \in DOMAIN cFetches : cFetches[i] \in BOOLEAN
  /\ cClosed \in Codes /\ sClosed \in Codes
  /\ DOMAIN sPub \subseteq Ids
  /\ \A i \in DOMAIN sPub :
       sPub[i] \in [kind : {"sub"}, phase : {"requested", "ok"}]
                 \cup [kind : {"fetch"}, phase : {"requested", "streaming"}]
  /\ DOMAIN fs \subseteq Ids /\ \A i \in DOMAIN fs : fs[i] \in Stream
  /\ fut \in [Ids -> {"none", "pending", "ok", "error"}]
  /\ consumerDone \in [Ids -> Nat] /\ retired \in [Ids -> Nat]
  /\ finished \subseteq Ids /\ sUnsubs \subseteq Ids
  /\ aNext \in 0..MaxAnnounces /\ unann \subseteq Calls
  /\ DOMAIN cPend \subseteq AnnounceKinds \X Namespaces
  /\ \A key \in DOMAIN cPend : cPend[key] \in Calls
  /\ aFut \in [Calls -> {"none", "pending", "ok", "error", "broken"}]
  /\ aBy \in [Calls -> 0..MaxAnnounces]
  /\ DOMAIN ss \subseteq Ids /\ unsubd \subseteq Ids
  /\ \A i \in DOMAIN ss :
       /\ ss[i].w \in Seq({"begin", "obj", "last", "end", "reset"})
       /\ ss[i].srv \in {"open", "fin", "reset"} /\ ss[i].cli \in {"reading", "done"}
       /\ ss[i].got \in 1..Len(ss[i].w)
       /\ {ss[i].stop, ss[i].hdr, ss[i].sgcb} \subseteq BOOLEAN
  /\ dlog \in [Ids -> Seq({"begin", "obj", "last", "end", "reset"})]
  /\ {dgIn, dgSent, dgot} \subseteq [Ids -> 0..MaxDatagrams]

\* retireSubscribeId, for every maxConcurrentSubscribes_ up to 5 and every
\* closedSubscribes_ it can leave behind, against what spec section 4.7
\* asks of it: a sequence of retirements grants exactly one id per retired
\* request, never owes the peer maxConcurrentSubscribes_ / 2 ids (at least
\* one), and writes MAX_SUBSCRIBE_ID values that strictly grow and end at
\* maxSubscribeID_.  The session runs reach only its own window, so the
\* threshold of 2 and bumps by more than one are checked here, once the
\* server session is set up and retireSubscribeId can run.
CreditThreshold(w) == IF w \div 2 > 1 THEN w \div 2 ELSE 1
RetireGrantsReturnedCredit ==
  sSetup =>
  \A w \in 1..5 : \A c \in 0..(CreditThreshold(w) - 1), n \in 1..4 :
    LET r == RetireAt([max |-> w, closed |-> c, out |-> <<>>], n, w)
        grants == [k \in DOMAIN r.out |-> r.out[k].id]
    IN  /\ r.max + r.closed = w + c + n
        /\ r.closed < CreditThreshold(w)
        /\ \A k \in 1..(Len(grants) - 1) : grants[k] < grants[k + 1]
        /\ grants # <<>> => grants[Len(grants)] = r.max

\* Every request the server has ended or refused returns exactly one id of
\* credit: retireSubscribeId runs once per SUBSCRIBE_DONE, SUBSCRIBE_ERROR,
\* FETCH_ERROR and fetch stream that ended, and MAX_SUBSCRIBE_ID grows by
\* what was retired (spec section 4.7).
CreditConservation ==
  sSetup /\ sClosed = Open =>
    sMax + sClosedSubs = ServerMaxSubscribeId + Cardinality(finished)

\* The server never lets the client have more than maxConcurrentSubscribes_
\* requests outstanding: among the ids below maxSubscribeID_, at most that
\* many are not yet ended (the credit window of onSubscribe, onFetch,
\* retireSubscribeId, onFetchCancel and fetchComplete together).
ConcurrencyWithinWindow ==
  sSetup /\ sClosed = Open =>
    Cardinality({i \in 0..(sMax - 1) : i \notin finished}) <= sConc

\* When the client session is closed, every subscribe, fetch, announce and
\* subscribeAnnounces call of its application has its result: no future
\* is left pending and none was broken (cleanup after close, drain and
\* timeout, with its loops over the receive states and pending maps).
ClosedResolvesPending ==
  cClosed # Open =>
    /\ \A i \in Ids : fut[i] # "pending"
    /\ \A c \in Calls : aFut[c] \in {"none", "ok", "error"}

\* An announce or subscribeAnnounces call that got an answer from the peer
\* got the answer to its own request, although onAnnounceOk and its
\* siblings match answers by namespace only.
AnswerMatchesRequest == \A c \in Calls : aBy[c] \in {0, c}

\* A subscription's TrackConsumer receives subscribeDone at most once,
\* whether it comes from SUBSCRIBE_DONE, from a SUBSCRIBE_ERROR after
\* SUBSCRIBE_OK, or from cleanup.
ConsumerDoneAtMostOnce == \A i \in Ids : consumerDone[i] <= 1

\* The MAX_SUBSCRIBE_ID values the server sends always pass the client's
\* check in onMaxSubscribeId, so the client never closes the session with
\* PROTOCOL_VIOLATION.
NoProtocolViolation == cClosed # "PROTOCOL_VIOLATION"

\* After unsubscribe() the application hears nothing more of the
\* subscription: no object, end or reset from a subgroup read loop that
\* still holds the receive state and its SubgroupConsumer, and no datagram
\* (ObjectStreamCallback::isCancelled, onDatagram).
NoDeliveryAfterUnsubscribe ==
  [][\A i \in unsubd : dlog'[i] = dlog[i] /\ dgot'[i] = dgot[i]]_vars

\* The consumer's view of a subgroup stream is what the publisher wrote on
\* it, cut short (by a late header, unsubscribe, STOP_SENDING or close) or
\* ending in the reset that overtook the rest; a subscriber that stays
\* subscribed and reads the stream to its FIN receives exactly what was
\* written, with one end (onSubgroup, onObjectBegin, onObjectStatus,
\* onEndOfStream and reset of ObjectStreamCallback against
\* TrackPublisherImpl and StreamPublisherImpl).
Faithful(d, w) ==
  \/ SeqX!IsPrefix(d, w)
  \/ /\ d # <<>> /\ SeqX!Last(d) = "reset" /\ SeqX!Last(w) = "reset"
     /\ SeqX!IsPrefix(SeqX!Front(d), w)

SubgroupRoundTrip ==
  \A i \in DOMAIN ss :
    /\ Faithful(dlog[i], ss[i].w)
    /\ ss[i].hdr /\ i \notin unsubd /\ ss[i].srv = "fin"
       /\ ss[i].got = Len(ss[i].w) => dlog[i] = ss[i].w

\* The server's subscribe ID credit implements SubscribeIdCredit: before
\* setup the window is the one the server will announce; a request is
\* open while its publisher is in pubTracks_; what retireSubscribeId has
\* counted but not granted (closedSubscribes_) stays below
\* maxConcurrentSubscribes_ / 2, or 1 for a window of 1.
Credit == INSTANCE SubscribeIdCredit WITH
  Window <- ServerMaxSubscribeId,
  Threshold <- CreditThreshold(ServerMaxSubscribeId),
  limit <- IF sSetup THEN sMax ELSE ServerMaxSubscribeId,
  open <- DOMAIN sPub,
  ended <- finished,
  closed <- sClosed # Open

\* The credit window as a whole: acceptance under the granted limit,
\* one id returned per ended request, grants never ahead of what was
\* returned and never behind by the threshold (onSubscribe, onFetch,
\* subscribeDone, subscribeError, fetchComplete, retireSubscribeId).
CreditRefinement == Credit!Spec

\* Every fetch receive state the client creates is eventually removed from
\* fetches_, so that drain() can complete.
FetchStateReleased ==
  \A i \in Ids : i \in DOMAIN cFetches ~> i \notin DOMAIN cFetches

\* After unsubscribe(), the subscription's receive state is eventually
\* removed (the client relies on SUBSCRIBE_DONE for it).
UnsubscribedStateReleased ==
  \A i \in Ids : (i \in DOMAIN cSubs /\ ~cSubs[i]) ~> i \notin DOMAIN cSubs

\* Every subscribe, fetch, announce or subscribeAnnounces future the
\* client application awaits is eventually resolved.
RequestsResolve ==
  /\ \A i \in Ids : fut[i] = "pending" ~> fut[i] # "pending"
  /\ \A c \in Calls : aFut[c] = "pending" ~> aFut[c] # "pending"
=============================================================================
