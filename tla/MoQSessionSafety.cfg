\* Both sessions with every failure the code handles: fetches refused,
\* cancelled by the client, reset by the server, and either session closed.
\* The server allows one open request and the client may run past its credit,
\* so the TOO_MANY_SUBSCRIBES close and the credit bump at threshold 0 occur.
\* Deadlock is not checked: the client makes at most MaxRequests requests,
\* and once they are answered, or a session is closed, nothing is enabled.
CONSTANTS
  ClientMaxSubscribeId = 2
  ServerMaxSubscribeId = 1
  MaxRequests = 2
  RequestKinds = {"subscribe", "fetch"}
  ServerFetchErrors = TRUE
  ClientFetchCancels = TRUE
  ServerFetchResets = TRUE
  ServerCloses = TRUE
  ClientRespectsCredit = FALSE
  Namespaces = {"ns1"}
  AnnounceKinds = {"announce", "subscribeAnnounces"}
  MaxAnnounces = 0
  AppRepeatsPending = FALSE
  MaxSubgroupWrites = 2
  MaxDatagrams = 1
  DataIds = {0}
SPECIFICATION Spec
INVARIANTS TypeOK ClosedResolvesPending ConsumerDoneAtMostOnce NoProtocolViolation SubgroupRoundTrip
PROPERTIES NoDeliveryAfterUnsubscribe
CHECK_DEADLOCK FALSE
