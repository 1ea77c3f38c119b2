\* Expected violation: the client application announces a namespace again
\* while its first ANNOUNCE is pending.  emplace keeps the first promise;
\* the second call's promise is destroyed or never fulfilled, and the
\* session's close does not resolve it.
\* Deadlock is not checked: the client makes at most MaxAnnounces calls,
\* and once they are answered, or a session is closed, nothing is enabled.
CONSTANTS
  ClientMaxSubscribeId = 2
  ServerMaxSubscribeId = 2
  MaxRequests = 0
  RequestKinds = {"subscribe"}
  ServerFetchErrors = FALSE
  ClientFetchCancels = FALSE
  ServerFetchResets = FALSE
  ServerCloses = FALSE
  ClientRespectsCredit = TRUE
  Namespaces = {"ns1"}
  AnnounceKinds = {"announce"}
  MaxAnnounces = 2
  AppRepeatsPending = TRUE
  MaxSubgroupWrites = 0
  MaxDatagrams = 0
  DataIds = {}
SPECIFICATION Spec
INVARIANTS ClosedResolvesPending
CHECK_DEADLOCK FALSE
