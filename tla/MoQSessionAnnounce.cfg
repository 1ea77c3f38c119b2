\* Announce and subscribeAnnounces of the client, answered by the server
\* application, next to one subscription, under fair scheduling.  Three
\* calls on one namespace make a request follow an answered one of the
\* same kind; the application does not repeat a request that is pending.
\* Deadlock is not checked: the client makes at most MaxAnnounces calls,
\* and once they are answered, or a session is closed, nothing is enabled.
CONSTANTS
  ClientMaxSubscribeId = 2
  ServerMaxSubscribeId = 2
  MaxRequests = 1
  RequestKinds = {"fetch"}
  ServerFetchErrors = FALSE
  ClientFetchCancels = FALSE
  ServerFetchResets = FALSE
  ServerCloses = FALSE
  ClientRespectsCredit = TRUE
  Namespaces = {"ns1"}
  AnnounceKinds = {"announce", "subscribeAnnounces"}
  MaxAnnounces = 3
  AppRepeatsPending = FALSE
  MaxSubgroupWrites = 0
  MaxDatagrams = 0
  DataIds = {}
SPECIFICATION FairSpec
INVARIANTS ClosedResolvesPending AnswerMatchesRequest
PROPERTIES RequestsResolve
CHECK_DEADLOCK FALSE
