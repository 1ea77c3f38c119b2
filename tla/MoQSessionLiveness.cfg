\* Progress of the two sessions when the server application answers every
\* request and ends every fetch normally, and the client application waits
\* for credit before a request; also the credit window under normal endings.  The third request needs the
\* MAX_SUBSCRIBE_ID that the first retirement sends.
\* Deadlock is not checked: the client makes at most MaxRequests requests,
\* and once they are answered, or a session is closed, nothing is enabled.
CONSTANTS
  ClientMaxSubscribeId = 2
  ServerMaxSubscribeId = 2
  MaxRequests = 3
  RequestKinds = {"subscribe", "fetch"}
  ServerFetchErrors = FALSE
  ClientFetchCancels = FALSE
  ServerFetchResets = FALSE
  ServerCloses = FALSE
  ClientRespectsCredit = TRUE
  Namespaces = {"ns1"}
  AnnounceKinds = {"announce", "subscribeAnnounces"}
  MaxAnnounces = 0
  AppRepeatsPending = FALSE
  MaxSubgroupWrites = 0
  MaxDatagrams = 0
  DataIds = {}
SPECIFICATION FairSpec
INVARIANTS RetireGrantsReturnedCredit CreditConservation ConcurrencyWithinWindow
PROPERTIES CreditRefinement FetchStateReleased UnsubscribedStateReleased RequestsResolve
CHECK_DEADLOCK FALSE
