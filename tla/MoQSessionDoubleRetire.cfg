\* A FETCH_CANCEL for a fetch whose stream is open retires its id twice:
\* once in fetchComplete, reached through the stream reset, and once more
\* in onFetchCancel.  The window then admits more than
\* maxConcurrentSubscribes_ outstanding requests.
CONSTANTS
  ClientMaxSubscribeId = 2
  ServerMaxSubscribeId = 2
  MaxRequests = 3
  RequestKinds = {"fetch"}
  ServerFetchErrors = FALSE
  ClientFetchCancels = TRUE
  ServerFetchResets = FALSE
  ServerCloses = FALSE
  ClientRespectsCredit = FALSE
  Namespaces = {"ns1"}
  AnnounceKinds = {"announce", "subscribeAnnounces"}
  MaxAnnounces = 0
  AppRepeatsPending = FALSE
  MaxSubgroupWrites = 0
  MaxDatagrams = 0
  DataIds = {}
SPECIFICATION Spec
INVARIANT ConcurrencyWithinWindow
CHECK_DEADLOCK FALSE
