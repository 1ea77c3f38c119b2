\* A fetch stream reset before the client parsed its FETCH_HEADER: the
\* read loop drops the reset (ObjectStreamCallback::reset returns false),
\* so the FETCH_OK-ed receive state is never removed from fetches_.
CONSTANTS
  ClientMaxSubscribeId = 2
  ServerMaxSubscribeId = 2
  MaxRequests = 2
  RequestKinds = {"fetch"}
  ServerFetchErrors = FALSE
  ClientFetchCancels = FALSE
  ServerFetchResets = TRUE
  ServerCloses = FALSE
  ClientRespectsCredit = TRUE
  Namespaces = {"ns1"}
  AnnounceKinds = {"announce", "subscribeAnnounces"}
  MaxAnnounces = 0
  AppRepeatsPending = FALSE
  MaxSubgroupWrites = 0
  MaxDatagrams = 0
  DataIds = {}
SPECIFICATION FairSpec
PROPERTY FetchStateReleased
CHECK_DEADLOCK FALSE
