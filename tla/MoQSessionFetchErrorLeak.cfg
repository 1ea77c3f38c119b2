\* A FETCH refused by fetchError (INVALID_RANGE in onFetch, the
\* application, or BLOCKED in beginFetch) never calls retireSubscribeId:
\* the id is lost from the credit window.
CONSTANTS
  ClientMaxSubscribeId = 2
  ServerMaxSubscribeId = 2
  MaxRequests = 3
  RequestKinds = {"fetch"}
  ServerFetchErrors = TRUE
  ClientFetchCancels = FALSE
  ServerFetchResets = FALSE
  ServerCloses = FALSE
  ClientRespectsCredit = FALSE
  Namespaces = {"ns1"}
  AnnounceKinds = {"announce", "subscribeAnnounces"}
  MaxAnnounces = 0
  AppRepeatsPending = FALSE
  MaxSubgroupWrites = 0
  MaxDatagrams = 0
  DataIds = {}
SPECIFICATION Spec
INVARIANT CreditConservation
CHECK_DEADLOCK FALSE
