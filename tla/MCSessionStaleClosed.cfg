SPECIFICATION MCSpec
CONSTANTS
  ClientIds <- MCClientIds
  LongIds <- MCLongIds
  Digest <- MCDigest
  Verbs = {"REQ", "COUNT"}
  Filters <- MCFilters
  MaxSubscriptions = 1
  QueueSize = 2
  SendMayFail = FALSE
  None = None
  OutboundSize = 2
  MaxBatch = 2
  ReqIds = {"s1"}
  CountIds = {}
  RelayMayClose = TRUE
  MaxRequests = 2
  MaxEvents = 0
  MaxConnects = 1
  MaxInFlight = 2
CHECK_DEADLOCK FALSE
INVARIANT NoOrphan
