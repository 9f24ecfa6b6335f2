SPECIFICATION MCSpec
CONSTANTS
  ClientIds <- MCClientIds
  LongIds <- MCLongIds
  Digest <- MCDigest
  Verbs = {"REQ", "COUNT"}
  Filters <- MCFilters
  MaxSubscriptions = 2
  QueueSize = 2
  SendMayFail = TRUE
  None = None
  OutboundSize = 1
  MaxBatch = 1
  ReqIds = {"s1"}
  CountIds = {"s2", "s3"}
  RelayMayClose = TRUE
  MaxRequests = 2
  MaxEvents = 1
  MaxConnects = 2
  MaxInFlight = 1
CHECK_DEADLOCK FALSE
INVARIANTS TypeOK TableInverse OnlyLongIdsCollide NoLostSubscription NoDuplicateRequest LiveInTable LiveAtRelay
PROPERTIES RelayConverges CloseEnds
