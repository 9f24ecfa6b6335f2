SPECIFICATION DFairSpec
CONSTANTS
  QueueSize = 2
  SendMayFail = TRUE
  None = None
  MaxSends = 5
  MaxConnects = 2
  Stale = {2}
INVARIANTS TypeOK OvertakenOnlyIfRequeued OncePerConnection
PROPERTIES LossOnlyWhenFull DrainsWhileUp StopEnds
CHECK_DEADLOCK FALSE
