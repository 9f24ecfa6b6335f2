SPECIFICATION FairSpec
CONSTANTS
  QueueSize = 4
  SendMayFail = TRUE
  None = None
  AuthEnabled = TRUE
  Announce = TRUE
  MaxResponses = 4
  MaxConnects = 2
  MaxInFlight = 2
INVARIANTS TypeOK InboxOpen
PROPERTY ChallengeAnswered
CHECK_DEADLOCK FALSE
