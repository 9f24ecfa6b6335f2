SPECIFICATION Spec
CONSTANTS
  Relays = {r1, r2}
  Events <- MCEvents
  Event <- MCEvent
  Bridge = "bridge"
  MaxMessages = 2
  MaxAge = 2
  MaxFuture = 2
  Slack = 1
  SeenCapacity = 2
  Keys = {"alice", "bob"}
  Capacity = 2
  Refill = 1
  Cost = 1
  MaxTime = 4
  None = None
  MaxRestarts = 1
INVARIANTS TypeOK HandledOnce RefusedCanReturn
CHECK_DEADLOCK FALSE
