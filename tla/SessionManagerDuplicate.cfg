SPECIFICATION Spec
CONSTANTS
  Pubkeys = {p1, p2}
  Tasks = {r1, r2}
  MaxSessions = 1
  MaxObjects = 4
  None = None
INVARIANT OpenIsRegistered
CHECK_DEADLOCK FALSE
