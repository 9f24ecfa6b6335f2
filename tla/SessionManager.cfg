SPECIFICATION FairSpec
CONSTANTS
  Pubkeys = {p1, p2, p3}
  Tasks = {r1, r2}
  MaxSessions = 2
  MaxObjects = 4
  None = None
INVARIANTS TypeOK RegisteredIsOpen AdmissionBound StopClosesAll
PROPERTIES LeakOnlyByRace StopEnds
CHECK_DEADLOCK FALSE
