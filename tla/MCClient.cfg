SPECIFICATION Spec
CONSTANTS
  Callers = {a, b}
  Ids = {s1}
  Events = {e1, r1, x1}
  Replaceable = {r1}
  Ephemeral = {x1}
  MaxEvents = 2
  Mixes <- MCMixes
  MaxCalls = 3
  MaxFaults = 1
SYMMETRY Interchangeable
INVARIANTS TypeOK RequestExact PublishedIsKept AnswerUnderWay NestedDiscovers
CHECK_DEADLOCK FALSE
