SPECIFICATION MCSpec
CONSTANTS
  Keys = {alice, bob}
  Capacity = 6
  Refill = 2
  Cost = 3
  MaxTime = 5
  None = None
INVARIANTS TypeOK RateBound
PROPERTIES LazyIsExact
CHECK_DEADLOCK FALSE
