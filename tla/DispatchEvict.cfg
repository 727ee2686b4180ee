SPECIFICATION Spec
CONSTANTS
  Jobs = {j1}
  Workers = {w1}
  MaxRows = 3
  Budget = 2
  LoadAttempts = 1
  StealThreshold = 0
  PeekAllLimit = 2
  Cancels = {}
  MaxConns = 1
  Events = {"evict"}
  MaxEvents = 1
INVARIANT NoDuplicateRun
CHECK_DEADLOCK FALSE
