SPECIFICATION Spec
CONSTANTS
  Jobs = {j1}
  Workers = {w1}
  MaxRows = 3
  Budget = 2
  LoadAttempts = 1
  StealThreshold = 0
  PeekAllLimit = 2
  Cancels = {}
  MaxConns = 2
  Events = {"drop"}
  MaxEvents = 1
INVARIANTS NoDuplicateRun
CHECK_DEADLOCK FALSE
