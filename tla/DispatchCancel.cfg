SPECIFICATION Spec
CONSTANTS
  Jobs = {j1}
  Workers = {w1}
  MaxRows = 3
  Budget = 2
  LoadAttempts = 1
  StealThreshold = 0
  PeekAllLimit = 2
  Cancels = {j1}
  MaxConns = 1
  Events = {}
  MaxEvents = 0
PROPERTY RefusedCancelIsOver
CHECK_DEADLOCK FALSE
