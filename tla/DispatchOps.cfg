SPECIFICATION Spec
CONSTANTS
  Jobs = {j1}
  Workers = {w1}
  MaxRows = 4
  Budget = 2
  LoadAttempts = 2
  StealThreshold = 0
  PeekAllLimit = 2
  Cancels = {j1}
  MaxConns = 2
  Events = {"drop", "evict", "toggle"}
  MaxEvents = 1
INVARIANT NoLeakedEntry
PROPERTY AnswerStays
CHECK_DEADLOCK FALSE
