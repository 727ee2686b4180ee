SPECIFICATION FairSpec
CONSTANTS
  Jobs = {j1}
  Workers = {w1, w2}
  MaxRows = 5
  Budget = 2
  LoadAttempts = 2
  StealThreshold = 0
  PeekAllLimit = 2
  Cancels = {}
  MaxConns = 1
  Events = {"steal"}
  MaxEvents = 1
PROPERTY JobAnswered
CHECK_DEADLOCK FALSE
