SPECIFICATION Spec
CONSTANTS
  Jobs = {j1}
  Workers = {w1, w2}
  MaxRows = 4
  Budget = 2
  LoadAttempts = 1
  StealThreshold = 0
  PeekAllLimit = 2
  Cancels = {}
  MaxConns = 1
  Events = {"drop"}
  MaxEvents = 1
PROPERTY AnsweredNotRequeued
CHECK_DEADLOCK FALSE
