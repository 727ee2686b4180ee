SPECIFICATION Spec
CONSTANTS
  Jobs = {j1}
  Workers = {w1, w2}
  MaxRows = 6
  Budget = 2
  LoadAttempts = 1
  StealThreshold = 0
  PeekAllLimit = 2
  Cancels = {}
  MaxConns = 1
  Events = {"drop"}
  MaxEvents = 2
INVARIANTS NoLostJob NoDuplicateRun DispatchBudget
SYMMETRY WorkerSymmetry
CHECK_DEADLOCK FALSE
