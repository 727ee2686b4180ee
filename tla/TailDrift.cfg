\* Nothing but placements and dispatches: no steal, failure, cancel, eviction
\* or toggle.
SPECIFICATION PlaceSpec
CONSTANTS
  PJobs = {"j1"}
  PWorkers = {"w1"}
  PModels = {"m1"}
  TaskSec = 1
  LoadSec = 1
  Threshold = 2
  Upsets = {}
  MaxUpsets = 0
INVARIANT TailSettles
CHECK_DEADLOCK FALSE
