\* Bench: one model on two device sets, a runner that is replaced, and two changes
\* (toggles, reconnects, removals, drains) of the worker or the files.
\* Daemon: a verb of the old build and a window of the new one, an operator, two processes.
\* Catalogue: two jobs, two queues, one deletion with three plans, one snapshot, two imports.
\* Proxy: a request of two chunks, an answer of three frames, windows of two.
SPECIFICATION MCSpec
CONSTANTS
  BModels = {m1}
  BSets = {A, B}
  RunnerIds = {1, 2}
  BenchMaxAttempts = 2
  MaxChanges = 2
  Clients = {c1, c2}
  Windows = {c2}
  Stale = {c1}
  MaxDaemons = 2
  OperatorRuns = TRUE
  MaxDownloads = 1
  CJobs = {"j1", "j2"}
  CWorkers = {1, 2}
  FileOf <- FileOfDef
  DeletePlans <- DeletePlansDef
  Deletes = {d1}
  Imports = {i1, i2}
  ImportPlans <- ImportPlansDef
  BadPath = BadPath
  Nowhere = Nowhere
  BodyLen = 2
  AnswerLen = 3
  Window = 2
  Early = TRUE
INVARIANTS
  OneBenchAtATime CacheAgrees ReadersSeeQueued ImportWhole ProxyFaithful
PROPERTIES
  JobsGetVerdict IdleRetires
CHECK_DEADLOCK FALSE
