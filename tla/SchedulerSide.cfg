\* Restart: one job, a crash and a lost worker, and a worker that stays.
\* Drain: two jobs for one slot.
\* Envelope: bytes of two bits, as many load attempts as a byte can count, eight rows.
SPECIFICATION MCSpec
CONSTANTS
  RJobs = {j1}
  RWorkers = {w1, w2}
  Steady = {w2}
  FastRestart = FALSE
  Budget = 2
  MaxCrashes = 1
  MaxLosses = 1
  DJobs = {j1, j2}
  Pool = 1
  MaxLoadFailures = 1
  MaxBenches = 1
  ByteMax = 3
  Prefix <- PrefixDef
  EnvRequests <- EnvRequestsDef
  LoadAttempts = 4
  RequeueBudget = 3
  MaxRowIds = 8
INVARIANTS
  JobsSurviveCrash PoolRespected EnvelopeKept
PROPERTIES
  AnswersSurviveCrash RestartAnswers QueuedRowTaken
CHECK_DEADLOCK FALSE
