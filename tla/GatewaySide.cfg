\* Placement: two jobs, two workers, two upsets of their rows or estimates; one of both
\* when an eviction is among them, or two with one job.
\* LoadPlan: two GPUs and a CPU, two models.
\* Downloads: one file of two chunks, one slot, a crash, two runners of the file.
\* Runtimes: one kind, two requests, an exit and a restart.
\* Registry: two installations, one worker, four indexes, two versions, two upgrades.
\* Tabs: two tabs of one topic, a full channel, a broken stream.  Log: a ring of three lines, two viewers.
\* ModelsTab: two gateways, two groups, two renders that may overlap.
SPECIFICATION MCSpec
SYMMETRY Alike
CONSTANTS
  PJobs = {j1, j2}
  PWorkers = {w1, w2}
  PModels = {m1}
  TaskSec = 1
  LoadSec = 1
  Threshold = 0
  Upsets = {"steal", "load", "cancel", "evict", "toggle"}
  MaxUpsets = 2
  GPUs = {g1, g2}
  CPUs = {c1}
  LModels = {a, b}
  MaxBytes = 2
  SlotsCap = 3
  BudgetSecs = 4
  Headrooms = {50, 100}
  Files = {f1}
  Chunks = 2
  MaxConcurrent = 1
  MaxRetries = 1
  MaxRunners = 2
  MaxDeaths = 1
  Kinds = {k1}
  Callers = {r1, r2}
  MaxGateways = 2
  MaxExits = 1
  MaxBoots = 1
  Rows <- RowsDef
  Indexes <- IndexesDef
  RegWorkers = {v1}
  Installs = {1, 2}
  AnyRange = AnyRange
  BadRange = BadRange
  NoIndex = NoIndex
  NoRow = NoRow
  LastVer = 2
  MaxUpgrades = 2
  TopicOf <- TopicDef
  BrokerCap = 1
  MaxTabChanges = 2
  MaxDrops = 1
  Tails = {t1, t2}
  RuntimeTails = {t2}
  ReplayMax = 1
  RingSize = 3
  TailCap = 1
  MaxLines = 4
  MGateways = {k1, k2}
  MGroups = {g1, g2}
  MFiles = {f1}
  Renders = {r1, r2}
  NoCard = NoCard
  MaxEdits = 2
INVARIANTS
  TailCovers LoadFits FilesAccounted
  VerdictsAgree ChangesCaughtUp LogLinesOnce CardsMatchMemory
PROPERTY
  WatcherSparesLiving
CHECK_DEADLOCK FALSE
