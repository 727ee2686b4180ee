SPECIFICATION MCSpec
CONSTANTS
  JobCalls = {j1}
  LoadCalls = {l1}
  UnloadCalls = {u1}
  DeviceBenches = {b1}
  ModelBenches = {n1, n2}
  ChanCap = 1
  Models = {m1, m2}
  Files <- FilesDef
  CachePaths <- PathsDef
  StoreSets <- StoresDef
  Ttl = 1
  MaxTick = 2
  MaxUplink = 1
  Conns = {c1, c2}
  WorkerIds = {w1, w2}
  JoinTokens = {t1}
  TokenTtl = 1
  MaxTime = 1
  Devices = {d1, d2}
  Togglers = {g1, g2}
  MaxStreams = 2
INVARIANTS ChannelDiscipline NoForgottenCall TakesOnlyUnused TabShowsLoaded OneStreamPerWorker AdmissionJustified WhitelistSettles
PROPERTIES LostWorkerWakesAll
CHECK_DEADLOCK FALSE
