SPECIFICATION ConnFairSpec
CONSTANTS
  JobCalls = {j1}
  LoadCalls = {}
  UnloadCalls = {}
  DeviceBenches = {}
  ModelBenches = {}
  ChanCap = 1
PROPERTIES StaleStreamReturns
CHECK_DEADLOCK FALSE
