SPECIFICATION MCLeaseSpec
CHECK_DEADLOCK FALSE
CONSTANTS
  GpuRanks = {g0, g1}
  GpuWorkers <- MCGpuWorkers
  GoesOn = FALSE
  MaxGen = 2
  MaxControls = 7
  MaxGraphs = 1
  TreeWorkers <- MCGpuWorkers
  ExpectedGpus = 2
  num_total_blocks = 4
  Holders <- MCHolders
  Slots = {0, 1}
  Jobs <- MCJobs
  Keys <- MCKeys
  key <- MCKey
  Fits <- MCFits
  MaxBlocks = 2
  Batch = {1, 2}
  BatchConfigs <- MCBatchConfigs
  Depth = 2
  PhysBlocks = {1, 2}
  LeaseTTL = 3
  SafetyTTL = 1
  RenewEvery = 2
  MatchMargin = 1
  LeaseLimit = 2
  Prompt = FALSE
  MaxNow = 8
  MaxPending = 1
  Readers = {r1, r2}
  MaxTrees = 4
  MaxQueue = 2
  ProcSlots = {p1, p2}
  Host <- MCHost
  NodeTTL = 3
  MetaTTL = 4
  FirstId = 0
  MaxId = 2
  StartsApart = TRUE
  Members = {n1, n2, n3}
  JoinsApart = TRUE
  MaxEpoch = 2
  MaxRound = 1
INVARIANT LeaseCovers
