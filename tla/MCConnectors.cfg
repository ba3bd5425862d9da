SPECIFICATION MCSpec
CHECK_DEADLOCK FALSE
CONSTANTS
  Requests <- MCRequests
  MaxTask = 4
  Adapters <- MCAdapters
  Batching = TRUE
  ReportsPreempted = FALSE
  Ranks = {r0, r1}
  Leader = r0
  Loads = {1, 2, 3}
  NumCounters = 2
  NumLayers = 2
  SgRanks = {s0, s1}
  SgLeader = s0
  Rids = {q}
  StoreKeys = {k1, k2}
  MaxSgTask = 3
  MaxLag = 2
  Topologies <- MCTopologies
  Channels = {"LOOKUP", "STORE_COMPLETION"}
  Rounds = 1
  DpClients = {0, 1}
  TotalClients = 2
  IdRange = 2
  MaxStarts <- MCStarts
  MaxCalls = 2
  MaxInbox = 3
INVARIANTS
  WaitersAreTracked
  BlocksStayWhileMoving
  FailedLoadsFlagged
  NoForgottenPlan
  NoEarlyLayer
  
  StoreSlotsHeld
  CollectivesAgree
  
  AnswersAreOwn
