CONSTANTS
  Graphs <- MCGraphs
  Ops <- MCOps
  graph_id <- MCGraphId
  deps <- MCDeps
  VirtualOps <- MCVirtual
  siblings <- MCSiblings
  single = "single"
  CanFail <- MCCanFail
  CanCrash = {"pp1"}
SPECIFICATION Spec
CHECK_DEADLOCK FALSE
INVARIANTS
  SlotsBalanced
  TerminalMeansQuiet
  DependencyOrder
  NoStrandedWork
  CompletionReport
PROPERTIES
  HandleSpec
  EveryGraphEnds
