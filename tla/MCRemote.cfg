SPECIFICATION RmSpec
CONSTANTS
  RemoteGraphs <- MCGraphs
  RemoteGpus = 2
PROPERTY MappedGraphsRun
CHECK_DEADLOCK FALSE
