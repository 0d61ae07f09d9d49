SPECIFICATION FairSpec
CONSTANTS
  GRAPH_MAX_INSTANCE = 2
  IdLimit = 5
  Programs <- AllPrograms
  MaxJobs = 2
  MaxResponses = 2
  Overlap = FALSE
INVARIANTS
  TypeOK
  StoppedMeansAnswered
PROPERTIES
  HostGetsItsAnswer
  RunReturns
