SPECIFICATION Spec
CONSTANTS
  GRAPH_MAX_INSTANCE = 2
  IdLimit = 5
  Programs <- TwoPrograms
  MaxJobs = 2
  MaxResponses = 2
  Overlap = TRUE
PROPERTY HostGetsItsAnswer
