CONSTANTS
  None = None
  SinkDepth = 4
  SinkMargin = 2
  Workloads <- MixedLoad
SPECIFICATION FairSpec
PROPERTIES
  TaskIsLaunched
  SomethingStarts
