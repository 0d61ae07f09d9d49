CONSTANTS
  None = None
  SinkDepth = 4
  SinkMargin = 2
  Workloads <- AllLoads
SPECIFICATION Spec
INVARIANTS
  TypeOK
  TaskAlone
  AnswersReachTheirSink
  WordsMeetTheirRequests
  SinksNeverOverflow
  FlushHonoured
  FpuAlone
