SPECIFICATION FairSpec
CONSTANTS
  Replicas = {r1, r2}
  MaxJobs = 3
  MaxQueued = 1
  Scenarios <- MCScenarios
  None = None
INVARIANTS
  TypeOK
  OverlapIsExplained
  FenceOrdersHistory
  WaitMeansQuiet
PROPERTY EveryJobEnds
CHECK_DEADLOCK FALSE
