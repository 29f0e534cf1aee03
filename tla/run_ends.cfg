SPECIFICATION FairSpec
CONSTANTS
  None = None
  orchestrator = orchestrator
  Workers <- OneProcess
  NumAttempts = 2
  MaxRetries = 1
  LeaseTicks = 1
  MaxNow = 2
  CostLimit <- NoLimit
  TimeLimit <- NoLimit
  SampleLimit <- NoLimit
  PoolSize = 2
  InjectedBudget = FALSE
  Dropped = {}
  Faults <- AllButTorn
  MaxStops = 1
CHECK_DEADLOCK FALSE
PROPERTIES
  InvocationEnds
  AllFinish
