SPECIFICATION Spec
CONSTANTS
  None = None
  orchestrator = orchestrator
  Workers <- OneProcess
  NumAttempts = 2
  MaxRetries = 1
  LeaseTicks = 1
  MaxNow = 2
  CostLimit = 2
  TimeLimit <- NoLimit
  SampleLimit <- NoLimit
  PoolSize = 2
  InjectedBudget = TRUE
  Dropped = {}
  Faults <- StopOnly
  MaxStops = 1
CHECK_DEADLOCK FALSE
INVARIANT
  BurnedStillCounts
