SPECIFICATION Spec
CONSTANTS
  None = None
  orchestrator = orchestrator
  Workers <- OneProcess
  NumAttempts = 2
  MaxRetries = 1
  LeaseTicks = 1
  MaxNow = 2
  CostLimit <- NoLimit
  TimeLimit <- NoLimit
  SampleLimit <- NoLimit
  PoolSize = 2
  InjectedBudget = FALSE
  Dropped = {}
  Faults <- NoFaults
  MaxStops = 0
CHECK_DEADLOCK FALSE
INVARIANT
  PlannedIsRun
