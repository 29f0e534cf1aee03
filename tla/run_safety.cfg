SPECIFICATION Spec
CONSTANTS
  None = None
  orchestrator = orchestrator
  Workers <- OneProcess
  NumAttempts = 2
  MaxRetries = 1
  LeaseTicks = 1
  MaxNow = 3
  CostLimit = 2
  TimeLimit = 2
  SampleLimit = 1
  PoolSize = 2
  InjectedBudget = FALSE
  Dropped <- LastDropped
  Faults <- StopsAndTears
  MaxStops = 2
CHECK_DEADLOCK FALSE
INVARIANTS
  TypeOK
  FileBehindQueue
  CountsMatch
  BundleBacksRecord
  StampedRan
  OvershootBounded
