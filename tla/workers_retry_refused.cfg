SPECIFICATION Spec
CONSTANTS
  None = None
  w1 = w1
  w2 = w2
  NumAttempts = 1
  Workers <- TwoWorkers
  MaxRetries = 1
  LeaseTicks = 1
  MaxNow = 3
  UnknownTasks = {}
  Faults <- NoFaults
  MaxCrashes = 0
INVARIANTS
  NeverRefused
CHECK_DEADLOCK FALSE
