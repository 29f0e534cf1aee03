SPECIFICATION Spec
CONSTANTS
  None = None
  w1 = w1
  w2 = w2
  NumAttempts = 2
  Workers <- TwoWorkers
  MaxRetries = 1
  LeaseTicks = 1
  MaxNow = 3
  UnknownTasks <- LastUnknown
  Faults <- FaultsNoExit
  MaxCrashes = 0
SYMMETRY Symmetry
INVARIANTS
  NothingStranded
CHECK_DEADLOCK FALSE
