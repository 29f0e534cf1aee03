SPECIFICATION FairSpec
CONSTANTS
  None = None
  w1 = w1
  w2 = w2
  NumAttempts = 2
  Workers <- TwoWorkers
  MaxRetries = 1
  LeaseTicks = 1
  MaxNow = 3
  UnknownTasks = {}
  Faults <- CrashAndRestart
  MaxCrashes = 1
INVARIANTS
  PreparedIsFull
PROPERTIES
  EventuallyFinished
