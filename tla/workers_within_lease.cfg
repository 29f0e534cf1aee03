SPECIFICATION Spec
CONSTANTS
  None = None
  w1 = w1
  w2 = w2
  NumAttempts = 2
  Workers <- TwoWorkers
  MaxRetries = 1
  LeaseTicks = 1
  MaxNow = 3
  UnknownTasks = {}
  Faults <- FaultsWithinLease
  MaxCrashes = 1
SYMMETRY Symmetry
INVARIANTS
  TypeOK
  LeaseExclusive
  HolderOwnsRow
  RetryBound
  EveryRunPaidFor
PROPERTIES
  TerminalIsFinal
  ImplementsLedger
