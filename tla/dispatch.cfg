SPECIFICATION Spec
CONSTANTS
  NoNode = NoNode
  NoTrial = NoTrial
  t1 = t1
  t2 = t2
  t3 = t3
  j1 = j1
  j2 = j2
  j3 = j3
  Trials <- ThreeTrials
  NumNodes = 2
  Sizes <- Sizes32
  MaxRetries = 1
  Jobs <- ThreeJobs
  PoolWorkers = 2
  MaxFaults = 1
  Faults <- AllFaults
SYMMETRY Symmetry
INVARIANTS
  TypeOK
  WakeupsCover
  HolderFindsItIdle
  OneExecution
  NothingLeft
  JobTellsTruth
