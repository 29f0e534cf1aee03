SPECIFICATION FairSpec
CONSTANTS
  CLOSE = CLOSE
  None = None
  j1 = j1
  j2 = j2
  g1 = g1
  g2 = g2
  Jobs <- TwoJobs
  Graders <- TwoGraders
INVARIANTS
  TypeOK
  OneResolver
  NoOrphan
  NoLeak
  NoLostJob
  OnlyLateResultKills
PROPERTIES
  CallersReturn
  WorkersStop
