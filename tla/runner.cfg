SPECIFICATION Spec
CONSTANTS
  None = None
  Faults <- AllFaults
  MaxFaults = 2
  MaxAttempts = 2
  MaxCalls = 2
INVARIANTS
  TypeOK
  VerdictTrue
  CaptureTrue
  WorldHandedBack
  OwnRegistration
  RetryNotRefused
  ToolsAccountedFor
PROPERTIES
  EverythingSettles
