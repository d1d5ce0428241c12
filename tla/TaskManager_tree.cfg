SPECIFICATION Spec
CONSTANTS
  MaxTasks = 3
  MaxScopeDepth = 2
  MaxRestarts = 1
  MaxRequests = 1
  ForegroundModes = {FALSE}
  AnyStopTarget = TRUE
INVARIANTS
  TypeOK
  SettledIsUnwound
  NothingEscapes
PROPERTIES
  LifecycleSpec
CHECK_DEADLOCK FALSE
