SPECIFICATION FairSpec
CONSTANTS
  MaxTasks = 2
  MaxScopeDepth = 2
  MaxRestarts = 0
  MaxRequests = 2
  ForegroundModes = {TRUE, FALSE}
  AnyStopTarget = FALSE
PROPERTIES
  WaitsEnd
CHECK_DEADLOCK FALSE
