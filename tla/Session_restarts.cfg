CONSTANTS
  c1 = c1
  c2 = c2
  Caller <- MCCaller
  None = None
  Timer = Timer
  OneStarter = TRUE
  MaxInputs = 1
  MaxSleeps = 1
  MaxFaults = 1
SPECIFICATION FairSpec
INVARIANTS
  TypeOK
  CostOnce
PROPERTIES
  NeverOlder
  SleepIsWoken
  WaitersAnswered
CHECK_DEADLOCK FALSE
