SPECIFICATION Spec
CONSTANTS
  MaxMessages = 3
  MaxClock = 2
  MaxRows = 3
  MaxPrunes = 1
  MaxUpdates = 2
  TranscriptBudget = 2
  ReflectAt = 2
INVARIANT TypeOK
INVARIANT ObservedOnce
INVARIANT WireIsValid
INVARIANT DropsAreRendered
PROPERTY CoverageKept
CHECK_DEADLOCK FALSE
