SPECIFICATION FairSpec
CONSTANTS
  Commands = 2
  MaxEvents = 3
INVARIANTS
  TypeOK
  EventsReachHost
PROPERTIES
  ProcessEnds
CHECK_DEADLOCK FALSE
