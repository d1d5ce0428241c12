SPECIFICATION FairSpec
CONSTANTS
  Task = {t1, t2, t3}
  Root = root
  MaxSteers = 1
  MaxSelects = 1
  Spare = 1
INVARIANTS
  TypeOK
  EndsAreTold
PROPERTIES
  EndsAreDelivered
CHECK_DEADLOCK FALSE
