SPECIFICATION FairWorkerSpec
CONSTANTS
  Row = {r1, r2}
  BatchSize = 2
INVARIANTS
  WorkerTypeOK
  IdleIsDrained
  QuietAfterStop
PROPERTIES
  ToldIsEmbedded
CHECK_DEADLOCK FALSE
