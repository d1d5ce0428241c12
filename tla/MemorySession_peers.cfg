SPECIFICATION FairSpec
CONSTANTS
  p1 = p1
  p2 = p2
  s1 = s1
  s2 = s2
  s3 = s3
  None = None
  Proc = {p1, p2}
  Session = {s1, s2, s3}
  ProcOf <- TwoAndOne
  MaxOps = 2
  AtomicSign = FALSE
  MaxExits = 1
  MaxBreaks = 1
  MaxRefusals = 1
INVARIANTS
  TypeOK
  HandlesAreKept
  LockIsTheUsers
PROPERTIES
  WaitsEnd
CHECK_DEADLOCK FALSE
