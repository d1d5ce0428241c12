SPECIFICATION Spec
CONSTANTS
  p1 = p1
  p2 = p2
  s1 = s1
  s2 = s2
  s3 = s3
  None = None
  Proc = {p1, p2}
  Session = {s1, s2}
  ProcOf <- OneEach
  MaxOps = 3
  AtomicSign = TRUE
  MaxExits = 0
  MaxBreaks = 0
  MaxRefusals = 0
INVARIANT OneProcessOpens
CHECK_DEADLOCK FALSE
