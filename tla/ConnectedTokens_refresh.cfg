SPECIFICATION FairSpec
CONSTANTS
  p1 = p1
  p2 = p2
  p3 = p3
  codex = codex
  Proc = {p1, p2, p3}
  Provider = {codex}
  Rotating = {codex}
  Client <- Clients
  MaxMinted = 2
  MaxCrashes = 1
  MaxOverstays = 0
INVARIANTS
  TypeOK
  OneHolder
  GrantKept
PROPERTIES
  CallsReturn
CHECK_DEADLOCK FALSE
