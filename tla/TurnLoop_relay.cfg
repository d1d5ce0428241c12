SPECIFICATION Spec
CONSTANTS
  Task = {t1, t2, t3}
  Cmd = {c1}
  None = none
  RetryBudget = 2
  MaxInterrupts = 0
  MaxWakes = 1
  MaxSelects = 2
  IdleInterrupts = FALSE
INVARIANTS
  RelayIsKept
PROPERTIES
  OwedIsEnforced
SYMMETRY Symmetry
CHECK_DEADLOCK FALSE
