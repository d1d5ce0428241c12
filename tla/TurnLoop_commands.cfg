SPECIFICATION FairSpec
CONSTANTS
  Task = {t1}
  Cmd = {c1, c2}
  None = none
  RetryBudget = 2
  MaxInterrupts = 1
  MaxWakes = 1
  MaxSelects = 1
  IdleInterrupts = TRUE
INVARIANTS
  TypeOK
  CommandsAreKept
  HonestTerminal
PROPERTIES
  CommandsAreHeard
CHECK_DEADLOCK FALSE
