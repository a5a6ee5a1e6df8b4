SPECIFICATION Spec
CONSTANTS
  MaxVersion = 2
  UPGRADE_RETRY_MAX = 1
  Overrun = FALSE
  Budgets <- Faults
INVARIANTS RunsWholeImage ReadyToRestart
PROPERTIES NeverOlder
CHECK_DEADLOCK FALSE
