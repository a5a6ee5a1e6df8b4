SPECIFICATION Spec
CONSTANTS
  Packages = 3
  ErasedSize = 4
  BOOT_CONNECT_CNT = 2
  RETRY_CNT = 2
  IndexMod = 2
  Cap = 3
  Budgets <- LateAndLossy
INVARIANT DoneImageIntact
CHECK_DEADLOCK FALSE
