SPECIFICATION FairSpec
CONSTANTS
  MaxVersion = 2
  UPGRADE_RETRY_MAX = 1
  Overrun = TRUE
  Budgets <- OneUpgrade
INVARIANTS StaysResumable McuGetsWholeImage OneProcessorAtATime
PROPERTIES Completes
CHECK_DEADLOCK FALSE
