SPECIFICATION Spec
CONSTANTS
  RETRY_CNT = 2
  US_PER_TICK = 10
  Timeout = 25
  Gap = 2
  MaxTicks = 20
INVARIANTS ResendsTheAwaited WaitIsShort
CHECK_DEADLOCK FALSE
