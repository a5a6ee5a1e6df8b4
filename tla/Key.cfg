SPECIFICATION FairSpec
CONSTANTS
  Wrap = 9
  KEY_ACTION_TIME = 1
  KEY_LONG_PRESS = 4
  SMARTCONFIG_TIMEOUT = 6
  Gap = 2
INVARIANTS SessionAgrees
PROPERTIES LongPressIsLong OneActionPerPress SessionEnds
