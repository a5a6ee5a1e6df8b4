SPECIFICATION Spec
CONSTANTS
  SectorSize = 4
  KeyPeriod = 2
  CountWrap = 4
  FlashSize = 36
  Areas <- SmallAreas
  Start <- Layout
  AreaLen = 8
  Sizes <- SmallSizes
  Calls = 2
INVARIANTS TrueMeansCopied
PROPERTIES OthersIntact
CHECK_DEADLOCK FALSE
