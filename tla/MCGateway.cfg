SPECIFICATION FairSpec
CONSTANTS
  Scripts <- AllScripts
  LengthWrap = 32
  ReadMax = 128
  OneFramePerRead = TRUE
INVARIANTS TypeOK HandledOnce PassedOn
PROPERTIES Recovers AllHeard
CHECK_DEADLOCK FALSE
