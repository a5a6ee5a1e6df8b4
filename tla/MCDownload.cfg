SPECIFICATION FairSpec
CONSTANTS
  short = short
  long = long
  None = None
  Versions <- TwoVersions
  FileLen <- TwoLengths
  HeaderLines = 3
  LengthLine = 2
  SECTOR_SIZE = 3
  SegMax = 2
  Sectors = 2
  Budgets <- AllFaults
INVARIANTS NothingLost SavedIsComplete
PROPERTIES Terminates
CHECK_DEADLOCK FALSE
