SPECIFICATION FairSpec
CONSTANTS
  USE_IP = FALSE
  MaxFaults = 5
  MaxQueries = 2
INVARIANTS RightCallback Listened
PROPERTIES AddressKept BackOnline
CHECK_DEADLOCK FALSE
