SPECIFICATION ChecksumSpec
CONSTANTS
  Bytes = {{}, {0}, {4}, {7}, {0, 1, 2, 3, 4, 5, 6, 7}}
  MaxLen = 4
INVARIANTS IsCrc16 Noticed
CHECK_DEADLOCK FALSE
