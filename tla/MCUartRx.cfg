SPECIFICATION FairSpec
CONSTANTS
  Size = 5
  FifoLen = 3
  ReadLen = 2
  QueueLen = 2
  MaxBytes = 13
INVARIANTS InOrder MaskedForAReason
PROPERTIES EveryByteArrives
