SPECIFICATION FairSpec
CONSTANTS
  Size = 3
  MaxBytes = 4
  MaxWrite = 2
  Polite = FALSE
INVARIANTS
  CopyExclusive
  WaitEnds
PROPERTY WriteReturns
CHECK_DEADLOCK FALSE
