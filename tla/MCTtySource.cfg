SPECIFICATION Spec
CONSTANTS
  Size = 4
  MaxBytes = 6
  MaxWrite = 3
  Polite = TRUE
INVARIANT SentInOrder
CHECK_DEADLOCK FALSE
