SPECIFICATION FairSpec
CONSTANTS
  Size = 4
  MaxBytes = 9
  MaxWrite = 3
  Polite = TRUE
INVARIANTS
  TypeOK
  Accounted
  NoMeeting
CHECK_DEADLOCK FALSE
