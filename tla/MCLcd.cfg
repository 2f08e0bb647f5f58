SPECIFICATION FairSpec
CONSTANT Layers = 2
INVARIANTS
  TypeOK
  NeverBusy
  LineArmed
  ErrorHasCode
PROPERTY KeepsDrawing
