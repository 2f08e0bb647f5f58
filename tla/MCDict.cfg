SPECIFICATION Spec
CONSTANTS
  k1 = k1
  k2 = k2
  k3 = k3
  Null = Null
  Keys <- MCKeys
  Hash <- MCHash
  Values <- MCValues
  MinSize = 1
  Asked = 0
  MaxEntries = 4
INVARIANTS
  RoomToInsert
  Consistent
  SetStores
PROPERTY ImplementsMap
CHECK_DEADLOCK FALSE
