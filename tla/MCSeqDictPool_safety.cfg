SPECIFICATION DictSpec
CONSTANTS
  Capacity = 4
  Value = {a, b}
  Index = {0, 1, 2, 3, 4}
  MayThrow = TRUE
  KeySpace = 6
  PushMax = 5
INVARIANTS
  NeverTwice
  ForEachExact
  IndInv
  KeysMatchObjects
PROPERTIES
  ObjectsKept
  RefinesMap
CHECK_DEADLOCK FALSE
