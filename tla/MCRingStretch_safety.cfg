SPECIFICATION FairSpec
CONSTANTS
  Capacity = 4
  WordSize = 12
  Builds = {"debug", "release"}
  Callers = {"tcp", "iou"}
INVARIANTS
  StretchInside
  StretchesApart
  StreamInOrder
PROPERTY
  Drains
CHECK_DEADLOCK FALSE
