SPECIFICATION FairSpec
CONSTANTS
  Producers = 2
  Shape <- MCShape
  MsgMax = 3
  OutMsgCap = 1
  OutCap = 3
  SockCap = 2
  InCap = 3
  InMsgCap = 1
INVARIANTS
  StreamWhole
PROPERTIES
  RefinesMerged
  AllArrive
CHECK_DEADLOCK FALSE
