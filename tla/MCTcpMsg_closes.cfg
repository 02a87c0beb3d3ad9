SPECIFICATION Spec
CONSTANTS
  Producers = 1
  Shape <- MCShape
  MsgMax = 3
  OutMsgCap = 1
  OutCap = 3
  SockCap = 2
  InCap = 3
  InMsgCap = 1
INVARIANT
  StaysOpen
