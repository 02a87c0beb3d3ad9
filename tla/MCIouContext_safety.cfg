SPECIFICATION FairSpec
CONSTANTS
  c1 = c1
  Conn = {c1}
  Acceptor = Acceptor
  Size = {1, 2}
  SendMax <- MCSendMax
  AcceptCap = 1
  OutMsgCap = 1
  OutCap = 2
  WireCap = 2
  InCap = 2
  InMsgCap = 1
  Fragile <- MCFragile
INVARIANTS
  OneChain
  StreamWhole
PROPERTY
  BytesArrive
CHECK_DEADLOCK FALSE
