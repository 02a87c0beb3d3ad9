SPECIFICATION FairSpec
CHECK_DEADLOCK FALSE
CONSTANTS
  Firsts = {0, 1}
  MsgMax = 5
  HistoryCap = 3
  Chunk = 1
  McastCap = 2
  FrameMax = 2
  TcpCap = 1
  WireCap = 1
  FrameCap = 2
  InboxCap = 2
  MayFail = TRUE
INVARIANTS
  InOrder
  GapsCovered
  HeadHasItsTurn
  IndInv
  RefusedOnlyIfLost
PROPERTIES
  RefinesDelivery
  GapsClose
  RoomReturns
