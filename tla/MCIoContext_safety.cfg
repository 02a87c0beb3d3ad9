SPECIFICATION FairSpec
CONSTANTS
  server = server
  client = client
  c1 = c1
  c2 = c2
  Null = Null
  UserPeer = {server}
  Does <- MCDoes
  Conn = {c1, c2}
  Fragile = {server, c1}
  QueueCap = 1
  AcceptCap = 1
  Modes = {"three", "all"}
  Overlap = FALSE
INVARIANTS
  PeersKept
  NoneSkipped
  DroppedForCause
PROPERTIES
  Served
  StopReturns
CHECK_DEADLOCK FALSE
