SPECIFICATION Spec
CONSTANTS
  server = server
  client = client
  c1 = c1
  c2 = c2
  Null = Null
  UserPeer = {server, client}
  Does <- MCDoes
  Conn = {c1}
  Fragile = {}
  QueueCap = 2
  AcceptCap = 1
  Modes = {"all"}
  Overlap = TRUE
INVARIANT PeersKept
CHECK_DEADLOCK FALSE
