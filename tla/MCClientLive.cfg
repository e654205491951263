\* Liveness: one node, no pings, no symmetry.
SPECIFICATION FairSpec
CONSTANTS
  Conns = {k1, k2}
  NilConn = NilConn
  Node = {n1}
  NoNode = NoNode
  FaultyNode = {}
  RPCNode = {n1}
  ConnectRetries = 1
  PingTicks = FALSE
  MaxCount = 1
  MaxDisturb = 1
  NilStats = NilStats
PROPERTIES
  ClosedQuiesces
CHECK_DEADLOCK FALSE
