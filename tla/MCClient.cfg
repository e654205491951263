\* Two connections at a time, two nodes, one disturbance (which is enough to
\* start an unbounded sequence of reconnections), pings.
SPECIFICATION Spec
CONSTANTS
  Conns = {k1, k2}
  NilConn = NilConn
  Node = {n1, n2}
  NoNode = NoNode
  FaultyNode = {}
  RPCNode = {n1}
  ConnectRetries = 1
  PingTicks = TRUE
  MaxCount = 1
  MaxDisturb = 1
  NilStats = NilStats
SYMMETRY Slots
INVARIANTS
  TypeOK
  ClosedNotConnected
  ConnectExclusive
  OpenConnsAccounted
PROPERTY ConnStateSpec
\* a closed client, and one NewClient gave up on, stop
CHECK_DEADLOCK FALSE
