\* A client, a multiclient and a wallet of one account; a seed and another node.
SPECIFICATION Spec
CONSTANTS
  c1 = c1
  m1 = m1
  w1 = w1
  s1 = s1
  s2 = s2
  NoServer = NoServer
  Servers = {s1, s2}
  Seeds = {s2}
  Clients = {c1}
  MultiClients = {m1}
  Wallets = {w1}
  Nodes <- MCNodes
  Workloads <- MCWorkloads
  MaxClients = 2
  MaxNonce = 1
INVARIANTS
  TypeOK
  PaidAtMostOnce
  HashMeansTaken
  NonceAboveTaken
\* the callers are done
CHECK_DEADLOCK FALSE
