\* Close while a receive loop creates a session.
SPECIFICATION FairSpec
CONSTANTS
  r1 = r1
  Loops = {i1}
  Remote = {r1}
  RemoteKey = {a}
  Addr <- AddrOf
  Dialers = {d1}
  AcceptBuf = 1
  NoKey = NoKey
  NoSess = NoSess
PROPERTY CloseEnds
CHECK_DEADLOCK FALSE
