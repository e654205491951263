\* Two receive loops, a remote that starts two sessions, one Dial, and room
\* for one session to accept.
SPECIFICATION Spec
CONSTANTS
  r1 = r1
  Loops = {i1, i2}
  Remote = {r1}
  RemoteKey = {a, b}
  Addr <- AddrOf
  Dialers = {d1}
  AcceptBuf = 1
  NoKey = NoKey
  NoSess = NoSess
SYMMETRY Symmetric
INVARIANTS
  TypeOK
  OfferedOnce
  OfferedAllowed
PROPERTY OneSessionPerKey
\* Close and a receive loop can wait for each other
CHECK_DEADLOCK FALSE
