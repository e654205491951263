\* The original client and one sub-client; a message that both may get.
SPECIFICATION FairSpec
CONSTANTS
  Idx <- Indices
  NoIdx = NoIdx
  Msgs = {m1}
  NoMsg = NoMsg
INVARIANTS
  TypeOK
  DefaultSmallest
  DedupLosesNothing
PROPERTIES
  ClientsFrozen
  CloseClosesClients
\* a closed multiclient stops
CHECK_DEADLOCK FALSE
