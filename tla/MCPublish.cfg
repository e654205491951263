\* A topic with as many subscribers as a page holds.
SPECIFICATION FairSpec
CONSTANTS
  Dests <- MCDests
  Unknown = "unknown"
  Fails = "fails"
  KindOf <- MCKindOf
  Registrant <- MCRegistrant
  KeyOf <- MCKeyOf
  Self = "self"
  PldSize = 2
  DestSize <- MCDestSize
  MaxSize = 6
  Inputs = {}
  Tables <- MCTables
  Depth = 2
  Topics <- MCTopics
  Limit = 2
  MaxOffset = 4
PROPERTY PublishReturns
CHECK_DEADLOCK FALSE
