\* Up to three destinations; two small ones fit into a batch.
SPECIFICATION Spec
CONSTANTS
  Dests <- MCDests
  Unknown = "unknown"
  Fails = "fails"
  KindOf <- MCKindOf
  Registrant <- MCRegistrant
  KeyOf <- MCKeyOf
  Self = "self"
  PldSize = 2
  DestSize <- MCDestSize
  MaxSize = 6
  Inputs <- MCInputs
  Tables <- MCTables
  Depth = 2
  Topics <- MCTopics
  Limit = 2
  MaxOffset = 4
INVARIANTS
  TypeOK
  BatchesRight
  Readable
  ResolvedFully
\* the call has returned
CHECK_DEADLOCK FALSE
