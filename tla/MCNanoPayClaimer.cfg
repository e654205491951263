\* Two goroutines in Claim, two NanoPays, all amounts around minFlushAmount,
\* one height before and one after the expiration.
SPECIFICATION FairSpec
CONSTANTS
  Claimers = {c1, c2}
  Ids = {a, b}
  NoId = NoId
  NoTx = NoTx
  MinFlush = 2
  FirstHeight = 10
  Heights = {10, 17}
  MaxClaimed = 3
  MaxAmount = 3
  Expirations = {16}
  Txns <- AllTxns
INVARIANTS
  TypeOK
  Books
  LossBounded
PROPERTIES
  AmountMonotone
  WorkerEnds
\* a double close of closeChan ends the program
CHECK_DEADLOCK FALSE
