\* Two goroutines, three NanoPays, heights around the expiration of the first.
SPECIFICATION PayerSpec
CONSTANTS
  Payers = {p1, p2}
  Delta = {1, 2}
  Duration = 6
  FirstHeight = 10
  Heights = {10, 11, 12, 13}
  MaxId = 3
  MaxAmount = 2
SYMMETRY Callers
INVARIANTS
  PayerTypeOK
  PaymentsOrdered
\* the bounds stop the payers
CHECK_DEADLOCK FALSE
