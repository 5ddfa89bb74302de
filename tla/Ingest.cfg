SPECIFICATION Spec
CONSTANTS
  Requests = {r1, r2, r3}
  a = a
  b = b
  v1 = v1
  v2 = v2
  Ids = {a, b}
  Versions = {v1, v2}
  Invalid = Invalid
  Batches <- MCBatches
  MaxBatch = 3
  NoRow = NoRow
  NoRequest = NoRequest
INVARIANTS
  IInv
  AnsweredIsStored
  NeverDoubleCounted
  FirstOfBatchWins
PROPERTIES
  EveryRequestEnds
  ImplementsEventStore
CHECK_DEADLOCK FALSE
