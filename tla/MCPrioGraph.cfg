SPECIFICATION PrioSpec
CONSTANTS
  a = a
  b = b
  Accounts = {a, b}
  WorkerCounts = {0, 2}
  MaxTxs = 4
  Batches <- MCBatches
  U64Max = 7
  Million = 2
INVARIANTS
  BestFirst
  EveryUnitOnce
  ConflictsSpread
  LoadsBalanced
  OrdersAgree
