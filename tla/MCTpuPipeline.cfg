SPECIFICATION FairSpec
CONSTANTS
  t1 = t1
  t2 = t2
  t3 = t3
  b1 = b1
  s1 = s1
  s2 = s2
  n1 = n1
  a = a
  b = b
  Workers = {w1, w2}
  Callers = {c1, c2}
  Units = {t1, t2, t3, b1}
  Accounts = {a, b}
  Batches <- MCBatches
  IdOf <- MCIdOf
  Shutdown = Shutdown
  NoItem = NoItem
  UsizeMod = 8
  MaxCapacity = 5
INVARIANTS
  ShutdownWaitsForAll
  UnitIsolation
PROPERTIES
  AssignedUnitsSettle
  ShutdownReturns
CHECK_DEADLOCK FALSE
