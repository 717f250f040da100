SPECIFICATION FairSpec
CONSTANTS
  t1 = t1
  t2 = t2
  t3 = t3
  t4 = t4
  b1 = b1
  b2 = b2
  s1 = s1
  s2 = s2
  s3 = s3
  n1 = n1
  a = a
  b = b
  Workers = {w1, w2}
  Callers = {c1}
  Units = {t1, t2, t3, t4, b1, b2}
  IdOf <- MCIdOf
  Accounts = {a, b}
  Batches <- MCBatches
  Shutdown = Shutdown
  NoItem = NoItem
  UsizeMod = 8
  MaxCapacity = 5
INVARIANTS
  ResultsTruthful
  BatchFinished
  QuietBetweenBatches
  WaitsForWhatIsThere
PROPERTIES
  BatchReturns
  WorkersStop
