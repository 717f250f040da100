SPECIFICATION LibrarySpec
CONSTANTS
  a = a
  b = b
  c = c
  Accounts = {a, b, c}
  Guards = {g1, g2, g3}
  Seeds = {0, 1}
  Words = {0, 1}
  Bits = {0, 1, 2}
  Hashes <- MCHashes
  Threads = {t1, t2, t3}
  Submitters = {t1, t2}
  ShardCount = 2
  MaxIds = 3
  MaxList = 4
  Lists <- MCLists
  SeqMod = 4
  MaxIssued = 6
INVARIANTS
  TablesExact
  FilterExact
  SubmissionsExact
  WinnersBest
  IdsDistinct
PROPERTIES
  LockingSpec
  WorkerLocking
CHECK_DEADLOCK FALSE
