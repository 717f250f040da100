SPECIFICATION FairSpec
CONSTANTS
  a = a
  b = b
  Accounts = {a, b}
  Tasks = {t1, t2, t3}
  Requests <- MCRequests
  MayDrop = {t1, t2, t3}
  MayCancel = {t1, t2, t3}
  MaxLeaks = 2
INVARIANTS
  TablesExact
  NoCircularWait
PROPERTIES
  LockingSpec
  OperationsReturn
  QuietDropsRelease
