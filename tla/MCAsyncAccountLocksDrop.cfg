SPECIFICATION Spec
CONSTANTS
  a = a
  b = b
  Accounts = {a, b}
  Tasks = {t1, t2, t3}
  Requests <- MCRequests
  MayDrop = {t1, t2, t3}
  MayCancel = {}
  MaxLeaks = 2
INVARIANTS
  DroppedGuardsRelease
CHECK_DEADLOCK FALSE
