SPECIFICATION Spec
CONSTANTS
  w1 = w1
  w2 = w2
  u1 = u1
  u2 = u2
  u3 = u3
  a = a
  b = b
  Workers = {w1, w2}
  c1 = c1
  c2 = c2
  c3 = c3
  Callers = {c1, c2, c3}
  Units = {u1, u2, u3}
  Accounts = {a, b}
  Shutdown = Shutdown
  NoItem = NoItem
  UsizeMod = 8
  MaxCapacity = 5
INVARIANTS
  LockTableExact
  PendingAccounting
  UnitInOnePlace
PROPERTIES
  LockingSpec
SYMMETRY Symmetry
CHECK_DEADLOCK FALSE
