SPECIFICATION EngineSpec
CONSTANTS
  u1 = u1
  u2 = u2
  u3 = u3
  u4 = u4
  u5 = u5
  u6 = u6
  b1 = b1
  b2 = b2
  b3 = b3
  id0 = id0
  id7 = id7
  padded7 = padded7
  name1 = name1
  name2 = name2
  x = x
  y = y
  z = z
  Items = {u1, u2, u3, u4, u5, u6, b1, b2, b3}
  Ids = {u1, u2, u3, u4, u5, u6, id0, id7, padded7, name1, name2}
  Printed <- MCPrinted
  Zero = id0
  Accounts = {x, y, z}
  Callers = {c1}
  WorkerCount = 2
  HighThreshold = 1
  Batches <- MCBatches
  Requests <- MCRequests
INVARIANTS
  LeftOutForItsBatch
CHECK_DEADLOCK FALSE
