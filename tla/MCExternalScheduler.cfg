SPECIFICATION FairSpec
CONSTANTS
  t1 = t1
  t2 = t2
  t3 = t3
  x = x
  y = y
  Callers = {c1, c2}
  Loop = Loop
  WorkerCount = 2
  Batches <- MCBatches
  Long <- MCLong
  Huge <- MCHuge
  MaxStreams = 1
  MaxRequests = 3
  MaxReports = 1
  Workload <- MCWorkload
INVARIANTS
  PendingExact
  RejectedOnlyDuplicates
  StallIsCircular
  LoopSurvives
PROPERTIES
  ServiceSpec
  CallsReturn
