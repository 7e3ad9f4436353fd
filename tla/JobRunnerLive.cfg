SPECIFICATION FairSpec
CONSTANTS
  p1 = p1
  p2 = p2
  p3 = p3
  Procs <- TwoProcs
  NoProc = NoProc
  NoRecord = NoRecord
  NoFile = NoFile
  MaxRetries = 3
  RetryLimits <- OperatorPolicy
  WorkerMode = "in_process"
  Overlap = FALSE
  Requests = {}
  DiskFaults = FALSE
  Tampering = TRUE
INVARIANTS
  ActiveMeansWorking
PROPERTIES
  LifecycleSpec
  RunEnds
  PendingResolves
\* Processes are started once and need not be started at all.
CHECK_DEADLOCK FALSE
