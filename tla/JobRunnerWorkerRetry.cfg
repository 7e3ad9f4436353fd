SPECIFICATION Spec
CONSTANTS
  p1 = p1
  p2 = p2
  p3 = p3
  Procs <- TwoProcs
  NoProc = NoProc
  NoRecord = NoRecord
  NoFile = NoFile
  MaxRetries = 3
  RetryLimits <- NoPolicy
  WorkerMode = "subprocess"
  Overlap = FALSE
  Requests = {}
  DiskFaults = FALSE
  Tampering = FALSE
PROPERTIES
  TransientFailuresRetried
\* Processes are started once and need not be started at all.
CHECK_DEADLOCK FALSE
