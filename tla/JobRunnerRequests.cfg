SPECIFICATION Spec
CONSTANTS
  p1 = p1
  p2 = p2
  p3 = p3
  Procs <- TwoProcs
  NoProc = NoProc
  NoRecord = NoRecord
  NoFile = NoFile
  MaxRetries = 2
  RetryLimits <- NoPolicy
  WorkerMode = "subprocess"
  Overlap = FALSE
  Requests = {"validate", "qa", "start"}
  DiskFaults = TRUE
  Tampering = FALSE
SYMMETRY Symmetric2
INVARIANTS
  RecordConsistent
\* Processes are started once and need not be started at all.
CHECK_DEADLOCK FALSE
