SPECIFICATION Spec
CONSTANTS
  p1 = p1
  p2 = p2
  p3 = p3
  Procs <- ThreeProcs
  NoProc = NoProc
  NoRecord = NoRecord
  NoFile = NoFile
  MaxRetries = 2
  RetryLimits <- NoPolicy
  WorkerMode = "in_process"
  Overlap = FALSE
  Requests = {}
  DiskFaults = TRUE
  Tampering = TRUE
SYMMETRY Symmetric3
INVARIANTS
  TypeOK
  BudgetRespected
  ServingOwnsActive
PROPERTIES
  CompletionDurable
  TransientFailuresRetried
\* Processes are started once and need not be started at all.
CHECK_DEADLOCK FALSE
