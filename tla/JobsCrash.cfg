\* A sequential and a parallel job on an inline worker; two crashes, no rejected call.
SPECIFICATION Spec
CONSTANTS
  Jobs = {j1, j2}
  NoJob = NoJob
  Sequential = {j1}
  Snapshot <- MCSnapshot
  MaxFaults = 0
  Server = server
  Workers = {}
  InlineWorker = TRUE
  WORKER_CONCURRENCY = 2
  LockLoss = FALSE
  MaxCrashes = 2
  MaxDeploys = 0
  Slots <- MCSlots
\* The system comes to rest when every job has ended.
CHECK_DEADLOCK FALSE
INVARIANTS
  TypeOK
  FiredAtMostOnce
  OneExecutorPerJob
  VerdictMatchesResults
  SkipPropagation
PROPERTIES
  ImplementsLifecycle
