\* A dedicated worker, two SIGTERMs, and locks that expire under live workers:
\* one job is executed by several slots at a time.
SPECIFICATION FairSpec
CONSTANTS
  Jobs = {j1}
  NoJob = NoJob
  Sequential = {j1}
  Snapshot <- MCOneRequest
  MaxFaults = 0
  Server = server
  Workers = {w1}
  InlineWorker = FALSE
  WORKER_CONCURRENCY = 2
  LockLoss = TRUE
  MaxCrashes = 0
  MaxDeploys = 2
  Slots <- MCSlots
\* The system comes to rest when every job has ended.
CHECK_DEADLOCK FALSE
INVARIANTS
  RunningHasExecutor
PROPERTIES
  AcceptedJobsSettle
