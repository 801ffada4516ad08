\* A lock expires between the status check and the write of RUNNING.
SPECIFICATION Spec
CONSTANTS
  Jobs = {j1}
  NoJob = NoJob
  Sequential = {j1}
  Snapshot <- MCOneRequest
  MaxFaults = 0
  Server = server
  Workers = {}
  InlineWorker = TRUE
  WORKER_CONCURRENCY = 2
  LockLoss = TRUE
  MaxCrashes = 0
  MaxDeploys = 0
  Slots <- MCSlots
\* The system comes to rest when every job has ended.
CHECK_DEADLOCK FALSE
PROPERTIES
  StatusLifecycle
