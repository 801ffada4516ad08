\* An inline worker, redeployed once with SIGTERM.
SPECIFICATION FairSpec
CONSTANTS
  Jobs = {j1}
  NoJob = NoJob
  Sequential = {j1}
  Snapshot <- MCSnapshot
  MaxFaults = 0
  Server = server
  Workers = {}
  InlineWorker = TRUE
  WORKER_CONCURRENCY = 2
  LockLoss = FALSE
  MaxCrashes = 0
  MaxDeploys = 1
  Slots <- MCSlots
\* The system comes to rest when every job has ended.
CHECK_DEADLOCK FALSE
PROPERTIES
  AcceptedJobsFinish
