\* A rejected call fails one attempt; the next one returns early.
SPECIFICATION Spec
CONSTANTS
  Jobs = {j1}
  NoJob = NoJob
  Sequential = {j1}
  Snapshot <- MCSnapshot
  MaxFaults = 1
  Server = server
  Workers = {}
  InlineWorker = TRUE
  WORKER_CONCURRENCY = 2
  LockLoss = FALSE
  MaxCrashes = 0
  MaxDeploys = 0
  Slots <- MCSlots
\* The system comes to rest when every job has ended.
CHECK_DEADLOCK FALSE
INVARIANTS
  RetriesExecute
