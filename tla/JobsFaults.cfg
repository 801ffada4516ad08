\* Rejected calls before, in and after the try block of executeJob, crashes and a
\* SIGTERM: enough to use up all attempts and all stalls of a job.
SPECIFICATION FairSpec
CONSTANTS
  Jobs = {j1}
  NoJob = NoJob
  Sequential = {j1}
  Snapshot <- MCSnapshot
  MaxFaults = 3
  Server = server
  Workers = {}
  InlineWorker = TRUE
  WORKER_CONCURRENCY = 2
  LockLoss = FALSE
  MaxCrashes = 2
  MaxDeploys = 1
  Slots <- MCSlots
\* The system comes to rest when every job has ended.
CHECK_DEADLOCK FALSE
INVARIANTS
  StubsBeforeExecution
  CompletedMeansExecuted
  GivesUpOnlyAfterFailures
  VariablesAudited
  LogFollowsResult
PROPERTIES
  ResultLifecycle
  OnlyCatchOverturns
  QueueDrains
