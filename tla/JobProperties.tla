--------------------------- MODULE JobProperties ---------------------------
(***************************************************************************)
(* What the pipeline promises about a job, and what the repository says of *)
(* it.  The runs of MCJobs say under which failures each property holds.   *)
(***************************************************************************)
EXTENDS JobPipeline

TypeOK ==
  /\ StoreTypeOK /\ QueueTypeOK /\ ControllerTypeOK /\ ExecTypeOK
  /\ proc \in [Processes -> {"up", "closing"}]
  /\ crashes \in 0..MaxCrashes
  /\ deploys \in 0..MaxDeploys

Accepted(j) == api[j] = "accepted"
Result(j, p) == db[j].results[Snapshot[p]]
Settled == {"COMPLETED", "FAILED", "SKIPPED"}
AllResults(j, statuses) == \A p \in Positions : Result(j, p) \in statuses

-----------------------------------------------------------------------------
(* Safety *)

\* A job that the queue knows has its document and a stub for every request:
\* executeJob passes over a request without a stub and says nothing to the
\* client (jobExecutor.js:78-81), so the order of createJob's calls and the
\* rejection of a failed insertMany are what makes every request run.
StubsBeforeExecution ==
  \A j \in Jobs : bull[j].state # "absent" =>
                     db[j].status # "none" /\ StubsOf(db[j]) = Indexes

\* The queue closes a job as completed only when some execution has started
\* it: the early return of executeJob (line 51) never hides a job that nobody
\* has run, whatever was retried, redelivered or killed.
CompletedMeansExecuted ==
  \A j \in Jobs : bull[j].state = "completed" => db[j].status \notin {"none", "PENDING"}

\* The queue gives a job up unexecuted only after three calls have rejected or
\* two processes have died: together with QueueDrains and CompletedMeansExecuted,
\* an accepted job that meets fewer failures is started.
GivesUpOnlyAfterFailures ==
  \A j \in Jobs : bull[j].state = "failed" /\ db[j].status = "PENDING" =>
                     faults >= 3 \/ crashes + deploys >= 2

Starts(j, i) == {k \in 1..Len(db[j].logs) :
                   db[j].logs[k].event = "REQUEST_STARTED" /\ db[j].logs[k].req = i}

\* No request of a job is fired twice, although the queue delivers the job
\* again after a crash and after every failed attempt: the status check of
\* executeJob makes each redelivery return at once.
FiredAtMostOnce == \A j \in Jobs, i \in Indexes : Cardinality(Starts(j, i)) <= 1

\* At any moment at most one worker is executing a job.
OneExecutorPerJob ==
  \A s, t \in Slots : Busy(s) /\ Busy(t) /\ JobOf(s) = JobOf(t) => s = t

\* The final status tells the truth about the results, as the comment of
\* deriveJobStatus promises: COMPLETED when all of them passed; PARTIAL when
\* every request has a verdict and these are neither all passed nor all failed.
VerdictMatchesResults ==
  \A j \in Jobs :
    /\ db[j].status = "COMPLETED" => AllResults(j, {"COMPLETED"})
    /\ db[j].status = "PARTIAL" => /\ AllResults(j, Settled)
                                   /\ ~AllResults(j, {"COMPLETED"})
                                   /\ ~AllResults(j, {"FAILED"})

\* In a sequential job nothing runs after a failed request, and a request is
\* skipped only for a failed one before it in the array; a parallel job skips
\* nothing.
SkipPropagation ==
  \A j \in Jobs, p \in Positions :
    /\ Result(j, p) = "SKIPPED" => /\ j \in Sequential
                                   /\ \E q \in 1..(p - 1) : Result(j, q) = "FAILED"
    /\ j \in Sequential /\ Result(j, p) = "FAILED" =>
         \A q \in (p + 1)..Len(Snapshot) : Result(j, q) \in {"PENDING", "SKIPPED"}

\* The variables stored with a finished job are those whose extraction is in
\* its log: "Persisted here so you can audit what values were extracted and
\* used" (Job.model.js:44).
VariablesAudited ==
  \A j \in Jobs : db[j].status \in {"COMPLETED", "PARTIAL"} =>
                    db[j].vars = Logged(db[j], "VAR_EXTRACTED")

\* A verdict in the log is also the one on the RequestResult: who reads the log,
\* and then the results, finds no event whose result is still open or says
\* something else.  (The page reads both at once, and may.)
LogFollowsResult ==
  \A j \in Jobs :
    /\ \A i \in Logged(db[j], "REQUEST_COMPLETED") : db[j].results[i] = "COMPLETED"
    /\ \A i \in Logged(db[j], "REQUEST_FAILED") : db[j].results[i] = "FAILED"
    /\ \A i \in Logged(db[j], "REQUEST_SKIPPED") : db[j].results[i] = "SKIPPED"

\* A job that is shown as RUNNING is being run by somebody.
RunningHasExecutor ==
  \A j \in Jobs : db[j].status = "RUNNING" => \E s \in Slots : Busy(s) /\ JobOf(s) = j

-----------------------------------------------------------------------------
(* Action properties *)

\* jobExecutor.js:6: "transition job status (PENDING -> RUNNING -> COMPLETED
\* / PARTIAL / FAILED)": a step moves the status of a job one arrow onwards.
StatusSteps == {<<"none", "PENDING">>, <<"PENDING", "RUNNING">>}
                 \cup ({"RUNNING"} \X Terminal)
StatusLifecycle ==
  [][\A j \in Jobs : db'[j].status # db[j].status =>
                       <<db[j].status, db'[j].status>> \in StatusSteps]_db

\* A result is decided once: a step moves it from PENDING to RUNNING to its
\* outcome, or from PENDING to SKIPPED, and never back.
ResultSteps == {<<"none", "PENDING">>, <<"PENDING", "RUNNING">>, <<"PENDING", "SKIPPED">>,
                <<"RUNNING", "COMPLETED">>, <<"RUNNING", "FAILED">>}
ResultLifecycle ==
  [][\A j \in Jobs, i \in Indexes :
       db'[j].results[i] # db[j].results[i] =>
         <<db[j].results[i], db'[j].results[i]>> \in ResultSteps]_db

InCatch(j) == \E s \in Slots : JobOf(s) = j /\ At(s, "catchStatus")

\* Whatever fails, a terminal status changes only into FAILED, and only while an
\* execution of the job is in its catch block; its results stay as they are.
OnlyCatchOverturns ==
  [][\A j \in Jobs : db[j].status \in Terminal =>
       /\ db'[j].status # db[j].status => db'[j].status = "FAILED" /\ InCatch(j)
       /\ db'[j].results = db[j].results]_db

-----------------------------------------------------------------------------
(* Refinement *)

\* Only the outcome of a request counts as its verdict.
VerdictOf(st) == IF st \in Settled THEN st ELSE "open"

Lifecycle == INSTANCE JobLifecycle WITH
  N <- Len(Snapshot),
  status <- [j \in Jobs |-> db[j].status],
  verdict <- [j \in Jobs |-> [p \in Positions |-> VerdictOf(Result(j, p))]]

\* Seen through the documents, the pipeline behaves as JobLifecycle: queue,
\* workers, redeliveries, deployments and crashes are steps nobody sees.
ImplementsLifecycle == Lifecycle!Spec

-----------------------------------------------------------------------------
(* Liveness *)

\* Every job that was accepted ends, with a verdict.
AcceptedJobsFinish == \A j \in Jobs : Accepted(j) ~> db[j].status \in Terminal

\* The same, and for good: two workers that execute one job after a lock has
\* expired may take the status back to RUNNING, but they stop doing so.
AcceptedJobsSettle == \A j \in Jobs : Accepted(j) ~> [](db[j].status \in Terminal)

\* The queue gets rid of every entry, whatever crashes or rejects.
QueueDrains == \A j \in Jobs : Owed(j) ~> ~Owed(j)

-----------------------------------------------------------------------------
(* What the repository says, and the code does not do *)

\* queue.js:15: "retry failed jobs up to 3 times".  A retry should execute
\* the job; it finds a status other than PENDING and returns.
RetriesExecute ==
  \A s \in Slots : At(s, "notPending") => bull[JobOf(s)].attemptsMade = 0

=============================================================================
