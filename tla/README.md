# A verification of the API workflow execution platform

TLA+ modules, TLC runs and TLAPS proofs for the platform under `src/`: an
Express API that accepts *jobs* (executions of a collection of HTTP requests),
a BullMQ queue that hands them to workers, workers that execute them and write
their progress to MongoDB, and a Next.js dashboard that polls it.

Paths below are relative to the repository; `jobExecutor.js:51` stands for
`src/services/jobExecutor.js`, line 51.

## 1. The system

| Component | State | Operations | Hard behaviours |
|---|---|---|---|
| Job submission (`job.controller.js`) | none of its own; writes Job, RequestResult stubs, Log, queue entry | `createJob`, `rerunJob`; read-only list and detail handlers | four writes without a transaction, each may fail; process dies in between |
| Job queue (`queue.js`, BullMQ) | an entry per job: waiting, active, delayed, completed, failed; attempts; stalls | `enqueueJob`; delivery, verdict, back-off, stalled check | redelivery after a crash, retry after an error, verdicts without a lock |
| Workers (`worker.js`, `inlineWorker.js`, `server.js`) | slots, locks, process state | take a job, settle it, SIGTERM, exit, crash, restart | a job cut off half-way; a lock lost under a live execution |
| Job executor (`jobExecutor.js`) | per execution: position, stubs, `shouldAbort`, variables, final status | `executeJob`, some twenty awaited calls | status checked and set in two calls; failures before, inside and after `try`; order of writes |
| Request executor (`requestExecutor.js`, `ssrfProtection.js`) | per call: attempt, last error, variable store | `executeRequest` with injection, auth, URL check, retries and extraction | which errors are retried, counting, what each attempt sends, what is reported |
| Documents (`models/`) | Job, RequestResult, Log, Collection, AuthProfile | Mongoose calls | shared by all processes, read at different moments |
| Collections, auth profiles | definitions and credentials | CRUD; snapshots in `createJob` | snapshot against concurrent update or deletion |
| Job page (`frontend/app/jobs/[id]/page.jsx`) | what is shown, the timer, fetches in progress | `fetchAll`, timer, unmount | overlapping fetches, late answers, errors, leaving while loading |
| Collection and metrics pages (`frontend/app/collections/[id]`, `metrics`) | what is shown, calls in progress | first load, `handleRun` | answers of different moments, a failure after the first of two calls |
| Metrics (`metrics.controller.js`) | none | aggregations | documents read at different moments, rounding, empty sets |
| First page and form of a new collection (`frontend/app/page.jsx`, `collections/new`) | lists, links with timers, rows | run, delete; add, change, remove and submit rows | overlapping runs and timers, edits during a submission, refused and lost calls |
| Job list (`listJobs`) | none | a page by position | jobs inserted between two pages |
| Validation (`validateRequest.js`) | none | `validateCollection`, `validateJob` | what later code relies on |
| Rate limiting (`rateLimiter.js`) | a counter per client and window | admit or refuse | window edges, uncovered routes |
| Shell (`app.js`, routes, config, error handler, encryption) | configuration | wiring | none that the rest depends on |

They interact through three channels: MongoDB documents (API, workers, and,
over HTTP, the dashboard), the queue (API to workers, carrying the id of a job
only), and process signals. Nothing in memory is shared between processes.
Within one process everything is a single thread that gives way at each `await`.

What makes the system correct:

* a job that was accepted is executed once, not twice and not never;
* statuses go PENDING, RUNNING, terminal; a result is decided once;
* the final status says what the results say; a sequential job stops at a failure
  and marks what it did not run;
* result, log and variables agree with each other at every moment they can be read;
* redelivery, retry, deployment and crash do not break any of this, or break it
  in ways that are known;
* a job's copy of its collection and credentials is of one version, complete, and
  repeated by every rerun, whatever becomes of the originals;
* a report counts what is there, nothing twice and nothing that has not happened;
* the job page stops polling exactly when the job has ended, and shows the parts of
  one fetch;
* each attempt of a request gives axios the same request, with a URL checked in that
  attempt;
* a client gets no more jobs than the limiter allows, submits rows that are
  numbered in order, finds every job in the list, and gets its Run button back.

## 2. Modules

```
JobStore ── JobQueue ── JobController ──┐
   └─────── JobExecutor ────────────────┴─ JobPipeline ── JobProperties ── MCJobs
                                                              │   └─────── JobProofs ── JobDocProofs
                                              JobLifecycle ───┘                              │
                                     (abstract, by INSTANCE)           JobLifecycleProofs ───┘
RequestData ── RequestExecutor ─┬─ MCRequest       RequestCall (abstract, by INSTANCE)
                                └─ RequestProofs
JobDetailPage ── PageProofs
RateLimiter, Validation ── ApiCalls ─┬─ HomePage ──────────┐
                                     ├─ NewCollectionPage ─┼─ Clients ─┬─ MCClients
                                     └─ JobList ───────────┘           └─ ClientProofs
Validation ── JobSnapshots ── SnapshotProperties ── MCSnapshots
                                      └──────────── SnapshotProofs
JobLifecycle (by INSTANCE) ── Metrics ── CollectionPage ── CollectionPageProperties
                                                                └─────── CollectionPageProofs
```

* **JobStore**: the documents of a job. `db[j]` holds the status, the status of
  each RequestResult by its `requestIndex` (or `"none"`), the set of stored
  variables and the log. A variable is named by the request it was extracted
  from. Every awaited call has two outcomes: `Commits`, and `Rejects`, which
  leaves either the old document or the new one behind, because a call may fail
  after the server applied it. `faults` counts rejections.
* **JobQueue**: the queue as this program configures it. BullMQ is external: its
  states, delivery, verdicts, back-off and stalled check are modelled from
  `attempts: 3`, `backoff` and the `Worker` options. An id that was added before
  is not added again. The trimming of old entries is left out: ids are never
  reused.
* **JobController**: `createJob` and `rerunJob`, which make the same four awaited
  calls (`CreateJobDoc`, `InsertStubs`, `LogCreated`, `Enqueue`), each with its
  rejection. A failed `insertMany` may leave any prefix of the stubs. The reads
  before the first write, which decide between a 4xx and going on and fill the
  snapshot, are in JobSnapshots.
* **JobExecutor**: `executeJob`, one action per `await` with the synchronous code
  after it. `exec[s].pc` names the call that is awaited. `Await` carries the
  place a rejection leads to: `"thrown"` before the `try` (lines 43-72),
  `"catchStatus"` inside it, and `"thrown"` again inside `catch`.
* **JobPipeline**: processes and slots. A dedicated worker has five slots
  (`worker.js:35` passes the literal), the inline worker `WORKER_CONCURRENCY`.
  `Complete` and `Fail` settle the queue entry only while the lock is held.
  A crash or an exit wipes the slots and handlers of the process, and nothing
  else. `WorkDone` is what each shutdown handler really awaits.
* **JobLifecycle**: the abstract specification: what a client may observe of
  status and verdicts, with no queue and no workers.
* **RequestData**: what `executeRequest` does to data. A text is a sequence of
  tokens, literals and placeholders; a JSON value maps the paths of its leaves to
  texts. `resolvePath`, `extractVariables`, `injectVariables(Deep)` and the merge of
  headers and auth are operators on these; `validateUrl` is a predicate on the kind
  of the host and the answer of its look-up, which may differ from attempt to attempt.
* **RequestExecutor**: `executeRequest`, one action per awaited call: the retry
  callback, the back-off, the URL check, the request. The variable store holds values;
  `sent` and `checked` are histories of what was given to axios and sent, and what the
  check let through. axios is external. It is called without `maxRedirects`, so it
  follows redirects before the awaited call returns (`Redirected`, up to `MaxRedirects`
  times): the request of the attempt has gone out and been answered, and whatever the
  target does, an answer that axios hands over (`Answered`) or an error it throws
  (`Unanswered`), is what `executeRequest` sees. Where redirects lead and which address
  axios connects to, having looked the name up itself, is no part of `sent`.
  **RequestCall** is its abstract specification, and what `ExecuteRequest` of JobExecutor
  does in one step.
* **JobDetailPage**: the page: fetches of three calls, the timer, errors,
  unmounting. The job behind it just advances through its statuses, which is
  what JobLifecycle allows. Each of the three answers of a fetch carries the stage it
  was read at, and each fetch the stage at which it began (a history).
* **RateLimiter**: the two limiters for one client. `express-rate-limit` is external:
  a counter per client, whose window begins with the first call after the former
  one expired; a refused call counts as well. `created` keeps the admitted
  `POST /jobs`, each as its age and its number in its window, for the property only.
  The counters live in the memory of the API process; the module is one life of it.
* **ApiCalls**: the calls of that client: sent, refused or handled, answered or
  lost. What others do shows in the answers (collections come and go) and in the
  counters (`OtherTab`). **HomePage**, **NewCollectionPage** and **JobList** are
  the pages, or a script, that make the calls; **Clients** composes them, one
  page at a time. Leaving a page forgets its calls and timers.
* **Validation**: `validateCollection` and the checks of `createAuthProfile` as
  predicates on bodies. `""` is a falsy string; names are trimmed, methods and
  header names have one case, and a URL is what `isURL` made of it.
* **JobSnapshots**: the other side of `createJob` and `rerunJob`: what they read.
  Collections and auth profiles are created, updated and deleted by clients
  between the two reads of `createJob`. `AuthNotGiven` is a body without `auth`,
  `Unchanged` what a body does not mention: an `authProfileId`, or a part of auth.
  `parts` are the parts of auth that a PUT names one by one (`"auth.token"`, `$unset`),
  which go from the body into `findByIdAndUpdate` past `validateCollection`;
  `createCollection` takes the fields it knows. What is refused with a 4xx, or by the
  database (`AppliesParts`), is no step.
  A job document and its stubs are what was copied; their statuses are
  JobStore's.
* **SnapshotProperties**: the properties of those copies. `HSpec` adds two history
  variables: `seen` is, for each `createJob` in progress, all states of collections and
  profiles since its first read; `patched` has each auth that a PUT of single parts has
  left in a collection, with that collection.
* **Metrics**: the handlers of both reports, over jobs that behave as JobLifecycle
  allows, which is what the pipeline does when no call rejects. `Read` takes one
  document for one of the concurrent reads; a document that is inserted meanwhile
  may be missed. The list of the last failures has no more than `MaxFailures`, five in
  the code; which are the newest is left open. `report.begun` is for the properties only.
* **CollectionPage**: the pages that show the reports. The collection page loads
  collection, history and report by three concurrent calls, and `handleRun`
  creates a job and then reads the history again. Other clients submit jobs.
  **CollectionPageProperties** has the properties of both.
* **MCJobs**, **MCRequest**, **MCSnapshots**, **MCClients**: values for the constants;
  **JobProperties**: the properties of the pipeline.
* Theorems: **JobProofs** (types, locks, stubs), **JobDocProofs** (what executions leave in
  the documents of a job) and **JobLifecycleProofs** (the ends a job comes to, and the
  refinement); **SnapshotProofs**, **RequestProofs**, **PageProofs**, **ClientProofs**,
  **CollectionPageProofs**.

Definitions introduced by *Bug kept for comparison* are not part of any
specification. Each is a plausible mistake; substituted for the definition below
it, it violates the property that PROJECT.json pairs it with.

## 3. Runs

| Run | Instance | What it shows |
|---|---|---|
| JobsCrash | a sequential and a parallel job of two requests, inline worker with two slots, two crashes | `FiredAtMostOnce`, `OneExecutorPerJob`, `VerdictMatchesResults`, `SkipPropagation`, and the refinement `ImplementsLifecycle` |
| JobsFaults | one sequential job of two requests, three rejected calls, two crashes, one SIGTERM | `StubsBeforeExecution`, `CompletedMeansExecuted`, `VariablesAudited`, `LogFollowsResult`, `ResultLifecycle`; `OnlyCatchOverturns`, what a rejection can do to a terminal status, and where; the queue gets rid of its entry (`QueueDrains`), and gives it up unexecuted only after three rejections or two deaths (`GivesUpOnlyAfterFailures`) |
| JobsDeploy | one job of one request, dedicated worker, two SIGTERMs, locks may expire | `RunningHasExecutor` and `AcceptedJobsSettle`: a deployment of a dedicated worker loses nothing, and a job executed by several slots at a time still settles in a terminal status |
| RequestCalls | three attempts, each with up to two redirects; statuses 200, 304, 401 and 500; a request with placeholders everywhere and three rules for two variables; all kinds of hosts and auth | an answer that axios hands over ends the retries (`AnswerIsFinal`), retries are counted (`RetriesCounted`), every attempt gives axios the same request after a check of its own (`AttemptsAlike`, `SentIsChecked`), the report says what happened to the variables, and the call refines RequestCall |
| Snapshots | one collection, one profile, four changes of them, two jobs; six valid bodies, two of them with single parts of auth, and twelve that are refused | `ConsistentCopies`, `RerunsRepeat`: what a job copies, with collections and profiles changing under its handler; `EveryRequestHasItsStub`: what validation promises the executor; `AuthUsable`: an auth that lacks a part comes from a PUT of single parts, and from nothing else |
| CollectionPage | two jobs of two requests, one of the collection; one failing call | `CountsBracketed`, `FailuresListed`: a report counts at least what was there when it was asked for and at most what is there when it is answered; `HistoryGrows`, `RunEndsLinked`: the history never loses a job, and a run that created one ends with a link to it, whatever became of its second call |
| PagePolls | two overlapping fetches, one error | polling stops only at the end, stops in the end, survives errors; the screen has the parts of one fetch (`ShownIsOneFetch`); a page that was left stops unless it was left while loading |
| Clients | windows of two ticks, four calls and two jobs per window; two calls at once, two collections, three rows, four jobs in the list, limits below and above the maximum | `CreationBounded`, `RowsNumbered`, `WalkMissesNothing`, and `RunComesBack`: the promises of limiter, form, list and first page, with refused and lost calls |
| SayRetries | one job, one rejection | **violated**: a retry by the queue does not execute the job |
| SayLifecycleLock | one job, locks may expire | **violated**: a terminal status becomes RUNNING |
| SayGracefulInline | one job, inline worker, one SIGTERM | **violated**: the job stays RUNNING for ever |
| SayLive | two fetches | **violated**: the page says "live" and polls no more |

Run one with `tlc -workers 2 -config JobsCrash.cfg MCJobs.tla`.

### Why each property holds under its failures only

Every failure in the model can be switched off by its bound, and the runs switch
on those under which a property is true:

* `StatusLifecycle` and `ImplementsLifecycle` need calls that do not reject
  (the catch block writes FAILED over a terminal status; `OnlyCatchOverturns`
  says that nothing else does) and locks that do not expire (SayLifecycleLock). Crashes
  do them no harm.
* `VerdictMatchesResults` holds with rejected calls too: the catch block writes FAILED
  without looking at the results, but the property asks about COMPLETED and PARTIAL,
  and those only `deriveJobStatus` gives.
* `AcceptedJobsFinish` needs more: neither rejections nor crashes nor a SIGTERM
  to an inline worker, because after RUNNING was written nobody executes a job
  again. With SIGTERMs to a dedicated worker it holds, and more than it: JobsDeploy
  checks `AcceptedJobsSettle`, which says that the job stays terminal.
* `RunningHasExecutor` needs calls that do not reject, dedicated workers that do not
  crash, and no inline worker; locks may expire.
* `FiredAtMostOnce`, `OneExecutorPerJob`, `VerdictMatchesResults`, `SkipPropagation`,
  `VariablesAudited`, `LogFollowsResult`, `ResultLifecycle`, `OnlyCatchOverturns` and
  `GivesUpOnlyAfterFailures` need locks that do not expire, and nothing else: with a
  lock lost, two slots execute one job, write over each other's results and log each
  other's verdicts. The assumption cannot be spared: with `LockLoss = TRUE`, and neither
  rejections nor crashes, TLC finds each of them violated.

### Bounds

* Two jobs, one sequential and one parallel, are enough for interference in the
  API, the queue and the slots; jobs share nothing else. Where a run has one job
  it is about one job: its attempts, stalls and two slots. JobsFaults' job is
  sequential, the mode in which a failed request changes what comes after it.
* Two requests let a failure skip another one; their `index` fields `<<1, 0>>`
  are in the order opposite to the array's, which `validateCollection` allows.
* `MaxFaults`: three rejections use up all attempts, and cover one in `try`
  and one in `catch` with one to spare. `MaxCrashes`: two use up `MaxStalledCount`. `MaxDeploys`: two
  restart the server and the worker, or one of them twice.
* `MaxAttempts = 3` is the value `executeJob` passes. `MaxRedirects` is 2: one that is
  followed and one after it (axios allows more); of the answers that axios hands over, a
  3xx is one without a Location, such as 304. `Fetches` bounds how many
  fetches overlap, not how many there are.
* JobsDeploy has one request: what it asks is about the job. Five slots and two
  SIGTERMs, to either process or one after the other.
* CollectionPage: a report needs two jobs, to see one before and one after a
  change, and two requests, to be PARTIAL. `MaxFailures` is 1: with two jobs that may fail, the list is
  found empty, full, and too short for both. The limit of ten runs is out of reach.
* Snapshots: four changes create collection and profile and then change both
  between the two reads of one handler, the only way to a torn copy. Two jobs are
  an original and its rerun. Three requests are the maximum and one more is
  refused; timeouts are 1 to 3. One PUT takes a token away and one changes the type of
  an auth: two ways to an auth that lacks a part.
* Clients: a limit of two jobs per window of two ticks lets three through in some
  two ticks, which is the bound (with `2 * MaxJobs - 1` in its place TLC finds it
  violated). Two timers of one collection overlap; three rows have one before and
  one after the one that is removed; of four jobs a page holds at most two. `MaxCalls`
  is large enough for the job limiter, and small enough for the general one, to refuse.
* Deadlock is checked in Clients, where the clock always ticks. It is not checked
  elsewhere: clients who stop asking, a system whose jobs have ended, a call that has
  returned and a page that was left without a timer do come to rest.

### Fairness

`FairSpec` assumes that awaited calls settle (drivers have timeouts, `axios` is
given one), that the back-off and the stalled check of the queue run, that free
workers fetch, and that a closing process exits once its handler has what it
awaits. Weak fairness suffices: nothing but the action itself takes these steps
away. Nobody is assumed to submit a job; no failure is assumed to happen or not
to happen. On the page, the timer fires and calls are answered; the job itself
need not go on, which is why the liveness properties assume `<>Ended(stage)`.
Clients assumes one thing: a timer that was set fires, unless its page is left.
The user may click or not, and calls need not be answered.

## 4. What is proved

Every invariant and every action property of the passing runs is a theorem, for any
number of jobs, requests, workers, attempts and failures, from the named assumptions
on the constants. Where a theorem needs a failure to be absent its `ASSUME` says so,
and it is one the runs switch off too (see above). What is left to TLC is at the end.

### The pipeline

JobProofs, with every failure allowed but the one named:

* `TypeCorrect`, `StubsPrecedeExecution`, `CompletionIsHonest`: `TypeOK`,
  `StubsBeforeExecution` and `CompletedMeansExecuted`.
* `OneExecutor` (`LockLoss = FALSE`): `OneExecutorPerJob`.

JobDocProofs, all with `LockLoss = FALSE`, with crashes, deployments, rejected calls
and redeliveries:

* `NothingFiredTwice`, `LogIsTrue`, `VariablesAreAudited`, `SkipsPropagate`,
  `VerdictIsTrue`: the invariants `FiredAtMostOnce`, `LogFollowsResult`,
  `VariablesAudited`, `SkipPropagation` and `VerdictMatchesResults`.
* `ResultsDecidedOnce`, `CatchAloneOverturns`: the action properties
  `ResultLifecycle` and `OnlyCatchOverturns`. For the second, three calls write the
  status (`StatusWriters`), and two of them find the job unfinished (`OverturnedInCatch`).

JobLifecycleProofs:

* `PipelineImplementsLifecycle` (`LockLoss = FALSE`, `MaxFaults = 0`): the refinement
  `ImplementsLifecycle`; crashes and deployments happen.
* `StatusTakesItsArrows` (the same): `StatusLifecycle`, which SayLifecycleLock
  shows to be false once locks expire.
* `RunningIsRun` (`MaxFaults = 0`, `MaxCrashes = 0`, `InlineWorker = FALSE`):
  `RunningHasExecutor`, with locks that expire.
* `GivenUpForAReason` (`LockLoss = FALSE`): `GivesUpOnlyAfterFailures`.

`TypeOK` is not inductive: what an execution writes goes to `db[JobOf(s)]`, which
means something only if its slot has a job. `TypeInv` adds that a busy slot has
one (`BusyHasJob`). `LockInv` says that an execution that holds a lock is busy
and its queue entry is active, that no two executions hold the lock of one job,
and that an entry that has not been settled has an attempt left; the last part
is what keeps the attempt counter in its type. `IndInv == TypeInv /\ LockInv` is
inductive. `OneExecutor` adds `BusyLocked`: if locks are not lost, every busy
slot holds the lock of its job, so the stalled check cannot hand a job that is
being executed to a second slot. The theorems on stubs and completion need, besides
`IndInv`, an invariant that ties three places together (`DocInv`): the program
counter of the handler, the queue entry, and the document (behind the status
check, the job of an execution is neither missing nor PENDING).

The theorems of JobDocProofs all follow from one more, `HistoryInv`. Its first part,
`GoodDoc`, is what holds of a document whoever looks at it: a job that was not started
is untouched, no request was started twice, the log tells nothing that the results do not say,
skips have a failure before them, a verdict is deserved. None of it is inductive
without the second part, `SlotDoc`, which says for each place of `executeJob` what the
document looks like there: the requests before the current one are settled, those
after it are pending, the current one has what the calls up to this one have written, the
variables held in memory are those of the log, and `shouldAbort` is set exactly if a
request has failed. The status check makes a redelivered job a job whose document
nobody touches any more; that there is one slot per job is why the two parts do not
contradict each other. `ExecStepShape` reduces the actions of an execution to the
form `Await(s, doc, next, thrown)` for the proofs that only ask where a step leads.

For the refinement `Seen` describes a step by the documents alone: the status moves
on with the verdicts unchanged, or the next open request gets its verdict. Without
rejected calls no execution reaches its catch block (`NothingThrown`), so each
action is one or the other. `RunningIsRun` needs no locks: a RUNNING job has
an execution past its first write, and that execution goes on to the end. For
`GivenUpForAReason` every attempt that was used up is charged to a rejected call
(`FaultInv`, with one more for the execution that is failing now), and every stall to
a process that has died or been replaced and is not still closing (`StallInv`).

### Snapshots

`SnapshotProofs` proves, for any bodies, any number of ids and of changes, from
`TextAssumption`, `ValidationAssumption` and `SnapshotAssumption`:
`TypeCorrect`, `RerunsAreDeterministic`, `AuthIsWhole`, `StubsMatch` and
`SnapshotsAreConsistent`, on `HSpec`, every step of which is one of `Spec`.
The inductive invariant has five parts:

* `TypeInv`: the types, and that a handler which looks up a profile has one
  (`HasLink`).
* `AuthInv`: the auth of every profile is usable; that of every collection, handler and
  job is usable, or was put into its collection by a PUT of single parts (`Explained`).
  Updates of a profile keep its type, so a rotation cannot remove what the type
  needs; validation guards what is given as a whole. Nothing guards single parts.
* `RequestsInv`: stored collections, handlers and jobs have between one request and
  the maximum, no two with one index. `UniqueIndexes` counts; that a sequence with
  as many indexes as requests repeats none is a lemma about cardinalities.
* `CopyInv`: a job and the handler that wrote it have the same plan, its stubs are
  those of the plan, and a rerun's original exists and has its plan.
* `SeenInv`: the present moment is in `seen`; while the profile is looked up, so is
  one at which the collection was as the plan has it; afterwards the plan is of one
  version and, but for the exception the property names, of one moment.

### The job page, requests, clients

`PageProofs` proves `ShownIsOneFetch`, `StopsOnlyAtTheEnd`, `LeftPagesStop` and
`TypeOK` for any number of overlapping fetches and errors. What makes them
inductive is `FetchInv`: each answer was given between the making of its fetch and
now (`ReadsBetween`), so a fetch that was told the end cannot be wrong about it;
and the first fetch is alone, with the page loading and no timer (`InitAlone`),
so the only timer set for a page that is gone is the one of `LeftPagesStop`.

`RequestProofs` proves `AnswerIsFinal`, `RetriesCounted`, `SentIsChecked`,
`AttemptsAlike` and `StoreMatchesReport` for any requests, rules, responses and
`MaxAttempts`, and the safety part of `ImplementsCall` (`CallIsOneStep`). The
invariant says what the loop has done by its n-th attempt: the same request was given to
axios n - 1 times, each time after its check and whatever redirects were followed
(`InLoop`), and that the ways out add one send and report the ones before it (`LastSent`), or
add none and report 0 (`Blocked`). `AnsweredOnce` and `EverySendIsChecked` are about
what the code gives axios and gets from it: a request may well be answered and sent again
when what its redirect leads to fails, and redirects go to URLs that nobody has checked. `StoreMatchesReport` is about a recursion over the rules.
The library's induction theorems, which take a predicate, cannot be used; in their place
`LeastNatural` says that a nonempty set of numbers has a least one, and both that the
recursive function exists (`ExtractionExists`) and that store and report agree after each rule
(`ExtractionMatches`) are proved by looking at the least number for which they fail.

`ClientProofs` proves `RowsNumbered`, `WalkMissesNothing` and `CreationBounded` on the
whole of Clients, for any limits, rows, jobs and calls in progress. The form's rows are
always numbered, and so are those of a call that carries them (`FormInv`). A walk
has seen every job of its beginning that is newer than the page it is at
(`NewerThan`); an answer that has been given but not yet landed adds its page to
that even when more jobs have been created since (`Adds`, in `ListInv`), because
jobs only move towards later pages. `skip(n + 1) = skip(n) + ` the limit applied is
where the clamped limit matters. `CreationBounded` counts the calls of an interval as
those of the window that is open (`Current`) and of the one before it (`Former`). The call that
began a window is the oldest it let through, so when the window is over that call has left the
interval, and fewer than the maximum of `Former` are in it (`LimiterInv`).

### Reports and their pages

`CollectionPageProofs` proves `CountsBracketed`, `FailuresListed`, `RunEndsLinked`,
`HistoryGrows` and `TypeOK` for any finite set of jobs, any number of requests and any
length of the list of failures. A job or result that is final stays as it is (`Onward`); so
what a scan has read is still true if it is final, and is final if it was so when the call
arrived (`SeenInv`, `BegunInv`). Each count is then squeezed between two cardinalities. That
every request of a job that had ended is counted among the three verdicts (`N` times the
number of such jobs) needs `LifeInv`: a job that has ended has no open result. An answer
stays bracketed later because only its upper bound moves, and only upwards. `PageInv`
says which lists are on the screen or on their way: while a run is in progress the page has
loaded, so no first load can overwrite what the run put there.

### Only model-checked

Liveness needs fairness and `ENABLED`, which the provers do not handle: `QueueDrains`,
`AcceptedJobsSettle`, `PollingEnds`, `TheEndIsShown`, `RunComesBack`, and the fairness
that `ImplementsCall` asks for.

## 5. Where code and documentation differ

The four violation runs, each with its line in PROJECT.json, and these, which
need no run:

* `README.md:120` promises a configurable concurrency of the dedicated worker;
  `worker.js:35` passes 5. Only the inline worker reads `WORKER_CONCURRENCY`.
* `README.md:124` has PARTIAL "for when some requests pass and others fail"; a
  sequential job whose first request fails is PARTIAL, with none passed.
* `Collection.model.js:11` calls `index` the execution order; the order is that
  of the array. "Parallel" jobs too execute one request after the other; the
  mode decides only whether a failure skips the rest.
* `requestExecutor.js:240-242` lists 401, 403 and 404 among the errors that fail
  at once; `validateStatus` (line 195) lets every status complete the request.
* `jobExecutor.js:6` ends the lifecycle with the terminal statuses; when the last
  log write (line 192) rejects, the catch block turns COMPLETED or PARTIAL into
  FAILED. `OnlyCatchOverturns` in JobsFaults bounds the damage.
* `AuthProfile.model.js:7-8` has tokens decrypted "only at execution time", and
  `Collection.model.js:59-60` speaks of execution time too; `job.controller.js:38-46`
  resolves and decrypts when the job is created, and what changes later has no
  effect on it.
* `ssrfProtection.js:76` wants the check "before any outgoing HTTP request".
  `requestExecutor.js:189-196` leaves axios's `maxRedirects` at its default: redirects are
  followed within an attempt, to URLs that `validateUrl` never saw. If the target times out
  or redirects once too often, the catch block retries, and a request that had been
  answered, with a redirect, is sent again.
* `ssrfProtection.js:14-16` and `118-120`, and `README.md:126`, promise a defence against
  DNS rebinding. The address that `dns.lookup` (line 122) returns is checked and dropped;
  axios looks the name up again, and may get another one.
* `validateRequest.js:132-137` requires the parts that the type of an auth needs, and
  `collection.controller.js:52-54` passes the whole body on to the database. A PUT with a valid
  name and requests, and `"auth.token": ""` or `"auth.type": "apiKey"` beside them, is
  applied; the jobs created from then on have an auth that lacks a part, and
  `executeRequest` sends none. `AuthUsable` says that this is the only way.
* `README.md:57` has "SSRF Check → Inject Variables"; `requestExecutor.js:147-172`
  injects first, and checks what came out.
* `rateLimiter.js:28` and its message (line 37) speak of 20 jobs per minute. The
  windows of one client are fixed: up to 39 fit into a minute around an edge.
  Reruns create jobs as well and count for the general limit only.
  "Per IP" is what the socket says: `app.js` sets no `trust proxy`, so behind a proxy
  all clients share one counter.
* An open job page makes 60 calls a minute, two make 120, above the general limit;
  a page that is opened while calls are refused says that the job was not found, and
  does not poll. The first page shows a failed load as "No collections yet".
* `listJobs` clamps the limit to 50 without saying so; `pages` is computed from the
  clamped limit and a count of its own. With a `status` filter a walk can miss
  jobs, since jobs leave the filter. A negative limit is passed on.
* The button of the form works again before the page is left, and after an answer
  that was lost: a second click creates the collection again.
* `RequestResult.model.js:37`: a retry that the URL check blocks reports
  `retryCount` 0, whatever was retried before.
* `collection.routes.js:212` says that deleting a collection deletes "all its
  associated jobs"; `collection.controller.js:67` deletes the collection only, and
  reports on it are 404 from then on.
* The collection page calls "Requests Run" (`collections/[id]/page.jsx:84`) the sum
  of all statuses, those of pending and skipped requests included. It says "Failed"
  (line 41) of a job that was created when only the refresh of the history failed,
  and "Collection not found" (line 48) when any of its three calls did.
* `metrics.controller.js:78-80` rounds: from 200 jobs on a success rate of 100%
  need not mean that all passed.
* `queue.js:17` and `requestExecutor.js:128` mention a third back-off of 4 s;
  with three attempts there are two, of 1 s and 2 s.

## 6. Not modelled

* Times, latencies and durations (those of the reports too), response bodies and
  messages; they decide nothing, except that `Log` entries are sorted by a
  timestamp, which here is their order.
* Arrays in JSON values, properties of strings (`"abc".length`), and what `String()`
  makes of an object beyond one literal; the parsing of URLs and the lists of blocked
  addresses, of which the kind of the host is left; the network, an outcome. The targets of
  redirects and the addresses axios connects to are not modelled, so no property says
  anything of what is sent there.
* Restarts of the API in Clients: the counters of the limiter are in memory
  (`rateLimiter.js:8`), and a client begins afresh after one.
* The filters and the total of `listJobs`; the first page's failed load, which looks
  like an empty list; the form's profiles, name and mode.
* The window between `disconnectDB()` and `process.exit`: calls of the inline
  worker that fail in it are rejections that the model allows at any time.
* `unhandledRejection`, which closes the server as a SIGTERM does.
* Names and descriptions of collections, the format of URLs, the encryption of
  tokens (profiles are modelled decrypted).
* The exemption of `/health` from the limiter, and its headers. The error handler and
  the encryption are stateless; what they return is never asked about.
* The components marked so in PROJECT.json, with their reasons.

## 7. Plan

1. Proofs: what locks that expire leave true (`StubsBeforeExecution` and
   `CompletedMeansExecuted` do not need them; which part of `ResultLifecycle` does);
   what a job page shows under the steps of JobLifecycle.
2. The form's list of profiles, and the filters of `listJobs`.
3. Latencies: the averages of the reports over completed results only.
