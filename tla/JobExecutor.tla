---------------------------- MODULE JobExecutor ----------------------------
(***************************************************************************)
(* executeJob: one execution of a job, from the read of its document to    *)
(* the write of its final status.  Each action is one awaited call with    *)
(* the synchronous code that follows it; everything an execution remembers *)
(* between two awaits is in exec, and is lost with its process.            *)
(***************************************************************************)
EXTENDS JobStore

CONSTANT Slots   \* the executions that can be in progress at once

VARIABLE exec    \* exec[s]: the local state of slot s

ExecPcs == {"idle", "findJob", "markRunning", "logStarted", "findStubs",
            "skipResult", "logSkip", "startResult", "logStart", "executeRequest",
            "logVar", "persistResult", "logOutcome", "persistVars", "derive",
            "persistStatus", "logFinal", "catchStatus", "catchLog",
            "returned", "notPending", "thrown"}

Exec == [pc      : ExecPcs,
         job     : Jobs \cup {NoJob},
         locked  : BOOLEAN,            \* the queue's lock on the job is still ours
         pos     : Positions,          \* the request at hand
         stubs   : SUBSET Indexes,     \* requestResults
         abort   : BOOLEAN,            \* shouldAbort
         outcome : {"COMPLETED", "FAILED"},   \* result.status
         vars    : SUBSET Indexes,     \* variables
         final   : Terminal]           \* finalStatus

\* The fields of an execution that has just begun.  outcome and final are
\* read only after they are assigned.
Fresh(pc, j, locked) ==
  [pc |-> pc, job |-> j, locked |-> locked, pos |-> 1, stubs |-> {}, abort |-> FALSE,
   outcome |-> "FAILED", vars |-> {}, final |-> "FAILED"]

IdleExec == Fresh("idle", NoJob, FALSE)
Begin(s, j) == exec' = [exec EXCEPT ![s] = Fresh("findJob", j, TRUE)]

ExecInit == exec = [s \in Slots |-> IdleExec]
ExecTypeOK == exec \in [Slots -> Exec]

JobOf(s) == exec[s].job
DocOf(s) == db[JobOf(s)]

-----------------------------------------------------------------------------
(* What executeJob decides *)

\* Bug kept for comparison: the status is not looked at.
ExecutableAlways(doc) == TRUE
Executable(doc) == doc.status = "PENDING"

\* Bug kept for comparison: some instead of every.
deriveFromSome(statuses) ==
  CASE "COMPLETED" \in statuses -> "COMPLETED"
    [] statuses = {"FAILED"}    -> "FAILED"
    [] OTHER                    -> "PARTIAL"

\* statuses: the set of the statuses of a job's results.
deriveJobStatus(statuses) ==
  CASE statuses \subseteq {"COMPLETED"} -> "COMPLETED"
    [] statuses = {"FAILED"}            -> "FAILED"
    [] OTHER                            -> "PARTIAL"

\* Bug kept for comparison: a failure does not stop a sequential job.
ShouldSkipNever(e) == FALSE
ShouldSkip(e) == e.abort /\ e.job \in Sequential

\* Bug kept for comparison: the loop runs one request too far.
AdvanceTooFar(e, p) ==
  IF p > Len(Snapshot) + 1
  THEN [e EXCEPT !.pc = "persistVars"]
  ELSE [e EXCEPT !.pos = p, !.pc = IF ShouldSkip(e) THEN "skipResult" ELSE "startResult"]

\* The loop reaches the first request from position p on that has a stub
\* (one without is passed over), or ends.
AdvanceTo(e, p) ==
  LET rest == {q \in Positions : q >= p /\ Snapshot[q] \in e.stubs} IN
  IF rest = {}
  THEN [e EXCEPT !.pc = "persistVars"]
  ELSE [e EXCEPT !.pos = CHOOSE q \in rest : \A r \in rest : q <= r,
                 !.pc = IF ShouldSkip(e) THEN "skipResult" ELSE "startResult"]

-----------------------------------------------------------------------------
(* The shape of every step: slot s, at pc, awaits a call that leaves doc in *)
(* the store; next is its state if the call succeeds, thrown its pc if the  *)
(* call rejects.                                                            *)

At(s, pc) == exec[s].pc = pc

Await(s, doc, next, thrown) ==
  \/ Commits(JobOf(s), doc) /\ exec' = [exec EXCEPT ![s] = next]
  \/ Rejects(JobOf(s), {DocOf(s), doc}) /\ exec' = [exec EXCEPT ![s].pc = thrown]

GoTo(s, pc) == [exec[s] EXCEPT !.pc = pc]
Log(s, ev, i) == WithLog(DocOf(s), ev, i)
Current(s) == Snapshot[exec[s].pos]

-----------------------------------------------------------------------------
(* Before the try block: a rejection is rethrown and nothing is written *)

FindJob(s) ==
  /\ At(s, "findJob")
  /\ Await(s, DocOf(s), GoTo(s, IF Executable(DocOf(s)) THEN "markRunning" ELSE "notPending"),
           "thrown")

MarkRunning(s) ==
  /\ At(s, "markRunning")
  /\ Await(s, WithStatus(DocOf(s), "RUNNING"), GoTo(s, "logStarted"), "thrown")

LogStarted(s) ==
  /\ At(s, "logStarted")
  /\ Await(s, Log(s, "JOB_STARTED", NoIndex), GoTo(s, "findStubs"), "thrown")

FindStubs(s) ==
  /\ At(s, "findStubs")
  /\ Await(s, DocOf(s), AdvanceTo([exec[s] EXCEPT !.stubs = StubsOf(DocOf(s))], 1), "thrown")

-----------------------------------------------------------------------------
(* The loop over requestsSnapshot *)

SkipResult(s) ==
  /\ At(s, "skipResult")
  /\ Await(s, WithResult(DocOf(s), Current(s), "SKIPPED"), GoTo(s, "logSkip"), "catchStatus")

LogSkip(s) ==
  /\ At(s, "logSkip")
  /\ Await(s, Log(s, "REQUEST_SKIPPED", Current(s)), AdvanceTo(exec[s], exec[s].pos + 1),
           "catchStatus")

StartResult(s) ==
  /\ At(s, "startResult")
  /\ Await(s, WithResult(DocOf(s), Current(s), "RUNNING"), GoTo(s, "logStart"), "catchStatus")

LogStart(s) ==
  /\ At(s, "logStart")
  /\ Await(s, Log(s, "REQUEST_STARTED", Current(s)), GoTo(s, "executeRequest"), "catchStatus")

\* executeRequest never throws, and has put what it extracted into variables.
Answered(e, outcome, extracted) ==
  [e EXCEPT !.outcome = outcome, !.vars = @ \cup extracted,
            !.pc = IF extracted = {} THEN "persistResult" ELSE "logVar"]

\* Bug kept for comparison: without a timeout a request may hang for ever.
ExecuteRequestHangs(s) ==
  /\ At(s, "executeRequest")
  /\ exec' = [exec EXCEPT ![s].pc = "hung"]
  /\ UNCHANGED storeVars

\* The retries of executeRequest are the subject of RequestExecutor; here it
\* ends in one step, with or without an extracted variable.
ExecuteRequest(s) ==
  /\ At(s, "executeRequest")
  /\ \E outcome \in {"COMPLETED", "FAILED"}, extracted \in {{}, {Current(s)}} :
       /\ outcome = "FAILED" => extracted = {}
       /\ exec' = [exec EXCEPT ![s] = Answered(exec[s], outcome, extracted)]
  /\ UNCHANGED storeVars

\* Bug kept for comparison: a log entry that is not written is no error.
LogVarBestEffort(s) ==
  /\ At(s, "logVar")
  /\ Await(s, Log(s, "VAR_EXTRACTED", Current(s)), GoTo(s, "persistResult"), "persistResult")

LogVar(s) ==
  /\ At(s, "logVar")
  /\ Await(s, Log(s, "VAR_EXTRACTED", Current(s)), GoTo(s, "persistResult"), "catchStatus")

\* Bug kept for comparison: a result that is not stored is no error.
PersistResultBestEffort(s) ==
  /\ At(s, "persistResult")
  /\ Await(s, WithResult(DocOf(s), Current(s), exec[s].outcome), GoTo(s, "logOutcome"),
           "logOutcome")

PersistResult(s) ==
  /\ At(s, "persistResult")
  /\ Await(s, WithResult(DocOf(s), Current(s), exec[s].outcome), GoTo(s, "logOutcome"),
           "catchStatus")

OutcomeEvent(e) == IF e.outcome = "COMPLETED" THEN "REQUEST_COMPLETED" ELSE "REQUEST_FAILED"
Aborts(e) == e.outcome = "FAILED" /\ e.job \in Sequential

LogOutcome(s) ==
  LET e == [exec[s] EXCEPT !.abort = @ \/ Aborts(exec[s])] IN
  /\ At(s, "logOutcome")
  /\ Await(s, Log(s, OutcomeEvent(e), Current(s)), AdvanceTo(e, e.pos + 1), "catchStatus")

-----------------------------------------------------------------------------
(* After the loop *)

PersistVars(s) ==
  /\ At(s, "persistVars")
  /\ Await(s, WithVars(DocOf(s), exec[s].vars), GoTo(s, "derive"), "catchStatus")

DeriveStatus(s) ==
  LET doc == DocOf(s)
      statuses == {doc.results[i] : i \in StubsOf(doc)} IN
  /\ At(s, "derive")
  /\ Await(s, doc, [exec[s] EXCEPT !.pc = "persistStatus", !.final = deriveJobStatus(statuses)],
           "catchStatus")

\* Bug kept for comparison: an execution that has lost its lock writes no status.
PersistStatusFenced(s) ==
  /\ At(s, "persistStatus")
  /\ Await(s, IF exec[s].locked THEN WithStatus(DocOf(s), exec[s].final) ELSE DocOf(s),
           GoTo(s, "logFinal"), "catchStatus")

PersistStatus(s) ==
  /\ At(s, "persistStatus")
  /\ Await(s, WithStatus(DocOf(s), exec[s].final), GoTo(s, "logFinal"), "catchStatus")

FinalEvent(status) ==
  CASE status = "COMPLETED" -> "JOB_COMPLETED"
    [] status = "PARTIAL"   -> "JOB_PARTIAL"
    [] status = "FAILED"    -> "JOB_FAILED"

LogFinal(s) ==
  /\ At(s, "logFinal")
  /\ Await(s, Log(s, FinalEvent(exec[s].final), NoIndex), GoTo(s, "returned"), "catchStatus")

-----------------------------------------------------------------------------
(* The catch block: the job is marked FAILED and the error is rethrown *)

\* Bug kept for comparison: the job is made executable again for the retry.
CatchRequeue(s) ==
  /\ At(s, "catchStatus")
  /\ Await(s, WithStatus(DocOf(s), "PENDING"), GoTo(s, "catchLog"), "thrown")

CatchStatus(s) ==
  /\ At(s, "catchStatus")
  /\ Await(s, WithStatus(DocOf(s), "FAILED"), GoTo(s, "catchLog"), "thrown")

CatchLog(s) ==
  /\ At(s, "catchLog")
  /\ Await(s, Log(s, "JOB_FAILED", NoIndex), GoTo(s, "thrown"), "thrown")

ExecStep(s) ==
  \/ FindJob(s) \/ MarkRunning(s) \/ LogStarted(s) \/ FindStubs(s)
  \/ SkipResult(s) \/ LogSkip(s) \/ StartResult(s) \/ LogStart(s)
  \/ ExecuteRequest(s) \/ LogVar(s) \/ PersistResult(s) \/ LogOutcome(s)
  \/ PersistVars(s) \/ DeriveStatus(s) \/ PersistStatus(s) \/ LogFinal(s)
  \/ CatchStatus(s) \/ CatchLog(s)

=============================================================================
