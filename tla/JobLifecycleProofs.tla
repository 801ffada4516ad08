------------------------- MODULE JobLifecycleProofs -------------------------
(***************************************************************************)
(* Proofs about the ends a job can come to.  When no call is rejected,     *)
(* processes still crash and are redeployed, but no execution reaches its  *)
(* catch block, and the documents of a job behave as JobLifecycle.  When   *)
(* calls are rejected too, the queue gives a job up only for a reason.     *)
(***************************************************************************)
EXTENDS JobDocProofs

-----------------------------------------------------------------------------
(* A step of an execution whose calls succeed *)

NothingThrown == \A s \in Slots : exec[s].pc \notin Caught

\* A status is RUNNING after the step because the execution is at it, or
\* because it was RUNNING before and is somebody else's.
CleanStep(s) ==
  LET j == JobOf(s) IN
  /\ exec'[s].pc \notin Caught
  /\ db'[j].status = "RUNNING" => \/ exec'[s].pc \in RunningPcs
                                  \/ db[j].status = "RUNNING" /\ exec[s].pc \notin RunningPcs

LEMMA NoReject ==
  ASSUME MaxFaults = 0, StoreTypeOK, ExecTypeOK, NEW s \in Slots, JobOf(s) \in Jobs,
         NEW doc, NEW next, NEW thrown, Await(s, doc, next, thrown)
  PROVE  db'[JobOf(s)] = doc /\ exec'[s] = next
<1>1. faults = 0
  BY DEF StoreTypeOK
<1> QED
  BY <1>1 DEF Await, Commits, Rejects, StoreTypeOK, ExecTypeOK

LEMMA ExecStepClean ==
  ASSUME MaxFaults = 0, TypeInv, NothingThrown, NEW s \in Slots, ExecStep(s)
  PROVE  CleanStep(s)
<1>1. StoreTypeOK /\ ExecTypeOK /\ JobOf(s) \in Jobs
  BY ExecStepEffect DEF StepSummary, TypeInv, TypeOK, BusyHasJob, Busy, At
<1>2. CASE UNCHANGED storeVars /\ exec'[s].pc \in RunningPcs
  BY <1>2 DEF CleanStep, RunningPcs
<1>3. ASSUME NEW doc, NEW next, NEW thrown, Await(s, doc, next, thrown), Leads(s, doc, next)
      PROVE  CleanStep(s)
  BY <1>1, <1>3, NoReject DEF Leads, NothingThrown, CleanStep, DocOf, Terminal
<1> QED
  BY <1>2, <1>3, ExecStepShape

-----------------------------------------------------------------------------
(* A job shown as RUNNING is being run *)

RunInv ==
  /\ NothingThrown
  /\ \A j \in Jobs : db[j].status = "RUNNING" =>
                       \E s \in Slots : exec[s].pc \in RunningPcs /\ JobOf(s) = j

\* No handler makes a job RUNNING.
LEMMA ApiStatus ==
  ASSUME TypeInv, NEW j \in Jobs, Submit(j) \/ Handle(j)
  PROVE  \A k \in Jobs : db'[k].status = "RUNNING" => db[k].status = "RUNNING"
<1>1. db \in [Jobs -> JobDoc] /\ db[j] \in JobDoc
  BY DEF TypeInv, TypeOK, StoreTypeOK
<1>2. /\ WithStatus(db[j], "PENDING").status = "PENDING"
      /\ WithLog(db[j], "JOB_STARTED", NoIndex).status = db[j].status
      /\ \A k : StubbedUpTo(db[j], k).status = db[j].status
  BY <1>1 DEF WithStatus, WithLog, StubbedUpTo, JobDoc
<1>3. CASE CreateJobDoc(j)
  BY <1>1, <1>2, <1>3 DEF CreateJobDoc, Commits, Rejects
<1>4. CASE InsertStubs(j)
  <2>1. PICK k : db' = [db EXCEPT ![j] = StubbedUpTo(db[j], k)]
    BY <1>4 DEF InsertStubs, Commits, Rejects
  <2> QED
    BY <1>1, <1>2, <2>1
<1>5. CASE LogCreated(j)
  BY <1>1, <1>2, <1>5 DEF LogCreated, Commits, Rejects
<1>6. CASE Enqueue(j)
  BY <1>1, <1>6 DEF Enqueue, Rejects, storeVars
<1> QED
  BY <1>3, <1>4, <1>5, <1>6 DEF Submit, Handle, HandlerStep

\* A step that leaves alone every execution that is between its two writes.
LEMMA RunningUntouched ==
  ASSUME RunInv,
         \A j \in Jobs : db'[j].status = "RUNNING" => db[j].status = "RUNNING",
         \A s \in Slots : exec'[s].pc \in Caught => exec[s].pc \in Caught,
         \A s \in Slots : exec[s].pc \in RunningPcs =>
                            exec'[s].pc = exec[s].pc /\ exec'[s].job = exec[s].job
  PROVE  RunInv'
BY DEF RunInv, NothingThrown, JobOf

LEMMA RunStep ==
  ASSUME MaxFaults = 0, MaxCrashes = 0, InlineWorker = FALSE, IndInv, RunInv, [Next]_vars
  PROVE  RunInv'
<1>1. /\ exec \in [Slots -> Exec] /\ BusyHasJob /\ crashes = 0 /\ TypeInv
      /\ "idle" \notin Caught /\ "idle" \notin RunningPcs
  BY DEF IndInv, TypeInv, TypeOK, ExecTypeOK, Caught, RunningPcs
<1>2. ASSUME NEW j \in Jobs, Submit(j) \/ Handle(j) PROVE RunInv'
  BY <1>1, <1>2, ApiEffect, ApiStatus, RunningUntouched
<1>3. ASSUME NEW s \in Slots, NEW j \in Jobs, Take(s, j) PROVE RunInv'
  <2>1. exec[s].pc = "idle" /\ exec' = [exec EXCEPT ![s] = Fresh("findJob", j, TRUE)] /\ UNCHANGED db
    BY <1>3 DEF Take, Begin, At, storeVars
  <2>2. "findJob" \notin Caught
    BY DEF Caught
  <2> QED
    BY <1>1, <2>1, <2>2, IdleTyped, RunningUntouched
<1>4. ASSUME NEW s \in Slots, Execute(s) PROVE RunInv'
  <2>1. CleanStep(s) /\ StepSummary(s) /\ JobOf(s) \in Jobs
    BY <1>1, <1>4, ExecStepClean, ExecStepEffect
       DEF Execute, RunInv, BusyHasJob, Busy, At, StepSummary
  <2>2. NothingThrown'
    BY <2>1 DEF CleanStep, StepSummary, RunInv, NothingThrown
  <2>3. ASSUME NEW j \in Jobs, db'[j].status = "RUNNING"
        PROVE  \E t \in Slots : exec'[t].pc \in RunningPcs /\ exec'[t].job = j
    <3>1. CASE j = JobOf(s) /\ exec'[s].pc \in RunningPcs
      BY <2>1, <3>1 DEF StepSummary
    <3>2. CASE j # JobOf(s) \/ exec'[s].pc \notin RunningPcs
      <4>1. db[j].status = "RUNNING" /\ (j = JobOf(s) => exec[s].pc \notin RunningPcs)
        BY <2>1, <2>3, <3>2 DEF CleanStep, StepSummary
      <4>2. PICK t \in Slots : exec[t].pc \in RunningPcs /\ JobOf(t) = j
        BY <4>1 DEF RunInv
      <4>3. t # s
        BY <4>1, <4>2
      <4> QED
        BY <2>1, <4>2, <4>3 DEF StepSummary, JobOf
    <3> QED
      BY <3>1, <3>2
  <2> QED
    BY <2>2, <2>3 DEF RunInv, JobOf
<1>5. ASSUME NEW s \in Slots, Complete(s) \/ Fail(s) PROVE RunInv'
  <2>1. /\ exec[s].pc \in {"returned", "notPending", "thrown"}
        /\ exec' = [exec EXCEPT ![s] = IdleExec] /\ UNCHANGED db
    BY <1>5 DEF Complete, Fail, Settle, At, storeVars
  <2>2. exec[s].pc \notin RunningPcs
    BY <2>1 DEF RunningPcs, Caught
  <2> QED
    BY <1>1, <2>1, <2>2, IdleTyped, RunningUntouched
<1>6. ASSUME NEW s \in Slots, LockExpires(s) PROVE RunInv'
  <2>1. UNCHANGED db /\ \A t \in Slots : exec'[t].pc = exec[t].pc /\ exec'[t].job = exec[t].job
    BY <1>1, <1>6 DEF LockExpires, Exec, storeVars
  <2> QED
    BY <2>1, RunningUntouched
<1>7. ASSUME NEW p \in Processes, Exit(p) PROVE RunInv'
  <2>1. UNCHANGED db /\ exec' = [s \in Slots |-> IF s[1] = p THEN IdleExec ELSE exec[s]]
    BY <1>7 DEF Exit, Restart, storeVars
  <2>2. ASSUME NEW s \in Slots, s[1] = p PROVE exec[s].pc = "idle"
    <3>1. p # Server
      BY <2>2, SlotsTyped, JobPipelineAssumption DEF WorkerProcs
    <3> QED
      BY <1>7, <2>2, <3>1 DEF Exit, WorkDone, SlotsOf, At
  <2> QED
    BY <1>1, <2>1, <2>2, IdleTyped, RunningUntouched
<1>8. ASSUME NEW p \in Processes, Crash(p) PROVE RunInv'
  BY <1>1, <1>8 DEF Crash
<1>9. CASE \/ \E j \in Jobs : StalledCheck(j) \/ BackOffEnds(j)
           \/ \E p \in Processes : Sigterm(p)
           \/ UNCHANGED vars
  BY <1>9, RunningUntouched DEF StalledCheck, BackOffEnds, Sigterm, vars, storeVars
<1> QED
  BY <1>2, <1>3, <1>4, <1>5, <1>6, <1>7, <1>8, <1>9 DEF Next

\* While nothing crashes or rejects, a job shown as RUNNING is in the hands of
\* a worker: a deployment of the dedicated workers waits for their jobs, even
\* when locks expire meanwhile.
THEOREM RunningIsRun ==
  ASSUME MaxFaults = 0, MaxCrashes = 0, InlineWorker = FALSE
  PROVE  Spec => []RunningHasExecutor
<1>1. Init => RunInv
  BY IdleTyped DEF Init, StoreInit, NoDoc, ExecInit, RunInv, NothingThrown, Caught
<1>2. IndInv /\ RunInv => RunningHasExecutor
  BY DEF RunInv, RunningHasExecutor, Busy, At, RunningPcs
<1>3. IndInv /\ RunInv /\ [Next]_vars => IndInv' /\ RunInv'
  BY IndStep, RunStep
<1> QED
  BY <1>1, <1>2, <1>3, IndInit, PTL DEF Spec

-----------------------------------------------------------------------------
(* A step as a client sees it *)

SameVerdicts(old, new) ==
  \A p \in Positions : VerdictOf(Res(new, p)) = VerdictOf(Res(old, p))

\* The status moves on, or the next request gets its verdict, or neither.
Moves(old, new) ==
  /\ SameVerdicts(old, new)
  /\ \/ new.status = old.status
     \/ old.status = "none" /\ new.status = "PENDING"
     \/ old.status = "PENDING" /\ new.status = "RUNNING"
     \/ /\ old.status = "RUNNING" /\ new.status \in Terminal
        /\ AllRes(old, Settled) /\ Derived(old, new.status)

Decides(old, new, sequential) ==
  /\ old.status = "RUNNING" /\ new.status = "RUNNING"
  /\ \E p \in Positions :
       /\ VerdictOf(Res(old, p)) = "open"
       /\ \A q \in 1..(p - 1) : Res(old, q) \in Settled
       /\ Res(new, p) \in IF sequential /\ FailedBefore(old, p) THEN {"SKIPPED"}
                                                               ELSE {"COMPLETED", "FAILED"}
       /\ \A q \in Positions \ {p} : Res(new, q) = Res(old, q)

Seen(j) == Moves(db[j], db'[j]) \/ Decides(db[j], db'[j], j \in Sequential)

\* The handlers show nothing but the new document.
LEMMA ApiSeen ==
  ASSUME IndInv, HistoryInv, HistoryInv', NEW j \in Jobs, Submit(j) \/ Handle(j)
  PROVE  Seen(j)
<1>1. /\ db[j] \in JobDoc /\ db[j].status \in {"none", "PENDING"}
      /\ \/ db'[j] \in {db[j], WithStatus(db[j], "PENDING"), WithLog(db[j], "JOB_STARTED", NoIndex)}
         \/ \E k \in 0..Len(Snapshot) : db'[j] = StubbedUpTo(db[j], k)
  BY ApiWrites DEF IndInv, TypeInv, TypeOK, StoreTypeOK
<1>2. db'[j].status \in {db[j].status, "PENDING"}
  BY <1>1 DEF WithStatus, WithLog, StubbedUpTo, JobDoc
<1>3. Untouched(db[j]) /\ Untouched(db'[j])
  BY <1>1, <1>2 DEF HistoryInv, GoodDoc
<1>4. \A p \in Positions : VerdictOf(Res(db[j], p)) = "open" /\ VerdictOf(Res(db'[j], p)) = "open"
  BY <1>3, IndexType DEF Untouched, Res, VerdictOf, Settled
<1> QED
  BY <1>1, <1>2, <1>4 DEF Seen, Moves, SameVerdicts

\* Of the calls of an execution, four change what a client sees.
LEMMA ExecSeen ==
  ASSUME MaxFaults = 0, TypeInv, NothingThrown, NEW s \in Slots, Ready(s), ExecStep(s)
  PROVE  Seen(JobOf(s))
<1> DEFINE doc == DocOf(s)
           new == db'[JobOf(s)]
           p == exec[s].pos
<1>1. /\ StoreTypeOK /\ ExecTypeOK /\ JobOf(s) \in Jobs /\ exec[s] \in Exec /\ doc \in JobDoc
      /\ p \in Positions /\ Current(s) = Snapshot[p] /\ Len(Snapshot) \in Nat
  BY ReadyFacts DEF Ready
<1>2. \A d, next, thrown : Await(s, d, next, thrown) => new = d
  BY <1>1, NoReject
<1>3. ASSUME new.status = doc.status, new.results = doc.results PROVE Seen(JobOf(s))
  BY <1>3 DEF Seen, Moves, SameVerdicts, Res, DocOf
<1>4. \A q \in 1..(p - 1) : q \in Positions /\ q < p
  BY <1>1 DEF Positions
<1>5. \A st \in ResultStatuses :
        new = WithResult(doc, Current(s), st) =>
          /\ new.status = doc.status
          /\ \A q \in Positions : Res(new, q) = IF q = p THEN st ELSE Res(doc, q)
  BY <1>1, ResultWritten
<1>6. CASE FindJob(s) \/ FindStubs(s) \/ DeriveStatus(s)
  BY <1>2, <1>3, <1>6 DEF FindJob, FindStubs, DeriveStatus
<1>7. CASE LogStarted(s) \/ LogSkip(s) \/ LogStart(s) \/ LogVar(s) \/ LogOutcome(s) \/ LogFinal(s)
  <2>1. PICK ev, i : new = WithLog(doc, ev, i)
    BY <1>2, <1>7 DEF LogStarted, LogSkip, LogStart, LogVar, LogOutcome, LogFinal, Log
  <2> QED
    BY <1>1, <1>3, <2>1, WriteFields
<1>8. CASE PersistVars(s)
  <2>1. PICK vs : new = WithVars(doc, vs)
    BY <1>2, <1>8 DEF PersistVars
  <2> QED
    BY <1>1, <1>3, <2>1, WriteFields
<1>9. CASE ExecuteRequest(s)
  BY <1>3, <1>9 DEF ExecuteRequest, storeVars, DocOf
<1>10. CASE CatchStatus(s) \/ CatchLog(s)
  BY <1>10 DEF CatchStatus, CatchLog, At, NothingThrown, Caught
<1>11. CASE MarkRunning(s)
  <2>1. new = WithStatus(doc, "RUNNING") /\ exec[s].pc = "markRunning"
    BY <1>2, <1>11 DEF MarkRunning, At
  <2>2. doc.status = "PENDING" /\ new.status = "RUNNING" /\ new.results = doc.results
    BY <1>1, <2>1, WriteFields DEF Ready, SlotDoc
  <2> QED
    BY <2>2 DEF Seen, Moves, SameVerdicts, Res, DocOf
<1>12. CASE PersistStatus(s)
  <2>1. new = WithStatus(doc, exec[s].final) /\ exec[s].pc = "persistStatus"
    BY <1>2, <1>12 DEF PersistStatus, At
  <2>2. /\ doc.status = "RUNNING" /\ AllRes(doc, Settled) /\ Derived(doc, exec[s].final)
        /\ exec[s].final \in Terminal
    BY <1>1, <2>1 DEF Ready, SlotDoc, AfterLoop, Exec
  <2>3. new.status = exec[s].final /\ new.results = doc.results
    BY <1>1, <2>1, WriteFields
  <2> QED
    BY <2>2, <2>3 DEF Seen, Moves, SameVerdicts, Res, DocOf
<1>13. CASE StartResult(s)
  <2>1. new = WithResult(doc, Current(s), "RUNNING") /\ exec[s].pc = "startResult"
    BY <1>2, <1>13 DEF StartResult, At
  <2>2. Res(doc, p) = "PENDING"
    BY <1>1, <2>1, LoopFacts DEF AtCall, Res, Sending
  <2>3. /\ new.status = doc.status
        /\ \A q \in Positions : Res(new, q) = IF q = p THEN "RUNNING" ELSE Res(doc, q)
    BY <1>5, <2>1 DEF ResultStatuses
  <2>4. SameVerdicts(doc, new)
    BY <2>2, <2>3 DEF SameVerdicts, VerdictOf, Settled
  <2> QED
    BY <2>3, <2>4 DEF Seen, Moves, DocOf
<1>14. CASE SkipResult(s)
  <2>1. new = WithResult(doc, Current(s), "SKIPPED") /\ exec[s].pc = "skipResult"
    BY <1>2, <1>14 DEF SkipResult, At
  <2>2. /\ Res(doc, p) = "PENDING" /\ doc.status = "RUNNING"
        /\ JobOf(s) \in Sequential /\ FailedBefore(doc, p)
        /\ \A q \in Positions : q < p => Res(doc, q) \in Settled
    BY <1>1, <2>1, LoopFacts DEF AtCall, AtRequest, Res, Skipping
  <2>3. /\ new.status = doc.status
        /\ \A q \in Positions : Res(new, q) = IF q = p THEN "SKIPPED" ELSE Res(doc, q)
    BY <1>5, <2>1 DEF ResultStatuses
  <2>4. VerdictOf(Res(doc, p)) = "open"
    BY <2>2 DEF VerdictOf, Settled
  <2>5. Decides(doc, new, JobOf(s) \in Sequential)
    BY <1>1, <1>4, <2>2, <2>3, <2>4 DEF Decides
  <2> QED
    BY <2>5 DEF Seen, DocOf
<1>15. CASE PersistResult(s)
  <2>1. new = WithResult(doc, Current(s), exec[s].outcome) /\ exec[s].pc = "persistResult"
    BY <1>2, <1>15 DEF PersistResult, At
  <2>2. /\ Res(doc, p) = "RUNNING" /\ doc.status = "RUNNING"
        /\ ~(JobOf(s) \in Sequential /\ FailedBefore(doc, p))
        /\ \A q \in Positions : q < p => Res(doc, q) \in Settled
    BY <1>1, <2>1, LoopFacts DEF AtCall, AtRequest, Res, Skipping, Sending
  <2>3. exec[s].outcome \in {"COMPLETED", "FAILED"}
    BY <1>1 DEF Exec
  <2>4. /\ new.status = doc.status
        /\ \A q \in Positions : Res(new, q) = IF q = p THEN exec[s].outcome ELSE Res(doc, q)
    BY <1>5, <2>1, <2>3 DEF ResultStatuses
  <2>5. VerdictOf(Res(doc, p)) = "open"
    BY <2>2 DEF VerdictOf, Settled
  <2>6. Decides(doc, new, JobOf(s) \in Sequential)
    BY <1>1, <1>4, <2>2, <2>3, <2>4, <2>5 DEF Decides
  <2> QED
    BY <2>6 DEF Seen, DocOf
<1> QED
  BY <1>6, <1>7, <1>8, <1>9, <1>10, <1>11, <1>12, <1>13, <1>14, <1>15 DEF ExecStep

-----------------------------------------------------------------------------
(* Every step *)

LEMMA NothingThrownStep ==
  ASSUME MaxFaults = 0, IndInv, NothingThrown, [Next]_vars
  PROVE  NothingThrown'
<1>1. /\ exec \in [Slots -> Exec] /\ TypeInv /\ "idle" \notin Caught /\ "findJob" \notin Caught
  BY DEF IndInv, TypeInv, TypeOK, ExecTypeOK, Caught
<1>2. ASSUME NEW j \in Jobs, Submit(j) \/ Handle(j) PROVE NothingThrown'
  BY <1>1, <1>2, ApiEffect DEF NothingThrown
<1>3. ASSUME NEW s \in Slots, Execute(s) PROVE NothingThrown'
  <2>1. CleanStep(s) /\ StepSummary(s)
    BY <1>1, <1>3, ExecStepClean, ExecStepEffect DEF Execute
  <2> QED
    BY <2>1 DEF CleanStep, StepSummary, NothingThrown
<1>4. ASSUME NEW s \in Slots, (\E j \in Jobs : Take(s, j)) \/ Complete(s) \/ Fail(s) \/ LockExpires(s)
      PROVE  NothingThrown'
  <2>1. \A t \in Slots : exec'[t].pc \in {exec[t].pc, "idle", "findJob"}
    <3>1. CASE LockExpires(s)
      BY <1>1, <3>1 DEF LockExpires, Exec
    <3>2. CASE \E j \in Jobs : Take(s, j)
      BY <1>1, <3>2, IdleTyped DEF Take, Begin
    <3>3. CASE Complete(s) \/ Fail(s)
      BY <1>1, <3>3, IdleTyped DEF Complete, Fail, Settle
    <3> QED
      BY <1>4, <3>1, <3>2, <3>3
  <2> QED
    BY <1>1, <2>1 DEF NothingThrown
<1>5. ASSUME NEW p \in Processes, Crash(p) \/ Exit(p) PROVE NothingThrown'
  BY <1>1, <1>5, IdleTyped DEF Crash, Exit, Restart, NothingThrown
<1>6. CASE \/ \E j \in Jobs : StalledCheck(j) \/ BackOffEnds(j)
           \/ \E p \in Processes : Sigterm(p)
           \/ UNCHANGED vars
  BY <1>6 DEF StalledCheck, BackOffEnds, Sigterm, vars, NothingThrown
<1> QED
  BY <1>2, <1>3, <1>4, <1>5, <1>6 DEF Next

CleanInv == DocumentsInv /\ NothingThrown

LEMMA CleanInvariant ==
  ASSUME LockLoss = FALSE, MaxFaults = 0
  PROVE  /\ Init => CleanInv
         /\ CleanInv /\ [Next]_vars => CleanInv'
<1>1. Init => NothingThrown
  BY IdleTyped DEF Init, ExecInit, NothingThrown, Caught
<1> QED
  BY <1>1, DocumentsInvariant, NothingThrownStep DEF CleanInv, DocumentsInv

\* A step shows a client one job at most, and no more than one move of it.
LEMMA StepSeen ==
  ASSUME LockLoss = FALSE, MaxFaults = 0, CleanInv, [Next]_vars
  PROVE  \/ UNCHANGED db
         \/ \E j \in Jobs : Seen(j) /\ \A k \in Jobs \ {j} : db'[k] = db[k]
<1>1. /\ IndInv /\ HistoryInv /\ HistoryInv' /\ NothingThrown
      /\ StoreTypeOK /\ ExecTypeOK /\ BusyHasJob /\ TypeInv
  BY DocumentsInvariant DEF CleanInv, DocumentsInv, IndInv, TypeInv, TypeOK
<1>2. ASSUME NEW j \in Jobs, Submit(j) \/ Handle(j)
      PROVE  Seen(j) /\ \A k \in Jobs \ {j} : db'[k] = db[k]
  BY <1>1, <1>2, ApiSeen, ApiWrites
<1>3. ASSUME NEW s \in Slots, Execute(s)
      PROVE  \E j \in Jobs : Seen(j) /\ \A k \in Jobs \ {j} : db'[k] = db[k]
  <2>1. ExecStep(s) /\ StepSummary(s)
    BY <1>1, <1>3, ExecStepEffect DEF Execute
  <2>2. Busy(s) /\ JobOf(s) \in Jobs /\ bull[JobOf(s)].state # "absent"
    BY <1>1, <2>1 DEF StepSummary, Busy, At, BusyHasJob, CleanInv, DocumentsInv, DocInv
  <2>3. Ready(s)
    BY <1>1, <2>2 DEF Ready, DocOf, CleanInv, DocumentsInv, DocInv, StubsBeforeExecution, HistoryInv
  <2>4. Seen(JobOf(s))
    BY <1>1, <2>1, <2>3, ExecSeen
  <2> QED
    BY <2>1, <2>2, <2>4 DEF StepSummary
<1>4. ASSUME NEW s \in Slots, (\E j \in Jobs : Take(s, j)) \/ Complete(s) \/ Fail(s) \/ LockExpires(s)
      PROVE  UNCHANGED db
  BY <1>4 DEF Take, Complete, Fail, Settle, LockExpires, storeVars
<1>5. ASSUME NEW p \in Processes, Crash(p) \/ Exit(p) \/ Sigterm(p) PROVE UNCHANGED db
  BY <1>5 DEF Crash, Exit, Restart, Sigterm, storeVars
<1>6. ASSUME NEW j \in Jobs, StalledCheck(j) \/ BackOffEnds(j) PROVE UNCHANGED db
  BY <1>6 DEF StalledCheck, BackOffEnds, storeVars
<1> QED
  BY <1>2, <1>3, <1>4, <1>5, <1>6 DEF Next, vars

\* jobExecutor.js:6: while no lock expires and no call is rejected, the status
\* of a job takes the documented arrows, PENDING -> RUNNING -> terminal.
THEOREM StatusTakesItsArrows ==
  ASSUME LockLoss = FALSE, MaxFaults = 0
  PROVE  Spec => StatusLifecycle
<1>1. CleanInv /\ [Next]_vars =>
        \/ UNCHANGED db
        \/ \A j \in Jobs : db'[j].status # db[j].status =>
                             <<db[j].status, db'[j].status>> \in StatusSteps
  BY StepSeen DEF Seen, Moves, Decides, StatusSteps
<1> QED
  BY <1>1, CleanInvariant, PTL DEF Spec, StatusLifecycle

-----------------------------------------------------------------------------
(* Refinement *)

StatusMap == [j \in Jobs |-> db[j].status]
VerdictMap == [j \in Jobs |-> [p \in Positions |-> VerdictOf(Result(j, p))]]

LEMMA RefinesInit == Init => Lifecycle!Init
<1> SUFFICES ASSUME Init PROVE Lifecycle!Init
  OBVIOUS
<1>1. \A j \in Jobs : db[j].status = "none" /\ \A p \in Positions : VerdictOf(Result(j, p)) = "open"
  BY IndexType DEF Init, StoreInit, NoDoc, Result, VerdictOf, Settled
<1> QED
  BY <1>1 DEF Lifecycle!Init, Positions

\* One job that is seen to make a move is a step of JobLifecycle.
LEMMA RefinesSeen ==
  ASSUME NEW j \in Jobs, Seen(j), \A k \in Jobs \ {j} : db'[k] = db[k]
  PROVE  Lifecycle!Next \/ UNCHANGED <<StatusMap, VerdictMap>>
<1> DEFINE old == db[j]
           new == db'[j]
<1>1. /\ StatusMap' = [StatusMap EXCEPT ![j] = new.status]
      /\ StatusMap[j] = old.status
      /\ new.status = old.status => UNCHANGED StatusMap
  BY DEF StatusMap
<1>2. /\ VerdictMap' = [VerdictMap EXCEPT ![j] = [p \in Positions |-> VerdictOf(Res(new, p))]]
      /\ VerdictMap[j] = [p \in Positions |-> VerdictOf(Res(old, p))]
      /\ \A p \in Positions : VerdictMap[j][p] = VerdictOf(Res(old, p))
  BY DEF VerdictMap, Result, Res
<1>3. Len(Snapshot) \in Nat /\ Positions = 1..Len(Snapshot) /\ 1 \in Positions
  BY JobStoreAssumption, LenProperties DEF Positions
<1>4. /\ Lifecycle!Submit(j) <=> /\ StatusMap[j] = "none"
                                 /\ StatusMap' = [StatusMap EXCEPT ![j] = "PENDING"]
                                 /\ UNCHANGED VerdictMap
      /\ Lifecycle!Start(j) <=> /\ StatusMap[j] = "PENDING"
                                /\ StatusMap' = [StatusMap EXCEPT ![j] = "RUNNING"]
                                /\ UNCHANGED VerdictMap
  BY DEF Lifecycle!Submit, Lifecycle!Start, StatusMap, VerdictMap
<1>5. Lifecycle!Next <=> \E k \in Jobs : \/ Lifecycle!Submit(k) \/ Lifecycle!Start(k)
                                         \/ Lifecycle!Finish(k)
                                         \/ \E p \in 1..Len(Snapshot) : Lifecycle!Decide(k, p)
  BY DEF Lifecycle!Next
<1>6. CASE Moves(old, new)
  <2>1. UNCHANGED VerdictMap
    <3>1. \A p \in Positions : VerdictOf(Res(new, p)) = VerdictOf(Res(old, p))
      BY <1>6 DEF Moves, SameVerdicts
    <3>2. [p \in Positions |-> VerdictOf(Res(new, p))] = [p \in Positions |-> VerdictOf(Res(old, p))]
      BY <3>1
    <3> QED
      BY <1>2, <3>2 DEF VerdictMap
  <2>2. CASE \/ new.status = old.status
             \/ old.status = "none" /\ new.status = "PENDING"
             \/ old.status = "PENDING" /\ new.status = "RUNNING"
    BY <1>1, <1>4, <1>5, <2>1, <2>2
  <2>3. CASE /\ old.status = "RUNNING" /\ new.status \in Terminal
             /\ AllRes(old, Settled) /\ Derived(old, new.status)
    <3>1. \A p \in Positions : VerdictMap[j][p] = Res(old, p) /\ Res(old, p) \in Settled
      BY <1>2, <2>3 DEF AllRes, VerdictOf
    <3>2. \A v : Lifecycle!All(j, v) <=> \A p \in Positions : Res(old, p) = v
      <4>1. \A v : Lifecycle!All(j, v) <=> \A p \in 1..Len(Snapshot) : VerdictMap[j][p] = v
        BY DEF Lifecycle!All, VerdictMap
      <4> QED
        BY <1>3, <3>1, <4>1
    <3>3. ~(Lifecycle!All(j, "COMPLETED") /\ Lifecycle!All(j, "FAILED"))
      BY <1>3, <3>2
    <3>4. /\ new.status = "COMPLETED" => Lifecycle!All(j, "COMPLETED")
          /\ new.status = "FAILED" => Lifecycle!All(j, "FAILED")
          /\ new.status = "PARTIAL" => ~Lifecycle!All(j, "COMPLETED") /\ ~Lifecycle!All(j, "FAILED")
      BY <2>3, <3>2 DEF Derived, Deserved, AllRes
    <3>5. new.status = CASE Lifecycle!All(j, "COMPLETED") -> "COMPLETED"
                         [] Lifecycle!All(j, "FAILED")    -> "FAILED"
                         [] OTHER                         -> "PARTIAL"
      BY <2>3, <3>3, <3>4 DEF Terminal
    <3>6. \A p \in 1..Len(Snapshot) : VerdictMap[j][p] # "open"
      BY <1>3, <3>1 DEF Settled
    <3>7. Lifecycle!Finish(j) <=>
            /\ StatusMap[j] = "RUNNING"
            /\ \A p \in 1..Len(Snapshot) : VerdictMap[j][p] # "open"
            /\ StatusMap' = [StatusMap EXCEPT ![j] =
                               CASE Lifecycle!All(j, "COMPLETED") -> "COMPLETED"
                                 [] Lifecycle!All(j, "FAILED")    -> "FAILED"
                                 [] OTHER                         -> "PARTIAL"]
            /\ UNCHANGED VerdictMap
      BY DEF Lifecycle!Finish, StatusMap, VerdictMap
    <3>8. Lifecycle!Finish(j)
      BY <1>1, <2>1, <2>3, <3>5, <3>6, <3>7
    <3> QED
      BY <1>5, <3>8
  <2> QED
    BY <1>6, <2>2, <2>3 DEF Moves
<1>7. CASE Decides(old, new, j \in Sequential)
  <2>1. old.status = "RUNNING" /\ UNCHANGED StatusMap
    BY <1>1, <1>7 DEF Decides
  <2>2. PICK p \in Positions :
          /\ VerdictOf(Res(old, p)) = "open"
          /\ \A q \in 1..(p - 1) : Res(old, q) \in Settled
          /\ Res(new, p) \in IF j \in Sequential /\ FailedBefore(old, p) THEN {"SKIPPED"}
                                                                   ELSE {"COMPLETED", "FAILED"}
          /\ \A q \in Positions \ {p} : Res(new, q) = Res(old, q)
    BY <1>7 DEF Decides
  <2>3. \A q \in 1..(p - 1) : q \in Positions /\ VerdictMap[j][q] = Res(old, q) /\ VerdictMap[j][q] # "open"
    BY <1>2, <1>3, <2>2 DEF VerdictOf, Settled
  <2>4. (\E q \in 1..(p - 1) : VerdictMap[j][q] = "FAILED") <=> FailedBefore(old, p)
    BY <2>3 DEF FailedBefore
  <2>5. Lifecycle!Possible(j, p) = IF j \in Sequential /\ \E q \in 1..(p - 1) : VerdictMap[j][q] = "FAILED"
                                   THEN {"SKIPPED"} ELSE {"COMPLETED", "FAILED"}
    BY DEF Lifecycle!Possible, VerdictMap
  <2>6. Res(new, p) \in Lifecycle!Possible(j, p) /\ VerdictOf(Res(new, p)) = Res(new, p)
    BY <2>2, <2>4, <2>5 DEF VerdictOf, Settled
  <2>7. VerdictMap' = [VerdictMap EXCEPT ![j][p] = Res(new, p)]
    <3>1. [q \in Positions |-> VerdictOf(Res(new, q))] = [VerdictMap[j] EXCEPT ![p] = Res(new, p)]
      BY <1>2, <2>2, <2>6
    <3> QED
      BY <1>2, <3>1
  <2>8. Lifecycle!Decide(j, p) <=>
          /\ StatusMap[j] = "RUNNING"
          /\ VerdictMap[j][p] = "open"
          /\ \A q \in 1..(p - 1) : VerdictMap[j][q] # "open"
          /\ \E v \in Lifecycle!Possible(j, p) : VerdictMap' = [VerdictMap EXCEPT ![j][p] = v]
          /\ UNCHANGED StatusMap
    BY DEF Lifecycle!Decide, StatusMap, VerdictMap
  <2>9. Lifecycle!Decide(j, p)
    BY <1>1, <1>2, <2>1, <2>2, <2>3, <2>6, <2>7, <2>8
  <2> QED
    BY <1>3, <1>5, <2>9
<1> QED
  BY <1>6, <1>7 DEF Seen

\* Seen through its documents, a job does what JobLifecycle says, whatever
\* crashes, is redelivered or is redeployed: started once, one verdict at a
\* time in array order, and a final status that is derived from them.
THEOREM PipelineImplementsLifecycle ==
  ASSUME LockLoss = FALSE, MaxFaults = 0
  PROVE  Spec => ImplementsLifecycle
<1>1. CleanInv /\ [Next]_vars => Lifecycle!Next \/ UNCHANGED <<StatusMap, VerdictMap>>
  <2>1. ASSUME UNCHANGED db PROVE UNCHANGED <<StatusMap, VerdictMap>>
    BY <2>1 DEF StatusMap, VerdictMap, Result
  <2> QED
    BY <2>1, StepSeen, RefinesSeen
<1>2. CleanInv /\ [Next]_vars =>
        [Lifecycle!Next]_<<[j \in Jobs |-> db[j].status],
                           [j \in Jobs |-> [p \in Positions |-> VerdictOf(Result(j, p))]]>>
  BY <1>1 DEF StatusMap, VerdictMap
<1> QED
  BY <1>2, RefinesInit, CleanInvariant, PTL DEF Spec, ImplementsLifecycle, Lifecycle!Spec

-----------------------------------------------------------------------------
(***************************************************************************)
(* What it takes for the queue to give a job up, rejected calls included.  *)
(* Every failed attempt has cost a rejected call, and every stall the end  *)
(* of a process, so that a job is given up only after three of the first   *)
(* or two of the second, whatever the number of jobs, slots and processes. *)
(***************************************************************************)

Counters ==
  /\ faults \in Nat /\ crashes \in Nat /\ deploys \in Nat
  /\ \A j \in Jobs : bull[j].attemptsMade \in Nat /\ bull[j].stalls \in Nat

LEMMA CountersTyped == TypeInv => Counters
<1> SUFFICES ASSUME TypeInv PROVE Counters
  OBVIOUS
<1>1. faults \in 0..MaxFaults /\ crashes \in 0..MaxCrashes /\ deploys \in 0..MaxDeploys
  BY DEF TypeInv, TypeOK, StoreTypeOK
<1>2. \A j \in Jobs : bull[j] \in QueueEntry
  BY DEF TypeInv, TypeOK, QueueTypeOK
<1>3. \A e \in QueueEntry : e.attemptsMade \in 0..3 /\ e.stalls \in 0..1
  BY DEF QueueEntry, Attempts, MaxStalledCount
<1> QED
  BY <1>1, <1>2, <1>3, JobStoreAssumption, JobPipelineAssumption DEF Counters

LEMMA CountersStep == IndInv /\ [Next]_vars => TypeInv' /\ Counters /\ Counters'
<1>1. IndInv => TypeInv
  BY DEF IndInv
<1> QED
  BY <1>1, IndStep, CountersTyped, PTL

-----------------------------------------------------------------------------
(* Attempts: each one that failed has cost a rejected call *)

Failing(j) == \E s \in Slots : JobOf(s) = j /\ exec[s].pc \in Caught

FaultInv ==
  \A j \in Jobs : bull[j].attemptsMade + (IF Failing(j) THEN 1 ELSE 0) <= faults

\* An execution gets into its catch block by a rejected call only.
LEMMA ExecStepFault ==
  ASSUME TypeInv, NEW s \in Slots, ExecStep(s)
  PROVE  /\ faults' \in Nat /\ faults' >= faults
         /\ exec'[s].pc \in Caught => exec[s].pc \in Caught \/ faults' = faults + 1
<1>1. /\ exec \in [Slots -> Exec] /\ faults \in Nat /\ MaxFaults \in Nat
  BY JobStoreAssumption DEF TypeInv, TypeOK, StoreTypeOK, ExecTypeOK
<1>2. CASE UNCHANGED storeVars /\ exec'[s].pc \in RunningPcs
  BY <1>1, <1>2 DEF storeVars, RunningPcs
<1>3. ASSUME NEW doc, NEW next, NEW thrown, Await(s, doc, next, thrown), Leads(s, doc, next)
      PROVE  /\ faults' \in Nat /\ faults' >= faults
             /\ exec'[s].pc \in Caught => exec[s].pc \in Caught \/ faults' = faults + 1
  BY <1>1, <1>3 DEF Await, Commits, Rejects, Leads
<1> QED
  BY <1>2, <1>3, ExecStepShape

\* A step that adds no failed attempt and starts no failure.
LEMMA FaultsUntouched ==
  ASSUME Counters, Counters', FaultInv, faults' >= faults,
         \A j \in Jobs : bull'[j].attemptsMade = bull[j].attemptsMade,
         \A s \in Slots : exec'[s].pc \in Caught =>
                            exec[s].pc \in Caught /\ exec'[s].job = exec[s].job
  PROVE  FaultInv'
<1>1. \A j \in Jobs : Failing(j)' => Failing(j)
  BY DEF Failing, JobOf
<1> QED
  BY <1>1 DEF FaultInv, Counters

LEMMA FaultStep ==
  ASSUME ~LockLoss, IndInv, BusyLocked, FaultInv, [Next]_vars
  PROVE  FaultInv'
<1>1. /\ exec \in [Slots -> Exec] /\ bull \in [Jobs -> QueueEntry] /\ BusyHasJob
      /\ TypeInv /\ LockInv /\ Counters /\ Counters'
      /\ "idle" \notin Caught /\ "findJob" \notin Caught
  BY CountersStep DEF IndInv, TypeInv, TypeOK, QueueTypeOK, ExecTypeOK, Caught
<1>2. ASSUME NEW j \in Jobs, Submit(j) \/ Handle(j) PROVE FaultInv'
  <2>1. UNCHANGED exec /\ \A k \in Jobs : bull'[k].attemptsMade = bull[k].attemptsMade
    BY <1>1, <1>2, ApiEffect DEF enqueueJob, QueueEntry
  <2>2. faults' >= faults
    BY <1>1, <1>2 DEF Submit, Handle, HandlerStep, CreateJobDoc, InsertStubs, LogCreated, Enqueue,
                      Commits, Rejects, storeVars, Counters
  <2> QED
    BY <1>1, <2>1, <2>2, FaultsUntouched DEF Counters
<1>3. ASSUME NEW s \in Slots, Execute(s) PROVE FaultInv'
  <2>1. /\ StepSummary(s) /\ UNCHANGED bull /\ faults' >= faults
        /\ exec'[s].pc \in Caught => exec[s].pc \in Caught \/ faults' = faults + 1
    BY <1>1, <1>3, ExecStepEffect, ExecStepFault DEF Execute
  <2>2. \A t \in Slots : exec'[t].job = exec[t].job
    BY <2>1 DEF StepSummary, JobOf
  <2>3. CASE faults' = faults + 1
    BY <1>1, <2>1, <2>3 DEF FaultInv, Counters
  <2>4. CASE exec'[s].pc \in Caught => exec[s].pc \in Caught
    <3>1. \A t \in Slots : exec'[t].pc \in Caught => exec[t].pc \in Caught
      BY <2>1, <2>4 DEF StepSummary
    <3> QED
      BY <1>1, <2>1, <2>2, <3>1, FaultsUntouched DEF Counters
  <2> QED
    BY <2>1, <2>3, <2>4
<1>4. ASSUME NEW s \in Slots, NEW j \in Jobs, Take(s, j) PROVE FaultInv'
  <2>1. /\ UNCHANGED faults
        /\ \A k \in Jobs : bull'[k].attemptsMade = bull[k].attemptsMade
        /\ \A t \in Slots : exec'[t] = exec[t] \/ exec'[t].pc = "findJob"
    BY <1>1, <1>4, IdleTyped DEF Take, Deliver, Begin, storeVars, QueueEntry
  <2> QED
    BY <1>1, <2>1, FaultsUntouched DEF Counters
<1>5. ASSUME NEW s \in Slots, Complete(s) PROVE FaultInv'
  <2>1. /\ UNCHANGED faults
        /\ \A k \in Jobs : bull'[k].attemptsMade = bull[k].attemptsMade
        /\ \A t \in Slots : exec'[t] = exec[t] \/ exec'[t].pc = "idle"
    BY <1>1, <1>5, IdleTyped DEF Complete, Settle, MoveToCompleted, storeVars, QueueEntry
  <2> QED
    BY <1>1, <2>1, FaultsUntouched DEF Counters
<1>6. ASSUME NEW s \in Slots, Fail(s) PROVE FaultInv'
  <2>1. /\ exec[s].pc = "thrown" /\ exec' = [exec EXCEPT ![s] = IdleExec] /\ UNCHANGED faults
        /\ "thrown" \in Caught
    BY <1>6 DEF Fail, Settle, At, storeVars, Caught
  <2>2. PICK j \in Jobs : j = JobOf(s) /\ exec[s].locked
    BY <1>1, <2>1 DEF Busy, At, BusyLocked, BusyHasJob
  <2>3. /\ bull'[j].attemptsMade = bull[j].attemptsMade + 1
        /\ \A k \in Jobs \ {j} : bull'[k] = bull[k]
    BY <1>1, <1>6, <2>2 DEF Fail, Settle, MoveToFailed, QueueEntry
  <2>4. Failing(j)
    BY <2>1, <2>2 DEF Failing
  <2>5. \A t \in Slots : exec'[t].pc \in Caught => t # s /\ exec'[t] = exec[t]
    BY <1>1, <2>1, IdleTyped
  <2>6. \A t \in Slots \ {s} : exec[t].pc \in Caught => JobOf(t) # j
    BY <1>1, <2>2 DEF LockInv, BusyLocked, Busy, At
  <2>7. ~Failing(j)' /\ \A k \in Jobs : Failing(k)' => Failing(k)
    BY <2>5, <2>6 DEF Failing, JobOf
  <2>8. ASSUME NEW k \in Jobs
        PROVE  bull'[k].attemptsMade + (IF Failing(k)' THEN 1 ELSE 0) <= faults'
    <3>1. CASE k = j
      BY <1>1, <2>1, <2>3, <2>4, <2>7, <3>1 DEF FaultInv, Counters
    <3>2. CASE k # j
      BY <1>1, <2>1, <2>3, <2>7, <3>2 DEF FaultInv, Counters
    <3> QED
      BY <3>1, <3>2
  <2> QED
    BY <2>8 DEF FaultInv
<1>7. ASSUME NEW s \in Slots, LockExpires(s) PROVE FaultInv'
  BY <1>7 DEF LockExpires
<1>8. ASSUME NEW j \in Jobs, StalledCheck(j) \/ BackOffEnds(j) PROVE FaultInv'
  <2>1. UNCHANGED <<faults, exec>> /\ \A k \in Jobs : bull'[k].attemptsMade = bull[k].attemptsMade
    BY <1>1, <1>8 DEF StalledCheck, BackOffEnds, Stall, Promote, storeVars, QueueEntry
  <2> QED
    BY <1>1, <2>1, FaultsUntouched DEF Counters
<1>9. ASSUME NEW p \in Processes, Crash(p) \/ Exit(p) PROVE FaultInv'
  <2>1. UNCHANGED <<faults, bull>> /\ \A s \in Slots : exec'[s] = exec[s] \/ exec'[s] = IdleExec
    BY <1>1, <1>9, RestartEffect DEF Crash, Exit, storeVars
  <2> QED
    BY <1>1, <2>1, IdleTyped, FaultsUntouched DEF Counters
<1>10. CASE UNCHANGED vars \/ \E p \in Processes : Sigterm(p)
  BY <1>1, <1>10, FaultsUntouched DEF vars, Sigterm, storeVars, Counters
<1> QED
  BY <1>2, <1>3, <1>4, <1>5, <1>6, <1>7, <1>8, <1>9, <1>10 DEF Next

-----------------------------------------------------------------------------
(* Stalls: each one has cost a process *)

Closing == {p \in Processes : proc[p] = "closing"}

\* The ends of processes so far: a crash, or a deployment that is over.
Ends == crashes + deploys - Cardinality(Closing)

\* The queue will find job j stalled.
Adrift(j) == bull[j].state = "active" /\ ~Locked(j)

StallInv ==
  /\ IsFiniteSet(Closing)
  /\ \A j \in Jobs : bull[j].stalls + (IF Adrift(j) THEN 1 ELSE 0) <= Ends
  /\ \A j \in Jobs : bull[j].state = "failed" /\ bull[j].attemptsMade < Attempts => Ends >= 2

LEMMA EndsTyped == Counters /\ IsFiniteSet(Closing) => Ends \in Int /\ Ends <= crashes + deploys
<1> SUFFICES ASSUME Counters, IsFiniteSet(Closing)
             PROVE  Ends \in Int /\ Ends <= crashes + deploys
  OBVIOUS
<1>1. Cardinality(Closing) \in Nat
  BY FS_CardinalityType
<1> QED
  BY <1>1 DEF Ends, Counters

\* A step that stalls nothing and ends no process.
LEMMA StallsUntouched ==
  ASSUME Counters, Counters', StallInv, UNCHANGED <<proc, crashes, deploys>>,
         \A j \in Jobs : bull'[j].stalls = bull[j].stalls,
         \A j \in Jobs : Adrift(j)' => Adrift(j),
         \A j \in Jobs : bull'[j].state = "failed" /\ bull'[j].attemptsMade < Attempts =>
                           bull[j].state = "failed" /\ bull[j].attemptsMade < Attempts
  PROVE  StallInv'
<1>1. Closing' = Closing /\ Ends' = Ends /\ Ends \in Int
  BY EndsTyped DEF Closing, Ends, StallInv
<1> QED
  BY <1>1 DEF StallInv, Counters

\* A step that ends a process leaves at most one stall more to come.
LEMMA ProcessEnds ==
  ASSUME Counters, Counters', StallInv, UNCHANGED bull, IsFiniteSet(Closing'), Ends' >= Ends + 1
  PROVE  StallInv'
<1>1. Ends \in Int /\ Ends' \in Int
  <2>1. Cardinality(Closing') \in Nat
    BY FS_CardinalityType
  <2> QED
    BY <2>1, EndsTyped DEF StallInv, Ends, Counters
<1> QED
  BY <1>1 DEF StallInv, Counters

LEMMA StallStep ==
  ASSUME ~LockLoss, IndInv, BusyLocked, StallInv, [Next]_vars
  PROVE  StallInv'
<1>1. /\ exec \in [Slots -> Exec] /\ bull \in [Jobs -> QueueEntry] /\ BusyHasJob
      /\ proc \in [Processes -> {"up", "closing"}]
      /\ TypeInv /\ LockInv /\ Counters /\ Counters'
      /\ \A j \in Jobs : bull[j].stalls \in 0..1
  <2>1. \A e \in QueueEntry : e.stalls \in 0..1
    BY DEF QueueEntry, MaxStalledCount
  <2> QED
    BY <2>1, CountersStep DEF IndInv, TypeInv, TypeOK, QueueTypeOK, ExecTypeOK
<1>2. ASSUME NEW j \in Jobs, Submit(j) \/ Handle(j) PROVE StallInv'
  <2>1. /\ UNCHANGED <<exec, procVars>>
        /\ \A k \in Jobs : \/ bull'[k] = bull[k]
                           \/ bull'[k].state = "waiting" /\ bull'[k].stalls = bull[k].stalls
    BY <1>1, <1>2, ApiEffect DEF enqueueJob, QueueEntry, Submit, Handle
  <2>2. \A k \in Jobs : Adrift(k)' => Adrift(k)
    BY <2>1 DEF Adrift, Locked, JobOf
  <2> QED
    BY <1>1, <2>1, <2>2, StallsUntouched DEF procVars
<1>3. ASSUME NEW s \in Slots, Execute(s) PROVE StallInv'
  <2>1. StepSummary(s) /\ UNCHANGED <<bull, procVars>>
    BY <1>1, <1>3, ExecStepEffect DEF Execute
  <2>2. \A t \in Slots : exec'[t].job = exec[t].job /\ exec'[t].locked = exec[t].locked
    BY <2>1 DEF StepSummary, JobOf
  <2>3. \A k \in Jobs : Adrift(k)' => Adrift(k)
    BY <2>1, <2>2 DEF Adrift, Locked, JobOf
  <2> QED
    BY <1>1, <2>1, <2>3, StallsUntouched DEF procVars
<1>4. ASSUME NEW s \in Slots, NEW j \in Jobs, Take(s, j) PROVE StallInv'
  <2>1. /\ ~exec[s].locked /\ UNCHANGED procVars
        /\ exec'[s].job = j /\ exec'[s].locked = TRUE
        /\ \A t \in Slots \ {s} : exec'[t] = exec[t]
    BY <1>1, <1>4, IdleTyped DEF Take, Begin, LockInv, Busy
  <2>2. \A k \in Jobs : /\ bull'[k] = bull[k] \/ (k = j /\ bull'[k].state = "active")
                        /\ bull'[k].stalls = bull[k].stalls
    BY <1>1, <1>4 DEF Take, Deliver, QueueEntry
  <2>3. \A k \in Jobs : Adrift(k)' => Adrift(k)
    BY <2>1, <2>2 DEF Adrift, Locked, JobOf
  <2> QED
    BY <1>1, <2>1, <2>2, <2>3, StallsUntouched DEF procVars
<1>5. ASSUME NEW s \in Slots, Complete(s) \/ Fail(s) PROVE StallInv'
  <2>1. /\ Busy(s) /\ exec' = [exec EXCEPT ![s] = IdleExec] /\ UNCHANGED procVars
        /\ \A t \in Slots \ {s} : exec'[t] = exec[t]
    BY <1>1, <1>5 DEF Complete, Fail, Settle, Busy, At
  <2>2. PICK j \in Jobs : j = JobOf(s) /\ exec[s].locked /\ bull[j].state = "active"
    BY <1>1, <2>1 DEF BusyLocked, BusyHasJob, LockInv
  <2>3. /\ \A k \in Jobs \ {j} : bull'[k] = bull[k]
        /\ bull'[j].state # "active" /\ bull'[j].stalls = bull[j].stalls
        /\ bull'[j].state = "failed" => ~(bull'[j].attemptsMade < Attempts)
    <3>1. CASE Complete(s)
      BY <1>1, <2>2, <3>1 DEF Complete, Settle, MoveToCompleted, QueueEntry
    <3>2. CASE Fail(s)
      BY <1>1, <2>2, <3>2 DEF Fail, Settle, MoveToFailed, QueueEntry
    <3> QED
      BY <1>5, <3>1, <3>2
  <2>4. \A k \in Jobs : Adrift(k)' => Adrift(k)
    BY <2>1, <2>2, <2>3 DEF Adrift, Locked, JobOf
  <2> QED
    BY <1>1, <2>1, <2>3, <2>4, StallsUntouched DEF procVars
<1>6. ASSUME NEW s \in Slots, LockExpires(s) PROVE StallInv'
  BY <1>6 DEF LockExpires
<1>7. ASSUME NEW j \in Jobs, StalledCheck(j) PROVE StallInv'
  <2>1. /\ UNCHANGED <<exec, procVars>> /\ \A k \in Jobs \ {j} : bull'[k] = bull[k]
        /\ Adrift(j) /\ bull'[j].state # "active"
        /\ \/ bull'[j].state = "waiting" /\ bull'[j].stalls = bull[j].stalls + 1
           \/ bull[j].stalls = 1 /\ bull'[j].stalls = 1
    BY <1>1, <1>7 DEF StalledCheck, Stall, Adrift, QueueEntry, MaxStalledCount
  <2>2. Ends' = Ends /\ Closing' = Closing /\ Ends \in Int
    BY <1>1, <2>1, EndsTyped DEF procVars, Ends, Closing, StallInv
  <2>3. \A k \in Jobs \ {j} : Adrift(k)' => Adrift(k)
    BY <2>1 DEF Adrift, Locked, JobOf
  <2>4. ~Adrift(j)'
    BY <2>1 DEF Adrift
  <2>5. bull[j].stalls + 1 <= Ends
    BY <2>1 DEF StallInv
  <2>6. ASSUME NEW k \in Jobs
        PROVE  /\ bull'[k].stalls + (IF Adrift(k)' THEN 1 ELSE 0) <= Ends'
               /\ bull'[k].state = "failed" /\ bull'[k].attemptsMade < Attempts => Ends' >= 2
    <3>1. CASE k = j
      BY <1>1, <2>1, <2>2, <2>4, <2>5, <3>1 DEF Counters
    <3>2. CASE k # j
      BY <1>1, <2>1, <2>2, <2>3, <3>2 DEF StallInv, Counters
    <3> QED
      BY <3>1, <3>2
  <2> QED
    BY <2>2, <2>6 DEF StallInv
<1>8. ASSUME NEW j \in Jobs, BackOffEnds(j) PROVE StallInv'
  <2>1. /\ UNCHANGED <<exec, procVars>>
        /\ \A k \in Jobs : \/ bull'[k] = bull[k]
                           \/ bull'[k].state = "waiting" /\ bull'[k].stalls = bull[k].stalls
    BY <1>1, <1>8 DEF BackOffEnds, Promote, QueueEntry
  <2>2. \A k \in Jobs : Adrift(k)' => Adrift(k)
    BY <2>1 DEF Adrift, Locked, JobOf
  <2> QED
    BY <1>1, <2>1, <2>2, StallsUntouched DEF procVars
<1>9. ASSUME NEW p \in Processes, Crash(p) \/ Exit(p) PROVE StallInv'
  <2>1. UNCHANGED bull /\ Closing' = Closing \ {p}
    BY <1>1, <1>9 DEF Crash, Exit, Restart, Closing
  <2>2. /\ IsFiniteSet(Closing')
        /\ Cardinality(Closing') = IF p \in Closing THEN Cardinality(Closing) - 1
                                                    ELSE Cardinality(Closing)
        /\ Cardinality(Closing) \in Nat /\ Cardinality(Closing') \in Nat
    <3>1. IsFiniteSet(Closing)
      BY DEF StallInv
    <3> QED
      BY <2>1, <3>1, FS_RemoveElement, FS_CardinalityType
  <2>3. Ends' >= Ends + 1
    <3>1. Ends' = crashes' + deploys' - Cardinality(Closing')
      BY DEF Ends
    <3>2. CASE Crash(p)
      <4>1. crashes' = crashes + 1 /\ deploys' = deploys
        BY <3>2 DEF Crash
      <4> QED
        BY <1>1, <2>2, <3>1, <4>1 DEF Ends, Counters
    <3>3. CASE Exit(p)
      <4>1. crashes' = crashes /\ deploys' = deploys /\ p \in Closing
        BY <3>3 DEF Exit, Closing
      <4> QED
        BY <1>1, <2>2, <3>1, <4>1 DEF Ends, Counters
    <3> QED
      BY <1>9, <3>2, <3>3
  <2> QED
    BY <1>1, <2>1, <2>2, <2>3, ProcessEnds
<1>10. ASSUME NEW p \in Processes, Sigterm(p) PROVE StallInv'
  <2>1. /\ UNCHANGED <<bull, exec, crashes>> /\ deploys' = deploys + 1
        /\ Closing' = Closing \cup {p} /\ p \notin Closing
    BY <1>1, <1>10 DEF Sigterm, Closing
  <2>2. /\ IsFiniteSet(Closing') /\ Cardinality(Closing') = Cardinality(Closing) + 1
        /\ Cardinality(Closing) \in Nat
    <3>1. IsFiniteSet(Closing)
      BY DEF StallInv
    <3> QED
      BY <2>1, <3>1, FS_AddElement, FS_CardinalityType
  <2>3. Ends' = Ends
    BY <1>1, <2>1, <2>2 DEF Ends, Counters
  <2>4. \A k \in Jobs : Adrift(k)' <=> Adrift(k)
    BY <2>1 DEF Adrift, Locked, JobOf
  <2> QED
    BY <2>1, <2>2, <2>3, <2>4 DEF StallInv
<1>11. CASE UNCHANGED vars
  <2>1. UNCHANGED <<bull, exec, procVars>> /\ \A k \in Jobs : Adrift(k)' <=> Adrift(k)
    BY <1>11 DEF vars, procVars, Adrift, Locked, JobOf
  <2> QED
    BY <1>1, <2>1, StallsUntouched DEF procVars
<1> QED
  BY <1>2, <1>3, <1>4, <1>5, <1>6, <1>7, <1>8, <1>9, <1>10, <1>11 DEF Next

\* The queue gives no job up unexecuted before three calls have rejected or
\* two processes have died or been replaced.
THEOREM GivenUpForAReason ==
  ASSUME LockLoss = FALSE
  PROVE  Spec => []GivesUpOnlyAfterFailures
<1> DEFINE Inv == IndInv /\ BusyLocked /\ FaultInv /\ StallInv
<1>1. Init => Inv
  <2> SUFFICES ASSUME Init PROVE Inv
    OBVIOUS
  <2>1. BusyLocked /\ \A s \in Slots : exec[s].pc = "idle"
    BY IdleTyped DEF Init, ExecInit, BusyLocked, Busy, At
  <2>2. \A j \in Jobs : ~Failing(j) /\ ~Adrift(j)
    BY <2>1 DEF Failing, Caught, Adrift, Init, QueueInit
  <2>3. FaultInv
    BY <2>2 DEF FaultInv, Init, StoreInit, QueueInit
  <2>4. Closing = {}
    BY DEF Closing, Init
  <2>5. StallInv
    BY <2>2, <2>4, FS_EmptySet DEF StallInv, Ends, Init, QueueInit
  <2> QED
    BY <2>1, <2>3, <2>5, IndInit
<1>2. Inv /\ [Next]_vars => Inv'
  BY IndStep, BusyLockedStep, FaultStep, StallStep
<1>3. Inv => GivesUpOnlyAfterFailures
  <2> SUFFICES ASSUME Inv, NEW j \in Jobs, bull[j].state = "failed"
               PROVE  faults >= 3 \/ crashes + deploys >= 2
    BY DEF GivesUpOnlyAfterFailures
  <2>1. Counters
    BY CountersTyped DEF IndInv
  <2>2. CASE bull[j].attemptsMade < Attempts
    BY <2>1, <2>2, EndsTyped DEF StallInv, Counters
  <2>3. CASE ~(bull[j].attemptsMade < Attempts)
    BY <2>1, <2>3 DEF FaultInv, Counters, Attempts
  <2> QED
    BY <2>2, <2>3
<1> QED
  BY <1>1, <1>2, <1>3, PTL DEF Spec

=============================================================================
