----------------------------- MODULE JobProofs -----------------------------
(***************************************************************************)
(* Proofs about the pipeline, for every number of jobs, requests, workers, *)
(* slots, crashes, deployments and rejected calls.                         *)
(***************************************************************************)
EXTENDS JobProperties, SequenceTheorems, WellFoundedInduction, TLAPS

-----------------------------------------------------------------------------
(* Documents *)

LEMMA IndexType == ASSUME NEW p \in Positions PROVE Snapshot[p] \in Indexes
BY DEF Indexes

\* What every write of an executor or a handler does to the type of a document.
LEMMA DocTypes ==
  ASSUME NEW doc \in JobDoc
  PROVE  /\ \A st \in JobStatuses : WithStatus(doc, st) \in JobDoc
         /\ \A i \in Indexes, st \in ResultStatuses : WithResult(doc, i, st) \in JobDoc
         /\ \A vs \in SUBSET Indexes : WithVars(doc, vs) \in JobDoc
         /\ \A i \in Indexes \cup {NoIndex}, ev \in LogEvents : WithLog(doc, ev, i) \in JobDoc
         /\ \A k \in 0..Len(Snapshot) : StubbedUpTo(doc, k) \in JobDoc
<1>1. \A st \in JobStatuses : WithStatus(doc, st) \in JobDoc
  BY DEF WithStatus, JobDoc
<1>2. \A i \in Indexes, st \in ResultStatuses : WithResult(doc, i, st) \in JobDoc
  BY DEF WithResult, JobDoc
<1>3. \A vs \in SUBSET Indexes : WithVars(doc, vs) \in JobDoc
  BY DEF WithVars, JobDoc
<1>4. \A i \in Indexes \cup {NoIndex}, ev \in LogEvents : WithLog(doc, ev, i) \in JobDoc
  <2> SUFFICES ASSUME NEW i \in Indexes \cup {NoIndex}, NEW ev \in LogEvents
               PROVE  WithLog(doc, ev, i) \in JobDoc
    OBVIOUS
  <2> DEFINE entry == [event |-> ev, req |-> i]
  <2>1. entry \in LogEntry
    BY DEF LogEntry
  <2>2. doc.logs \in Seq(LogEntry)
    BY DEF JobDoc
  <2>3. Append(doc.logs, entry) \in Seq(LogEntry)
    BY <2>1, <2>2, AppendProperties
  <2> QED
    BY <2>3 DEF WithLog, JobDoc
<1>5. \A k \in 0..Len(Snapshot) : StubbedUpTo(doc, k) \in JobDoc
  BY DEF StubbedUpTo, JobDoc, ResultStatuses
<1> QED
  BY <1>1, <1>2, <1>3, <1>4, <1>5

LEMMA CallTypes ==
  ASSUME StoreTypeOK, NEW j \in Jobs, NEW docs \in SUBSET JobDoc,
         Rejects(j, docs) \/ \E doc \in docs : Commits(j, doc)
  PROVE  StoreTypeOK'
<1>1. db' \in [Jobs -> JobDoc]
  BY DEF StoreTypeOK, Rejects, Commits
<1>2. faults' \in 0..MaxFaults
  BY JobStoreAssumption DEF StoreTypeOK, Rejects, Commits
<1> QED
  BY <1>1, <1>2 DEF StoreTypeOK

-----------------------------------------------------------------------------
(* Steps of an execution *)

LEMMA SmallestPosition ==
  ASSUME NEW S \in SUBSET Positions, S # {}
  PROVE  /\ (CHOOSE q \in S : \A r \in S : q <= r) \in S
         /\ \A r \in S : (CHOOSE q \in S : \A r2 \in S : q <= r2) <= r
<1>1. Len(Snapshot) \in Nat
  BY JobStoreAssumption, LenProperties
<1>2. S \subseteq Nat
  BY <1>1 DEF Positions
<1>3. \E q \in S : \A r \in S : ~(<<r, q>> \in OpToRel(<, Nat))
  BY <1>2, NatLessThanWellFounded, WFMin
<1>4. PICK q \in S : \A r \in S : ~(<<r, q>> \in OpToRel(<, Nat))
  BY <1>3
<1>5. \A r \in S : q <= r
  <2> SUFFICES ASSUME NEW r \in S, r < q PROVE FALSE
    BY <1>2
  <2>1. <<r, q>> \in OpToRel(<, Nat)
    BY <1>2 DEF OpToRel
  <2> QED
    BY <2>1, <1>4
<1> QED
  BY <1>5

LEMMA AdvanceType ==
  ASSUME NEW e \in Exec, NEW p \in Nat
  PROVE  /\ AdvanceTo(e, p) \in Exec
         /\ AdvanceTo(e, p).job = e.job /\ AdvanceTo(e, p).locked = e.locked
         /\ AdvanceTo(e, p).pc \in {"persistVars", "skipResult", "startResult"}
<1> DEFINE rest == {q \in Positions : q >= p /\ Snapshot[q] \in e.stubs}
<1>1. CASE rest = {}
  BY <1>1 DEF AdvanceTo, Exec, ExecPcs
<1>2. CASE rest # {}
  <2>1. (CHOOSE q \in rest : \A r \in rest : q <= r) \in Positions
    BY <1>2, SmallestPosition
  <2> QED
    BY <1>2, <2>1 DEF AdvanceTo, Exec, ExecPcs
<1> QED
  BY <1>1, <1>2

\* The effect of one awaited call of slot s: it touches the document of its
\* own job and its own local state; if the call rejects, the document may or
\* may not have been written.
Effect(s, doc, next, thrown) ==
  /\ \A k \in Jobs \ {JobOf(s)} : db'[k] = db[k]
  /\ \A t \in Slots \ {s} : exec'[t] = exec[t]
  /\ \/ db'[JobOf(s)] = doc /\ exec'[s] = next
     \/ db'[JobOf(s)] \in {DocOf(s), doc} /\ exec'[s] = GoTo(s, thrown)

LEMMA AwaitEffect ==
  ASSUME StoreTypeOK, ExecTypeOK, NEW s \in Slots, JobOf(s) \in Jobs,
         NEW doc \in JobDoc, NEW next \in Exec, NEW thrown \in ExecPcs,
         Await(s, doc, next, thrown)
  PROVE  StoreTypeOK' /\ ExecTypeOK' /\ Effect(s, doc, next, thrown)
<1>1. StoreTypeOK'
  <2>1. {DocOf(s), doc} \in SUBSET JobDoc
    BY DEF StoreTypeOK, DocOf
  <2> QED
    BY <2>1, CallTypes DEF Await
<1>2. ExecTypeOK'
  BY DEF Await, ExecTypeOK, Exec
<1>3. Effect(s, doc, next, thrown)
  BY DEF Await, Effect, Commits, Rejects, GoTo, StoreTypeOK, ExecTypeOK
<1> QED
  BY <1>1, <1>2, <1>3

-----------------------------------------------------------------------------
(* A step of executeJob, summarised *)

BusyHasJob == \A s \in Slots : Busy(s) => JobOf(s) \in Jobs
TypeInv == TypeOK /\ BusyHasJob

\* Where an execution is once it has moved its job out of PENDING, the job
\* that fails on the way included.
Body == ExecPcs \ {"idle", "findJob", "markRunning", "notPending", "thrown"}

\* A step of slot s touches one document, in which a status only moves onwards
\* and no stub disappears, and one local state, which keeps its job and lock;
\* and no execution gets past the status check while its job is PENDING.
StepSummary(s) ==
  LET j == JobOf(s) IN
  /\ \A k \in Jobs \ {j} : db'[k] = db[k]
  /\ \A t \in Slots \ {s} : exec'[t] = exec[t]
  /\ exec'[s].job = j /\ exec'[s].locked = exec[s].locked
  /\ exec'[s].pc # "idle" /\ exec[s].pc # "idle"
  /\ db'[j].status \in {db[j].status, "RUNNING"} \cup Terminal
  /\ \A i \in Indexes : db[j].results[i] # "none" => db'[j].results[i] # "none"
  /\ exec'[s].pc \in Body \cup {"notPending"} => exec[s].pc \in Body \/ db'[j].status # "PENDING"

LEMMA WriteFields ==
  ASSUME NEW doc \in JobDoc
  PROVE  /\ \A st : WithStatus(doc, st).status = st /\ WithStatus(doc, st).results = doc.results
         /\ \A i, st : /\ WithResult(doc, i, st).status = doc.status
                       /\ WithResult(doc, i, st).results = [doc.results EXCEPT ![i] = st]
         /\ \A vs : WithVars(doc, vs).status = doc.status /\ WithVars(doc, vs).results = doc.results
         /\ \A ev, i : WithLog(doc, ev, i).status = doc.status /\ WithLog(doc, ev, i).results = doc.results
BY DEF JobDoc, WithStatus, WithResult, WithVars, WithLog

\* A new version of the document of s, and a new local state of s, that are
\* in line with StepSummary.
Keeps(s, doc) ==
  /\ doc \in JobDoc
  /\ doc.status \in {DocOf(s).status, "RUNNING"} \cup Terminal
  /\ \A i \in Indexes : DocOf(s).results[i] # "none" => doc.results[i] # "none"

Continues(s, next) ==
  next \in Exec /\ next.job = JobOf(s) /\ next.locked = exec[s].locked /\ next.pc # "idle"

LEMMA AwaitSummary ==
  ASSUME StoreTypeOK, ExecTypeOK, NEW s \in Slots, JobOf(s) \in Jobs, exec[s].pc # "idle",
         NEW doc, NEW next, NEW thrown \in {"thrown", "catchStatus"},
         Await(s, doc, next, thrown), Keeps(s, doc), Continues(s, next),
         exec[s].pc \in Body \/ doc.status # "PENDING" \/ next.pc \notin Body \cup {"notPending"},
         exec[s].pc \in Body \/ thrown = "thrown"
  PROVE  StoreTypeOK' /\ ExecTypeOK' /\ StepSummary(s)
<1>1. StoreTypeOK' /\ ExecTypeOK' /\ Effect(s, doc, next, thrown)
  BY AwaitEffect DEF Keeps, Continues, ExecPcs
<1>2. exec[s] \in Exec /\ DocOf(s) \in JobDoc
  BY DEF ExecTypeOK, StoreTypeOK, DocOf
<1>3. /\ GoTo(s, thrown).job = JobOf(s) /\ GoTo(s, thrown).locked = exec[s].locked
      /\ GoTo(s, thrown).pc = thrown
  BY <1>2 DEF GoTo, Exec, JobOf
<1> QED
  BY <1>1, <1>2, <1>3 DEF Effect, Keeps, Continues, StepSummary, Body, DocOf

LEMMA WritesKeep ==
  ASSUME NEW s \in Slots, DocOf(s) \in JobDoc
  PROVE  /\ Keeps(s, DocOf(s))
         /\ \A st \in {"RUNNING"} \cup Terminal : Keeps(s, WithStatus(DocOf(s), st))
         /\ \A i \in Indexes, st \in ResultStatuses : Keeps(s, WithResult(DocOf(s), i, st))
         /\ \A vs \in SUBSET Indexes : Keeps(s, WithVars(DocOf(s), vs))
         /\ \A ev \in LogEvents, i \in Indexes \cup {NoIndex} : Keeps(s, Log(s, ev, i))
<1>1. Keeps(s, DocOf(s))
  BY DEF Keeps
<1>2. \A st \in {"RUNNING"} \cup Terminal : Keeps(s, WithStatus(DocOf(s), st))
  BY DocTypes, WriteFields DEF Keeps, JobStatuses, Terminal
<1>3. ASSUME NEW i \in Indexes, NEW st \in ResultStatuses
      PROVE  Keeps(s, WithResult(DocOf(s), i, st))
  <2>1. WithResult(DocOf(s), i, st) \in JobDoc
    BY DocTypes
  <2>2. /\ WithResult(DocOf(s), i, st).status = DocOf(s).status
        /\ WithResult(DocOf(s), i, st).results = [DocOf(s).results EXCEPT ![i] = st]
    BY DEF WithResult, JobDoc
  <2>3. DocOf(s).results \in [Indexes -> ResultStatuses \cup {"none"}] /\ st # "none"
    BY DEF JobDoc, ResultStatuses
  <2> QED
    BY <2>1, <2>2, <2>3 DEF Keeps
<1>4. \A vs \in SUBSET Indexes : Keeps(s, WithVars(DocOf(s), vs))
  BY DocTypes, WriteFields DEF Keeps
<1>5. ASSUME NEW ev \in LogEvents, NEW i \in Indexes \cup {NoIndex}
      PROVE  Keeps(s, Log(s, ev, i))
  BY DocTypes, WriteFields DEF Keeps, Log
<1> QED
  BY <1>1, <1>2, <1>3, <1>4, <1>5

LEMMA ExecStepEffect ==
  ASSUME TypeInv, NEW s \in Slots, ExecStep(s)
  PROVE  StoreTypeOK' /\ ExecTypeOK' /\ StepSummary(s)
<1>1. /\ StoreTypeOK /\ ExecTypeOK /\ exec[s] \in Exec /\ exec[s].pc # "idle"
      /\ JobOf(s) \in Jobs /\ DocOf(s) \in JobDoc
  <2>1. exec[s].pc # "idle"
    BY DEF ExecStep, FindJob, MarkRunning, LogStarted, FindStubs, SkipResult, LogSkip, StartResult,
           LogStart, ExecuteRequest, LogVar, PersistResult, LogOutcome, PersistVars, DeriveStatus,
           PersistStatus, LogFinal, CatchStatus, CatchLog, At
  <2> QED
    BY <2>1 DEF TypeInv, TypeOK, BusyHasJob, Busy, At, DocOf, StoreTypeOK, ExecTypeOK
<1>2. /\ exec[s].pos \in Positions /\ exec[s].pos + 1 \in Nat
      /\ Current(s) \in Indexes /\ Current(s) \in Indexes \cup {NoIndex}
      /\ NoIndex \in Indexes \cup {NoIndex}
  <2>1. Len(Snapshot) \in Nat
    BY JobStoreAssumption, LenProperties
  <2> QED
    BY <1>1, <2>1, IndexType DEF Exec, Current, Positions
<1>3. \A pc \in ExecPcs \ {"idle"} : Continues(s, GoTo(s, pc)) /\ GoTo(s, pc).pc = pc
  BY <1>1 DEF GoTo, Exec, JobOf, Continues
<1>4. \A e \in Exec, p \in Nat :
        e.job = JobOf(s) /\ e.locked = exec[s].locked => Continues(s, AdvanceTo(e, p))
  BY AdvanceType DEF Continues
<1>5. /\ \A ev \in LogEvents, i \in Indexes \cup {NoIndex} : Keeps(s, Log(s, ev, i))
      /\ \A i \in Indexes, st \in ResultStatuses : Keeps(s, WithResult(DocOf(s), i, st))
      /\ \A st \in {"RUNNING"} \cup Terminal : Keeps(s, WithStatus(DocOf(s), st))
      /\ \A vs \in SUBSET Indexes : Keeps(s, WithVars(DocOf(s), vs))
      /\ Keeps(s, DocOf(s))
  BY <1>1, WritesKeep
<1>6. CASE FindJob(s)
  <2>1. Await(s, DocOf(s),
                GoTo(s, IF Executable(DocOf(s)) THEN "markRunning" ELSE "notPending"), "thrown") /\ exec[s].pc = "findJob"
    BY <1>6 DEF FindJob, At
  <2> QED
    BY <1>1, <1>3, <1>5, <2>1, AwaitSummary DEF Body, ExecPcs, Executable
<1>7. CASE MarkRunning(s)
  <2>1. Await(s, WithStatus(DocOf(s), "RUNNING"),
                GoTo(s, "logStarted"), "thrown") /\ exec[s].pc = "markRunning"
    BY <1>7 DEF MarkRunning, At
  <2> QED
    BY <1>1, <1>3, <1>5, <2>1, AwaitSummary, WriteFields DEF Body, ExecPcs
<1>8. CASE LogStarted(s)
  <2>1. Await(s, Log(s, "JOB_STARTED", NoIndex),
                GoTo(s, "findStubs"), "thrown") /\ exec[s].pc = "logStarted"
    BY <1>8 DEF LogStarted, At
  <2> QED
    BY <1>1, <1>2, <1>3, <1>5, <2>1, AwaitSummary DEF Body, ExecPcs, LogEvents
<1>9. CASE FindStubs(s)
  <2>1. Await(s, DocOf(s),
                AdvanceTo([exec[s] EXCEPT !.stubs = StubsOf(DocOf(s))], 1), "thrown") /\ exec[s].pc = "findStubs"
    BY <1>9 DEF FindStubs, At
  <2>2. LET e == [exec[s] EXCEPT !.stubs = StubsOf(DocOf(s))]
        IN  e \in Exec /\ e.job = JobOf(s) /\ e.locked = exec[s].locked
    BY <1>1 DEF Exec, StubsOf, JobOf
  <2> QED
    BY <1>1, <1>4, <1>5, <2>1, <2>2, AwaitSummary DEF Body, ExecPcs
<1>10. CASE SkipResult(s)
  <2>1. Await(s, WithResult(DocOf(s), Current(s), "SKIPPED"),
                GoTo(s, "logSkip"), "catchStatus") /\ exec[s].pc = "skipResult"
    BY <1>10 DEF SkipResult, At
  <2> QED
    BY <1>1, <1>2, <1>3, <1>5, <2>1, AwaitSummary DEF Body, ExecPcs, ResultStatuses
<1>11. CASE LogSkip(s)
  <2>1. Await(s, Log(s, "REQUEST_SKIPPED", Current(s)),
                AdvanceTo(exec[s], exec[s].pos + 1), "catchStatus") /\ exec[s].pc = "logSkip"
    BY <1>11 DEF LogSkip, At
  <2> QED
    BY <1>1, <1>2, <1>4, <1>5, <2>1, AwaitSummary DEF Body, ExecPcs, LogEvents, JobOf
<1>12. CASE StartResult(s)
  <2>1. Await(s, WithResult(DocOf(s), Current(s), "RUNNING"),
                GoTo(s, "logStart"), "catchStatus") /\ exec[s].pc = "startResult"
    BY <1>12 DEF StartResult, At
  <2> QED
    BY <1>1, <1>2, <1>3, <1>5, <2>1, AwaitSummary DEF Body, ExecPcs, ResultStatuses
<1>13. CASE LogStart(s)
  <2>1. Await(s, Log(s, "REQUEST_STARTED", Current(s)),
                GoTo(s, "executeRequest"), "catchStatus") /\ exec[s].pc = "logStart"
    BY <1>13 DEF LogStart, At
  <2> QED
    BY <1>1, <1>2, <1>3, <1>5, <2>1, AwaitSummary DEF Body, ExecPcs, LogEvents
<1>14. CASE ExecuteRequest(s)
  <2>1. PICK outcome \in {"COMPLETED", "FAILED"}, extracted \in {{}, {Current(s)}} :
          exec' = [exec EXCEPT ![s] = Answered(exec[s], outcome, extracted)]
    BY <1>14 DEF ExecuteRequest
  <2>2. exec[s].pc = "executeRequest" /\ UNCHANGED storeVars
    BY <1>14 DEF ExecuteRequest, At
  <2>3. Continues(s, Answered(exec[s], outcome, extracted))
    BY <1>1, <1>2 DEF Continues, Answered, Exec, ExecPcs, JobOf
  <2>4. /\ exec'[s].job = JobOf(s) /\ exec'[s].locked = exec[s].locked /\ exec'[s].pc # "idle"
        /\ \A t \in Slots \ {s} : exec'[t] = exec[t]
        /\ ExecTypeOK'
    BY <1>1, <2>1, <2>3 DEF ExecTypeOK, Continues
  <2> QED
    BY <1>1, <2>2, <2>4 DEF StoreTypeOK, storeVars, StepSummary, Body, ExecPcs
<1>15. CASE LogVar(s)
  <2>1. Await(s, Log(s, "VAR_EXTRACTED", Current(s)),
                GoTo(s, "persistResult"), "catchStatus") /\ exec[s].pc = "logVar"
    BY <1>15 DEF LogVar, At
  <2> QED
    BY <1>1, <1>2, <1>3, <1>5, <2>1, AwaitSummary DEF Body, ExecPcs, LogEvents
<1>16. CASE PersistResult(s)
  <2>1. Await(s, WithResult(DocOf(s), Current(s), exec[s].outcome),
                GoTo(s, "logOutcome"), "catchStatus") /\ exec[s].pc = "persistResult"
    BY <1>16 DEF PersistResult, At
  <2>2. exec[s].outcome \in ResultStatuses
    BY <1>1 DEF Exec, ResultStatuses
  <2> QED
    BY <1>1, <1>2, <1>3, <1>5, <2>1, <2>2, AwaitSummary DEF Body, ExecPcs
<1>17. CASE LogOutcome(s)
  <2> DEFINE e == [exec[s] EXCEPT !.abort = @ \/ Aborts(exec[s])]
  <2>1. Await(s, Log(s, OutcomeEvent(e), Current(s)), AdvanceTo(e, e.pos + 1), "catchStatus")
        /\ exec[s].pc = "logOutcome"
    BY <1>17 DEF LogOutcome, At
  <2>2. e \in Exec /\ e.job = JobOf(s) /\ e.locked = exec[s].locked /\ e.pos = exec[s].pos
    BY <1>1 DEF Exec, JobOf, Aborts
  <2>3. OutcomeEvent(e) \in LogEvents
    BY DEF OutcomeEvent, LogEvents
  <2> QED
    BY <1>1, <1>2, <1>4, <1>5, <2>1, <2>2, <2>3, AwaitSummary DEF Body, ExecPcs
<1>18. CASE PersistVars(s)
  <2>1. Await(s, WithVars(DocOf(s), exec[s].vars),
                GoTo(s, "derive"), "catchStatus") /\ exec[s].pc = "persistVars"
    BY <1>18 DEF PersistVars, At
  <2>2. exec[s].vars \in SUBSET Indexes
    BY <1>1 DEF Exec
  <2> QED
    BY <1>1, <1>3, <1>5, <2>1, <2>2, AwaitSummary DEF Body, ExecPcs
<1>19. CASE DeriveStatus(s)
  <2> DEFINE statuses == {DocOf(s).results[i] : i \in StubsOf(DocOf(s))}
             next == [exec[s] EXCEPT !.pc = "persistStatus", !.final = deriveJobStatus(statuses)]
  <2>1. Await(s, DocOf(s), next, "catchStatus") /\ exec[s].pc = "derive"
    BY <1>19 DEF DeriveStatus, At
  <2>2. deriveJobStatus(statuses) \in Terminal
    BY DEF deriveJobStatus, Terminal
  <2>3. Continues(s, next)
    BY <1>1, <2>2 DEF Continues, Exec, ExecPcs, JobOf
  <2> QED
    BY <1>1, <1>5, <2>1, <2>3, AwaitSummary DEF Body, ExecPcs
<1>20. CASE PersistStatus(s)
  <2>1. Await(s, WithStatus(DocOf(s), exec[s].final),
                GoTo(s, "logFinal"), "catchStatus") /\ exec[s].pc = "persistStatus"
    BY <1>20 DEF PersistStatus, At
  <2>2. exec[s].final \in Terminal
    BY <1>1 DEF Exec
  <2> QED
    BY <1>1, <1>3, <1>5, <2>1, <2>2, AwaitSummary DEF Body, ExecPcs
<1>21. CASE LogFinal(s)
  <2>1. Await(s, Log(s, FinalEvent(exec[s].final), NoIndex),
                GoTo(s, "returned"), "catchStatus") /\ exec[s].pc = "logFinal"
    BY <1>21 DEF LogFinal, At
  <2>2. FinalEvent(exec[s].final) \in LogEvents
    BY <1>1 DEF Exec, Terminal, FinalEvent, LogEvents
  <2> QED
    BY <1>1, <1>2, <1>3, <1>5, <2>1, <2>2, AwaitSummary DEF Body, ExecPcs
<1>22. CASE CatchStatus(s)
  <2>1. Await(s, WithStatus(DocOf(s), "FAILED"),
                GoTo(s, "catchLog"), "thrown") /\ exec[s].pc = "catchStatus"
    BY <1>22 DEF CatchStatus, At
  <2> QED
    BY <1>1, <1>3, <1>5, <2>1, AwaitSummary DEF Body, ExecPcs, Terminal
<1>23. CASE CatchLog(s)
  <2>1. Await(s, Log(s, "JOB_FAILED", NoIndex),
                GoTo(s, "thrown"), "thrown") /\ exec[s].pc = "catchLog"
    BY <1>23 DEF CatchLog, At
  <2> QED
    BY <1>1, <1>2, <1>3, <1>5, <2>1, AwaitSummary DEF Body, ExecPcs, LogEvents
<1> QED
  BY <1>6, <1>7, <1>8, <1>9, <1>10, <1>11, <1>12, <1>13, <1>14, <1>15, <1>16, <1>17, <1>18, <1>19, <1>20, <1>21, <1>22, <1>23 DEF ExecStep

-----------------------------------------------------------------------------
(* Where a step of executeJob leads *)

\* An execution whose error is on its way out.
Caught == {"catchStatus", "catchLog", "thrown"}

\* From the write of RUNNING to the write of the final status.
RunningPcs == ExecPcs \ (Caught \cup {"idle", "findJob", "markRunning", "logFinal", "returned",
                                      "notPending"})

\* A call that does not reject keeps an execution out of its catch block, and
\* leads into the running part or out of it with the right status written.
Leads(s, doc, next) ==
  /\ next.pc \in Caught => exec[s].pc \in Caught
  /\ \/ next.pc \in RunningPcs
     \/ doc.status = DocOf(s).status /\ exec[s].pc \notin RunningPcs
     \/ doc.status \in Terminal

LEMMA ExecStepShape ==
  ASSUME TypeInv, NEW s \in Slots, ExecStep(s)
  PROVE  \/ UNCHANGED storeVars /\ exec'[s].pc \in RunningPcs
         \/ \E doc, next, thrown : Await(s, doc, next, thrown) /\ Leads(s, doc, next)
<1>1. /\ StoreTypeOK /\ ExecTypeOK /\ exec[s] \in Exec /\ exec[s].pc # "idle"
      /\ JobOf(s) \in Jobs /\ DocOf(s) \in JobDoc /\ exec[s].pos + 1 \in Nat
  <2>1. exec[s].pc # "idle"
    BY ExecStepEffect DEF StepSummary
  <2>2. Len(Snapshot) \in Nat
    BY JobStoreAssumption, LenProperties
  <2> QED
    BY <2>1, <2>2 DEF TypeInv, TypeOK, BusyHasJob, Busy, At, DocOf, StoreTypeOK, ExecTypeOK,
                      Exec, Positions
<1>2. \A pc : GoTo(s, pc).pc = pc
  BY <1>1 DEF GoTo, Exec
<1>3. \A e \in Exec, p \in Nat : /\ AdvanceTo(e, p).pc \in RunningPcs
                                 /\ AdvanceTo(e, p).pc \notin Caught
  BY AdvanceType DEF RunningPcs, ExecPcs, Caught
<1>4. CASE FindJob(s)
  <2>1. exec[s].pc = "findJob"
        /\ Await(s, DocOf(s), GoTo(s, IF Executable(DocOf(s)) THEN "markRunning" ELSE "notPending"),
                 "thrown")
    BY <1>4 DEF FindJob, At
  <2> QED
    BY <1>1, <1>2, <2>1 DEF Leads, Caught, RunningPcs, ExecPcs
<1>5. CASE /\ MarkRunning(s) \/ LogStarted(s) \/ SkipResult(s) \/ StartResult(s) \/ LogStart(s)
              \/ LogVar(s) \/ PersistResult(s) \/ PersistVars(s)
  <2>1. PICK pc \in {"logStarted", "findStubs", "logSkip", "logStart", "executeRequest",
                     "persistResult", "logOutcome", "derive"} :
          \E doc, thrown : Await(s, doc, GoTo(s, pc), thrown)
    BY <1>5 DEF MarkRunning, LogStarted, SkipResult, StartResult, LogStart, LogVar, PersistResult,
                PersistVars
  <2>2. pc \in RunningPcs /\ pc \notin Caught
    BY DEF Caught, RunningPcs, ExecPcs
  <2> QED
    BY <1>1, <1>2, <2>1, <2>2 DEF Leads
<1>6. CASE FindStubs(s) \/ LogSkip(s) \/ LogOutcome(s)
  <2>1. PICK e \in Exec, p \in Nat : \E doc, thrown : Await(s, doc, AdvanceTo(e, p), thrown)
    <3>1. [exec[s] EXCEPT !.stubs = StubsOf(DocOf(s))] \in Exec
      BY <1>1 DEF Exec, StubsOf
    <3>2. LET e == [exec[s] EXCEPT !.abort = @ \/ Aborts(exec[s])] IN e \in Exec /\ e.pos + 1 \in Nat
      BY <1>1 DEF Exec, Aborts
    <3> QED
      BY <1>1, <1>6, <3>1, <3>2 DEF FindStubs, LogSkip, LogOutcome
  <2> QED
    BY <1>1, <1>3, <2>1 DEF Leads
<1>7. CASE ExecuteRequest(s)
  <2>1. exec'[s].pc \in {"persistResult", "logVar"}
    BY <1>1, <1>7 DEF ExecuteRequest, Answered, ExecTypeOK, Exec
  <2> QED
    BY <1>7, <2>1 DEF ExecuteRequest, Caught, RunningPcs, ExecPcs
<1>8. CASE DeriveStatus(s)
  <2>1. PICK st, thrown : Await(s, DocOf(s), [exec[s] EXCEPT !.pc = "persistStatus", !.final = st], thrown)
    BY <1>8 DEF DeriveStatus
  <2>2. [exec[s] EXCEPT !.pc = "persistStatus", !.final = st].pc = "persistStatus"
    BY <1>1 DEF Exec
  <2> QED
    BY <1>1, <2>1, <2>2 DEF Leads, Caught, RunningPcs, ExecPcs
<1>9. CASE PersistStatus(s)
  <2>1. Await(s, WithStatus(DocOf(s), exec[s].final), GoTo(s, "logFinal"), "catchStatus")
    BY <1>9 DEF PersistStatus
  <2>2. WithStatus(DocOf(s), exec[s].final).status \in Terminal
    BY <1>1, WriteFields DEF Exec
  <2> QED
    BY <1>1, <1>2, <2>1, <2>2 DEF Leads, Caught
<1>10. CASE LogFinal(s)
  <2>1. exec[s].pc = "logFinal"
        /\ Await(s, Log(s, FinalEvent(exec[s].final), NoIndex), GoTo(s, "returned"), "catchStatus")
    BY <1>10 DEF LogFinal, At
  <2>2. Log(s, FinalEvent(exec[s].final), NoIndex).status = DocOf(s).status
    BY <1>1, WriteFields DEF Log
  <2> QED
    BY <1>1, <1>2, <2>1, <2>2 DEF Leads, Caught, RunningPcs, ExecPcs
<1>11. CASE CatchStatus(s) \/ CatchLog(s)
  <2>1. exec[s].pc \in Caught /\ exec[s].pc \notin RunningPcs
    BY <1>11 DEF CatchStatus, CatchLog, At, Caught, RunningPcs
  <2>2. CASE CatchStatus(s)
    <3>1. /\ Await(s, WithStatus(DocOf(s), "FAILED"), GoTo(s, "catchLog"), "thrown")
          /\ WithStatus(DocOf(s), "FAILED").status \in Terminal
      BY <1>1, <2>2, WriteFields DEF CatchStatus, Terminal
    <3> QED
      BY <2>1, <3>1 DEF Leads
  <2>3. CASE CatchLog(s)
    <3>1. /\ Await(s, Log(s, "JOB_FAILED", NoIndex), GoTo(s, "thrown"), "thrown")
          /\ Log(s, "JOB_FAILED", NoIndex).status = DocOf(s).status
      BY <1>1, <2>3, WriteFields DEF CatchLog, Log
    <3> QED
      BY <2>1, <3>1 DEF Leads
  <2> QED
    BY <1>11, <2>2, <2>3
<1> QED
  BY <1>4, <1>5, <1>6, <1>7, <1>8, <1>9, <1>10, <1>11 DEF ExecStep

-----------------------------------------------------------------------------
(* Type correctness *)

LEMMA SlotsTyped == \A s \in Slots : s[1] \in Processes /\ s[1] \in WorkerProcs
BY JobPipelineAssumption DEF AllSlots, Processes, WorkerProcs

LEMMA IdleTyped ==
  /\ IdleExec \in Exec /\ IdleExec.pc = "idle" /\ IdleExec.locked = FALSE
  /\ \A j \in Jobs : /\ Fresh("findJob", j, TRUE) \in Exec /\ Fresh("findJob", j, TRUE).job = j
                     /\ Fresh("findJob", j, TRUE).pc = "findJob"
                     /\ Fresh("findJob", j, TRUE).locked = TRUE
<1>1. Len(Snapshot) \in Nat /\ 1 \in Positions
  BY JobStoreAssumption, LenProperties DEF Positions
<1> QED
  BY <1>1 DEF IdleExec, Fresh, Exec, ExecPcs, Terminal

LEMMA TypeInit == Init => TypeInv
<1> SUFFICES ASSUME Init PROVE TypeInv
  OBVIOUS
<1>1. StoreTypeOK
  <2>1. NoDoc \in JobDoc
    BY EmptySeq DEF NoDoc, JobDoc
  <2> QED
    BY <2>1, JobStoreAssumption DEF Init, StoreInit, StoreTypeOK
<1>2. QueueTypeOK
  BY DEF Init, QueueInit, QueueTypeOK, QueueEntry, QueueStates, Attempts, MaxStalledCount
<1>3. ControllerTypeOK
  BY DEF Init, ControllerInit, ControllerTypeOK, ApiPcs
<1>4. ExecTypeOK
  BY IdleTyped DEF Init, ExecInit, ExecTypeOK
<1>5. BusyHasJob
  BY IdleTyped DEF Init, ExecInit, BusyHasJob, Busy, At
<1> QED
  BY <1>1, <1>2, <1>3, <1>4, <1>5, JobPipelineAssumption DEF Init, TypeInv, TypeOK

\* What the queue's operations do to the type of its entries.
LEMMA QueueTypes ==
  ASSUME QueueTypeOK, NEW j \in Jobs,
         \/ enqueueJob(j) \/ Deliver(j) \/ MoveToCompleted(j) \/ Promote(j) \/ Stall(j)
         \/ bull[j].attemptsMade < Attempts /\ MoveToFailed(j)
         \/ UNCHANGED bull
  PROVE  QueueTypeOK'
BY DEF QueueTypeOK, QueueEntry, QueueStates, Attempts, MaxStalledCount,
       enqueueJob, Deliver, MoveToCompleted, MoveToFailed, Promote, Stall

\* The queue's lock: an execution that has it runs a job that is active, no
\* two have the same one, and a job that the queue has not settled has an
\* attempt left.
Unsettled(j) == bull[j].state \in {"absent", "waiting", "active", "delayed"}
LockInv ==
  /\ \A s \in Slots : exec[s].locked => Busy(s) /\ bull[JobOf(s)].state = "active"
  /\ \A s, t \in Slots : exec[s].locked /\ exec[t].locked /\ JobOf(s) = JobOf(t) => s = t
  /\ \A j \in Jobs : Unsettled(j) => bull[j].attemptsMade < Attempts

IndInv == TypeInv /\ LockInv

\* The handlers leave the executions alone, and use the queue for enqueueJob only.
LEMMA ApiEffect ==
  ASSUME TypeInv, NEW j \in Jobs, Submit(j) \/ Handle(j)
  PROVE  /\ TypeInv'
         /\ UNCHANGED exec
         /\ UNCHANGED bull \/ enqueueJob(j)
<1>1. StoreTypeOK /\ ControllerTypeOK /\ QueueTypeOK /\ db[j] \in JobDoc
  BY DEF TypeInv, TypeOK, StoreTypeOK
<1>2. /\ WithStatus(db[j], "PENDING") \in JobDoc
      /\ WithLog(db[j], "JOB_STARTED", NoIndex) \in JobDoc
      /\ \A k \in 0..Len(Snapshot) : StubbedUpTo(db[j], k) \in JobDoc
  BY <1>1, DocTypes DEF JobStatuses, LogEvents
<1>3. Len(Snapshot) \in 0..Len(Snapshot)
  BY JobStoreAssumption, LenProperties
<1>4. ASSUME CreateJobDoc(j)
      PROVE  StoreTypeOK' /\ ControllerTypeOK' /\ UNCHANGED bull
  <2>1. {db[j], WithStatus(db[j], "PENDING")} \in SUBSET JobDoc
    BY <1>1, <1>2
  <2> QED
    BY <1>1, <1>4, <2>1, CallTypes DEF CreateJobDoc, ControllerTypeOK, ApiPcs
<1>5. ASSUME InsertStubs(j)
      PROVE  StoreTypeOK' /\ ControllerTypeOK' /\ UNCHANGED bull
  <2> DEFINE docs == {StubbedUpTo(db[j], k) : k \in 0..Len(Snapshot)}
  <2>1. docs \in SUBSET JobDoc /\ StubbedUpTo(db[j], Len(Snapshot)) \in docs
    BY <1>2, <1>3
  <2>2. Rejects(j, docs) \/ \E doc \in docs : Commits(j, doc)
    BY <1>5, <2>1 DEF InsertStubs
  <2>3. StoreTypeOK'
    BY <1>1, <2>1, <2>2, CallTypes
  <2> QED
    BY <1>1, <1>5, <2>3 DEF InsertStubs, ControllerTypeOK, ApiPcs
<1>6. ASSUME LogCreated(j)
      PROVE  StoreTypeOK' /\ ControllerTypeOK' /\ UNCHANGED bull
  <2>1. {db[j], WithLog(db[j], "JOB_STARTED", NoIndex)} \in SUBSET JobDoc
    BY <1>1, <1>2
  <2> QED
    BY <1>1, <1>6, <2>1, CallTypes DEF LogCreated, ControllerTypeOK, ApiPcs
<1>7. ASSUME Enqueue(j)
      PROVE  StoreTypeOK' /\ ControllerTypeOK' /\ (UNCHANGED bull \/ enqueueJob(j))
  <2>1. {db[j]} \in SUBSET JobDoc
    BY <1>1
  <2>2. StoreTypeOK'
    <3>1. CASE UNCHANGED storeVars
      BY <1>1, <3>1 DEF storeVars, StoreTypeOK
    <3>2. CASE Rejects(j, {db[j]})
      BY <1>1, <2>1, <3>2, CallTypes
    <3> QED
      BY <1>7, <3>1, <3>2 DEF Enqueue
  <2> QED
    BY <1>1, <1>7, <2>2 DEF Enqueue, ControllerTypeOK, ApiPcs
<1>8. StoreTypeOK' /\ ControllerTypeOK' /\ (UNCHANGED bull \/ enqueueJob(j))
      /\ UNCHANGED <<exec, procVars>>
  BY <1>4, <1>5, <1>6, <1>7 DEF Submit, Handle, HandlerStep
<1>9. QueueTypeOK'
  BY <1>1, <1>8, QueueTypes
<1> QED
  BY <1>8, <1>9 DEF TypeInv, TypeOK, ExecTypeOK, BusyHasJob, Busy, At, JobOf, procVars

LEMMA RestartEffect ==
  ASSUME TypeInv, NEW p \in Processes, Restart(p)
  PROVE  /\ ExecTypeOK' /\ ControllerTypeOK' /\ BusyHasJob'
         /\ UNCHANGED <<storeVars, bull>>
         /\ proc' \in [Processes -> {"up", "closing"}]
         /\ \A s \in Slots : exec'[s] = exec[s] \/ exec'[s] = IdleExec
<1>1. \A s \in Slots : exec'[s] = exec[s] \/ exec'[s] = IdleExec
  BY DEF Restart
<1>2. ExecTypeOK' /\ BusyHasJob'
  BY <1>1, IdleTyped DEF Restart, TypeInv, TypeOK, ExecTypeOK, BusyHasJob, Busy, At, JobOf
<1>3. ControllerTypeOK'
  BY DEF Restart, TypeInv, TypeOK, ControllerTypeOK, LoseHandlers, ApiPcs
<1>4. proc' \in [Processes -> {"up", "closing"}]
  BY DEF Restart, TypeInv, TypeOK
<1> QED
  BY <1>1, <1>2, <1>3, <1>4 DEF Restart

LEMMA IndInit == Init => IndInv
<1> SUFFICES ASSUME Init PROVE LockInv
  BY TypeInit DEF IndInv
<1> QED
  BY IdleTyped DEF Init, ExecInit, QueueInit, LockInv, Unsettled, Attempts

LEMMA IndStep == IndInv /\ [Next]_vars => IndInv'
<1> SUFFICES ASSUME IndInv, [Next]_vars PROVE IndInv'
  OBVIOUS
<1> USE DEF IndInv
<1>1. /\ StoreTypeOK /\ QueueTypeOK /\ ControllerTypeOK /\ ExecTypeOK /\ BusyHasJob
      /\ proc \in [Processes -> {"up", "closing"}]
      /\ crashes \in 0..MaxCrashes /\ deploys \in 0..MaxDeploys
  BY DEF TypeInv, TypeOK
<1>2. \A s \in Slots : exec[s] \in Exec /\ (exec[s].locked => JobOf(s) \in Jobs)
  BY <1>1 DEF ExecTypeOK, LockInv, BusyHasJob
<1>3. ASSUME NEW j \in Jobs, Submit(j) \/ Handle(j) PROVE IndInv'
  <2>1. TypeInv' /\ UNCHANGED exec /\ (UNCHANGED bull \/ enqueueJob(j))
    BY <1>3, ApiEffect
  <2>2. \A k \in Jobs : /\ bull[k].state = "active" => bull'[k] = bull[k]
                        /\ bull'[k].attemptsMade = bull[k].attemptsMade
                        /\ Unsettled(k)' => Unsettled(k)
    BY <1>1, <2>1 DEF enqueueJob, QueueTypeOK, QueueEntry, Unsettled
  <2>3. LockInv'
    BY <1>2, <2>1, <2>2 DEF LockInv, Busy, At, JobOf
  <2> QED
    BY <2>1, <2>3
<1>4. ASSUME NEW s \in Slots, NEW j \in Jobs, Take(s, j) PROVE IndInv'
  <2>1. /\ bull[j].state = "waiting" /\ bull' = [bull EXCEPT ![j].state = "active"]
        /\ exec' = [exec EXCEPT ![s] = Fresh("findJob", j, TRUE)]
        /\ UNCHANGED <<storeVars, api, procVars>>
    BY <1>4 DEF Take, Deliver, Begin
  <2>2. TypeInv'
    <3>1. QueueTypeOK'
      BY <1>1, <1>4, QueueTypes DEF Take
    <3>2. ExecTypeOK' /\ BusyHasJob'
      BY <1>1, <2>1, IdleTyped DEF ExecTypeOK, BusyHasJob, Busy, At, JobOf
    <3> QED
      BY <1>1, <2>1, <3>1, <3>2 DEF TypeInv, TypeOK, StoreTypeOK, ControllerTypeOK, storeVars, procVars
  <2>3. \A t \in Slots : exec[t].locked => JobOf(t) # j
    BY <2>1 DEF LockInv
  <2>4. /\ exec'[s].locked /\ exec'[s].job = j /\ exec'[s].pc = "findJob" /\ bull'[j].state = "active"
        /\ \A t \in Slots \ {s} : exec'[t] = exec[t]
        /\ \A k \in Jobs \ {j} : bull'[k] = bull[k]
        /\ bull'[j].attemptsMade = bull[j].attemptsMade /\ Unsettled(j)
    BY <1>1, <2>1, IdleTyped DEF ExecTypeOK, QueueTypeOK, QueueEntry, Unsettled
  <2>5. LockInv'
    BY <1>2, <2>3, <2>4 DEF LockInv, Unsettled, Busy, At, JobOf
  <2> QED
    BY <2>2, <2>5
<1>5. ASSUME NEW s \in Slots, Execute(s) PROVE IndInv'
  <2>1. StoreTypeOK' /\ ExecTypeOK' /\ StepSummary(s) /\ UNCHANGED <<bull, api, procVars>>
    BY <1>5, ExecStepEffect DEF Execute
  <2>2. \A t \in Slots : /\ exec'[t].job = exec[t].job /\ exec'[t].locked = exec[t].locked
                         /\ (exec'[t].pc = "idle") = (exec[t].pc = "idle")
    BY <2>1 DEF StepSummary, JobOf
  <2>3. BusyHasJob'
    BY <1>1, <2>2 DEF BusyHasJob, Busy, At, JobOf
  <2>4. LockInv'
    BY <2>1, <2>2 DEF LockInv, Unsettled, Busy, At, JobOf
  <2> QED
    BY <1>1, <2>1, <2>3, <2>4 DEF TypeInv, TypeOK, QueueTypeOK, ControllerTypeOK, procVars
<1>6. ASSUME NEW s \in Slots, Complete(s) \/ Fail(s) PROVE IndInv'
  <2>1. /\ exec' = [exec EXCEPT ![s] = IdleExec]
        /\ UNCHANGED <<storeVars, api, procVars>>
        /\ IF exec[s].locked THEN MoveToCompleted(JobOf(s)) \/ MoveToFailed(JobOf(s))
                             ELSE UNCHANGED bull
    BY <1>6 DEF Complete, Fail, Settle
  <2>2. exec[s].locked => /\ JobOf(s) \in Jobs /\ bull[JobOf(s)].state = "active"
                          /\ bull[JobOf(s)].attemptsMade < Attempts
    BY <1>2 DEF LockInv, Unsettled
  <2>3. TypeInv'
    <3>1. QueueTypeOK'
      <4>1. CASE exec[s].locked
        BY <1>1, <2>1, <2>2, <4>1, QueueTypes
      <4>2. CASE ~exec[s].locked
        BY <1>1, <2>1, <4>2 DEF QueueTypeOK
      <4> QED
        BY <4>1, <4>2
    <3>2. ExecTypeOK' /\ BusyHasJob'
      BY <1>1, <2>1, IdleTyped DEF ExecTypeOK, BusyHasJob, Busy, At, JobOf
    <3> QED
      BY <1>1, <2>1, <3>1, <3>2 DEF TypeInv, TypeOK, StoreTypeOK, ControllerTypeOK, storeVars, procVars
  <2>4. \A t \in Slots : exec'[t].locked => /\ t # s /\ exec'[t] = exec[t]
                                            /\ (exec[s].locked => JobOf(t) # JobOf(s))
    BY <1>1, <2>1, IdleTyped DEF LockInv, ExecTypeOK
  <2>5. \A k \in Jobs : k # JobOf(s) \/ ~exec[s].locked => bull'[k] = bull[k]
    BY <1>1, <2>1 DEF QueueTypeOK, MoveToCompleted, MoveToFailed
  <2>6. \A k \in Jobs : Unsettled(k)' => bull'[k].attemptsMade < Attempts
    <3>1. CASE exec[s].locked
      <4>1. ASSUME NEW k \in Jobs, k = JobOf(s), Unsettled(k)' PROVE bull'[k].attemptsMade < Attempts
        BY <1>1, <2>1, <2>2, <3>1, <4>1
           DEF QueueTypeOK, QueueEntry, MoveToCompleted, MoveToFailed, Unsettled, Attempts
      <4> QED
        BY <2>5, <4>1 DEF LockInv, Unsettled
    <3> QED
      BY <2>5, <3>1 DEF LockInv, Unsettled
  <2>7. LockInv'
    BY <1>2, <2>4, <2>5, <2>6 DEF LockInv, Busy, At, JobOf
  <2> QED
    BY <2>3, <2>7
<1>7. ASSUME NEW s \in Slots, LockExpires(s) PROVE IndInv'
  <2>1. exec' = [exec EXCEPT ![s].locked = FALSE] /\ UNCHANGED <<storeVars, bull, api, procVars>>
    BY <1>7 DEF LockExpires
  <2>2. ExecTypeOK' /\ BusyHasJob'
    BY <1>1, <2>1 DEF ExecTypeOK, Exec, BusyHasJob, Busy, At, JobOf
  <2>3. LockInv'
    BY <1>1, <2>1 DEF ExecTypeOK, Exec, LockInv, Unsettled, Busy, At, JobOf
  <2> QED
    BY <1>1, <2>1, <2>2, <2>3
       DEF TypeInv, TypeOK, StoreTypeOK, QueueTypeOK, ControllerTypeOK, storeVars, procVars
<1>8. ASSUME NEW j \in Jobs, StalledCheck(j) \/ BackOffEnds(j) PROVE IndInv'
  <2>1. QueueTypeOK' /\ UNCHANGED <<storeVars, api, exec, procVars>>
    BY <1>1, <1>8, QueueTypes DEF StalledCheck, BackOffEnds
  <2>2. TypeInv'
    BY <1>1, <2>1 DEF TypeInv, TypeOK, StoreTypeOK, ControllerTypeOK, ExecTypeOK, BusyHasJob,
                      Busy, At, JobOf, storeVars, procVars
  <2>3. \A t \in Slots : exec[t].locked => JobOf(t) # j
    BY <1>8 DEF StalledCheck, Locked, BackOffEnds, Promote, LockInv
  <2>4. LockInv'
    BY <1>1, <1>2, <1>8, <2>1, <2>3
       DEF StalledCheck, BackOffEnds, Stall, Promote, LockInv, QueueTypeOK, QueueEntry, Unsettled,
           Busy, At, JobOf
  <2> QED
    BY <2>2, <2>4
<1>9. ASSUME NEW p \in Processes, Crash(p) \/ Exit(p) PROVE IndInv'
  <2>1. Restart(p) /\ crashes' \in 0..MaxCrashes /\ UNCHANGED deploys
    BY <1>1, <1>9, JobPipelineAssumption DEF Crash, Exit
  <2>2. /\ ExecTypeOK' /\ ControllerTypeOK' /\ BusyHasJob'
        /\ UNCHANGED <<storeVars, bull>> /\ proc' \in [Processes -> {"up", "closing"}]
        /\ \A s \in Slots : exec'[s] = exec[s] \/ exec'[s] = IdleExec
    BY <2>1, RestartEffect
  <2>3. TypeInv'
    BY <1>1, <2>1, <2>2 DEF TypeInv, TypeOK, StoreTypeOK, QueueTypeOK, storeVars
  <2>4. \A s \in Slots : exec'[s].locked => exec'[s] = exec[s]
    BY <2>2, IdleTyped
  <2>5. LockInv'
    BY <2>2, <2>4 DEF LockInv, Unsettled, Busy, At, JobOf
  <2> QED
    BY <2>3, <2>5
<1>10. ASSUME NEW p \in Processes, Sigterm(p) PROVE IndInv'
  <2>1. /\ UNCHANGED <<storeVars, bull, api, exec, crashes>> /\ deploys' \in 0..MaxDeploys
        /\ proc' \in [Processes -> {"up", "closing"}]
    BY <1>1, <1>10, JobPipelineAssumption DEF Sigterm
  <2> QED
    BY <1>1, <2>1 DEF TypeInv, TypeOK, StoreTypeOK, QueueTypeOK, ControllerTypeOK, ExecTypeOK,
                      BusyHasJob, LockInv, Unsettled, Busy, At, JobOf, storeVars
<1>11. CASE UNCHANGED vars
  BY <1>1, <1>11 DEF vars, TypeInv, TypeOK, StoreTypeOK, QueueTypeOK, ControllerTypeOK, ExecTypeOK,
                     BusyHasJob, LockInv, Unsettled, Busy, At, JobOf
<1> QED
  BY <1>3, <1>4, <1>5, <1>6, <1>7, <1>8, <1>9, <1>10, <1>11 DEF Next

\* Every variable keeps its type, whatever fails.
THEOREM TypeCorrect == Spec => []TypeOK
<1>1. IndInv => TypeOK
  BY DEF IndInv, TypeInv
<1> QED
  BY <1>1, IndInit, IndStep, PTL DEF Spec

-----------------------------------------------------------------------------
(* One executor per job *)

BusyLocked == \A s \in Slots : Busy(s) => exec[s].locked

LEMMA BusyLockedStep ==
  ASSUME ~LockLoss, IndInv, BusyLocked, [Next]_vars
  PROVE  BusyLocked'
<1>1. ExecTypeOK
  BY DEF IndInv, TypeInv, TypeOK
<1>2. ASSUME UNCHANGED exec PROVE BusyLocked'
  BY <1>2 DEF BusyLocked, Busy, At
<1>3. ASSUME NEW s \in Slots, NEW j \in Jobs, Take(s, j) PROVE BusyLocked'
  BY <1>1, <1>3, IdleTyped DEF Take, Begin, ExecTypeOK, BusyLocked, Busy, At
<1>4. ASSUME NEW s \in Slots, Execute(s) PROVE BusyLocked'
  <2>1. StepSummary(s)
    BY <1>4, ExecStepEffect DEF Execute, IndInv
  <2> QED
    BY <2>1 DEF StepSummary, BusyLocked, Busy, At
<1>5. ASSUME NEW s \in Slots, Complete(s) \/ Fail(s) PROVE BusyLocked'
  BY <1>1, <1>5, IdleTyped DEF Complete, Fail, Settle, ExecTypeOK, BusyLocked, Busy, At
<1>6. ASSUME NEW s \in Slots, LockExpires(s) PROVE BusyLocked'
  BY <1>6 DEF LockExpires
<1>7. ASSUME NEW p \in Processes, Crash(p) \/ Exit(p) PROVE BusyLocked'
  BY <1>7, IdleTyped DEF Crash, Exit, Restart, BusyLocked, Busy, At
<1> QED
  BY <1>2, <1>3, <1>4, <1>5, <1>6, <1>7
     DEF Next, vars, Submit, Handle, StalledCheck, BackOffEnds, Sigterm

\* As long as no lock expires under a live worker, no two executions of one
\* job overlap, however many workers there are, whatever crashes or rejects.
THEOREM OneExecutor ==
  ASSUME LockLoss = FALSE
  PROVE  Spec => []OneExecutorPerJob
<1>1. Init => BusyLocked
  BY IdleTyped DEF Init, ExecInit, BusyLocked, Busy, At
<1>2. IndInv /\ BusyLocked => OneExecutorPerJob
  BY DEF IndInv, LockInv, BusyLocked, OneExecutorPerJob
<1>3. IndInv /\ BusyLocked /\ [Next]_vars => IndInv' /\ BusyLocked'
  BY IndStep, BusyLockedStep
<1>4. Init => IndInv
  BY IndInit
<1> QED
  BY <1>1, <1>2, <1>3, <1>4, PTL DEF Spec

-----------------------------------------------------------------------------
(* What the queue knows is in the store *)

\* A handler is in the middle of creating a job, with all of its stubs written
\* once it has passed insertMany; an execution past the status check has seen,
\* or made, its job leave PENDING.
DocInv ==
  /\ \A j \in Jobs : api[j] = "idle" => bull[j].state = "absent"
  /\ \A j \in Jobs : api[j] \in InHandler => db[j].status # "none"
  /\ \A j \in Jobs : api[j] \in {"logCreated", "enqueue"} => StubsOf(db[j]) = Indexes
  /\ \A s \in Slots : Busy(s) => bull[JobOf(s)].state # "absent"
  /\ \A s \in Slots : exec[s].pc \in Body \cup {"notPending"} =>
                        db[JobOf(s)].status \notin {"none", "PENDING"}
  /\ StubsBeforeExecution
  /\ CompletedMeansExecuted

LEMMA DocInvInit == Init => DocInv
BY IdleTyped DEF Init, StoreInit, QueueInit, ControllerInit, ExecInit, DocInv, InHandler, Busy, At,
                 Body, StubsBeforeExecution, CompletedMeansExecuted

\* The queue never forgets a job, and no step of it concerns the store.
LEMMA QueueRemembers ==
  ASSUME IndInv, DocInv, UNCHANGED <<db, api>>,
         \A j \in Jobs : (bull'[j].state = "absent") = (bull[j].state = "absent"),
         \A j \in Jobs : bull'[j].state = "completed" =>
                           bull[j].state = "completed" \/ db[j].status \notin {"none", "PENDING"},
         \A s \in Slots : \/ exec'[s].pc = "idle"
                          \/ exec'[s].pc = exec[s].pc /\ exec'[s].job = exec[s].job
                          \/ exec'[s].pc = "findJob" /\ bull'[exec'[s].job].state # "absent"
  PROVE  DocInv'
<1>1. \A s \in Slots : Busy(s)' => bull'[JobOf(s)'].state # "absent"
  BY DEF DocInv, Busy, At, JobOf, IndInv, TypeInv, BusyHasJob
<1>2. \A s \in Slots : exec'[s].pc \in Body \cup {"notPending"} =>
                         db'[JobOf(s)'].status \notin {"none", "PENDING"}
  BY DEF DocInv, JobOf, Body
<1> QED
  BY <1>1, <1>2 DEF DocInv, InHandler, StubsBeforeExecution, CompletedMeansExecuted

\* The handlers: j is the only job they touch, and its queue entry is absent
\* until its document and its stubs are there.
LEMMA DocInvApi ==
  ASSUME IndInv, DocInv, NEW j \in Jobs, Submit(j) \/ Handle(j)
  PROVE  DocInv'
<1>1. /\ db \in [Jobs -> JobDoc] /\ api \in [Jobs -> ApiPcs] /\ bull \in [Jobs -> QueueEntry]
      /\ db[j] \in JobDoc /\ BusyHasJob
  BY DEF IndInv, TypeInv, TypeOK, StoreTypeOK, ControllerTypeOK, QueueTypeOK
<1>2. UNCHANGED exec /\ \A k \in Jobs \ {j} : db'[k] = db[k] /\ api'[k] = api[k] /\ bull'[k] = bull[k]
  BY <1>1 DEF Submit, Handle, HandlerStep, CreateJobDoc, InsertStubs, LogCreated, Enqueue,
              Commits, Rejects, enqueueJob, storeVars
<1>3. \A st : WithStatus(db[j], st).status = st
      /\ WithStatus(db[j], st).results = db[j].results
  BY <1>1 DEF WithStatus, JobDoc
<1>4. \A k \in 0..Len(Snapshot) :
        /\ StubbedUpTo(db[j], k).status = db[j].status
        /\ \A i \in Indexes : db[j].results[i] # "none" => StubbedUpTo(db[j], k).results[i] # "none"
  BY <1>1 DEF StubbedUpTo, JobDoc
<1>5. Len(Snapshot) \in 0..Len(Snapshot) /\ StubsOf(StubbedUpTo(db[j], Len(Snapshot))) = Indexes
  <2>1. Len(Snapshot) \in 0..Len(Snapshot)
    BY JobStoreAssumption, LenProperties
  <2> QED
    BY <1>1, <2>1 DEF StubbedUpTo, StubsOf, JobDoc, Indexes, Positions
<1>6. \A ev, i : WithLog(db[j], ev, i).status = db[j].status
                 /\ WithLog(db[j], ev, i).results = db[j].results
  BY <1>1 DEF WithLog, JobDoc
<1>7. CASE Submit(j)
  <2>1. /\ api[j] = "idle" /\ bull[j].state = "absent" /\ UNCHANGED bull
        /\ api'[j] \in {"insertStubs", "error"}
        /\ api'[j] = "insertStubs" => db'[j].status = "PENDING"
    BY <1>1, <1>3, <1>7 DEF Submit, CreateJobDoc, Commits, Rejects, DocInv
  <2>2. \A s \in Slots : exec[s].pc # "idle" => JobOf(s) \in Jobs \ {j}
    BY <1>1, <2>1 DEF DocInv, BusyHasJob, Busy, At
  <2> QED
    BY <1>2, <2>1, <2>2 DEF DocInv, InHandler, Busy, At, JobOf, Body, StubsOf,
                            StubsBeforeExecution, CompletedMeansExecuted
<1>8. CASE Handle(j)
  <2>1. /\ api[j] \in InHandler /\ api'[j] \in {"logCreated", "enqueue", "accepted", "error"}
        /\ db'[j].status = db[j].status
        /\ \A i \in Indexes : db[j].results[i] # "none" => db'[j].results[i] # "none"
        /\ api'[j] \in {"logCreated", "enqueue"} => StubsOf(db'[j]) = Indexes
        /\ bull'[j] = bull[j] \/ (api[j] = "enqueue" /\ bull'[j].state = "waiting")
    <3>1. CASE InsertStubs(j)
      <4>1. /\ api[j] = "insertStubs" /\ UNCHANGED bull
            /\ api'[j] = "logCreated" \/ api'[j] = "error"
        BY <1>1, <3>1 DEF InsertStubs
      <4>2. PICK k \in 0..Len(Snapshot) :
              db'[j] = StubbedUpTo(db[j], k) /\ (api'[j] = "logCreated" => k = Len(Snapshot))
        BY <1>1, <1>5, <3>1 DEF InsertStubs, Commits, Rejects
      <4> QED
        BY <1>4, <1>5, <4>1, <4>2 DEF InHandler
    <3>2. CASE LogCreated(j)
      <4>1. /\ api[j] = "logCreated" /\ UNCHANGED bull
            /\ api'[j] = "enqueue" \/ api'[j] = "error"
        BY <1>1, <3>2 DEF LogCreated
      <4>2. db'[j] \in {db[j], WithLog(db[j], "JOB_STARTED", NoIndex)}
        BY <1>1, <3>2 DEF LogCreated, Commits, Rejects
      <4>3. db'[j].status = db[j].status /\ db'[j].results = db[j].results
        BY <1>6, <4>2
      <4>4. StubsOf(db'[j]) = Indexes
        BY <4>1, <4>3 DEF DocInv, StubsOf
      <4> QED
        BY <4>1, <4>3, <4>4 DEF InHandler
    <3>3. CASE Enqueue(j)
      <4>1. /\ api[j] = "enqueue" /\ db'[j] = db[j]
            /\ api'[j] = "accepted" \/ api'[j] = "error"
        BY <1>1, <3>3 DEF Enqueue, Rejects, storeVars
      <4>2. bull'[j] = bull[j] \/ bull'[j].state = "waiting"
        BY <1>1, <3>3 DEF Enqueue, enqueueJob, QueueEntry
      <4> QED
        BY <4>1, <4>2 DEF InHandler
    <3> QED
      BY <1>8, <3>1, <3>2, <3>3 DEF Handle, HandlerStep
  <2>2. StubsOf(db[j]) = Indexes => StubsOf(db'[j]) = Indexes
    BY <2>1 DEF StubsOf
  <2>3. \A s \in Slots : Busy(s) => JobOf(s) \in Jobs
    BY <1>1 DEF BusyHasJob
  <2>4. \A k \in Jobs : /\ db'[k].status = db[k].status
                        /\ bull'[k] = bull[k] \/ (k = j /\ bull'[k].state = "waiting")
    BY <1>2, <2>1
  <2>5. \A s \in Slots : /\ Busy(s)' => bull'[JobOf(s)'].state # "absent"
                         /\ exec'[s].pc \in Body \cup {"notPending"} =>
                              db'[JobOf(s)'].status \notin {"none", "PENDING"}
    BY <1>2, <2>3, <2>4 DEF DocInv, Busy, At, JobOf, Body
  <2>6. StubsBeforeExecution' /\ CompletedMeansExecuted'
    BY <1>2, <2>1, <2>2, <2>4 DEF DocInv, InHandler, StubsBeforeExecution, CompletedMeansExecuted
  <2> QED
    BY <1>2, <2>1, <2>5, <2>6 DEF DocInv, InHandler
<1> QED
  BY <1>7, <1>8

LEMMA DocInvStep == IndInv /\ DocInv /\ [Next]_vars => DocInv'
<1> SUFFICES ASSUME IndInv, DocInv, [Next]_vars PROVE DocInv'
  OBVIOUS
<1>1. /\ bull \in [Jobs -> QueueEntry] /\ exec \in [Slots -> Exec] /\ BusyHasJob
  BY DEF IndInv, TypeInv, TypeOK, QueueTypeOK, ExecTypeOK
<1>2. ASSUME NEW j \in Jobs, Submit(j) \/ Handle(j) PROVE DocInv'
  BY <1>2, DocInvApi
<1>3. ASSUME NEW s \in Slots, NEW j \in Jobs, Take(s, j) PROVE DocInv'
  <2>1. /\ \A k \in Jobs : /\ (bull'[k].state = "absent") = (bull[k].state = "absent")
                           /\ bull'[k].state = "completed" => bull[k].state = "completed"
        /\ bull'[j].state # "absent"
    BY <1>1, <1>3 DEF Take, Deliver, QueueEntry
  <2>2. /\ \A t \in Slots \ {s} : exec'[t] = exec[t]
        /\ exec'[s].pc = "findJob" /\ exec'[s].job = j
    BY <1>1, <1>3, IdleTyped DEF Take, Begin
  <2> QED
    BY <1>3, <2>1, <2>2, QueueRemembers DEF Take, storeVars
<1>4. ASSUME NEW s \in Slots, Execute(s) PROVE DocInv'
  <2>1. StepSummary(s) /\ UNCHANGED <<bull, api>> /\ JobOf(s) \in Jobs
    BY <1>1, <1>4, ExecStepEffect DEF Execute, IndInv, BusyHasJob, Busy, At, StepSummary
  <2>2. \A j \in Jobs : /\ db[j].status # "none" => db'[j].status # "none"
                        /\ db[j].status \notin {"none", "PENDING"} =>
                             db'[j].status \notin {"none", "PENDING"}
                        /\ StubsOf(db[j]) \subseteq StubsOf(db'[j])
    BY <2>1 DEF StepSummary, StubsOf, Terminal
  <2>3. \A j \in Jobs : StubsOf(db[j]) = Indexes => StubsOf(db'[j]) = Indexes
    BY <2>2 DEF StubsOf
  <2>4. db[JobOf(s)].status # "none"
    BY <2>1 DEF DocInv, StubsBeforeExecution, Busy, At, StepSummary
  <2>5. \A t \in Slots : exec'[t].pc \in Body \cup {"notPending"} =>
                           db'[JobOf(t)'].status \notin {"none", "PENDING"}
    <3>1. ASSUME NEW t \in Slots, t # s, exec'[t].pc \in Body \cup {"notPending"}
          PROVE  db'[JobOf(t)'].status \notin {"none", "PENDING"}
      <4>1. exec'[t] = exec[t] /\ JobOf(t) \in Jobs
        BY <1>1, <2>1, <3>1 DEF StepSummary, BusyHasJob, Busy, At, Body
      <4> QED
        BY <2>2, <3>1, <4>1 DEF DocInv, JobOf
    <3>2. ASSUME exec'[s].pc \in Body \cup {"notPending"}
          PROVE  db'[JobOf(s)'].status \notin {"none", "PENDING"}
      BY <2>1, <2>2, <2>4, <3>2 DEF StepSummary, DocInv, JobOf
    <3> QED
      BY <3>1, <3>2
  <2>6. \A t \in Slots : Busy(t)' => Busy(t) /\ JobOf(t)' = JobOf(t)
    BY <2>1 DEF StepSummary, Busy, At, JobOf
  <2> QED
    BY <2>1, <2>2, <2>3, <2>5, <2>6
       DEF DocInv, InHandler, StubsBeforeExecution, CompletedMeansExecuted
<1>5. ASSUME NEW s \in Slots, Complete(s) \/ Fail(s) PROVE DocInv'
  <2>1. /\ exec' = [exec EXCEPT ![s] = IdleExec] /\ UNCHANGED <<db, api>>
        /\ \/ UNCHANGED bull
           \/ JobOf(s) \in Jobs /\ MoveToFailed(JobOf(s)) /\ exec[s].locked
           \/ /\ JobOf(s) \in Jobs /\ MoveToCompleted(JobOf(s)) /\ exec[s].locked
              /\ exec[s].pc \in Body \cup {"notPending"}
    BY <1>1, <1>5 DEF Complete, Fail, Settle, storeVars, IndInv, LockInv, BusyHasJob, Busy, At,
                      Body, ExecPcs
  <2>2. exec[s].locked => bull[JobOf(s)].state = "active"
    BY DEF IndInv, LockInv
  <2>3. \A k \in Jobs : /\ (bull'[k].state = "absent") = (bull[k].state = "absent")
                        /\ bull'[k].state = "completed" =>
                             bull[k].state = "completed" \/ db[k].status \notin {"none", "PENDING"}
    <3>1. CASE UNCHANGED bull
      BY <3>1
    <3>2. CASE JobOf(s) \in Jobs /\ MoveToFailed(JobOf(s)) /\ exec[s].locked
      BY <1>1, <2>2, <3>2 DEF MoveToFailed, QueueEntry
    <3>3. CASE /\ JobOf(s) \in Jobs /\ MoveToCompleted(JobOf(s)) /\ exec[s].locked
               /\ exec[s].pc \in Body \cup {"notPending"}
      BY <1>1, <2>2, <3>3 DEF MoveToCompleted, QueueEntry, DocInv
    <3> QED
      BY <2>1, <3>1, <3>2, <3>3
  <2>4. \A t \in Slots : exec'[t].pc = "idle" \/ exec'[t] = exec[t]
    BY <1>1, <2>1, IdleTyped
  <2> QED
    BY <2>1, <2>3, <2>4, QueueRemembers
<1>6. ASSUME NEW s \in Slots, LockExpires(s) PROVE DocInv'
  <2>1. \A t \in Slots : exec'[t].pc = exec[t].pc /\ exec'[t].job = exec[t].job
    BY <1>1, <1>6 DEF LockExpires, Exec
  <2> QED
    BY <1>6, <2>1, QueueRemembers DEF LockExpires, storeVars
<1>7. ASSUME NEW j \in Jobs, StalledCheck(j) \/ BackOffEnds(j) PROVE DocInv'
  <2>1. \A k \in Jobs : /\ (bull'[k].state = "absent") = (bull[k].state = "absent")
                        /\ bull'[k].state = "completed" => bull[k].state = "completed"
    BY <1>1, <1>7 DEF StalledCheck, BackOffEnds, Stall, Promote, QueueEntry
  <2> QED
    BY <1>7, <2>1, QueueRemembers DEF StalledCheck, BackOffEnds, storeVars
<1>8. ASSUME NEW p \in Processes, Crash(p) \/ Exit(p) PROVE DocInv'
  <2>1. UNCHANGED <<db, bull>> /\ \A s \in Slots : exec'[s] = exec[s] \/ exec'[s] = IdleExec
    BY <1>8, RestartEffect DEF Crash, Exit, storeVars, IndInv
  <2>2. \A j \in Jobs : api'[j] = api[j] \/ api'[j] = "lost"
    BY <1>8 DEF Crash, Exit, Restart, LoseHandlers
  <2> QED
    BY <2>1, <2>2, IdleTyped DEF DocInv, InHandler, Busy, At, JobOf, Body, StubsBeforeExecution,
                                 CompletedMeansExecuted
<1>9. ASSUME NEW p \in Processes, Sigterm(p) PROVE DocInv'
  BY <1>9, QueueRemembers DEF Sigterm, storeVars
<1>10. CASE UNCHANGED vars
  BY <1>10, QueueRemembers DEF vars
<1> QED
  BY <1>2, <1>3, <1>4, <1>5, <1>6, <1>7, <1>8, <1>9, <1>10 DEF Next

\* No worker ever finds a job without its document or without some stub.
THEOREM StubsPrecedeExecution == Spec => []StubsBeforeExecution
<1>1. DocInv => StubsBeforeExecution
  BY DEF DocInv
<1> QED
  BY <1>1, IndInit, IndStep, DocInvInit, DocInvStep, PTL DEF Spec

\* No job is closed by the queue before an execution has started it, and so
\* none is forgotten behind the status check, even when locks expire.
THEOREM CompletionIsHonest == Spec => []CompletedMeansExecuted
<1>1. DocInv => CompletedMeansExecuted
  BY DEF DocInv
<1> QED
  BY <1>1, IndInit, IndStep, DocInvInit, DocInvStep, PTL DEF Spec

=============================================================================
