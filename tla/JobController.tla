--------------------------- MODULE JobController ---------------------------
(***************************************************************************)
(* POST /jobs and POST /jobs/:id/rerun.  Both handlers make the same four  *)
(* awaited calls: create the Job document, insert the RequestResult stubs, *)
(* write the JOB_STARTED log entry, enqueue.  A rejected call ends the     *)
(* handler with an error response and leaves behind what was written.      *)
(***************************************************************************)
EXTENDS JobQueue

VARIABLE api   \* api[j]: the call that the handler creating job j awaits next

ApiPcs == {"idle", "insertStubs", "logCreated", "enqueue", "accepted", "error", "lost"}
InHandler == {"insertStubs", "logCreated", "enqueue"}

ControllerInit == api = [j \in Jobs |-> "idle"]
ControllerTypeOK == api \in [Jobs -> ApiPcs]

-----------------------------------------------------------------------------

\* Job.create with status PENDING and an empty variable store.
CreateJobDoc(j) ==
  LET doc == WithStatus(db[j], "PENDING") IN
  /\ api[j] = "idle"
  /\ \/ Commits(j, doc) /\ api' = [api EXCEPT ![j] = "insertStubs"]
     \/ Rejects(j, {db[j], doc}) /\ api' = [api EXCEPT ![j] = "error"]
  /\ UNCHANGED bull

\* The first k stubs of an ordered insertMany.
StubbedUpTo(doc, k) ==
  [doc EXCEPT !.results = [i \in Indexes |->
     IF \E p \in 1..k : Snapshot[p] = i THEN "PENDING" ELSE @[i]]]

\* Bug kept for comparison: a failed insertMany is logged and ignored.
InsertStubsCarryOn(j) ==
  /\ api[j] = "insertStubs"
  /\ \/ Commits(j, StubbedUpTo(db[j], Len(Snapshot)))
     \/ Rejects(j, {StubbedUpTo(db[j], k) : k \in 0..Len(Snapshot)})
  /\ api' = [api EXCEPT ![j] = "logCreated"]
  /\ UNCHANGED bull

\* RequestResult.insertMany: a PENDING stub per request of the snapshot.
InsertStubs(j) ==
  /\ api[j] = "insertStubs"
  /\ \/ /\ Commits(j, StubbedUpTo(db[j], Len(Snapshot)))
        /\ api' = [api EXCEPT ![j] = "logCreated"]
     \/ /\ Rejects(j, {StubbedUpTo(db[j], k) : k \in 0..Len(Snapshot)})
        /\ api' = [api EXCEPT ![j] = "error"]
  /\ UNCHANGED bull

LogCreated(j) ==
  LET doc == WithLog(db[j], "JOB_STARTED", NoIndex) IN
  /\ api[j] = "logCreated"
  /\ \/ Commits(j, doc) /\ api' = [api EXCEPT ![j] = "enqueue"]
     \/ Rejects(j, {db[j], doc}) /\ api' = [api EXCEPT ![j] = "error"]
  /\ UNCHANGED bull

\* enqueueJob, then the 201 response.  A Redis outage only delays the call
\* (maxRetriesPerRequest: null), but Redis may answer it with an error.
Enqueue(j) ==
  /\ api[j] = "enqueue"
  /\ \/ enqueueJob(j) /\ api' = [api EXCEPT ![j] = "accepted"] /\ UNCHANGED storeVars
     \/ /\ Rejects(j, {db[j]})
        /\ api' = [api EXCEPT ![j] = "error"]
        /\ enqueueJob(j) \/ UNCHANGED bull

\* What a handler does once it has created its Job document.
HandlerStep(j) == InsertStubs(j) \/ LogCreated(j) \/ Enqueue(j)

\* The API process dies: its handlers end wherever they were.
LoseHandlers == api' = [j \in Jobs |-> IF api[j] \in InHandler THEN "lost" ELSE api[j]]

=============================================================================
