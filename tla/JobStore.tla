------------------------------ MODULE JobStore ------------------------------
(***************************************************************************)
(* The MongoDB documents of a job, as the API and the workers share them:  *)
(* the Job document, its RequestResult stubs and its Log entries.  Every   *)
(* process reaches them only through awaited calls, and each call may      *)
(* reject; a rejected write may nevertheless have been applied.            *)
(***************************************************************************)
EXTENDS Integers, Sequences, FiniteSets

CONSTANTS
  Jobs,        \* ids of the Job documents that may be created
  NoJob,       \* stands for no id
  Sequential,  \* the jobs whose executionMode is "sequential"; the others are "parallel"
  Snapshot,    \* requestsSnapshot: the index field of each request, in array order
  MaxFaults    \* bound: database and queue calls that reject in one behaviour

\* validateCollection admits only non-empty arrays of requests with unique
\* non-negative indexes, in any order.
ASSUME JobStoreAssumption ==
  /\ NoJob \notin Jobs
  /\ Sequential \subseteq Jobs
  /\ Snapshot \in Seq(Nat)
  /\ Len(Snapshot) > 0
  /\ \A p, q \in 1..Len(Snapshot) : Snapshot[p] = Snapshot[q] => p = q
  /\ MaxFaults \in Nat

VARIABLES
  db,      \* db[j]: the documents of job j
  faults   \* calls that have rejected so far

storeVars == <<db, faults>>

Positions == 1..Len(Snapshot)
Indexes == {Snapshot[p] : p \in Positions}

Terminal == {"COMPLETED", "PARTIAL", "FAILED"}
JobStatuses == {"PENDING", "RUNNING"} \cup Terminal
ResultStatuses == {"PENDING", "RUNNING", "COMPLETED", "FAILED", "SKIPPED"}
LogEvents == {"JOB_STARTED", "JOB_COMPLETED", "JOB_FAILED", "JOB_PARTIAL",
              "REQUEST_STARTED", "REQUEST_COMPLETED", "REQUEST_FAILED",
              "REQUEST_SKIPPED", "VAR_EXTRACTED"}

\* "none": the document does not exist.  A variable is named by the index of
\* the request whose response it is extracted from.
NoIndex == -1
LogEntry == [event : LogEvents, req : Indexes \cup {NoIndex}]
JobDoc == [status  : JobStatuses \cup {"none"},
           results : [Indexes -> ResultStatuses \cup {"none"}],
           vars    : SUBSET Indexes,
           logs    : Seq(LogEntry)]

NoDoc == [status |-> "none", results |-> [i \in Indexes |-> "none"],
          vars |-> {}, logs |-> <<>>]

StoreInit == db = [j \in Jobs |-> NoDoc] /\ faults = 0
StoreTypeOK == db \in [Jobs -> JobDoc] /\ faults \in 0..MaxFaults

-----------------------------------------------------------------------------
(* New versions of a document *)

WithStatus(doc, st) == [doc EXCEPT !.status = st]
WithResult(doc, i, st) == [doc EXCEPT !.results[i] = st]
WithVars(doc, vs) == [doc EXCEPT !.vars = vs]
WithLog(doc, ev, i) == [doc EXCEPT !.logs = Append(@, [event |-> ev, req |-> i])]

\* Bug kept for comparison: only the open results are found.
StubsPending(doc) == {i \in Indexes : doc.results[i] = "PENDING"}

\* RequestResult.find({ jobId }): the stubs that exist.
StubsOf(doc) == {i \in Indexes : doc.results[i] # "none"}
Logged(doc, ev) == {doc.logs[k].req : k \in {n \in 1..Len(doc.logs) : doc.logs[n].event = ev}}

-----------------------------------------------------------------------------
(* Outcomes of one awaited database call about job j *)

Commits(j, doc) == db' = [db EXCEPT ![j] = doc] /\ UNCHANGED faults

\* The caller sees an error; docs are the states the call may have left behind.
Rejects(j, docs) ==
  /\ faults < MaxFaults
  /\ faults' = faults + 1
  /\ \E doc \in docs : db' = [db EXCEPT ![j] = doc]

=============================================================================
