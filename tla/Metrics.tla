------------------------------ MODULE Metrics ------------------------------
(***************************************************************************)
(* GET /metrics and GET /metrics/collections/:id: concurrent aggregations  *)
(* over jobs that go on meanwhile, as JobLifecycle allows.  MongoDB takes  *)
(* no common snapshot, not even for one aggregation: each document is read *)
(* at a moment of its own.  Latencies, durations and the list of the last  *)
(* runs, which no page shows, are left out.                                *)
(***************************************************************************)
EXTENDS Integers, FiniteSets

CONSTANTS
  Jobs, Sequential, N,   \* as in JobLifecycle
  Own,                   \* the jobs of the collection that is asked for
  MaxFailures,           \* how many failures the global report lists
  MaxErrors              \* bound: calls that fail in one behaviour

\* MaxFailures is 5 in the code.
ASSUME MetricsAssumption ==
  /\ Sequential \subseteq Jobs /\ Own \subseteq Jobs
  /\ IsFiniteSet(Jobs)
  /\ N \in Nat \ {0}
  /\ MaxFailures \in Nat \ {0} /\ MaxErrors \in Nat

VARIABLES
  status, verdict,   \* the jobs, as in JobLifecycle
  report,            \* the report that is being made
  errors             \* calls that have failed so far

Life == INSTANCE JobLifecycle

Terminal == {"COMPLETED", "PARTIAL", "FAILED"}
\* Bug kept for comparison: only what is called FAILED is a failure.
FailedOnly == {"FAILED"}
Failures == {"PARTIAL", "FAILED"}

\* <<j, 0>> is the document of job j, <<j, p>> that of its p-th result.
Docs == Jobs \X (0..N)
Value(d) == IF d[2] = 0 THEN status[d[1]] ELSE verdict[d[1]][d[2]]
Unread == "unread"
PassedOver == "passed over"   \* read, and no match for a filter
Values == Life!Statuses \cup Life!Verdicts \cup {Unread, PassedOver}

\* The reads of Promise.all; "failures" is made by the global report only.
Reads == {"jobs", "requests", "failures"}
Decided == {"COMPLETED", "FAILED", "SKIPPED"}
\* Open results, pending or running, are counted as one.
Reply == [jobs     : [Life!Statuses \ {"none"} -> Nat],
          requests : [Life!Verdicts -> Nat],
          failures : SUBSET Jobs]
Report == [pc    : {"idle", "findCollection", "reading", "answered", "failed"},
           scope : {"global", "collection"},
           begun : [Jobs -> Life!Statuses],   \* for the properties: the jobs when the call arrived
           seen  : [Reads -> [Docs -> Values]],
           reply : Reply]

NothingSeen == [r \in Reads |-> [d \in Docs |-> Unread]]
NoReply == [jobs     |-> [st \in Life!Statuses \ {"none"} |-> 0],
            requests |-> [v \in Life!Verdicts |-> 0],
            failures |-> {}]
NoReport == [pc |-> "idle", scope |-> "global", begun |-> [j \in Jobs |-> "none"],
             seen |-> NothingSeen, reply |-> NoReply]

\* Bug kept for comparison: the id is matched as the string it arrives as,
\* which an aggregation, other than a find, does not cast to an ObjectId.
MatchedByString == IF report.scope = "global" THEN Jobs ELSE {}

\* The jobs a report is about.
Matched == IF report.scope = "global" THEN Jobs ELSE Own

DocsOf(read) ==
  CASE read = "jobs"     -> Matched \X {0}
    [] read = "requests" -> Matched \X (1..N)
    [] read = "failures" -> IF report.scope = "global" THEN Jobs \X {0} ELSE {}
Found(read, d) == IF read = "failures" /\ Value(d) \notin Failures THEN PassedOver ELSE Value(d)

\* A read may miss a document that is inserted after it began.  The stubs of a
\* PENDING job may be on their way.
MustSee(d) == report.begun[d[1]] \notin (IF d[2] = 0 THEN {"none"} ELSE {"none", "PENDING"})

-----------------------------------------------------------------------------

Ask(scope) ==
  /\ report.pc = "idle"
  /\ report' = [NoReport EXCEPT !.pc = IF scope = "global" THEN "reading" ELSE "findCollection",
                                !.scope = scope, !.begun = status]

\* The collection is there; the answer 404 is a call that fails.
FindCollection ==
  /\ report.pc = "findCollection"
  /\ report' = [report EXCEPT !.pc = "reading"]
  /\ UNCHANGED <<status, verdict, errors>>

\* In a job's results, in the order in which they were inserted.
Read(r, d) ==
  /\ report.pc = "reading"
  /\ d \in DocsOf(r)
  /\ status[d[1]] # "none"
  /\ report.seen[r][d] = Unread
  /\ \A p \in 1..(d[2] - 1) : report.seen[r][<<d[1], p>>] # Unread
  /\ report' = [report EXCEPT !.seen[r][d] = Found(r, d)]
  /\ UNCHANGED <<status, verdict, errors>>

\* $group, and the loops that fill in the statuses nothing was found for.
Count(r, v) == Cardinality({d \in Docs : report.seen[r][d] = v})
FoundFailures == {j \in Jobs : report.seen["failures"][<<j, 0>>] \in Failures}

\* .sort({ createdAt: -1 }).limit(5).  Which are the newest is left open.
LastFailures ==
  LET n == Cardinality(FoundFailures) IN
  {found \in SUBSET FoundFailures : Cardinality(found) = IF n <= MaxFailures THEN n ELSE MaxFailures}

Figures(listed) == [jobs     |-> [st \in Life!Statuses \ {"none"} |-> Count("jobs", st)],
                    requests |-> [v \in Life!Verdicts |-> Count("requests", v)],
                    failures |-> listed]

\* Object.values(jobCounts).reduce((a, b) => a + b, 0)
totalJobs ==
  LET jobCounts == report.reply.jobs IN
  jobCounts["PENDING"] + jobCounts["RUNNING"] + jobCounts["COMPLETED"] + jobCounts["PARTIAL"] + jobCounts["FAILED"]

Answer ==
  /\ report.pc = "reading"
  /\ \A r \in Reads : \A d \in DocsOf(r) : MustSee(d) => report.seen[r][d] # Unread
  /\ \E listed \in LastFailures :
       report' = [report EXCEPT !.pc = "answered", !.seen = NothingSeen, !.reply = Figures(listed)]
  /\ UNCHANGED <<status, verdict, errors>>

ReadFails ==
  /\ report.pc \in {"findCollection", "reading"}
  /\ errors < MaxErrors
  /\ errors' = errors + 1
  /\ report' = [report EXCEPT !.pc = "failed"]
  /\ UNCHANGED <<status, verdict>>

ReportStep == FindCollection \/ Answer \/ ReadFails \/ \E r \in Reads, d \in Docs : Read(r, d)

MetricsTypeOK ==
  /\ Life!TypeOK
  /\ report \in Report
  /\ errors \in 0..MaxErrors

=============================================================================
