------------------------ MODULE CollectionPageProofs ------------------------
(***************************************************************************)
(* What the reports and the page of a collection show, for any number of   *)
(* jobs, requests and failing calls.                                       *)
(***************************************************************************)
EXTENDS CollectionPageProperties, FiniteSetTheorems, TLAPS

\* A job that has ended has no open result.
LifeInv == \A j \in Jobs : status[j] \in Terminal => \A p \in 1..N : verdict[j][p] # "open"

\* A job does not vanish after the call has arrived, and one that has ended stays as it is.
BegunInv ==
  \A j \in Jobs :
    /\ report.begun[j] \in Exists => status[j] \in Exists
    /\ report.begun[j] \in Terminal => status[j] = report.begun[j]

\* What was read is still true if it is final, and it is final if it was so
\* when the call arrived.
SeenJob(j, v) ==
  /\ v # Unread => j \in AskedFor /\ v \in Exists /\ status[j] \in Exists
  /\ v \in Terminal => status[j] = v
  /\ v # Unread /\ report.begun[j] \in Terminal => v = report.begun[j]
SeenResult(j, p, v) ==
  /\ v # Unread => j \in AskedFor /\ v \in Life!Verdicts
  /\ v \in Decided => verdict[j][p] = v
  /\ v # Unread /\ report.begun[j] \in Terminal => v \in Decided
SeenFailure(j, v) ==
  /\ v \in {Unread, PassedOver} \cup Failures
  /\ v \in Failures => status[j] = v
  /\ v = PassedOver => report.begun[j] \notin Failures

\* The reads of jobs and of failures see no results, and that of results no jobs.
SeenInv ==
  \A j \in Jobs :
    /\ SeenJob(j, report.seen["jobs"][<<j, 0>>])
    /\ SeenFailure(j, report.seen["failures"][<<j, 0>>])
    /\ report.seen["requests"][<<j, 0>>] = Unread
    /\ \A p \in 1..N : /\ SeenResult(j, p, report.seen["requests"][<<j, p>>])
                       /\ report.seen["jobs"][<<j, p>>] = Unread

\* What was listed exists.  A list is on the screen once the page has loaded,
\* and it is run only then.
PageInv ==
  /\ load.jobs # NoList => load.jobs \subseteq OwnJobs /\ page # "none"
  /\ shown.jobs # NoList => shown.jobs \subseteq OwnJobs /\ ~loading /\ page # "none"
  /\ run.pc # "none" => shown.jobs # NoList
  /\ run.pc \in {"created", "listing", "listed"} => run.job \in OwnJobs
  /\ run.pc \in {"listing", "listed"} => shown.latest = run.job
  /\ run.pc = "listed" => /\ run.jobs # NoList /\ run.jobs \subseteq OwnJobs
                          /\ run.job \in run.jobs /\ shown.jobs \subseteq run.jobs

IndInv ==
  /\ TypeOK /\ LifeInv /\ BegunInv /\ SeenInv /\ PageInv
  /\ CountsBracketed /\ FailuresListed


USE MetricsAssumption, CollectionPageAssumption

-----------------------------------------------------------------------------
(* What a step of a job changes, and what it leaves *)

\* A job that exists goes on existing, one that has ended stays as it is, and
\* so does a result that is decided.
Onward ==
  /\ \A j \in Jobs : /\ status[j] \in Exists => status'[j] \in Exists
                     /\ status[j] \in Terminal => status'[j] = status[j]
  /\ \A j \in Jobs, p \in 1..N : verdict[j][p] \in Decided => verdict'[j][p] = verdict[j][p]

LEMMA StatusTyped ==
  ASSUME Life!TypeOK
  PROVE  /\ \A j \in Jobs : status[j] \in Exists \cup {"none"}
         /\ \A j \in Jobs, p \in 1..N : verdict[j][p] \in Decided \cup {"open"}
BY DEF Life!TypeOK, Life!Statuses, Life!Verdicts, Exists, Decided

LEMMA LifeStep ==
  ASSUME Life!TypeOK, LifeInv, Life!Next
  PROVE  Life!TypeOK' /\ LifeInv' /\ Onward
<1> USE DEF Life!TypeOK, Terminal, Exists, Life!Statuses, Onward, LifeInv
<1>1. PICK j \in Jobs : \/ Life!Submit(j) \/ Life!Start(j) \/ Life!Finish(j)
                        \/ \E p \in 1..N : Life!Decide(j, p)
  BY DEF Life!Next
<1>2. CASE Life!Submit(j) \/ Life!Start(j)
  BY <1>2 DEF Life!Submit, Life!Start
<1>3. CASE Life!Finish(j)
  <2> DEFINE st == CASE Life!All(j, "COMPLETED") -> "COMPLETED"
                     [] Life!All(j, "FAILED")    -> "FAILED"
                     [] OTHER                    -> "PARTIAL"
  <2>1. st \in Terminal /\ status' = [status EXCEPT ![j] = st]
    <3>1. st \in Terminal
      OBVIOUS
    <3> QED BY <1>3, <3>1 DEF Life!Finish
  <2>2. status[j] = "RUNNING" /\ (\A p \in 1..N : verdict[j][p] # "open") /\ verdict' = verdict
    BY <1>3 DEF Life!Finish
  <2> HIDE DEF st
  <2> QED BY <2>1, <2>2
<1>4. ASSUME NEW p \in 1..N, Life!Decide(j, p)
      PROVE  Life!TypeOK' /\ LifeInv' /\ Onward
  <2>1. PICK v \in {"COMPLETED", "FAILED", "SKIPPED"} : verdict' = [verdict EXCEPT ![j][p] = v]
    BY <1>4 DEF Life!Decide, Life!Possible
  <2>2. status' = status /\ verdict[j][p] = "open"
    BY <1>4 DEF Life!Decide
  <2>3. /\ verdict' \in [Jobs -> [1..N -> Life!Verdicts]]
        /\ \A k \in Jobs, q \in 1..N : verdict'[k][q] = verdict[k][q] \/ (k = j /\ q = p /\ verdict'[k][q] = v)
    BY <2>1 DEF Life!Verdicts
  <2> QED BY <2>1, <2>2, <2>3 DEF Decided
<1> QED BY <1>1, <1>2, <1>3, <1>4

-----------------------------------------------------------------------------
(* How sets of documents are counted *)

LEMMA FiniteJobs ==
  ASSUME NEW S \in SUBSET Jobs
  PROVE  IsFiniteSet(S) /\ Cardinality(S) \in Nat
BY FS_Subset, FS_CardinalityType

LEMMA FiniteDocs ==
  ASSUME NEW S \in SUBSET Docs
  PROVE  IsFiniteSet(S) /\ Cardinality(S) \in Nat
<1>1. IsFiniteSet(0..N)
  BY FS_Interval
<1>2. IsFiniteSet(Docs)
  BY <1>1, FS_Product DEF Docs
<1> QED BY <1>2, FS_Subset, FS_CardinalityType

LEMMA SubsetCounts ==
  ASSUME NEW S, NEW T, IsFiniteSet(T), S \subseteq T
  PROVE  Cardinality(S) <= Cardinality(T)
BY FS_Subset

\* As many documents as jobs, if they are one of each.
LEMMA OneDocEach ==
  ASSUME NEW S \in SUBSET Jobs
  PROVE  Cardinality(S \X {0}) = Cardinality(S)
<1>1. IsFiniteSet({0}) /\ Cardinality({0}) = 1
  BY FS_Singleton
<1>2. IsFiniteSet(S) /\ Cardinality(S) \in Nat
  BY FiniteJobs
<1>3. Cardinality(S \X {0}) = Cardinality(S) * Cardinality({0})
  BY <1>1, <1>2, FS_Product
<1> QED BY <1>1, <1>2, <1>3

LEMMA DisjointUnion ==
  ASSUME NEW S, IsFiniteSet(S), NEW T, IsFiniteSet(T), S \cap T = {}
  PROVE  /\ IsFiniteSet(S \cup T)
         /\ Cardinality(S \cup T) = Cardinality(S) + Cardinality(T)
<1>1. Cardinality(S) \in Nat /\ Cardinality(T) \in Nat
  BY FS_CardinalityType
<1>2. Cardinality(S \cap T) = 0
  BY FS_EmptySet
<1>3. /\ IsFiniteSet(S \cup T)
      /\ Cardinality(S \cup T) = Cardinality(S) + Cardinality(T) - Cardinality(S \cap T)
  BY FS_Union
<1> QED BY <1>1, <1>2, <1>3


-----------------------------------------------------------------------------
(* Reports while jobs go on *)

ReportInv == BegunInv /\ SeenInv /\ CountsBracketed /\ FailuresListed

LEMMA ReportTyped ==
  ASSUME report \in Report
  PROVE  /\ \A st \in Exists : report.reply.jobs[st] \in Nat
         /\ \A v \in Life!Verdicts : Given(v) \in Nat
         /\ totalJobs \in Nat
         /\ \A j \in Jobs : report.begun[j] \in Exists \cup {"none"}
         /\ AskedFor \in SUBSET Jobs /\ Matched = AskedFor
BY DEF Report, Reply, Exists, Life!Statuses, Life!Verdicts, Given, totalJobs, AskedFor, Matched

LEMMA OnwardKeepsReport ==
  ASSUME Life!TypeOK, Life!TypeOK', report \in Report, ReportInv, Onward, UNCHANGED report
  PROVE  ReportInv'
<1>1. /\ \A j \in Jobs : report.begun[j] \in Exists \cup {"none"}
      /\ AskedFor \in SUBSET Jobs /\ AskedFor' = AskedFor
  BY ReportTyped DEF AskedFor
<1>2. Terminal \subseteq Exists /\ Failures \subseteq Terminal
  BY DEF Terminal, Exists, Failures, Life!Statuses
<1>3. BegunInv'
  BY <1>2 DEF ReportInv, BegunInv, Onward
<1>4. SeenInv'
  <2> SUFFICES ASSUME NEW j \in Jobs
               PROVE  /\ SeenJob(j, report.seen["jobs"][<<j, 0>>])'
                      /\ SeenFailure(j, report.seen["failures"][<<j, 0>>])'
                      /\ \A p \in 1..N : SeenResult(j, p, report.seen["requests"][<<j, p>>])'
    BY DEF ReportInv, SeenInv
  <2>1. SeenJob(j, report.seen["jobs"][<<j, 0>>])'
    BY <1>1 DEF ReportInv, SeenInv, SeenJob, Onward
  <2>2. SeenFailure(j, report.seen["failures"][<<j, 0>>])'
    BY <1>2 DEF ReportInv, SeenInv, SeenFailure, Onward
  <2>3. ASSUME NEW p \in 1..N PROVE SeenResult(j, p, report.seen["requests"][<<j, p>>])'
    <3> DEFINE v == report.seen["requests"][<<j, p>>]
    <3>1. SeenResult(j, p, v) /\ v' = v /\ report'.begun = report.begun
      BY DEF ReportInv, SeenInv
    <3>2. verdict[j][p] \in Decided => verdict'[j][p] = verdict[j][p]
      BY DEF Onward
    <3> HIDE DEF v
    <3>3. SeenResult(j, p, v)'
      BY <1>1, <3>1, <3>2 DEF SeenResult
    <3> QED BY <3>3 DEF v
  <2> QED BY <2>1, <2>2, <2>3
<1>5. FailuresListed'
  <2>1. Then(Terminal \ {"COMPLETED"})' = Then(Terminal \ {"COMPLETED"})
    BY <1>1 DEF Then
  <2>2. Now(Terminal \ {"COMPLETED"}) \subseteq Now(Terminal \ {"COMPLETED"})'
    BY <1>1 DEF Now, Onward
  <2> QED BY <2>1, <2>2 DEF ReportInv, FailuresListed
<1>6. CountsBracketed'
  <2> SUFFICES ASSUME report.pc = "answered" PROVE CountsBracketed'
    BY DEF CountsBracketed
  <2>1. ASSUME NEW S \in {Exists} \cup {{st} : st \in Terminal}, NEW n \in Nat,
               Between(n, Then(S), Now(S))
        PROVE  Between(n, Then(S)', Now(S)')
    <3>1. Then(S)' = Then(S) /\ Now(S) \in SUBSET Jobs /\ Now(S)' \in SUBSET Jobs
      BY <1>1 DEF Then, Now
    <3>2. Now(S) \subseteq Now(S)'
      BY <1>1, <1>2 DEF Now, Onward
    <3>3. Cardinality(Now(S)) <= Cardinality(Now(S)')
      BY <3>1, <3>2, FiniteJobs, SubsetCounts
    <3>4. Cardinality(Now(S)) \in Nat /\ Cardinality(Now(S)') \in Nat
      BY <3>1, FiniteJobs
    <3> QED BY <2>1, <3>1, <3>3, <3>4 DEF Between
  <2>2. ASSUME NEW v \in Decided
        PROVE  (Given(v) <= Cardinality({d \in AskedFor \X (1..N) : Value(d) = v}))'
    <3> DEFINE given == {d \in AskedFor \X (1..N) : Value(d) = v}
    <3>1. given \subseteq given' /\ given \in SUBSET Docs /\ given' \in SUBSET Docs
      BY <1>1 DEF Onward, Value, Docs
    <3>2. Cardinality(given) <= Cardinality(given')
      BY <3>1, FiniteDocs, SubsetCounts
    <3>3. Cardinality(given) \in Nat /\ Cardinality(given') \in Nat
      BY <3>1, FiniteDocs
    <3>4. Given(v) <= Cardinality(given) /\ Given(v)' = Given(v)
      BY DEF ReportInv, CountsBracketed, Given
    <3>5. Given(v) \in Nat
      BY ReportTyped DEF Decided, Life!Verdicts
    <3> HIDE DEF given
    <3>6. Given(v)' <= Cardinality(given')
      BY <3>2, <3>3, <3>4, <3>5
    <3> QED BY <3>6 DEF given
  <2>3. Between(totalJobs, Then(Exists), Now(Exists))'
    BY <2>1, ReportTyped DEF ReportInv, CountsBracketed, totalJobs
  <2>4. ASSUME NEW st \in Terminal PROVE Between(report.reply.jobs[st], Then({st}), Now({st}))'
    BY <1>2, <2>1, ReportTyped DEF ReportInv, CountsBracketed
  <2>5. (N * Cardinality(Then(Terminal)) <= Given("COMPLETED") + Given("FAILED") + Given("SKIPPED"))'
    BY <1>1 DEF ReportInv, CountsBracketed, Given, Then
  <2> QED BY <2>2, <2>3, <2>4, <2>5 DEF CountsBracketed
<1> QED BY <1>3, <1>4, <1>5, <1>6 DEF ReportInv


-----------------------------------------------------------------------------
(* The steps of a report *)

LEMMA DocsTyped ==
  /\ \A j \in Jobs : <<j, 0>> \in Docs
  /\ \A j \in Jobs, p \in 1..N : <<j, p>> \in Docs /\ p # 0
BY DEF Docs

\* A report that was asked for just now, or is made no longer, has seen nothing.
LEMMA FreshReport ==
  ASSUME BegunInv', report'.seen = NothingSeen, report'.pc # "answered"
  PROVE  ReportInv'
<1>1. \A r \in Reads, d \in Docs : report'.seen[r][d] = Unread
  BY DEF NothingSeen
<1>2. Unread \notin Terminal \cup Decided \cup Failures \cup {PassedOver}
  BY DEF Terminal, Decided, Failures, Unread, PassedOver
<1>3. {"jobs", "requests", "failures"} \subseteq Reads
  BY DEF Reads
<1>4. SeenInv'
  BY <1>1, <1>2, <1>3, DocsTyped DEF SeenInv, SeenJob, SeenResult, SeenFailure
<1> QED BY <1>4 DEF ReportInv, CountsBracketed, FailuresListed

LEMMA NoReportTyped == NoReport \in Report /\ NothingSeen \in [Reads -> [Docs -> Values]]
<1>1. NothingSeen \in [Reads -> [Docs -> Values]]
  BY DEF NothingSeen, Values
<1>2. NoReply \in Reply
  BY DEF NoReply, Reply
<1>3. [j \in Jobs |-> "none"] \in [Jobs -> Life!Statuses]
  BY DEF Life!Statuses
<1> QED BY <1>1, <1>2, <1>3 DEF NoReport, Report

LEMMA ResetReport ==
  ASSUME report' = NoReport
  PROVE  report' \in Report /\ ReportInv'
<1>1. BegunInv'
  BY DEF NoReport, BegunInv, Exists, Terminal
<1>2. report'.seen = NothingSeen /\ report'.pc # "answered"
  BY DEF NoReport
<1> QED BY <1>1, <1>2, FreshReport, NoReportTyped

LEMMA AskStep ==
  ASSUME Life!TypeOK, NEW scope \in {"global", "collection"}, Ask(scope), UNCHANGED <<status, verdict>>
  PROVE  report' \in Report /\ ReportInv'
<1>1. report' \in Report
  BY NoReportTyped DEF Ask, Report, Life!TypeOK
<1>2. /\ report'.seen = NothingSeen /\ report'.pc # "answered"
      /\ report'.begun = status
  BY DEF Ask, NoReport
<1>3. BegunInv'
  BY <1>2 DEF BegunInv
<1> QED BY <1>1, <1>2, <1>3, FreshReport

\* FindCollection and ReadFails.
LEMMA MoveStep ==
  ASSUME report \in Report, ReportInv, report.pc # "answered", UNCHANGED <<status, verdict>>,
         NEW pc \in {"reading", "failed"}, report' = [report EXCEPT !.pc = pc]
  PROVE  report' \in Report /\ ReportInv'
<1>1. report' \in Report /\ report'.seen = report.seen /\ report'.begun = report.begun
      /\ report'.scope = report.scope /\ report'.pc # "answered"
  BY DEF Report
<1>2. BegunInv' /\ SeenInv'
  BY <1>1 DEF ReportInv, BegunInv, SeenInv, SeenJob, SeenResult, SeenFailure, AskedFor
<1> QED BY <1>1, <1>2 DEF ReportInv, CountsBracketed, FailuresListed

LEMMA ReadStep ==
  ASSUME Life!TypeOK, LifeInv, report \in Report, ReportInv,
         NEW r \in Reads, NEW d \in Docs, Read(r, d)
  PROVE  report' \in Report /\ ReportInv'
<1> DEFINE v == Found(r, d)
<1>1. /\ report.pc = "reading" /\ d \in DocsOf(r) /\ status[d[1]] # "none"
      /\ report' = [report EXCEPT !.seen[r][d] = v]
      /\ UNCHANGED <<status, verdict>>
  BY DEF Read
<1>2. PICK j \in Jobs, p \in 0..N : d = <<j, p>>
  BY DEF Docs
<1>3. Value(d) = IF p = 0 THEN status[j] ELSE verdict[j][p]
  BY <1>2 DEF Value
<1>4. v \in Values
  BY <1>2, <1>3 DEF Found, Values, Life!TypeOK
<1>5. report' \in Report
  BY <1>1, <1>4 DEF Report
<1>6. /\ report'.begun = report.begun /\ report'.scope = report.scope /\ report'.pc = "reading"
      /\ \A q \in Reads \ {r} : report'.seen[q] = report.seen[q]
      /\ \A e \in Docs \ {d} : report'.seen[r][e] = report.seen[r][e]
      /\ report'.seen[r][d] = v
  BY <1>1 DEF Report
<1>7. BegunInv' /\ AskedFor' = AskedFor
  BY <1>1, <1>6 DEF ReportInv, BegunInv, AskedFor
<1>8. Terminal \subseteq Exists /\ Failures \subseteq Terminal
  BY DEF Terminal, Exists, Failures, Life!Statuses
<1>9. status[j] \in Exists
  BY <1>1, <1>2, StatusTyped
<1>10. report.begun[j] \in Terminal => status[j] = report.begun[j]
  BY DEF ReportInv, BegunInv
<1> HIDE DEF v
<1>11. ASSUME NEW k \in Jobs PROVE SeenJob(k, report.seen["jobs"][<<k, 0>>])'
  <2>1. CASE r = "jobs" /\ k = j /\ p = 0
    <3>1. v = status[j] /\ j \in AskedFor
      BY <2>1, <1>1, <1>2, <1>3, ReportTyped DEF v, Found, DocsOf
    <3> QED BY <2>1, <3>1, <1>1, <1>2, <1>6, <1>7, <1>9, <1>10 DEF SeenJob
  <2>2. CASE ~(r = "jobs" /\ k = j /\ p = 0)
    <3>1. report'.seen["jobs"][<<k, 0>>] = report.seen["jobs"][<<k, 0>>]
      BY <2>2, <1>2, <1>6, DocsTyped DEF Reads
    <3> QED BY <3>1, <1>1, <1>6, <1>7 DEF ReportInv, SeenInv, SeenJob
  <2> QED BY <2>1, <2>2
<1>12. ASSUME NEW k \in Jobs PROVE SeenFailure(k, report.seen["failures"][<<k, 0>>])'
  <2>1. CASE r = "failures" /\ k = j /\ p = 0
    <3>1. v = IF status[j] \in Failures THEN status[j] ELSE PassedOver
      BY <2>1, <1>3 DEF v, Found
    <3>2. PassedOver \notin Failures
      BY DEF PassedOver, Failures
    <3> QED BY <2>1, <3>1, <3>2, <1>1, <1>2, <1>6, <1>8, <1>10 DEF SeenFailure
  <2>2. CASE ~(r = "failures" /\ k = j /\ p = 0)
    <3>1. report'.seen["failures"][<<k, 0>>] = report.seen["failures"][<<k, 0>>]
      BY <2>2, <1>2, <1>6, DocsTyped DEF Reads
    <3> QED BY <3>1, <1>1, <1>6 DEF ReportInv, SeenInv, SeenFailure
  <2> QED BY <2>1, <2>2
<1>13. ASSUME NEW k \in Jobs, NEW q \in 1..N
       PROVE  SeenResult(k, q, report.seen["requests"][<<k, q>>])'
  <2>1. CASE r = "requests" /\ k = j /\ p = q
    <3>1. v = verdict[j][p] /\ j \in AskedFor
      BY <2>1, <1>1, <1>2, <1>3, ReportTyped DEF v, Found, DocsOf
    <3>2. verdict[j][p] \in Decided \cup {"open"} /\ verdict[j][p] \in Life!Verdicts
      BY <2>1, StatusTyped DEF Life!TypeOK
    <3>3. report.begun[j] \in Terminal => verdict[j][p] # "open"
      BY <2>1, <1>10 DEF LifeInv
    <3> QED BY <2>1, <3>1, <3>2, <3>3, <1>1, <1>2, <1>6, <1>7 DEF SeenResult
  <2>2. CASE ~(r = "requests" /\ k = j /\ p = q)
    <3>1. report'.seen["requests"][<<k, q>>] = report.seen["requests"][<<k, q>>]
      BY <2>2, <1>2, <1>6, DocsTyped DEF Reads
    <3> QED BY <3>1, <1>1, <1>6, <1>7 DEF ReportInv, SeenInv, SeenResult
  <2> QED BY <2>1, <2>2
<1>14. ASSUME NEW k \in Jobs PROVE (report.seen["requests"][<<k, 0>>] = Unread)'
  <2>1. ~(r = "requests" /\ k = j /\ p = 0)
    BY <1>1, <1>2 DEF DocsOf
  <2>2. report'.seen["requests"][<<k, 0>>] = report.seen["requests"][<<k, 0>>]
    BY <2>1, <1>2, <1>6, DocsTyped DEF Reads
  <2> QED BY <2>2 DEF ReportInv, SeenInv, Unread
<1>15. ASSUME NEW k \in Jobs, NEW q \in 1..N PROVE (report.seen["jobs"][<<k, q>>] = Unread)'
  <2>1. ~(r = "jobs" /\ k = j /\ p = q)
    BY <1>1, <1>2, DocsTyped DEF DocsOf
  <2>2. report'.seen["jobs"][<<k, q>>] = report.seen["jobs"][<<k, q>>]
    BY <2>1, <1>2, <1>6, DocsTyped DEF Reads
  <2> QED BY <2>2 DEF ReportInv, SeenInv, Unread
<1>16. SeenInv'
  BY <1>11, <1>12, <1>13, <1>14, <1>15 DEF SeenInv
<1> QED BY <1>5, <1>6, <1>7, <1>16 DEF ReportInv, CountsBracketed, FailuresListed


-----------------------------------------------------------------------------
(* The figures of a report *)

Seen(st) == {j \in Jobs : report.seen["jobs"][<<j, 0>>] = st}
SeenResults(v) == {d \in Docs : report.seen["requests"][d] = v}

LEMMA JobsCounted ==
  ASSUME SeenInv, NEW st \in Exists
  PROVE  Count("jobs", st) = Cardinality(Seen(st))
<1>1. st # Unread
  BY DEF Exists, Life!Statuses, Unread
<1>2. {d \in Docs : report.seen["jobs"][d] = st} = Seen(st) \X {0}
  <2>1. ASSUME NEW d \in Docs, report.seen["jobs"][d] = st PROVE d \in Seen(st) \X {0}
    <3>1. PICK j \in Jobs, p \in 0..N : d = <<j, p>>
      BY DEF Docs
    <3>2. p = 0
      <4>1. p \in 1..N => report.seen["jobs"][<<j, p>>] = Unread
        BY DEF SeenInv
      <4>2. p \notin 1..N
        BY <2>1, <3>1, <1>1, <4>1
      <4> QED BY <4>2
    <3>3. d = <<j, 0>> /\ j \in Seen(st)
      BY <2>1, <3>1, <3>2 DEF Seen
    <3> QED BY <3>3
  <2>2. ASSUME NEW j \in Seen(st) PROVE <<j, 0>> \in Docs /\ report.seen["jobs"][<<j, 0>>] = st
    BY DocsTyped DEF Seen
  <2> QED BY <2>1, <2>2
<1>3. Seen(st) \in SUBSET Jobs
  BY DEF Seen
<1>4. Cardinality(Seen(st) \X {0}) = Cardinality(Seen(st))
  BY <1>3, OneDocEach
<1> QED BY <1>2, <1>4 DEF Count

LEMMA ResultsSeen ==
  ASSUME SeenInv, report \in Report, NEW v \in Life!Verdicts
  PROVE  \A d \in SeenResults(v) :
           \E j \in AskedFor, p \in 1..N : d = <<j, p>> /\ SeenResult(j, p, v)
<1> SUFFICES ASSUME NEW d \in SeenResults(v)
             PROVE  \E j \in AskedFor, p \in 1..N : d = <<j, p>> /\ SeenResult(j, p, v)
  OBVIOUS
<1>1. PICK j \in Jobs, p \in 0..N : d = <<j, p>>
  BY DEF SeenResults, Docs
<1>2. v # Unread /\ report.seen["requests"][d] = v
  BY DEF SeenResults, Life!Verdicts, Unread
<1>3. p \in 1..N
  BY <1>1, <1>2 DEF SeenInv
<1>4. SeenResult(j, p, v)
  BY <1>1, <1>2, <1>3 DEF SeenInv
<1>5. j \in AskedFor
  BY <1>2, <1>4 DEF SeenResult
<1> QED BY <1>1, <1>3, <1>4, <1>5

\* Every document that must be seen was seen.
AllSeen == \A r \in Reads : \A d \in DocsOf(r) : MustSee(d) => report.seen[r][d] # Unread

\* What has ended by the time the call arrives is counted, and what is counted
\* has ended by the time of the answer; and so for what exists.
LEMMA JobsBracketed ==
  ASSUME Life!TypeOK, report \in Report, SeenInv, AllSeen
  PROVE  /\ \A st \in Terminal : Then({st}) \subseteq Seen(st) /\ Seen(st) \subseteq Now({st})
         /\ Then(Exists) \subseteq UNION {Seen(st) : st \in Exists}
         /\ \A st \in Exists : Seen(st) \subseteq Now(Exists)
<1>1. /\ AskedFor \in SUBSET Jobs /\ Matched = AskedFor
      /\ \A j \in Jobs : report.begun[j] \in Exists \cup {"none"}
  BY ReportTyped
<1>2. Terminal \subseteq Exists /\ Unread \notin Exists /\ "none" \notin Exists
  BY DEF Terminal, Exists, Life!Statuses, Unread
<1>3. ASSUME NEW j \in AskedFor, report.begun[j] \in Exists
      PROVE  report.seen["jobs"][<<j, 0>>] # Unread
  <2>1. <<j, 0>> \in DocsOf("jobs") /\ MustSee(<<j, 0>>)
    BY <1>1, <1>2, <1>3 DEF DocsOf, MustSee
  <2> QED BY <2>1 DEF AllSeen, Reads
<1>4. \A j \in Jobs : SeenJob(j, report.seen["jobs"][<<j, 0>>])
  BY DEF SeenInv
<1>5. ASSUME NEW st \in Terminal PROVE Then({st}) \subseteq Seen(st) /\ Seen(st) \subseteq Now({st})
  <2>1. Then({st}) \subseteq Seen(st)
    BY <1>1, <1>2, <1>3, <1>4 DEF Then, Seen, SeenJob
  <2>2. Seen(st) \subseteq Now({st})
    BY <1>2, <1>4 DEF Now, Seen, SeenJob
  <2> QED BY <2>1, <2>2
<1>6. Then(Exists) \subseteq UNION {Seen(st) : st \in Exists}
  <2> SUFFICES ASSUME NEW j \in Then(Exists) PROVE \E st \in Exists : j \in Seen(st)
    OBVIOUS
  <2> QED BY <1>1, <1>3, <1>4 DEF Then, Seen, SeenJob
<1>7. ASSUME NEW st \in Exists PROVE Seen(st) \subseteq Now(Exists)
  BY <1>2, <1>4 DEF Now, Seen, SeenJob
<1> QED BY <1>5, <1>6, <1>7

\* The counts of the five statuses add up to that of the jobs seen.
LEMMA TotalCounted ==
  LET union == UNION {Seen(st) : st \in Exists} IN
  /\ union \in SUBSET Jobs
  /\ Cardinality(union) =
       Cardinality(Seen("PENDING")) + Cardinality(Seen("RUNNING")) + Cardinality(Seen("COMPLETED"))
         + Cardinality(Seen("PARTIAL")) + Cardinality(Seen("FAILED"))
<1> DEFINE u2 == Seen("PENDING") \cup Seen("RUNNING")
           u3 == u2 \cup Seen("COMPLETED")
           u4 == u3 \cup Seen("PARTIAL")
           u5 == u4 \cup Seen("FAILED")
<1>1. \A st \in Exists : Seen(st) \in SUBSET Jobs /\ IsFiniteSet(Seen(st))
  BY FiniteJobs DEF Seen
<1>2. {"PENDING", "RUNNING", "COMPLETED", "PARTIAL", "FAILED"} = Exists
  BY DEF Exists, Life!Statuses
<1>3. UNION {Seen(st) : st \in Exists} = u5
  BY <1>2
<1>4. /\ Seen("PENDING") \cap Seen("RUNNING") = {}
      /\ u2 \cap Seen("COMPLETED") = {}
      /\ u3 \cap Seen("PARTIAL") = {}
      /\ u4 \cap Seen("FAILED") = {}
  BY DEF Seen
<1>5. IsFiniteSet(u2) /\ Cardinality(u2) = Cardinality(Seen("PENDING")) + Cardinality(Seen("RUNNING"))
  BY <1>1, <1>2, <1>4, DisjointUnion
<1> HIDE DEF u2
<1>6. IsFiniteSet(u3) /\ Cardinality(u3) = Cardinality(u2) + Cardinality(Seen("COMPLETED"))
  BY <1>1, <1>2, <1>4, <1>5, DisjointUnion
<1> HIDE DEF u3
<1>7. IsFiniteSet(u4) /\ Cardinality(u4) = Cardinality(u3) + Cardinality(Seen("PARTIAL"))
  BY <1>1, <1>2, <1>4, <1>6, DisjointUnion
<1> HIDE DEF u4
<1>8. Cardinality(u5) = Cardinality(u4) + Cardinality(Seen("FAILED"))
  BY <1>1, <1>2, <1>4, <1>7, DisjointUnion
<1> QED BY <1>1, <1>3, <1>5, <1>6, <1>7, <1>8


LEMMA ResultsBracketed ==
  ASSUME report \in Report, SeenInv, AllSeen
  PROVE  /\ \A v \in Decided :
              /\ SeenResults(v) \in SUBSET Docs
              /\ Cardinality(SeenResults(v)) <= Cardinality({d \in AskedFor \X (1..N) : Value(d) = v})
         /\ N * Cardinality(Then(Terminal)) <=
              Cardinality(SeenResults("COMPLETED")) + Cardinality(SeenResults("FAILED"))
                + Cardinality(SeenResults("SKIPPED"))
<1>1. AskedFor \in SUBSET Jobs /\ Matched = AskedFor
  BY ReportTyped
<1>2. Decided = {"COMPLETED", "FAILED", "SKIPPED"} /\ Decided \subseteq Life!Verdicts
  BY DEF Decided, Life!Verdicts
<1>3. \A v : SeenResults(v) \in SUBSET Docs /\ IsFiniteSet(SeenResults(v))
  BY FiniteDocs DEF SeenResults
<1>4. ASSUME NEW v \in Decided
      PROVE  Cardinality(SeenResults(v)) <= Cardinality({d \in AskedFor \X (1..N) : Value(d) = v})
  <2> DEFINE given == {d \in AskedFor \X (1..N) : Value(d) = v}
  <2>1. SeenResults(v) \subseteq given
    <3> SUFFICES ASSUME NEW d \in SeenResults(v) PROVE d \in given
      OBVIOUS
    <3>1. PICK j \in AskedFor, p \in 1..N : d = <<j, p>> /\ SeenResult(j, p, v)
      BY <1>2, ResultsSeen
    <3>2. verdict[j][p] = v
      BY <3>1 DEF SeenResult
    <3>3. Value(<<j, p>>) = v
      BY <3>2, DocsTyped DEF Value
    <3> QED BY <3>1, <3>3
  <2>2. IsFiniteSet(given)
    <3>1. given \in SUBSET Docs
      BY <1>1 DEF Docs
    <3> QED BY <3>1, FiniteDocs
  <2> QED BY <2>1, <2>2, SubsetCounts
<1>5. N * Cardinality(Then(Terminal)) <=
        Cardinality(SeenResults("COMPLETED")) + Cardinality(SeenResults("FAILED"))
          + Cardinality(SeenResults("SKIPPED"))
  <2> DEFINE two == SeenResults("COMPLETED") \cup SeenResults("FAILED")
             three == two \cup SeenResults("SKIPPED")
             ended == Then(Terminal) \X (1..N)
  <2>1. Then(Terminal) \in SUBSET Jobs
    BY <1>1 DEF Then
  <2>2. Cardinality(ended) = Cardinality(Then(Terminal)) * N
    <3>1. IsFiniteSet(1..N) /\ Cardinality(1..N) = N
      BY FS_Interval
    <3>2. IsFiniteSet(Then(Terminal))
      BY <2>1, FiniteJobs
    <3> QED BY <3>1, <3>2, FS_Product
  <2>3. ended \subseteq three
    <3> SUFFICES ASSUME NEW j \in Then(Terminal), NEW p \in 1..N
                 PROVE  \E v \in Decided : <<j, p>> \in SeenResults(v)
      BY <1>2
    <3> DEFINE v == report.seen["requests"][<<j, p>>]
    <3>1. j \in Jobs /\ j \in AskedFor /\ report.begun[j] \in Terminal
      BY <2>1 DEF Then
    <3>2. <<j, p>> \in DocsOf("requests")
      BY <1>1, <3>1 DEF DocsOf
    <3>3. report.begun[j] \notin {"none", "PENDING"}
      BY <3>1 DEF Terminal
    <3>4. MustSee(<<j, p>>)
      BY <3>3, DocsTyped DEF MustSee
    <3>5. v # Unread
      BY <3>2, <3>4 DEF AllSeen, Reads
    <3>6. SeenResult(j, p, v)
      BY <3>1 DEF SeenInv
    <3>7. v \in Decided
      BY <3>1, <3>5, <3>6 DEF SeenResult
    <3> QED BY <3>1, <3>7, DocsTyped DEF SeenResults
  <2>4. /\ SeenResults("COMPLETED") \cap SeenResults("FAILED") = {}
        /\ two \cap SeenResults("SKIPPED") = {}
    BY DEF SeenResults
  <2>5. /\ IsFiniteSet(two)
        /\ Cardinality(two) = Cardinality(SeenResults("COMPLETED")) + Cardinality(SeenResults("FAILED"))
    BY <1>3, <2>4, DisjointUnion
  <2> HIDE DEF two
  <2>6. IsFiniteSet(three) /\ Cardinality(three) = Cardinality(two) + Cardinality(SeenResults("SKIPPED"))
    BY <1>3, <2>4, <2>5, DisjointUnion
  <2> HIDE DEF three, ended
  <2>7. Cardinality(ended) <= Cardinality(three)
    BY <2>3, <2>6, SubsetCounts
  <2>8. Cardinality(Then(Terminal)) \in Nat
    BY <2>1, FiniteJobs
  <2>9. N * Cardinality(Then(Terminal)) = Cardinality(Then(Terminal)) * N
    BY <2>8
  <2> QED BY <2>2, <2>5, <2>6, <2>7, <2>9
<1> QED BY <1>3, <1>4, <1>5

\* The list of failures leaves one out only if it is full.
LEMMA FailuresBracketed ==
  ASSUME report \in Report, report.scope = "global", SeenInv, AllSeen,
         NEW listed \in LastFailures
  PROVE  /\ \/ Then(Terminal \ {"COMPLETED"}) \subseteq listed
            \/ Cardinality(listed) = MaxFailures
         /\ listed \subseteq Now(Terminal \ {"COMPLETED"})
<1>1. Terminal \ {"COMPLETED"} = Failures /\ AskedFor = Jobs /\ "none" \notin Failures
  BY DEF Terminal, Failures, AskedFor
<1>2. \A j \in Jobs : SeenFailure(j, report.seen["failures"][<<j, 0>>])
  BY DEF SeenInv
<1>3. Then(Failures) \subseteq FoundFailures
  <2> SUFFICES ASSUME NEW j \in Jobs, report.begun[j] \in Failures
               PROVE  report.seen["failures"][<<j, 0>>] \in Failures
    BY <1>1 DEF Then, FoundFailures
  <2>1. <<j, 0>> \in DocsOf("failures") /\ MustSee(<<j, 0>>)
    BY <1>1 DEF DocsOf, MustSee
  <2>2. report.seen["failures"][<<j, 0>>] # Unread
    BY <2>1 DEF AllSeen, Reads
  <2> QED BY <2>2, <1>2 DEF SeenFailure
<1>4. FoundFailures \subseteq Now(Failures)
  BY <1>1, <1>2 DEF FoundFailures, Now, SeenFailure
<1>5. listed \in SUBSET FoundFailures
  BY DEF LastFailures
<1>6. IsFiniteSet(FoundFailures)
  BY FiniteJobs DEF FoundFailures
<1>7. Cardinality(listed) = MaxFailures \/ Cardinality(listed) = Cardinality(FoundFailures)
  BY DEF LastFailures
<1>8. Cardinality(listed) = Cardinality(FoundFailures) => listed = FoundFailures
  BY <1>5, <1>6, FS_Subset
<1> QED BY <1>1, <1>3, <1>4, <1>5, <1>7, <1>8

LEMMA AnswerStep ==
  ASSUME Life!TypeOK, report \in Report, ReportInv, Answer
  PROVE  report' \in Report /\ ReportInv'
<1>1. PICK listed \in LastFailures :
        report' = [report EXCEPT !.pc = "answered", !.seen = NothingSeen, !.reply = Figures(listed)]
  BY DEF Answer
<1>2. AllSeen /\ SeenInv /\ BegunInv /\ UNCHANGED <<status, verdict>>
  BY DEF Answer, AllSeen, ReportInv
<1>3. /\ \A st \in Exists : Figures(listed).jobs[st] = Cardinality(Seen(st))
      /\ \A v \in Life!Verdicts : Figures(listed).requests[v] = Cardinality(SeenResults(v))
      /\ Figures(listed).failures = listed
  BY <1>2, JobsCounted DEF Figures, Exists, Count, SeenResults
<1>4. /\ \A st \in Exists : Seen(st) \in SUBSET Jobs /\ Cardinality(Seen(st)) \in Nat
      /\ \A v \in Life!Verdicts : Cardinality(SeenResults(v)) \in Nat
  BY FiniteJobs, FiniteDocs DEF Seen, SeenResults
<1>5. Figures(listed) \in Reply
  <2>1. listed \in SUBSET Jobs
    BY DEF LastFailures, FoundFailures
  <2> QED BY <1>3, <1>4, <2>1 DEF Figures, Reply, Exists
<1>6. /\ report' \in Report /\ report'.reply = Figures(listed) /\ report'.seen = NothingSeen
      /\ report'.begun = report.begun /\ report'.scope = report.scope
  BY <1>1, <1>5, NoReportTyped DEF Report
<1>7. /\ AskedFor' = AskedFor
      /\ \A S : Then(S)' = Then(S) /\ Now(S)' = Now(S)
  BY <1>2, <1>6 DEF AskedFor, Then, Now
<1>8. BegunInv'
  BY <1>2, <1>6 DEF BegunInv
<1>9. SeenInv'
  <2>1. \A r \in Reads, d \in Docs : report'.seen[r][d] = Unread
    BY <1>6 DEF NothingSeen
  <2>2. Unread \notin Terminal \cup Decided \cup Failures \cup {PassedOver}
    BY DEF Terminal, Decided, Failures, Unread, PassedOver
  <2>3. {"jobs", "requests", "failures"} \subseteq Reads
    BY DEF Reads
  <2> QED BY <2>1, <2>2, <2>3, DocsTyped DEF SeenInv, SeenJob, SeenResult, SeenFailure
<1>10. FailuresListed'
  <2> SUFFICES ASSUME report'.scope = "global" PROVE FailuresListed'
    BY DEF FailuresListed
  <2>1. /\ \/ Then(Terminal \ {"COMPLETED"}) \subseteq listed
           \/ Cardinality(listed) = MaxFailures
        /\ listed \subseteq Now(Terminal \ {"COMPLETED"})
    BY <1>2, <1>6, FailuresBracketed
  <2> QED BY <2>1, <1>3, <1>6, <1>7 DEF FailuresListed
<1>11. CountsBracketed'
  <2>1. {"PENDING", "RUNNING", "COMPLETED", "PARTIAL", "FAILED"} \subseteq Exists /\ Terminal \subseteq Exists
    BY DEF Exists, Terminal, Life!Statuses
  <2>2. AskedFor \in SUBSET Jobs
    BY ReportTyped
  <2>3. ASSUME NEW S PROVE IsFiniteSet(Now(S)) /\ Then(S) \in SUBSET Jobs
    BY <2>2, FiniteJobs DEF Now, Then
  <2>4. Between(totalJobs, Then(Exists), Now(Exists))'
    <3> DEFINE union == UNION {Seen(st) : st \in Exists}
    <3>1. totalJobs' = Cardinality(union)
      BY <1>3, <1>6, <2>1, TotalCounted DEF totalJobs
    <3>2. Then(Exists) \subseteq union /\ union \subseteq Now(Exists)
      BY <1>2, JobsBracketed
    <3>3. union \in SUBSET Jobs
      BY TotalCounted
    <3> HIDE DEF union
    <3>4. Cardinality(Then(Exists)) <= Cardinality(union) /\ Cardinality(union) <= Cardinality(Now(Exists))
      BY <2>3, <3>2, <3>3, FiniteJobs, SubsetCounts
    <3> QED BY <1>7, <3>1, <3>4 DEF Between, Exists
  <2>5. ASSUME NEW st \in Terminal PROVE Between(report.reply.jobs[st], Then({st}), Now({st}))'
    <3>1. report'.reply.jobs[st] = Cardinality(Seen(st))
      BY <1>3, <1>6, <2>1
    <3>2. Then({st}) \subseteq Seen(st) /\ Seen(st) \subseteq Now({st})
      BY <1>2, JobsBracketed
    <3>3. IsFiniteSet(Seen(st))
      BY <1>4, <2>1, FiniteJobs
    <3>4. Cardinality(Then({st})) <= Cardinality(Seen(st)) /\ Cardinality(Seen(st)) <= Cardinality(Now({st}))
      BY <2>3, <3>2, <3>3, SubsetCounts
    <3> QED BY <1>7, <3>1, <3>4 DEF Between
  <2>6. \A v \in Decided : v \in Life!Verdicts /\ Given(v)' = Cardinality(SeenResults(v))
    BY <1>3, <1>6 DEF Given, Decided, Life!Verdicts
  <2>7. (N * Cardinality(Then(Terminal)) <= Given("COMPLETED") + Given("FAILED") + Given("SKIPPED"))'
    BY <1>2, <1>7, <2>6, ResultsBracketed DEF Decided
  <2>8. ASSUME NEW v \in Decided
        PROVE  (Given(v) <= Cardinality({d \in AskedFor \X (1..N) : Value(d) = v}))'
    BY <1>2, <1>7, <2>6, ResultsBracketed DEF Value
  <2> QED BY <2>4, <2>5, <2>7, <2>8 DEF CountsBracketed
<1> QED BY <1>6, <1>8, <1>9, <1>10, <1>11 DEF ReportInv


-----------------------------------------------------------------------------
(* The steps of the page *)

\* Whatever the step, a job goes onward, and the report keeps what it promises.
LEMMA WorldStep ==
  ASSUME TypeOK, LifeInv, ReportInv, [Next]_vars
  PROVE  /\ Life!TypeOK' /\ report' \in Report /\ errors' \in 0..MaxErrors
         /\ LifeInv' /\ ReportInv' /\ Onward
<1>1. Life!TypeOK /\ report \in Report /\ errors \in 0..MaxErrors
  BY DEF TypeOK, MetricsTypeOK
<1>2. CASE UNCHANGED <<status, verdict>>
  <2>1. Life!TypeOK' /\ LifeInv' /\ Onward
    BY <1>1, <1>2 DEF Life!TypeOK, LifeInv, Onward
  <2>2. errors' \in 0..MaxErrors
    <3>1. UNCHANGED errors \/ (errors < MaxErrors /\ errors' = errors + 1)
      BY DEF Next, JobsGoOn, Serve, ReportStep, FindCollection, Answer, ReadFails, Read, Open, Click,
             LoadStep, LoadMetrics, LoadCollection, LoadJobs, Land, LoadFails, CallFails,
             RunStep, createJob, Created, ListJobs, Listed, Refused, RunFails, vars
    <3> QED BY <1>1, <3>1
  <2>3. report' \in Report /\ ReportInv'
    <3>1. CASE UNCHANGED report
      BY <1>1, <2>1, <3>1, OnwardKeepsReport
    <3>2. CASE Serve
      <4>1. CASE FindCollection \/ ReadFails
        BY <1>1, <1>2, <4>1, MoveStep DEF FindCollection, ReadFails
      <4>2. CASE Answer
        BY <1>1, <4>2, AnswerStep
      <4>3. ASSUME NEW r \in Reads, NEW d \in Docs, Read(r, d)
            PROVE  report' \in Report /\ ReportInv'
        BY <1>1, <4>3, ReadStep
      <4> QED BY <3>2, <4>1, <4>2, <4>3 DEF Serve, ReportStep
    <3>3. CASE LoadMetrics
      BY <1>1, <3>3, AskStep DEF LoadMetrics
    <3>4. CASE Land \/ LoadFails
      BY <3>4, ResetReport DEF Land, LoadFails
    <3> QED
      BY <3>1, <3>2, <3>3, <3>4
      DEF Next, JobsGoOn, Open, Click, LoadStep, LoadCollection, LoadJobs,
          RunStep, createJob, Created, ListJobs, Listed, Refused, RunFails, vars
  <2> QED BY <2>1, <2>2, <2>3
<1>3. CASE Life!Next /\ UNCHANGED <<report, errors>>
  <2>1. Life!TypeOK' /\ LifeInv' /\ Onward
    BY <1>1, <1>3, LifeStep
  <2> QED BY <1>1, <1>3, <2>1, OnwardKeepsReport
<1>4. ASSUME NEW j \in Jobs, createJob(j) PROVE Life!Next /\ UNCHANGED <<report, errors>>
  BY <1>4 DEF createJob, Life!Next
<1> QED
  BY <1>2, <1>3, <1>4
  DEF Next, JobsGoOn, Serve, ReportStep, FindCollection, Answer, ReadFails, Read, Open, Click,
      LoadStep, LoadMetrics, LoadCollection, LoadJobs, Land, LoadFails,
      RunStep, Created, ListJobs, Listed, Refused, RunFails, vars

PageTypeOK ==
  /\ page \in {"none", "collection", "metrics"}
  /\ loading \in BOOLEAN /\ running \in BOOLEAN
  /\ load \in Load /\ run \in Run /\ shown \in Shown

\* The jobs that can be listed become more.
LEMMA OwnJobsGrow ==
  ASSUME Life!TypeOK, Onward
  PROVE  /\ OwnJobs \in SUBSET Own /\ OwnJobs # NoList /\ OwnJobs \subseteq OwnJobs'
         /\ OwnJobs \in Lists
<1>1. \A j \in Jobs : status[j] # "none" => status'[j] # "none"
  <2>1. "none" \notin Exists
    BY DEF Exists
  <2> QED BY <2>1, StatusTyped DEF Onward
<1> QED BY <1>1 DEF OwnJobs, Lists

LEMMA PageStep ==
  ASSUME PageTypeOK, PageInv, Life!TypeOK, Life!TypeOK', report \in Report, Onward, [Next]_vars
  PROVE  PageTypeOK' /\ PageInv'
<1> USE DEF PageTypeOK, Load, Run, Shown, Lists
<1>1. OwnJobs \in SUBSET Own /\ OwnJobs # NoList /\ OwnJobs \subseteq OwnJobs' /\ Own \subseteq Jobs
  BY OwnJobsGrow
<1>2. CASE UNCHANGED pageVars
  BY <1>1, <1>2 DEF pageVars, PageInv
<1>3. CASE Open
  BY <1>1, <1>3 DEF Open, PageInv
<1>4. CASE LoadCollection
  BY <1>1, <1>4 DEF LoadCollection, PageInv
<1>5. CASE LoadJobs
  BY <1>1, <1>5 DEF LoadJobs, PageInv
<1>6. CASE Land
  <2>1. totalJobs \in Nat
    BY ReportTyped
  <2> HIDE DEF Lists
  <2>2. PageTypeOK'
    BY <1>6, <2>1 DEF Land
  <2>3. /\ load' = load /\ run' = run /\ page' = page /\ ~loading'
        /\ shown'.jobs = load.jobs /\ shown'.latest = shown.latest
    BY <1>6 DEF Land
  <2>4. shown.jobs = NoList /\ run.pc = "none"
    BY <1>6 DEF Land, PageInv
  <2>5. load.jobs # NoList => load.jobs \subseteq OwnJobs' /\ page # "none"
    BY <1>1 DEF PageInv
  <2>6. PageInv'
    BY <1>6, <2>3, <2>4, <2>5 DEF PageInv, Land
  <2> QED BY <2>2, <2>6
<1>7. CASE LoadFails
  BY <1>1, <1>7 DEF LoadFails, PageInv
<1>8. CASE Click
  BY <1>1, <1>8 DEF Click, CanRun, NoRun, PageInv
<1>9. ASSUME NEW j \in Jobs, createJob(j) PROVE PageTypeOK' /\ PageInv'
  <2>1. j \in Own /\ status'[j] = "PENDING"
    BY <1>9 DEF createJob, Life!Submit, Life!TypeOK
  <2>2. j \in OwnJobs'
    BY <2>1 DEF OwnJobs
  <2> QED BY <1>1, <1>9, <2>2 DEF createJob, PageInv
<1>10. CASE Created
  BY <1>1, <1>10 DEF Created, PageInv
<1>11. CASE ListJobs
  BY <1>1, <1>11 DEF ListJobs, PageInv
<1>12. CASE Listed
  BY <1>1, <1>12 DEF Listed, NoRun, PageInv
<1>13. CASE Refused \/ RunFails
  <2>1. /\ run' = NoRun /\ running' = FALSE
        /\ UNCHANGED <<page, loading, load, shown>>
    BY <1>13 DEF Refused, RunFails
  <2>2. NoRun \in Run /\ NoRun.pc = "none"
    BY DEF NoRun
  <2>3. PageTypeOK'
    BY <2>1, <2>2
  <2> QED BY <1>1, <2>1, <2>2, <2>3 DEF PageInv
<1> QED
  BY <1>2, <1>3, <1>4, <1>5, <1>6, <1>7, <1>8, <1>9, <1>10, <1>11, <1>12, <1>13
  DEF Next, JobsGoOn, Serve, LoadStep, LoadMetrics, RunStep, vars


-----------------------------------------------------------------------------

LEMMA TypeParts == TypeOK <=> Life!TypeOK /\ report \in Report /\ errors \in 0..MaxErrors /\ PageTypeOK
BY DEF TypeOK, MetricsTypeOK, PageTypeOK

LEMMA IndParts == IndInv <=> TypeOK /\ LifeInv /\ ReportInv /\ PageInv
BY DEF IndInv, ReportInv

LEMMA InitEstablishes == Init => IndInv
<1> SUFFICES ASSUME Init PROVE IndInv
  OBVIOUS
<1>1. Life!TypeOK /\ LifeInv
  BY DEF Init, Life!Init, Life!TypeOK, Life!Statuses, Life!Verdicts, LifeInv, Terminal
<1>2. report = NoReport /\ errors \in 0..MaxErrors
  BY DEF Init
<1>3. BegunInv
  BY <1>2 DEF NoReport, BegunInv, Exists, Terminal
<1>4. SeenInv
  <2>1. \A r \in Reads, d \in Docs : report.seen[r][d] = Unread
    BY <1>2 DEF NoReport, NothingSeen
  <2>2. Unread \notin Terminal \cup Decided \cup Failures \cup {PassedOver}
    BY DEF Terminal, Decided, Failures, Unread, PassedOver
  <2>3. {"jobs", "requests", "failures"} \subseteq Reads
    BY DEF Reads
  <2> QED BY <2>1, <2>2, <2>3, DocsTyped DEF SeenInv, SeenJob, SeenResult, SeenFailure
<1>5. ReportInv
  BY <1>2, <1>3, <1>4 DEF ReportInv, CountsBracketed, FailuresListed, NoReport
<1>6. PageTypeOK /\ PageInv
  BY DEF Init, PageTypeOK, PageInv, Load, Run, Shown, Lists, NoLoad, NoRun, NothingShown, NoTotal
<1> QED BY <1>1, <1>2, <1>5, <1>6, NoReportTyped, TypeParts, IndParts

LEMMA StepPreserves == IndInv /\ [Next]_vars => IndInv'
<1> SUFFICES ASSUME IndInv, [Next]_vars PROVE IndInv'
  OBVIOUS
<1>1. TypeOK /\ LifeInv /\ ReportInv /\ PageInv
  BY IndParts
<1>2. Life!TypeOK /\ report \in Report /\ PageTypeOK
  BY <1>1, TypeParts
<1>3. /\ Life!TypeOK' /\ report' \in Report /\ errors' \in 0..MaxErrors
      /\ LifeInv' /\ ReportInv' /\ Onward
  BY <1>1, WorldStep
<1>4. PageTypeOK' /\ PageInv'
  BY <1>1, <1>2, <1>3, PageStep
<1>5. TypeOK'
  BY <1>3, <1>4 DEF TypeOK, MetricsTypeOK, PageTypeOK
<1> QED BY <1>3, <1>4, <1>5 DEF IndInv, ReportInv

LEMMA Invariance == Spec => []IndInv
BY InitEstablishes, StepPreserves, PTL DEF Spec

\* The jobs, the reports and the page are well typed: no figure is ever anything
\* but a number.  (metrics.controller.js, collections/[id]/page.jsx.)
THEOREM TypeCorrect == Spec => []TypeOK
BY Invariance, PTL DEF IndInv

\* A report that reads each document at a moment of its own still counts no job
\* twice and misses none: its figures lie between what was true when the call
\* arrived and what is true at its answer, for any number of jobs and requests.
\* (getGlobalMetrics and getCollectionMetrics.)
THEOREM CountsAreBracketed == Spec => []CountsBracketed
BY Invariance, PTL DEF IndInv

\* Unless the list of the last failures is full, it leaves no failure out that
\* was there when the call arrived; and it has nothing in it but failures.
\* (recentFailures of getGlobalMetrics.)
THEOREM FailuresAreListed == Spec => []FailuresListed
BY Invariance, PTL DEF IndInv

\* A run of the collection whose first call was answered ends with the link to
\* its job, and, unless the second call failed, with the job in the history.
\* (handleRun.)
THEOREM RunsEndLinked == Spec => RunEndsLinked
<1>1. ASSUME IndInv, [Next]_vars, run.pc \in {"listing", "listed"}, run'.pc = "none"
      PROVE  /\ shown'.latest = run.job
             /\ errors' = errors => run.job \in shown'.jobs
  <2>1. PageTypeOK /\ PageInv /\ errors \in Nat
    BY <1>1 DEF IndInv, TypeOK, MetricsTypeOK, PageTypeOK
  <2>2. Listed \/ RunFails
    <3>1. CASE UNCHANGED run
      BY <1>1, <3>1
    <3>2. CASE RunStep
      <4>1. run'.pc # "none" \/ run.pc = "creating" \/ Listed \/ RunFails
        BY <2>1, <3>2 DEF RunStep, createJob, Created, ListJobs, Refused, PageTypeOK, Run
      <4> QED BY <1>1, <4>1
    <3>3. CASE Click
      BY <1>1, <2>1, <3>3 DEF Click, NoRun
    <3> QED
      BY <1>1, <3>1, <3>2, <3>3
      DEF Next, JobsGoOn, Serve, Open, LoadStep, LoadMetrics, LoadCollection, LoadJobs, Land,
          LoadFails, vars, pageVars
  <2>3. CASE Listed
    BY <2>1, <2>3 DEF Listed, PageInv, PageTypeOK, Shown
  <2>4. CASE RunFails
    BY <1>1, <2>1, <2>4 DEF RunFails, CallFails, PageInv
  <2> QED BY <2>2, <2>3, <2>4
<1> QED BY <1>1, Invariance, PTL DEF Spec, RunEndsLinked

\* Once the history is on the screen it stays there, and only grows: no answer
\* replaces it by an older one.  (loading, which hides the Run button, and
\* handleRun, which alone changes the list later.)
THEOREM HistoriesGrow == Spec => HistoryGrows
<1>1. ASSUME IndInv, [Next]_vars, shown.jobs # NoList
      PROVE  shown'.jobs # NoList /\ shown.jobs \subseteq shown'.jobs
  <2>1. PageTypeOK /\ PageInv
    BY <1>1 DEF IndInv, TypeOK, PageTypeOK
  <2>2. CASE Listed
    BY <2>1, <2>2 DEF Listed, PageInv, PageTypeOK, Shown
  <2>3. CASE Created
    BY <1>1, <2>1, <2>3 DEF Created, PageTypeOK, Shown
  <2>4. CASE Land
    BY <1>1, <2>1, <2>4 DEF Land, PageInv
  <2>5. CASE UNCHANGED shown
    BY <1>1, <2>5
  <2> QED
    BY <1>1, <2>2, <2>3, <2>4, <2>5
    DEF Next, JobsGoOn, Serve, Open, Click, LoadStep, LoadMetrics, LoadCollection, LoadJobs,
        LoadFails, RunStep, createJob, ListJobs, Refused, RunFails, vars, pageVars
<1> QED BY <1>1, Invariance, PTL DEF Spec, HistoryGrows

=============================================================================
