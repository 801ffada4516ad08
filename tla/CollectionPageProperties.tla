---------------------- MODULE CollectionPageProperties ----------------------
(***************************************************************************)
(* What the reports and the pages that show them promise.                  *)
(***************************************************************************)
EXTENDS CollectionPage

\* The jobs that were asked for, and those that had, or have, a status in a set.
AskedFor == IF report.scope = "global" THEN Jobs ELSE Own
Then(statuses) == {j \in AskedFor : report.begun[j] \in statuses}
Now(statuses) == {j \in AskedFor : status[j] \in statuses}
Between(n, old, new) == Cardinality(old) <= n /\ n <= Cardinality(new)
Given(v) == report.reply.requests[v]
Exists == Life!Statuses \ {"none"}

\* A report that was put together from documents read at different moments
\* counts no job twice and misses none: every job that was there when the call
\* arrived, and every verdict given by then, is counted under what it was, and
\* nothing is counted that has not happened when the answer is there.
\* (getGlobalMetrics and getCollectionMetrics read without a transaction.)
CountsBracketed ==
  report.pc = "answered" =>
    /\ Between(totalJobs, Then(Exists), Now(Exists))
    /\ \A st \in Terminal : Between(report.reply.jobs[st], Then({st}), Now({st}))
    /\ N * Cardinality(Then(Terminal)) <= Given("COMPLETED") + Given("FAILED") + Given("SKIPPED")
    /\ \A v \in Decided :
         Given(v) <= Cardinality({d \in AskedFor \X (1..N) : Value(d) = v})

\* "Last 5 failed jobs for quick debugging" (metrics.controller.js:47): unless
\* the list is full, every job that had ended without passing when the call
\* arrived is in it, and none is in it that has not ended so by the answer.
FailuresListed ==
  report.pc = "answered" /\ report.scope = "global" =>
    /\ \/ Then(Terminal \ {"COMPLETED"}) \subseteq report.reply.failures
       \/ Cardinality(report.reply.failures) = MaxFailures
    /\ report.reply.failures \subseteq Now(Terminal \ {"COMPLETED"})

\* A run whose first call was answered ends with a link to its job, whether or
\* not the refresh of the history fails, and if it does not, with the job in
\* the history below.  (A user who is told "Failed" after the job was created
\* finds it on the page, and need not run the collection again.)
RunEndsLinked ==
  [][run.pc \in {"listing", "listed"} /\ run'.pc = "none" =>
       /\ shown'.latest = run.job
       /\ errors' = errors => run.job \in shown'.jobs]_vars

\* No job vanishes from the history on the screen: the answer to the first load
\* never replaces that of a later one.
HistoryGrows ==
  [][shown.jobs # NoList => shown'.jobs # NoList /\ shown.jobs \subseteq shown'.jobs]_vars

=============================================================================
