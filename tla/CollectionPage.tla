--------------------------- MODULE CollectionPage ---------------------------
(***************************************************************************)
(* The page of a collection, which shows its jobs and metrics and runs it, *)
(* and the metrics page, which shows the global report.  While their calls *)
(* are on their way jobs go on and other clients submit jobs.  Any call    *)
(* may fail, after it was applied too.                                     *)
(***************************************************************************)
EXTENDS Metrics

CONSTANTS NoJob, NoList   \* no job; a list that is not there yet

ASSUME CollectionPageAssumption == NoJob \notin Jobs /\ \A list \in SUBSET Own : list # NoList

VARIABLES
  page,      \* the page that is open
  loading, running,
  load,      \* the answers to the page's first calls, but for the report
  run,       \* what handleRun awaits, and what it was told
  shown      \* what is on the screen

pageVars == <<page, loading, running, load, run, shown>>
vars == <<status, verdict, report, errors, pageVars>>

NoTotal == -1
Lists == (SUBSET Own) \cup {NoList}

Load == [collection : BOOLEAN, jobs : Lists]
Run == [pc : {"none", "creating", "created", "listing", "listed"}, job : Jobs \cup {NoJob}, jobs : Lists]
\* A page without a report shows that it could not be loaded.
Shown == [total : Nat \cup {NoTotal}, jobs : Lists, latest : Jobs \cup {NoJob}]

NoLoad == [collection |-> FALSE, jobs |-> NoList]
NoRun == [pc |-> "none", job |-> NoJob, jobs |-> NoList]
NothingShown == [total |-> NoTotal, jobs |-> NoList, latest |-> NoJob]

TypeOK ==
  /\ MetricsTypeOK
  /\ page \in {"none", "collection", "metrics"}
  /\ loading \in BOOLEAN /\ running \in BOOLEAN
  /\ load \in Load /\ run \in Run /\ shown \in Shown

Init ==
  /\ Life!Init
  /\ report = NoReport /\ errors = 0
  /\ page = "none" /\ loading = FALSE /\ running = FALSE
  /\ load = NoLoad /\ run = NoRun /\ shown = NothingShown

\* A call fails for another reason than the state of the database.
CallFails == errors < MaxErrors /\ errors' = errors + 1

-----------------------------------------------------------------------------
(* The rest of the world *)

OwnJobs == {j \in Own : status[j] # "none"}

\* Jobs go on, and other clients submit some.
JobsGoOn ==
  /\ Life!Next
  /\ UNCHANGED <<report, errors, pageVars>>

Serve == ReportStep /\ UNCHANGED pageVars

-----------------------------------------------------------------------------
(* The first load *)

Open ==
  /\ page = "none"
  /\ page' \in {"collection", "metrics"}
  /\ loading' = TRUE
  /\ UNCHANGED <<status, verdict, report, errors, running, load, run, shown>>

LoadMetrics ==
  /\ loading
  /\ Ask(IF page = "metrics" THEN "global" ELSE "collection")
  /\ UNCHANGED <<status, verdict, errors, pageVars>>

LoadCollection ==
  /\ loading /\ page = "collection" /\ ~load.collection
  /\ load' = [load EXCEPT !.collection = TRUE]
  /\ UNCHANGED <<status, verdict, report, errors, page, loading, running, run, shown>>

LoadJobs ==
  /\ loading /\ page = "collection" /\ load.jobs = NoList
  /\ load' = [load EXCEPT !.jobs = OwnJobs]
  /\ UNCHANGED <<status, verdict, report, errors, page, loading, running, run, shown>>

\* All calls are answered.
Land ==
  /\ loading
  /\ report.pc = "answered"
  /\ page = "collection" => load.collection /\ load.jobs # NoList
  /\ loading' = FALSE
  /\ shown' = [shown EXCEPT !.total = totalJobs, !.jobs = load.jobs]
  /\ report' = NoReport
  /\ UNCHANGED <<status, verdict, errors, page, running, load, run>>

\* One of the calls fails: nothing is shown.
LoadFails ==
  /\ loading
  /\ \/ report.pc = "failed" /\ UNCHANGED errors
     \/ CallFails
  /\ loading' = FALSE
  /\ report' = NoReport
  /\ UNCHANGED <<status, verdict, page, running, load, run, shown>>

-----------------------------------------------------------------------------
(* handleRun *)

\* Bug kept for comparison: the button works while the page is loading.
CanRunEarly == page = "collection" /\ ~running
\* The button is there once the page is loaded, and disabled while it runs.
CanRun == page = "collection" /\ ~loading /\ shown.jobs # NoList /\ ~running

Click ==
  /\ CanRun
  /\ running' = TRUE
  /\ run' = [NoRun EXCEPT !.pc = "creating"]
  /\ UNCHANGED <<status, verdict, report, errors, page, loading, load, shown>>

\* The server creates the job; JobController has the details.
createJob(j) ==
  /\ run.pc = "creating"
  /\ j \in Own
  /\ Life!Submit(j)
  /\ run' = [run EXCEPT !.pc = "created", !.job = j]
  /\ UNCHANGED <<report, errors, page, loading, running, load, shown>>

\* Its answer arrives, and the list is asked for.
Created ==
  /\ run.pc = "created"
  /\ shown' = [shown EXCEPT !.latest = run.job]
  /\ run' = [run EXCEPT !.pc = "listing"]
  /\ UNCHANGED <<status, verdict, report, errors, page, loading, running, load>>

ListJobs ==
  /\ run.pc = "listing"
  /\ run' = [run EXCEPT !.pc = "listed", !.jobs = OwnJobs]
  /\ UNCHANGED <<status, verdict, report, errors, page, loading, running, load, shown>>

\* The list is shown; the bar stays as it was.
Listed ==
  /\ run.pc = "listed"
  /\ shown' = [shown EXCEPT !.jobs = run.jobs]
  /\ running' = FALSE
  /\ run' = NoRun
  /\ UNCHANGED <<status, verdict, report, errors, page, loading, load>>

\* createJob answers 404, or 429, or nothing.
Refused ==
  /\ run.pc = "creating"
  /\ running' = FALSE
  /\ run' = NoRun
  /\ UNCHANGED <<status, verdict, report, errors, page, loading, load, shown>>

\* Bug kept for comparison: a failure takes the link back.
RunFailsUndone ==
  /\ run.pc # "none"
  /\ CallFails
  /\ running' = FALSE
  /\ run' = NoRun
  /\ shown' = [shown EXCEPT !.latest = NoJob]
  /\ UNCHANGED <<status, verdict, report, page, loading, load>>

\* Either call of handleRun fails: it says so, and gives up.
RunFails ==
  /\ run.pc # "none"
  /\ CallFails
  /\ running' = FALSE
  /\ run' = NoRun
  /\ UNCHANGED <<status, verdict, report, page, loading, load, shown>>

-----------------------------------------------------------------------------

LoadStep == LoadMetrics \/ LoadCollection \/ LoadJobs \/ Land \/ LoadFails
RunStep == (\E j \in Jobs : createJob(j)) \/ Created \/ ListJobs \/ Listed \/ Refused \/ RunFails

Next == JobsGoOn \/ Serve \/ Open \/ Click \/ LoadStep \/ RunStep

Spec == Init /\ [][Next]_vars

=============================================================================
