--------------------------- MODULE JobDetailPage ---------------------------
(***************************************************************************)
(* The job page of the dashboard.  It fetches job, results and logs by     *)
(* three concurrent calls, and polls every POLL_INTERVAL, whether or not   *)
(* the fetch before has come back: fetches may overlap, fail, and land in  *)
(* any order, also after the page has been left.                           *)
(***************************************************************************)
EXTENDS Integers

CONSTANTS
  Fetches,    \* bound: fetches in progress at once
  MaxErrors   \* bound: fetches that fail in one behaviour

ASSUME JobDetailPageAssumption == MaxErrors \in Nat

VARIABLES
  stage,     \* how far the job has come in the database
  mounted,   \* the page is on the screen
  loading,
  shown,     \* what is on the screen: the fetch that read it, the versions it read
  interval,  \* the timer
  fetch,     \* fetch[f]: what fetch f has been answered so far
  errors     \* fetches that have failed so far

vars == <<stage, mounted, loading, shown, interval, fetch, errors>>

\* What the database holds: a job that waits, one that runs, one that has ended,
\* with the results and logs of that stage.
Stages == 0..2
Pending == 0
Ended(v) == v = 2

Unknown == -1   \* the call is not answered yet
Parts == {"job", "results", "logs"}

\* began is a history: the stage when the three calls were made.
Fetch == [by : {"init", "tick", "nobody"}, began : Stages, read : [Parts -> Stages \cup {Unknown}]]
Begun(who, v) == [by |-> who, began |-> v, read |-> [part \in Parts |-> Unknown]]
Idle == Begun("nobody", 0)
Nothing == Idle   \* no job is on the screen

TypeOK ==
  /\ stage \in Stages
  /\ mounted \in BOOLEAN /\ loading \in BOOLEAN
  /\ shown \in Fetch
  /\ interval \in {"unset", "set", "cleared"}
  /\ fetch \in [Fetches -> Fetch]
  /\ errors \in 0..MaxErrors

Init ==
  /\ stage \in Stages
  /\ mounted = TRUE /\ loading = TRUE /\ interval = "unset" /\ errors = 0
  /\ shown = Nothing
  /\ \E f \in Fetches : fetch = [g \in Fetches |-> IF g = f THEN Begun("init", stage) ELSE Idle]

-----------------------------------------------------------------------------

\* The job goes on, or stays where it is for ever.
Advance ==
  /\ ~Ended(stage)
  /\ stage' = stage + 1
  /\ UNCHANGED <<mounted, loading, shown, interval, fetch, errors>>

\* The API answers one of the three calls.
Serve(f, part) ==
  /\ fetch[f] # Idle
  /\ fetch[f].read[part] = Unknown
  /\ fetch' = [fetch EXCEPT ![f].read[part] = stage]
  /\ UNCHANGED <<stage, mounted, loading, shown, interval, errors>>

\* Bug kept for comparison: the first answer is taken for all of them.
AnsweredByAny(f) == \E part \in Parts : fetch[f].read[part] # Unknown
\* Promise.all
Answered(f) == \A part \in Parts : fetch[f].read[part] # Unknown

\* Bug kept for comparison: a job that waits in the queue is not polled.
InProgressIfStarted(v) == v # Pending /\ ~Ended(v)
InProgress(v) == ~Ended(v)

\* Bug kept for comparison: the timer is never cleared by a fetch.
TimerLeftAlone(by, v) == IF by = "init" /\ InProgress(v) THEN "set" ELSE interval

\* The timer after a fetch that was told version v: init starts it, a tick
\* stops it.  Neither looks whether the page is still there.
TimerAfter(by, v) ==
  CASE by = "init" /\ InProgress(v) -> "set"
    [] by = "tick" /\ ~InProgress(v) -> "cleared"
    [] OTHER -> interval

\* All three answers are there: they are shown, whatever has been shown since
\* they were given.  React ignores the state updates of a page that is gone.
Land(f) ==
  /\ fetch[f] # Idle
  /\ Answered(f)
  /\ shown' = IF mounted THEN fetch[f] ELSE shown
  /\ loading' = (loading /\ ~mounted)
  /\ interval' = TimerAfter(fetch[f].by, fetch[f].read["job"])
  /\ fetch' = [fetch EXCEPT ![f] = Idle]
  /\ UNCHANGED <<stage, mounted, errors>>

\* Bug kept for comparison: polling ends with the first error.
RejectStops(f) ==
  /\ fetch[f] # Idle
  /\ ~Answered(f)
  /\ errors < MaxErrors
  /\ errors' = errors + 1
  /\ loading' = (loading /\ ~mounted)
  /\ interval' = IF interval = "set" THEN "cleared" ELSE interval
  /\ fetch' = [fetch EXCEPT ![f] = Idle]
  /\ UNCHANGED <<stage, mounted, shown>>

\* One of the three calls fails: init gives up, a tick is an unhandled rejection.
Reject(f) ==
  /\ fetch[f] # Idle
  /\ ~Answered(f)
  /\ errors < MaxErrors
  /\ errors' = errors + 1
  /\ loading' = (loading /\ ~mounted)
  /\ fetch' = [fetch EXCEPT ![f] = Idle]
  /\ UNCHANGED <<stage, mounted, shown, interval>>

Tick(f) ==
  /\ interval = "set"
  /\ fetch[f] = Idle
  /\ fetch' = [fetch EXCEPT ![f] = Begun("tick", stage)]
  /\ UNCHANGED <<stage, mounted, loading, shown, interval, errors>>

\* Bug kept for comparison: the effect returns no cleanup.
cleanupForgotten == interval
\* clearInterval(interval), which is undefined until init has landed.
cleanup == IF interval = "set" THEN "cleared" ELSE interval

Unmount ==
  /\ mounted
  /\ mounted' = FALSE
  /\ interval' = cleanup
  /\ UNCHANGED <<stage, loading, shown, fetch, errors>>

Next ==
  \/ Advance \/ Unmount
  \/ \E f \in Fetches : Land(f) \/ Reject(f) \/ Tick(f) \/ \E part \in Parts : Serve(f, part)

\* The timer fires, calls are answered and land.  The job need not go on, and
\* nobody has to leave the page.
Fairness ==
  \A f \in Fetches : /\ WF_vars(Tick(f)) /\ WF_vars(Land(f))
                     /\ \A part \in Parts : WF_vars(Serve(f, part))

Spec == Init /\ [][Next]_vars /\ Fairness

-----------------------------------------------------------------------------

Loaded == mounted /\ shown # Nothing
ShownVersion == shown.read["job"]

\* Job, results and logs on the screen were read by one fetch, none of them
\* before it began: a page that stays with the results of a running job beside
\* the status of an ended one does so because the job ended between two calls
\* of its last fetch, and not because it mixed two fetches.
ShownIsOneFetch ==
  shown # Nothing => \A part \in Parts : shown.read[part] >= shown.began

\* A page that is still there stops its timer only when the job has ended in
\* the database: no error and no late answer ends the polling before.
StopsOnlyAtTheEnd == mounted /\ interval = "cleared" => Ended(stage)

\* A page that was left goes on polling only if it was left while loading,
\* when the effect's cleanup had no timer to clear yet.
LeftPagesStop == ~mounted /\ interval = "set" => loading

\* Every timer stops some time after the job has ended, the leaked one too.
PollingEnds == <>Ended(stage) => (interval = "set" ~> interval # "set")

\* A page that has been shown a job is some time shown its end, unless it is
\* left before.
TheEndIsShown == <>Ended(stage) /\ <>Loaded => <>(Ended(ShownVersion) \/ ~mounted)

-----------------------------------------------------------------------------
(* What the page says, and the code does not do *)

\* page.jsx:39: "Only poll if job is still in progress", and line 72 marks a
\* job that is shown as in progress as "live".  A late answer brings that mark
\* back after the timer has been cleared.
LiveMeansPolling == Loaded /\ ~Ended(ShownVersion) => interval = "set"

=============================================================================
