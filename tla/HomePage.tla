------------------------------ MODULE HomePage ------------------------------
(***************************************************************************)
(* The first page of the dashboard: the collections, each with a button to *)
(* run it, in whose place a link to the job is shown for two seconds, and  *)
(* one to delete it.                                                       *)
(***************************************************************************)
EXTENDS ApiCalls

CONSTANT MaxTimers   \* bound: links of one collection that are shown, or will be

VARIABLE home

Home == [loading : BOOLEAN,
         collections : SUBSET Collections,
         runningJobs : SUBSET Collections,   \* those with a link, to whichever job
         timers : [Collections -> Nat]]
NoHome == [loading |-> FALSE, collections |-> {}, runningJobs |-> {},
           timers |-> [c \in Collections |-> 0]]

OpenHome ==
  /\ Send([NoCall EXCEPT !.op = "getCollections"])
  /\ home' = [NoHome EXCEPT !.loading = TRUE]

\* An error is shown as "No collections yet".
HomeLoads(f) ==
  /\ home' = [home EXCEPT !.loading = FALSE, !.collections = calls[f].answer]
  /\ Lands(f, "getCollections", "ok") \/ Lands(f, "getCollections", "failed")

-----------------------------------------------------------------------------

Runs(c) == Cardinality({f \in Doing("createJob") : calls[f].collection = c})

\* The button is there until the link is: a second click makes a second job.
ClickRun(c) ==
  /\ c \in home.collections \ home.runningJobs
  /\ home.timers[c] + Runs(c) < MaxTimers
  /\ Send([NoCall EXCEPT !.op = "createJob", !.collection = c])
  /\ UNCHANGED home

\* Bug kept for comparison: the page has one timer, which a new job restarts.
TimerRestarted(c) == [d \in Collections |-> IF d = c THEN 1 ELSE 0]
TimerAdded(c) == [home.timers EXCEPT ![c] = @ + 1]

RunAnswered(f) ==
  LET c == calls[f].collection IN
  \/ /\ Lands(f, "createJob", "ok")
     /\ home' = [home EXCEPT !.runningJobs = @ \cup {c}, !.timers = TimerAdded(c)]
  \/ Lands(f, "createJob", "failed") /\ UNCHANGED home

\* Two seconds after a job was created: its link goes, or that of a later job.
TimerFires(c) ==
  /\ home.timers[c] > 0
  /\ home' = [home EXCEPT !.runningJobs = @ \ {c}, !.timers[c] = @ - 1]
  /\ UNCHANGED calls

ClickDelete(c) ==
  /\ c \in home.collections
  /\ Send([NoCall EXCEPT !.op = "deleteCollection", !.collection = c])
  /\ UNCHANGED home

DeleteAnswered(f) ==
  \/ /\ Lands(f, "deleteCollection", "ok")
     /\ home' = [home EXCEPT !.collections = @ \ {calls[f].collection}]
  \/ Lands(f, "deleteCollection", "failed") /\ UNCHANGED home

HomeStep ==
  \/ \E c \in Collections : ClickRun(c) \/ TimerFires(c) \/ ClickDelete(c)
  \/ \E f \in Calls : HomeLoads(f) \/ RunAnswered(f) \/ DeleteAnswered(f)

-----------------------------------------------------------------------------

\* The link to a job gives way to the Run button again, also when the
\* collection was run twice, or another one was run or deleted meanwhile.
\* (handleRun's timers, each of which sees the state of its own time.)
RunComesBack ==
  \A c \in Collections : c \in home.runningJobs ~> c \notin home.runningJobs

=============================================================================
