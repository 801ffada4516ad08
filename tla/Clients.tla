------------------------------ MODULE Clients ------------------------------
(***************************************************************************)
(* A client of the API behind its rate limits: the dashboard, on its first *)
(* page or on the form of a new collection, or a script that lists jobs.   *)
(***************************************************************************)
EXTENDS HomePage, NewCollectionPage, JobList

VARIABLE page

pageVars == <<home, form, walk, page>>
vars == <<limiterVars, calls, pageVars>>

Pages == {"none", "home", "new", "list"}

TypeOK ==
  /\ LimiterTypeOK
  /\ calls \in [Calls -> Call]
  /\ page \in Pages
  /\ home \in Home /\ form \in Form /\ walk \in Walk

Init ==
  /\ CallsInit
  /\ page = "none"
  /\ home = NoHome /\ form = NoForm /\ walk = NoWalk

-----------------------------------------------------------------------------

Open ==
  /\ page = "none"
  /\ \/ page' = "home" /\ OpenHome /\ UNCHANGED <<form, walk>>
     \/ page' = "new" /\ OpenForm /\ UNCHANGED <<calls, home, walk>>
     \/ page' = "list" /\ OpenList /\ UNCHANGED <<calls, home, form>>
  /\ UNCHANGED limiterVars

\* Its timers find nothing to change, and count for nothing from now on.
Leave ==
  /\ page # "none"
  /\ page' = "none"
  /\ home' = NoHome /\ form' = NoForm /\ walk' = NoWalk
  /\ Forsaken
  /\ UNCHANGED limiterVars

UseHome == page = "home" /\ HomeStep /\ UNCHANGED <<form, walk>>
UseForm == page = "new" /\ FormStep /\ UNCHANGED <<home, walk>>
UseList == page = "list" /\ ListStep /\ UNCHANGED <<home, form>>
Use == (UseHome \/ UseForm \/ UseList) /\ UNCHANGED <<page, limiterVars>>

Serve ==
  \/ \E f \in Calls : Handle(f) /\ UNCHANGED pageVars
  \/ \E f \in Calls : listJobs(f) /\ UNCHANGED <<home, form, page>>

World == (OtherTab \/ TimePasses) /\ UNCHANGED pageVars

Next == Open \/ Leave \/ Use \/ Serve \/ World

\* A timer that is set fires, unless its page is left.
Fairness ==
  \A c \in Collections :
    WF_vars(page = "home" /\ TimerFires(c) /\ UNCHANGED <<form, walk, page, limiterVars>>)

Spec == Init /\ [][Next]_vars /\ Fairness

=============================================================================
