---------------------------- MODULE RateLimiter ----------------------------
(***************************************************************************)
(* The two limiters, as one client sees them.  express-rate-limit, which   *)
(* is external, keeps a counter for each client: its window begins with    *)
(* the first call after the former window has expired, and a call that is  *)
(* refused is counted as well.  Time is what is left of a window.  The     *)
(* counters are in the memory of the API process: this is one life of it.  *)
(***************************************************************************)
EXTENDS Integers, FiniteSets

CONSTANTS
  Window,    \* windowMs, in ticks
  MaxCalls,  \* max of apiLimiter
  MaxJobs    \* max of jobCreationLimiter

\* 100 and 20 in the code.
ASSUME RateLimiterAssumption ==
  /\ Window \in Nat \ {0}
  /\ MaxCalls \in Nat \ {0} /\ MaxJobs \in Nat \ {0}

VARIABLES
  api,        \* the client's counter in apiLimiter
  creation,   \* the same in jobCreationLimiter
  created     \* a history: the POST /jobs let through, by age in ticks and number in the window

limiterVars == <<api, creation, created>>

Ages == 0..(Window - 1)

\* Beyond the first refused call a counter tells nothing more.
Counter(max) == [hits : 0..(max + 1), left : 0..Window]
Expired == [hits |-> 0, left |-> 0]

LimiterTypeOK ==
  /\ api \in Counter(MaxCalls)
  /\ creation \in Counter(MaxJobs)
  /\ created \subseteq Ages \X (1..MaxJobs)

LimiterInit ==
  /\ api = Expired /\ creation = Expired
  /\ created = {}

-----------------------------------------------------------------------------

\* The call is counted, in a new window if the old one is over.
Counted(counter, max) ==
  IF counter.left = 0
  THEN [hits |-> 1, left |-> Window]
  ELSE [counter EXCEPT !.hits = IF @ > max THEN @ ELSE @ + 1]

\* Bug kept for comparison: the call that reaches the limit is the last.
OverOneLate(counter, max) == counter.hits > max + 1
Over(counter, max) == counter.hits > max

\* A call other than POST /jobs; a rerun is one of them.
CountCall == api' = Counted(api, MaxCalls) /\ UNCHANGED <<creation, created>>
AdmitCall == CountCall /\ ~Over(api', MaxCalls)
RefuseCall == CountCall /\ Over(api', MaxCalls)

\* POST /jobs: apiLimiter, and then jobCreationLimiter, before the body is looked at.
CountCreation ==
  /\ api' = Counted(api, MaxCalls) /\ ~Over(api', MaxCalls)
  /\ creation' = Counted(creation, MaxJobs)
AdmitCreation ==
  /\ CountCreation /\ ~Over(creation', MaxJobs)
  /\ created' = created \cup {<<0, creation'.hits>>}
RefuseCreation ==
  \/ RefuseCall
  \/ CountCreation /\ Over(creation', MaxJobs) /\ UNCHANGED created

\* Time passes, for both windows.  What an expired counter has counted is void.
Left(counter) == IF counter.left <= 1 THEN Expired ELSE [counter EXCEPT !.left = @ - 1]
Tick ==
  /\ api' = Left(api) /\ creation' = Left(creation)
  /\ created' = {c \in Ages \X (1..MaxJobs) : <<c[1] - 1, c[2]>> \in created}

-----------------------------------------------------------------------------

\* In any interval as long as a window, fewer than twice the maximum of POST
\* /jobs are let through, wherever the windows of the limiter begin and end.
\* (jobCreationLimiter, as long as the API is not restarted, which forgets what
\* was counted; "20 job creations per minute" is true of its own windows only.)
CreationBounded == Cardinality(created) < 2 * MaxJobs

=============================================================================
