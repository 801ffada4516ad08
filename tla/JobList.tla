------------------------------ MODULE JobList ------------------------------
(***************************************************************************)
(* GET /jobs, and a client that asks for page after page until one is      *)
(* empty, while jobs are created.  Jobs are numbered in the order of their *)
(* creation.  The filters, and the total, which is counted by a second     *)
(* query, are left out.                                                    *)
(***************************************************************************)
EXTENDS ApiCalls

CONSTANTS
  MaxLimit,     \* the largest limit listJobs accepts
  Limits,       \* the limits the client may ask for
  MaxListed     \* bound: jobs

\* 50 in the code.
ASSUME JobListAssumption == MaxLimit \in Nat \ {0} /\ Limits \subseteq Nat \ {0} /\ MaxListed \in Nat

VARIABLE walk

Walk == [jobs  : 0..MaxListed,          \* jobs in the database
         limit : Limits \cup {0},       \* what the client asks for
         page  : 1..(MaxListed + 1),    \* the page it asks for next, or has asked for
         first : 0..MaxListed,          \* jobs when it began
         seen  : SUBSET (1..MaxListed),
         pc    : {"idle", "asking", "asked", "done"}]
NoWalk == [jobs |-> 0, limit |-> 0, page |-> 1, first |-> 0, seen |-> {}, pc |-> "idle"]

OpenList ==
  \E n \in 0..MaxListed, limit \in Limits :
    walk' = [NoWalk EXCEPT !.jobs = n, !.first = n, !.limit = limit, !.pc = "asking"]

-----------------------------------------------------------------------------

Smaller(m, n) == IF m < n THEN m ELSE n

\* Bug kept for comparison: skip is computed from the limit the client has sent.
skipAsSent(page, limit) == (page - 1) * limit
skip(page, limit) == (page - 1) * Smaller(MaxLimit, limit)

\* .sort({ createdAt: -1 }).skip(skip).limit(limit)
PageOf(page, limit) ==
  LET newest == walk.jobs - skip(page, limit) IN
  {j \in 1..walk.jobs : j <= newest /\ newest - j < Smaller(MaxLimit, limit)}

listJobs(f) ==
  /\ Arrived(f, "listJobs") /\ AdmitCall
  /\ Answer(f, "ok", PageOf(walk.page, walk.limit))
  /\ UNCHANGED walk

\* Anybody's.
JobCreated ==
  /\ walk.jobs < MaxListed
  /\ walk' = [walk EXCEPT !.jobs = @ + 1]
  /\ UNCHANGED calls

AskPage ==
  /\ walk.pc = "asking"
  /\ Send([NoCall EXCEPT !.op = "listJobs"])
  /\ walk' = [walk EXCEPT !.pc = "asked"]

\* An empty page is the last; after an error the client asks again.
PageAnswered(f) ==
  LET found == calls[f].answer IN
  \/ /\ Lands(f, "listJobs", "ok")
     /\ walk' = IF found = {} THEN [walk EXCEPT !.pc = "done"]
                ELSE [walk EXCEPT !.pc = "asking", !.page = @ + 1, !.seen = @ \cup found]
  \/ Lands(f, "listJobs", "failed") /\ walk' = [walk EXCEPT !.pc = "asking"]

ListStep == JobCreated \/ AskPage \/ \E f \in Calls : PageAnswered(f)

-----------------------------------------------------------------------------

\* A client that has come to an empty page has seen every job that was there
\* when it began, however large a limit it asked for: jobs that are created
\* meanwhile come first in the list, and only move the others to later pages.
WalkMissesNothing == walk.pc = "done" => 1..walk.first \subseteq walk.seen

=============================================================================
