---------------------------- MODULE JobLifecycle ----------------------------
(***************************************************************************)
(* What a client of the platform is promised about a job, without workers, *)
(* queue or crashes: it is accepted, it starts once, its requests get      *)
(* their verdicts one at a time in array order, and then its own status is *)
(* derived from them.  A job may stop for ever at any point.               *)
(***************************************************************************)
EXTENDS Integers

CONSTANTS
  Jobs,
  Sequential,  \* a subset of Jobs
  N            \* the number of requests of a job

VARIABLES
  status,   \* status[j], as a client reads it
  verdict   \* verdict[j][p]: the outcome of the p-th request, or "open"

Statuses == {"none", "PENDING", "RUNNING", "COMPLETED", "PARTIAL", "FAILED"}
Verdicts == {"open", "COMPLETED", "FAILED", "SKIPPED"}

TypeOK ==
  /\ status \in [Jobs -> Statuses]
  /\ verdict \in [Jobs -> [1..N -> Verdicts]]

Init ==
  /\ status = [j \in Jobs |-> "none"]
  /\ verdict = [j \in Jobs |-> [p \in 1..N |-> "open"]]

All(j, v) == \A p \in 1..N : verdict[j][p] = v

Submit(j) ==
  /\ status[j] = "none"
  /\ status' = [status EXCEPT ![j] = "PENDING"]
  /\ UNCHANGED verdict

Start(j) ==
  /\ status[j] = "PENDING"
  /\ status' = [status EXCEPT ![j] = "RUNNING"]
  /\ UNCHANGED verdict

\* A sequential job skips what comes after a failure; otherwise a request
\* passes or fails.
Possible(j, p) ==
  IF j \in Sequential /\ \E q \in 1..(p - 1) : verdict[j][q] = "FAILED"
  THEN {"SKIPPED"} ELSE {"COMPLETED", "FAILED"}

Decide(j, p) ==
  /\ status[j] = "RUNNING"
  /\ verdict[j][p] = "open"
  /\ \A q \in 1..(p - 1) : verdict[j][q] # "open"
  /\ \E v \in Possible(j, p) : verdict' = [verdict EXCEPT ![j][p] = v]
  /\ UNCHANGED status

Finish(j) ==
  /\ status[j] = "RUNNING"
  /\ \A p \in 1..N : verdict[j][p] # "open"
  /\ status' = [status EXCEPT ![j] = CASE All(j, "COMPLETED") -> "COMPLETED"
                                       [] All(j, "FAILED")    -> "FAILED"
                                       [] OTHER               -> "PARTIAL"]
  /\ UNCHANGED verdict

Next ==
  \E j \in Jobs : Submit(j) \/ Start(j) \/ Finish(j) \/ \E p \in 1..N : Decide(j, p)

Spec == Init /\ [][Next]_<<status, verdict>>

=============================================================================
