------------------------------ MODULE JobQueue ------------------------------
(***************************************************************************)
(* The BullMQ queue "job-execution" as this program uses it: a job is      *)
(* added once under its Mongo id, delivered to a worker under a lock,      *)
(* settled when the processor returns or throws, retried after a back-off, *)
(* and delivered again when its lock is found to have expired ("stalled"). *)
(* The library itself is external; which of its features are in use, and   *)
(* with which options, is decided by queue.js and worker.js.               *)
(***************************************************************************)
EXTENDS JobStore   \* an entry carries no more than the id of its Job document

VARIABLE bull         \* bull[j]: the state of the queue entry of job j

Attempts == 3         \* defaultJobOptions.attempts
\* Bug kept for comparison: a stalled job is given up at once.
NoStallsAllowed == 0
MaxStalledCount == 1  \* BullMQ's default, which neither worker overrides

QueueStates == {"absent", "waiting", "active", "delayed", "completed", "failed"}
QueueEntry == [state : QueueStates, attemptsMade : 0..Attempts, stalls : 0..MaxStalledCount]

QueueInit ==
  bull = [j \in Jobs |-> [state |-> "absent", attemptsMade |-> 0, stalls |-> 0]]
QueueTypeOK == bull \in [Jobs -> QueueEntry]

\* The queue still owes job j a delivery or the end of one.
Owed(j) == bull[j].state \in {"waiting", "active", "delayed"}

-----------------------------------------------------------------------------

\* Bug kept for comparison: the id of the collection is the id of the entry.
enqueueByCollection(j) ==
  bull' = IF \A k \in Jobs : bull[k].state = "absent"
          THEN [bull EXCEPT ![j].state = "waiting"] ELSE bull

\* Adding an id that is already known is a no-op in BullMQ.
enqueueJob(j) ==
  bull' = IF bull[j].state = "absent" THEN [bull EXCEPT ![j].state = "waiting"] ELSE bull

Deliver(j) ==
  /\ bull[j].state = "waiting"
  /\ bull' = [bull EXCEPT ![j].state = "active"]

\* The processor returned.
MoveToCompleted(j) == bull' = [bull EXCEPT ![j].state = "completed"]

\* The processor threw: back off while attempts are left.
MoveToFailed(j) ==
  bull' = [bull EXCEPT ![j].attemptsMade = @ + 1,
                       ![j].state = IF bull[j].attemptsMade + 1 < Attempts
                                    THEN "delayed" ELSE "failed"]

\* The back-off of a failed attempt is over.
Promote(j) ==
  /\ bull[j].state = "delayed"
  /\ bull' = [bull EXCEPT ![j].state = "waiting"]

\* The stalled check found an active job without a live lock.
Stall(j) ==
  /\ bull[j].state = "active"
  /\ bull' = IF bull[j].stalls < MaxStalledCount
             THEN [bull EXCEPT ![j].state = "waiting", ![j].stalls = @ + 1]
             ELSE [bull EXCEPT ![j].state = "failed"]

=============================================================================
