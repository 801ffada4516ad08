------------------------------ MODULE ApiCalls ------------------------------
(***************************************************************************)
(* The calls of one client of the API: sent, refused by a limiter or       *)
(* handled, and answered.  A call may be lost on its way, its answer too.  *)
(* Collections come and go by anybody's hand, and are left out; what other *)
(* tabs of the client do uses up its limits.                               *)
(***************************************************************************)
EXTENDS RateLimiter, Validation, SequencesExt, FiniteSetsExt

CONSTANTS
  Calls,         \* bound: numbers of the calls in progress at once
  Collections,   \* ids of collections
  NoCollection   \* the argument of a call that is not about one

ASSUME ApiCallsAssumption == Calls \subseteq Nat /\ NoCollection \notin Collections

VARIABLE calls   \* the calls in progress

Ops == {"none", "getCollections", "createJob", "deleteCollection", "createCollection", "listJobs"}
Call == [op : Ops, collection : Collections \cup {NoCollection}, rows : Seq(Request),
         pc : {"sent", "ok", "failed"}, answer : SUBSET (Collections \cup Nat)]
NoCall == [op |-> "none", collection |-> NoCollection, rows |-> <<>>,
           pc |-> "sent", answer |-> {}]
NoCalls == [f \in Calls |-> NoCall]

CallsInit ==
  /\ LimiterInit
  /\ calls = NoCalls

Doing(op) == {f \in Calls : calls[f].op = op}

-----------------------------------------------------------------------------
(* The client's side *)

\* Calls are told apart by what they do, not by their numbers.
Send(call) ==
  /\ Doing("none") # {}
  /\ calls' = [calls EXCEPT ![Min(Doing("none"))] = call]

\* The answer to a call arrives at its page: data, or an error.
Lands(f, op, pc) ==
  /\ calls[f].op = op /\ calls[f].pc = pc
  /\ calls' = [calls EXCEPT ![f] = NoCall]

\* The page is left: nobody looks at the answers to its calls any more, and they
\* count as calls of others.
Forsaken == calls' = NoCalls

-----------------------------------------------------------------------------
(* The API's side *)

Arrived(f, op) == calls[f].op = op /\ calls[f].pc = "sent"
Answer(f, pc, answer) == calls' = [calls EXCEPT ![f].pc = pc, ![f].answer = answer]

getCollections(f) ==
  /\ Arrived(f, "getCollections") /\ AdmitCall
  /\ \E stored \in SUBSET Collections : Answer(f, "ok", stored)

\* The collection is there or is not; JobController has the details.
createJob(f) ==
  /\ Arrived(f, "createJob") /\ AdmitCreation
  /\ \E pc \in {"ok", "failed"} : Answer(f, pc, {})

deleteCollection(f) ==
  /\ Arrived(f, "deleteCollection") /\ AdmitCall
  /\ \E pc \in {"ok", "failed"} : Answer(f, pc, {})

\* What the form leaves to the user's choice is valid, but for the rows.
Body(rows) == [name |-> "c", executionMode |-> "sequential", auth |-> AuthNotGiven, requests |-> rows]
createCollection(f) ==
  /\ Arrived(f, "createCollection") /\ AdmitCall
  /\ Answer(f, IF ValidCollection(Body(calls[f].rows)) THEN "ok" ELSE "failed", {})

\* A limiter answers 429, which the client takes for any other error.
Refused(f) ==
  /\ calls[f].op # "none" /\ calls[f].pc = "sent"
  /\ IF calls[f].op = "createJob" THEN RefuseCreation ELSE RefuseCall
  /\ Answer(f, "failed", {})

\* The call never arrives, or its answer never does.
Lost(f) ==
  /\ calls[f].op # "none" /\ calls[f].pc # "failed"
  /\ Answer(f, "failed", {})
  /\ UNCHANGED limiterVars

Handle(f) ==
  \/ getCollections(f) \/ createJob(f) \/ deleteCollection(f) \/ createCollection(f)
  \/ Refused(f) \/ Lost(f)

-----------------------------------------------------------------------------
(* The rest of the world *)

OtherTab == (AdmitCall \/ AdmitCreation \/ RefuseCreation) /\ UNCHANGED calls
TimePasses == Tick /\ UNCHANGED calls

=============================================================================
