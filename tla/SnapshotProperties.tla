------------------------- MODULE SnapshotProperties -------------------------
(***************************************************************************)
(* What a job's copy of a collection and an auth profile promises.  The    *)
(* history variable seen remembers, for each createJob in progress, every  *)
(* state of collections and profiles since its first read; patched, the    *)
(* auths that updates of single parts of it have left in a collection.     *)
(***************************************************************************)
EXTENDS JobSnapshots

VARIABLES seen, patched

hvars == <<vars, seen, patched>>

Moment == [collections |-> collections, profiles |-> profiles]

HInit == Init /\ seen = [j \in Jobs |-> {}] /\ patched = {}

PatchesAuth(c) == \E body \in Bodies : body.parts # NoParts /\ updateCollection(c, body)

HNext ==
  /\ Next
  /\ seen' = [j \in Jobs |->
       IF InProgress(j)' THEN (IF At(j, "idle") THEN {Moment} ELSE seen[j]) \cup {Moment'} ELSE {}]
  /\ patched' = patched \cup
       {[collectionId |-> c, auth |-> collections'[c].auth] : c \in {d \in Collections : PatchesAuth(d)}}

HSpec == HInit /\ [][HNext]_hvars

\* The job that createJob has just stored, and not by way of a rerun.
JustCreated(j) == At(j, "insertStubs") /\ jobs[j].original = NoJob

\* The plan of collection c, had both been read at the moment m.
PlanAt(m, c) ==
  LET doc == m.collections[c]
      linked == doc.authProfileId # NoProfile /\ m.profiles[doc.authProfileId].state = "stored"
  IN [collectionId  |-> c,
      executionMode |-> doc.executionMode,
      requests      |-> doc.requests,
      auth          |-> IF linked THEN m.profiles[doc.authProfileId].auth ELSE doc.auth]

-----------------------------------------------------------------------------

\* Mode and requests of a new job belong together: one version of the
\* collection, stored while createJob was running, had both.
\* (createJob reads the collection before it awaits the profile.)
OneVersion ==
  \A j \in Jobs : JustCreated(j) =>
    \E m \in seen[j] :
      LET doc == m.collections[jobs[j].plan.collectionId] IN
      /\ doc.state = "stored"
      /\ doc.executionMode = jobs[j].plan.executionMode
      /\ doc.requests = jobs[j].plan.requests

\* A new job is a copy of one moment, its auth included, unless collection and
\* profiles both changed between the two reads of createJob.
PlanOfOneMoment ==
  \A j \in Jobs : JustCreated(j) =>
    LET c == jobs[j].plan.collectionId IN
    \/ \E m \in seen[j] : jobs[j].plan = PlanAt(m, c)
    \/ /\ \E m, n \in seen[j] : m.collections[c] # n.collections[c]
       /\ \E m, n \in seen[j] : m.profiles # n.profiles

\* What a new job copies is of one version and, as far as that is possible
\* without a transaction, of one moment.
ConsistentCopies == OneVersion /\ PlanOfOneMoment

\* A rerun, and a rerun of a rerun, has the plan of the original, whatever
\* became of collection and profile.  (rerunJob copies the snapshots.)
RerunsRepeat ==
  \A j \in Jobs : jobs[j].exists /\ jobs[j].original # NoJob =>
    LET o == jobs[j].original IN jobs[o].exists /\ jobs[o].plan = jobs[j].plan

UsableAuth(auth) ==
  /\ auth.type \in AuthTypes
  /\ auth.type # "none" => auth.token # ""
  /\ auth.type = "apiKey" => auth.headerName # ""

PatchedAuth(plan) == [collectionId |-> plan.collectionId, auth |-> plan.auth] \in patched

\* A job has an auth with a part missing, which executeRequest would leave out
\* in silence, only if a PUT that named single parts of auth put exactly that
\* auth into its collection: nothing else looks at them.  Rotations and
\* deletions of profiles, other updates, the choice between the two auths and
\* reruns never make one, in any sequence.
AuthUsable ==
  \A j \in Jobs : jobs[j].exists => UsableAuth(jobs[j].plan.auth) \/ PatchedAuth(jobs[j].plan)

RequestsOf(j) == jobs[j].plan.requests

\* A job whose stubs were written has a stub of its own for each request, and
\* has at least one, and no more than a collection may have.  (executeJob finds
\* the stub of a request by its index and passes over a request without one.)
EveryRequestHasItsStub ==
  \A j \in Jobs : jobs[j].exists /\ At(j, "done") =>
    /\ Len(RequestsOf(j)) \in 1..MaxRequests
    /\ Len(jobs[j].stubs) = Len(RequestsOf(j))
    /\ \A p \in 1..Len(RequestsOf(j)) :
         \A q \in 1..Len(jobs[j].stubs) :
           jobs[j].stubs[q] = RequestsOf(j)[p].index <=> q = p

=============================================================================
