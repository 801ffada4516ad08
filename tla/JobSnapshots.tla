---------------------------- MODULE JobSnapshots ----------------------------
(***************************************************************************)
(* Collections, auth profiles, and the jobs that take copies of them.      *)
(* Clients create, update and delete collections and profiles while        *)
(* createJob, which reads the two one after the other, is on its way.  A   *)
(* handler that answers 4xx changes nothing and is no step.  What happens  *)
(* after the stubs are written is JobController's and JobExecutor's.       *)
(***************************************************************************)
EXTENDS Validation

CONSTANTS
  Jobs, NoJob,           \* ids of jobs
  Collections,           \* ids of collections
  NoCollection,          \* the collectionId of what is not a job
  Profiles, NoProfile,   \* ids of auth profiles; NoProfile is null
  Unchanged,             \* what a body does not mention
  Bodies,                \* bodies of POST and PUT /collections
  ProfileBodies,         \* bodies of POST /auth-profiles
  ProfileUpdates,        \* bodies of PUT /auth-profiles/:id
  MaxEdits               \* bound: changes of collections and profiles

\* Parts of auth that a body names one by one.  The body of PUT is handed to
\* findByIdAndUpdate as it is, so "auth.token" or $unset, of which
\* validateCollection knows nothing, are applied.  A part that is unset is "",
\* and the type its default, "none"; auth: null unsets all three.  executionMode
\* and authProfileId, given in these ways, are as if given by name; requests
\* cannot be, beside requests.
Parts == [type : Text \cup {Unchanged}, token : Text \cup {Unchanged},
          headerName : Text \cup {Unchanged}]
NoParts == [type |-> Unchanged, token |-> Unchanged, headerName |-> Unchanged]

Body == [name : Text, executionMode : Text, auth : Auth, parts : Parts,
         authProfileId : Profiles \cup {NoProfile, Unchanged}, requests : Seq(Request)]
ProfileBody == [name : Text, type : Text, token : Text, headerName : Text]
ProfileUpdate == [token : Text, headerName : Text]

ASSUME SnapshotAssumption ==
  /\ NoJob \notin Jobs
  /\ NoProfile \notin Profiles
  /\ Bodies \subseteq Body
  /\ ProfileBodies \subseteq ProfileBody
  /\ ProfileUpdates \subseteq ProfileUpdate
  /\ MaxEdits \in Nat

VARIABLES
  collections,   \* the Collection documents
  profiles,      \* the AuthProfile documents, tokens decrypted
  jobs,          \* what the Job documents and their stubs copy from them
  handlers,      \* the createJob or rerunJob that creates job j
  edits          \* changes of collections and profiles so far

vars == <<collections, profiles, jobs, handlers, edits>>

\* An id is used once.
DocStates == {"unused", "stored", "deleted"}
CollectionDoc == [state : DocStates, executionMode : Text, auth : Auth,
                  authProfileId : Profiles \cup {NoProfile}, requests : Seq(Request)]
ProfileDoc == [state : DocStates, auth : Auth]
Plan == [collectionId : Collections \cup {NoCollection}, executionMode : Text,
         requests : Seq(Request), auth : Auth]
JobDoc == [exists : BOOLEAN, plan : Plan, stubs : Seq(Int), original : Jobs \cup {NoJob}]
Handler == [pc : {"idle", "findProfile", "createJob", "insertStubs", "done", "failed"},
            plan : Plan, authProfileId : Profiles \cup {NoProfile}, original : Jobs \cup {NoJob}]

NoAuth == [type |-> "none", token |-> "", headerName |-> ""]
NoPlan == [collectionId |-> NoCollection, executionMode |-> "", requests |-> <<>>, auth |-> NoAuth]
EmptyCollection(state) == [state |-> state, executionMode |-> "", auth |-> NoAuth,
                           authProfileId |-> NoProfile, requests |-> <<>>]
EmptyProfile(state) == [state |-> state, auth |-> NoAuth]

Init ==
  /\ collections = [c \in Collections |-> EmptyCollection("unused")]
  /\ profiles = [p \in Profiles |-> EmptyProfile("unused")]
  /\ jobs = [j \in Jobs |-> [exists |-> FALSE, plan |-> NoPlan, stubs |-> <<>>, original |-> NoJob]]
  /\ handlers = [j \in Jobs |-> [pc |-> "idle", plan |-> NoPlan,
                                 authProfileId |-> NoProfile, original |-> NoJob]]
  /\ edits = 0

At(j, pc) == handlers[j].pc = pc
InProgress(j) == handlers[j].pc \in {"findProfile", "createJob", "insertStubs"}

-----------------------------------------------------------------------------
(* Collections *)

Edit == edits < MaxEdits /\ edits' = edits + 1

\* What the schema adds to a request.
Defaulted(r) == IF r.timeoutMs = NoTimeout THEN [r EXCEPT !.timeoutMs = DefaultTimeout] ELSE r
Requests(body) == [p \in 1..Len(body.requests) |-> Defaulted(body.requests[p])]

GivenPart(part, old) == IF part = Unchanged THEN old ELSE part
Patched(auth, parts) == [type       |-> GivenPart(parts.type, auth.type),
                         token      |-> GivenPart(parts.token, auth.token),
                         headerName |-> GivenPart(parts.headerName, auth.headerName)]

\* auth as a whole, or the parts that are named.
UpdatedAuth(auth, body) ==
  IF body.auth = AuthNotGiven THEN Patched(auth, body.parts) ELSE body.auth

\* What findByIdAndUpdate looks at: the enum of auth.type, and that auth is not
\* set twice.
AppliesParts(body) ==
  /\ body.parts.type \in AuthTypes \cup {Unchanged}
  /\ body.parts # NoParts => body.auth = AuthNotGiven

\* Bug kept for comparison: a profile that is not mentioned is written as well.
UpdatedLiterally(doc, body) ==
  [state         |-> "stored",
   executionMode |-> IF body.executionMode = "" THEN doc.executionMode ELSE body.executionMode,
   auth          |-> UpdatedAuth(doc.auth, body),
   authProfileId |-> body.authProfileId,
   requests      |-> Requests(body)]

\* $set of the fields the body has; requests is never missing.
Updated(doc, body) ==
  [state         |-> "stored",
   executionMode |-> IF body.executionMode = "" THEN doc.executionMode ELSE body.executionMode,
   auth          |-> UpdatedAuth(doc.auth, body),
   authProfileId |-> IF body.authProfileId = Unchanged THEN doc.authProfileId ELSE body.authProfileId,
   requests      |-> Requests(body)]

\* The defaults of the schema are those of a document with no auth, no profile
\* and sequential execution.
SchemaDefaults == [EmptyCollection("unused") EXCEPT !.executionMode = "sequential"]

\* Takes the fields it knows out of the body.
createCollection(c, body) ==
  /\ Edit
  /\ ValidCollection(body)
  /\ collections[c].state = "unused"
  /\ collections' = [collections EXCEPT ![c] = Updated(SchemaDefaults, [body EXCEPT !.parts = NoParts])]
  /\ UNCHANGED <<profiles, jobs, handlers>>

updateCollection(c, body) ==
  /\ Edit
  /\ ValidCollection(body)
  /\ AppliesParts(body)
  /\ collections[c].state = "stored"
  /\ collections' = [collections EXCEPT ![c] = Updated(collections[c], body)]
  /\ UNCHANGED <<profiles, jobs, handlers>>

deleteCollection(c) ==
  /\ Edit
  /\ collections[c].state = "stored"
  /\ collections' = [collections EXCEPT ![c] = EmptyCollection("deleted")]
  /\ UNCHANGED <<profiles, jobs, handlers>>

-----------------------------------------------------------------------------
(* Auth profiles *)

createAuthProfile(p, body) ==
  /\ Edit
  /\ ValidProfile(body)
  /\ profiles[p].state = "unused"
  /\ profiles' = [profiles EXCEPT ![p] =
       [state |-> "stored",
        auth  |-> [type |-> body.type, token |-> body.token, headerName |-> body.headerName]]]
  /\ UNCHANGED <<collections, jobs, handlers>>

\* Bug kept for comparison: the header is taken from the body, given or not.
RotateBlindly(auth, body) ==
  [auth EXCEPT !.token = IF body.token = "" THEN @ ELSE body.token,
               !.headerName = body.headerName]

\* Only what the body has; the type cannot change.
Rotate(auth, body) ==
  [auth EXCEPT !.token = IF body.token = "" THEN @ ELSE body.token,
               !.headerName = IF body.headerName = "" THEN @ ELSE body.headerName]

updateAuthProfile(p, body) ==
  /\ Edit
  /\ profiles[p].state = "stored"
  /\ profiles' = [profiles EXCEPT ![p].auth = Rotate(profiles[p].auth, body)]
  /\ UNCHANGED <<collections, jobs, handlers>>

deleteAuthProfile(p) ==
  /\ Edit
  /\ profiles[p].state = "stored"
  /\ profiles' = [profiles EXCEPT ![p] = EmptyProfile("deleted")]
  /\ UNCHANGED <<collections, jobs, handlers>>

-----------------------------------------------------------------------------
(* createJob and rerunJob *)

Handle(j, next) == handlers' = [handlers EXCEPT ![j] = next]
UnchangedDefinitions == UNCHANGED <<collections, profiles, edits>>

\* Collection.findById; without a profile to look up, Job.create comes next.
createJob(j, c) ==
  LET doc == collections[c] IN
  /\ At(j, "idle")
  /\ doc.state = "stored"
  /\ Handle(j, [pc |-> IF doc.authProfileId = NoProfile THEN "createJob" ELSE "findProfile",
                plan |-> [collectionId |-> c, executionMode |-> doc.executionMode,
                          requests |-> doc.requests, auth |-> doc.auth],
                authProfileId |-> doc.authProfileId, original |-> NoJob])
  /\ UNCHANGED jobs /\ UnchangedDefinitions

\* Bug kept for comparison: the inline auth is preferred.
ResolveInlineFirst(auth, p) ==
  IF auth.type = "none" /\ profiles[p].state = "stored" THEN profiles[p].auth ELSE auth

\* A linked profile overrides the inline auth, unless it is gone.
Resolve(auth, p) == IF profiles[p].state = "stored" THEN profiles[p].auth ELSE auth

\* Bug kept for comparison: the requests are fetched anew with the profile.
FindProfileAndRequests(j) ==
  LET h == handlers[j]
      doc == collections[h.plan.collectionId]
  IN
  /\ At(j, "findProfile")
  /\ Handle(j, [h EXCEPT !.pc = "createJob", !.plan.auth = Resolve(@, h.authProfileId),
                         !.plan.requests = IF doc.state = "stored" THEN doc.requests ELSE @])
  /\ UNCHANGED jobs /\ UnchangedDefinitions

FindProfile(j) ==
  LET h == handlers[j] IN
  /\ At(j, "findProfile")
  /\ Handle(j, [h EXCEPT !.pc = "createJob", !.plan.auth = Resolve(@, h.authProfileId)])
  /\ UNCHANGED jobs /\ UnchangedDefinitions

\* Bug kept for comparison: a rerun resolves its auth afresh.
RerunWithCurrentAuth(j, o) ==
  /\ At(j, "idle")
  /\ jobs[o].exists
  /\ \E p \in Profiles :
       Handle(j, [pc |-> "createJob", plan |-> [jobs[o].plan EXCEPT !.auth = Resolve(@, p)],
                  authProfileId |-> NoProfile, original |-> o])
  /\ UNCHANGED jobs /\ UnchangedDefinitions

\* Job.findById: the original may be in any state, its own handler included.
rerunJob(j, o) ==
  /\ At(j, "idle")
  /\ jobs[o].exists
  /\ Handle(j, [pc |-> "createJob", plan |-> jobs[o].plan,
                authProfileId |-> NoProfile, original |-> o])
  /\ UNCHANGED jobs /\ UnchangedDefinitions

JobOf(h) == [exists |-> TRUE, plan |-> h.plan, stubs |-> <<>>, original |-> h.original]

\* Job.create.
StoreJob(j) ==
  /\ At(j, "createJob")
  /\ jobs' = [jobs EXCEPT ![j] = JobOf(handlers[j])]
  /\ Handle(j, [handlers[j] EXCEPT !.pc = "insertStubs"])
  /\ UnchangedDefinitions

\* RequestResult.insertMany, for the requests the handler holds.
Stubs(requests, k) == [p \in 1..k |-> requests[p].index]
StoreStubs(j) ==
  LET requests == handlers[j].plan.requests IN
  /\ At(j, "insertStubs")
  /\ jobs' = [jobs EXCEPT ![j].stubs = Stubs(requests, Len(requests))]
  /\ Handle(j, [handlers[j] EXCEPT !.pc = "done"])
  /\ UnchangedDefinitions

\* A call rejects, and may have been applied, or half applied.
Rejected(j) ==
  LET requests == handlers[j].plan.requests IN
  /\ InProgress(j)
  /\ Handle(j, [handlers[j] EXCEPT !.pc = "failed"])
  /\ \/ UNCHANGED jobs
     \/ At(j, "createJob") /\ jobs' = [jobs EXCEPT ![j] = JobOf(handlers[j])]
     \/ /\ At(j, "insertStubs")
        /\ \E k \in 1..Len(requests) : jobs' = [jobs EXCEPT ![j].stubs = Stubs(requests, k)]
  /\ UnchangedDefinitions

-----------------------------------------------------------------------------

EditCollection(c) ==
  \/ \E body \in Bodies : createCollection(c, body) \/ updateCollection(c, body)
  \/ deleteCollection(c)

EditProfile(p) ==
  \/ \E body \in ProfileBodies : createAuthProfile(p, body)
  \/ \E body \in ProfileUpdates : updateAuthProfile(p, body)
  \/ deleteAuthProfile(p)

Start(j) == (\E c \in Collections : createJob(j, c)) \/ (\E o \in Jobs : rerunJob(j, o))
Step(j) == FindProfile(j) \/ StoreJob(j) \/ StoreStubs(j) \/ Rejected(j)

Next ==
  \/ \E c \in Collections : EditCollection(c)
  \/ \E p \in Profiles : EditProfile(p)
  \/ \E j \in Jobs : Start(j) \/ Step(j)

Spec == Init /\ [][Next]_vars

-----------------------------------------------------------------------------

\* The variables have their types.
TypeOK ==
  /\ collections \in [Collections -> CollectionDoc]
  /\ profiles \in [Profiles -> ProfileDoc]
  /\ jobs \in [Jobs -> JobDoc]
  /\ handlers \in [Jobs -> Handler]
  /\ edits \in 0..MaxEdits

=============================================================================
