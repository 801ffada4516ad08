--------------------------- MODULE SnapshotProofs ---------------------------
(***************************************************************************)
(* Proofs about JobSnapshots, for any bodies, ids and number of changes.   *)
(***************************************************************************)
EXTENDS SnapshotProperties, FiniteSetTheorems, SequenceTheorems, TLAPS

-----------------------------------------------------------------------------
(* Types *)

LEMMA RequestsType ==
  ASSUME NEW body \in Body
  PROVE  /\ Requests(body) \in Seq(Request)
         /\ Len(Requests(body)) = Len(body.requests)
         /\ \A p \in 1..Len(body.requests) : Requests(body)[p].index = body.requests[p].index
<1>1. body.requests \in Seq(Request)
  BY DEF Body
<1>2. \A p \in 1..Len(body.requests) : body.requests[p] \in Request
  BY <1>1
<1>3. \A r \in Request : Defaulted(r) \in Request /\ Defaulted(r).index = r.index
  <2> SUFFICES ASSUME NEW r \in Request
               PROVE  Defaulted(r) \in Request /\ Defaulted(r).index = r.index
    OBVIOUS
  <2>1. DefaultTimeout \in Nat
    BY ValidationAssumption
  <2> QED
    BY <2>1 DEF Defaulted, Request
<1>4. Len(body.requests) \in Nat
  BY <1>1
<1> QED
  BY <1>2, <1>3, <1>4 DEF Requests

LEMMA UpdatedType ==
  ASSUME NEW doc \in CollectionDoc, NEW body \in Body
  PROVE  Updated(doc, body) \in CollectionDoc
<1>1. UpdatedAuth(doc.auth, body) \in Auth
  BY DEF UpdatedAuth, Patched, GivenPart, CollectionDoc, Body, Parts, Auth
<1> QED
  BY <1>1, RequestsType DEF Updated, CollectionDoc, Body, DocStates

LEMMA CreatedType ==
  ASSUME NEW body \in Body
  PROVE  [body EXCEPT !.parts = NoParts] \in Body
BY DEF Body, Parts, NoParts

LEMMA EmptyTypes ==
  /\ NoAuth \in Auth
  /\ NoPlan \in Plan
  /\ \A state \in DocStates : EmptyCollection(state) \in CollectionDoc
  /\ \A state \in DocStates : EmptyProfile(state) \in ProfileDoc
  /\ SchemaDefaults \in CollectionDoc
<1>1. NoAuth \in Auth
  BY TextAssumption DEF NoAuth, Auth
<1>2. <<>> \in Seq(Request)
  OBVIOUS
<1>3. NoPlan \in Plan
  BY <1>1, <1>2, TextAssumption DEF NoPlan, Plan
<1>4. \A state \in DocStates : EmptyCollection(state) \in CollectionDoc
  BY <1>1, <1>2, TextAssumption DEF EmptyCollection, CollectionDoc
<1>5. \A state \in DocStates : EmptyProfile(state) \in ProfileDoc
  BY <1>1 DEF EmptyProfile, ProfileDoc
<1>6. SchemaDefaults \in CollectionDoc
  BY <1>4, TextAssumption DEF SchemaDefaults, CollectionDoc, DocStates
<1> QED
  BY <1>1, <1>3, <1>4, <1>5, <1>6

LEMMA StubsType ==
  ASSUME NEW requests \in Seq(Request), NEW k \in 0..Len(requests)
  PROVE  Stubs(requests, k) \in Seq(Int) /\ Len(Stubs(requests, k)) = k
<1>1. Len(requests) \in Nat /\ k \in Nat
  OBVIOUS
<1>2. \A p \in 1..k : requests[p].index \in Int
  <2> SUFFICES ASSUME NEW p \in 1..k PROVE requests[p].index \in Int
    OBVIOUS
  <2>1. requests[p] \in Request
    BY <1>1, ElementOfSeq
  <2> QED
    BY <2>1 DEF Request
<1>3. Stubs(requests, k) \in [1..k -> Int]
  BY <1>2 DEF Stubs
<1> QED
  BY <1>1, <1>3

LEMMA TypeInit == Init => TypeOK
BY EmptyTypes, SnapshotAssumption DEF Init, TypeOK, JobDoc, Handler, DocStates

-----------------------------------------------------------------------------
(* Changes of collections and profiles, summarised *)

\* A document of a collection is replaced by an empty one, or by one that took
\* the fields of a valid body.
Replaces(c, doc) ==
  /\ collections' = [collections EXCEPT ![c] = doc]
  /\ UNCHANGED <<profiles, jobs, handlers>>
  /\ \/ doc = EmptyCollection("deleted")
     \/ \E body \in Body, old \in {SchemaDefaults, collections[c]} :
          ValidCollection(body) /\ doc = Updated(old, body)

LEMMA EditCollectionEffect ==
  ASSUME TypeOK, NEW c \in Collections, EditCollection(c)
  PROVE  (\E doc \in CollectionDoc : Replaces(c, doc)) /\ edits' \in 0..MaxEdits
<1>1. Edit => edits' \in 0..MaxEdits
  BY SnapshotAssumption DEF Edit, TypeOK
<1>2. \A body \in Body : /\ Updated(SchemaDefaults, body) \in CollectionDoc
                         /\ Updated(collections[c], body) \in CollectionDoc
  BY UpdatedType, EmptyTypes DEF TypeOK
<1>3. ASSUME NEW body \in Bodies, createCollection(c, body)
      PROVE  \E doc \in CollectionDoc : Replaces(c, doc)
  <2> DEFINE taken == [body EXCEPT !.parts = NoParts]
  <2>1. body \in Body /\ taken \in Body
    BY CreatedType, SnapshotAssumption
  <2>2. ValidCollection(taken)
    BY <1>3, <2>1 DEF createCollection, ValidCollection, Body
  <2>3. collections' = [collections EXCEPT ![c] = Updated(SchemaDefaults, taken)]
    BY <1>3 DEF createCollection
  <2> HIDE DEF taken
  <2>4. Replaces(c, Updated(SchemaDefaults, taken))
    BY <1>3, <2>1, <2>2, <2>3 DEF createCollection, Replaces
  <2> QED
    BY <1>2, <2>1, <2>4
<1>4. ASSUME NEW body \in Bodies, updateCollection(c, body)
      PROVE  \E doc \in CollectionDoc : Replaces(c, doc)
  <2>1. body \in Body
    BY SnapshotAssumption
  <2>2. Replaces(c, Updated(collections[c], body))
    BY <1>4, <2>1 DEF updateCollection, Replaces
  <2> QED
    BY <1>2, <2>1, <2>2
<1>5. ASSUME deleteCollection(c) PROVE Replaces(c, EmptyCollection("deleted"))
  BY <1>5 DEF deleteCollection, Replaces
<1>6. EmptyCollection("deleted") \in CollectionDoc
  BY EmptyTypes DEF DocStates
<1> QED
  BY <1>1, <1>2, <1>3, <1>4, <1>5, <1>6
     DEF EditCollection, createCollection, updateCollection, deleteCollection

\* A profile that has everything its type needs is replaced by another one.
ReplacesProfile(p, doc) ==
  /\ profiles' = [profiles EXCEPT ![p] = doc]
  /\ UNCHANGED <<collections, jobs, handlers>>
  /\ UsableAuth(profiles[p].auth) => UsableAuth(doc.auth)

LEMMA EditProfileEffect ==
  ASSUME TypeOK, NEW p \in Profiles, EditProfile(p)
  PROVE  (\E doc \in ProfileDoc : ReplacesProfile(p, doc)) /\ edits' \in 0..MaxEdits
<1>1. Edit => edits' \in 0..MaxEdits
  BY SnapshotAssumption DEF Edit, TypeOK
<1>2. ASSUME NEW body \in ProfileBodies, createAuthProfile(p, body)
      PROVE  \E doc \in ProfileDoc : ReplacesProfile(p, doc)
  <2> DEFINE auth == [type |-> body.type, token |-> body.token, headerName |-> body.headerName]
             doc == [state |-> "stored", auth |-> auth]
  <2>1. doc \in ProfileDoc
    BY SnapshotAssumption DEF ProfileDoc, ProfileBody, DocStates, Auth
  <2>2. UsableAuth(auth)
    BY <1>2 DEF createAuthProfile, ValidProfile, UsableAuth, AuthTypes
  <2> QED
    BY <1>2, <2>1, <2>2 DEF createAuthProfile, ReplacesProfile
<1>3. ASSUME NEW body \in ProfileUpdates, updateAuthProfile(p, body)
      PROVE  \E doc \in ProfileDoc : ReplacesProfile(p, doc)
  <2> DEFINE auth == Rotate(profiles[p].auth, body)
             doc == [profiles[p] EXCEPT !.auth = auth]
  <2>1. profiles[p] \in ProfileDoc /\ body \in ProfileUpdate
    BY SnapshotAssumption DEF TypeOK
  <2>2. auth \in Auth /\ doc \in ProfileDoc /\ doc.auth = auth
    BY <2>1 DEF ProfileDoc, Rotate, Auth, ProfileUpdate
  <2>3. UsableAuth(profiles[p].auth) => UsableAuth(auth)
    BY <2>1 DEF UsableAuth, Rotate, ProfileDoc, Auth, ProfileUpdate, AuthTypes
  <2>4. profiles' = [profiles EXCEPT ![p] = doc]
    BY <1>3, <2>1 DEF updateAuthProfile, TypeOK, ProfileDoc
  <2> QED
    BY <1>3, <2>2, <2>3, <2>4 DEF updateAuthProfile, ReplacesProfile
<1>4. ASSUME deleteAuthProfile(p)
      PROVE  \E doc \in ProfileDoc : ReplacesProfile(p, doc)
  <2>1. EmptyProfile("deleted") \in ProfileDoc
    BY EmptyTypes DEF DocStates
  <2>2. UsableAuth(EmptyProfile("deleted").auth)
    BY DEF EmptyProfile, NoAuth, UsableAuth, AuthTypes
  <2> QED
    BY <1>4, <2>1, <2>2 DEF deleteAuthProfile, ReplacesProfile
<1> QED
  BY <1>1, <1>2, <1>3, <1>4 DEF EditProfile, createAuthProfile, updateAuthProfile, deleteAuthProfile

-----------------------------------------------------------------------------
(* Type correctness *)

LEMMA StartTypes ==
  ASSUME TypeOK, NEW j \in Jobs, Start(j)
  PROVE  TypeOK'
<1>1. ASSUME NEW c \in Collections, createJob(j, c) PROVE TypeOK'
  <2>1. collections[c] \in CollectionDoc
    BY DEF TypeOK
  <2> QED
    BY <1>1, <2>1 DEF TypeOK, createJob, Handle, UnchangedDefinitions, Handler, Plan, CollectionDoc
<1>2. ASSUME NEW o \in Jobs, rerunJob(j, o) PROVE TypeOK'
  <2>1. jobs[o].plan \in Plan
    BY DEF TypeOK, JobDoc
  <2> QED
    BY <1>2, <2>1 DEF TypeOK, rerunJob, Handle, UnchangedDefinitions, Handler
<1> QED
  BY <1>1, <1>2, TextAssumption DEF Start


LEMMA FindProfileTypes ==
  ASSUME TypeOK, NEW j \in Jobs, handlers[j].authProfileId \in Profiles, FindProfile(j)
  PROVE  TypeOK'
<1> DEFINE h == handlers[j]
           auth == Resolve(h.plan.auth, h.authProfileId)
<1>1. h \in Handler /\ profiles[h.authProfileId] \in ProfileDoc
  BY DEF TypeOK
<1>2. auth \in Auth
  BY <1>1 DEF Resolve, ProfileDoc, Handler, Plan
<1>3. [h EXCEPT !.pc = "createJob", !.plan.auth = auth] \in Handler
  BY <1>1, <1>2 DEF Handler, Plan
<1> QED
  BY <1>3 DEF FindProfile, Handle, UnchangedDefinitions, TypeOK

LEMMA StoreTypes ==
  ASSUME TypeOK, NEW j \in Jobs, StoreJob(j) \/ StoreStubs(j) \/ Rejected(j)
  PROVE  TypeOK'
<1>1. handlers[j] \in Handler /\ jobs[j] \in JobDoc
  BY DEF TypeOK
<1>2. JobOf(handlers[j]) \in JobDoc
  BY <1>1, EmptySeq DEF JobOf, Handler, JobDoc
<1>3. handlers[j].plan.requests \in Seq(Request) /\ Len(handlers[j].plan.requests) \in Nat
  BY <1>1, LenProperties DEF Handler, Plan
<1>4. \A k \in 0..Len(handlers[j].plan.requests) :
        [jobs[j] EXCEPT !.stubs = Stubs(handlers[j].plan.requests, k)] \in JobDoc
  BY <1>1, <1>3, StubsType DEF JobDoc
<1>5. \A pc \in {"insertStubs", "done", "failed"} : [handlers[j] EXCEPT !.pc = pc] \in Handler
  BY <1>1 DEF Handler
<1>6. jobs' \in [Jobs -> JobDoc]
  <2>1. CASE StoreJob(j)
    BY <2>1, <1>2 DEF StoreJob, TypeOK
  <2>2. CASE StoreStubs(j)
    <3> DEFINE requests == handlers[j].plan.requests
    <3>1. Len(requests) \in 0..Len(requests)
      BY <1>3
    <3>2. [jobs[j] EXCEPT !.stubs = Stubs(requests, Len(requests))] \in JobDoc
      BY <1>4, <3>1
    <3> QED
      BY <2>2, <3>2 DEF StoreStubs, TypeOK
  <2>3. CASE Rejected(j)
    BY <2>3, <1>2, <1>3, <1>4 DEF Rejected, TypeOK
  <2> QED
    BY <2>1, <2>2, <2>3
<1>7. handlers' \in [Jobs -> Handler]
  BY <1>5 DEF StoreJob, StoreStubs, Rejected, Handle, TypeOK
<1> QED
  BY <1>6, <1>7 DEF TypeOK, StoreJob, StoreStubs, Rejected, UnchangedDefinitions

\* A handler that looks a profile up has one to look up.
HasLink == \A j \in Jobs : At(j, "findProfile") => handlers[j].authProfileId \in Profiles
TypeInv == TypeOK /\ HasLink

LEMMA TypeInvInit == Init => TypeInv
BY TypeInit DEF TypeInv, HasLink, Init, At

LEMMA TypeInvStep == TypeInv /\ [Next]_vars => TypeInv'
<1> SUFFICES ASSUME TypeInv, [Next]_vars PROVE TypeInv'
  OBVIOUS
<1>1. TypeOK /\ HasLink
  BY DEF TypeInv
<1>2. ASSUME UNCHANGED vars PROVE TypeInv'
  BY <1>1, <1>2 DEF vars, TypeInv, TypeOK, HasLink, At
<1>3. ASSUME NEW c \in Collections, EditCollection(c) PROVE TypeInv'
  BY <1>1, <1>3, EditCollectionEffect DEF Replaces, TypeInv, TypeOK, HasLink, At
<1>4. ASSUME NEW p \in Profiles, EditProfile(p) PROVE TypeInv'
  BY <1>1, <1>4, EditProfileEffect DEF ReplacesProfile, TypeInv, TypeOK, HasLink, At
<1>5. ASSUME NEW j \in Jobs, Start(j) PROVE TypeInv'
  <2>1. TypeOK'
    BY <1>1, <1>5, StartTypes
  <2>2. ASSUME NEW c \in Collections, createJob(j, c) PROVE HasLink'
    <3>1. collections[c].authProfileId \in Profiles \cup {NoProfile}
      BY <1>1 DEF TypeOK, CollectionDoc
    <3> QED
      BY <1>1, <2>2, <3>1 DEF createJob, Handle, HasLink, At, TypeOK
  <2>3. ASSUME NEW o \in Jobs, rerunJob(j, o) PROVE HasLink'
    BY <1>1, <2>3 DEF rerunJob, Handle, HasLink, At, TypeOK
  <2> QED
    BY <1>5, <2>1, <2>2, <2>3 DEF TypeInv, Start
<1>6. ASSUME NEW j \in Jobs, Step(j) PROVE TypeInv'
  <2>1. TypeOK'
    BY <1>1, <1>6, FindProfileTypes, StoreTypes DEF Step, HasLink, FindProfile
  <2>2. HasLink'
    BY <1>1, <1>6 DEF Step, FindProfile, StoreJob, StoreStubs, Rejected, Handle, HasLink, At, TypeOK, Handler
  <2> QED
    BY <2>1, <2>2 DEF TypeInv
<1> QED
  BY <1>2, <1>3, <1>4, <1>5, <1>6 DEF Next

-----------------------------------------------------------------------------
(* Usable auth *)

\* Profiles have whole auths only; collections, and the plans made of them, also
\* what updates of single parts have left in the collection.
Explained(c, auth) == UsableAuth(auth) \/ [collectionId |-> c, auth |-> auth] \in patched
ExplainedPlan(plan) == Explained(plan.collectionId, plan.auth)
AuthInv ==
  /\ \A c \in Collections : Explained(c, collections[c].auth)
  /\ \A p \in Profiles : UsableAuth(profiles[p].auth)
  /\ \A j \in Jobs : ExplainedPlan(handlers[j].plan) /\ ExplainedPlan(jobs[j].plan)

LEMMA NoAuthUsable == UsableAuth(NoAuth)
BY DEF UsableAuth, NoAuth, AuthTypes

LEMMA AuthInvInit == HInit => AuthInv
<1>1. /\ EmptyCollection("unused").auth = NoAuth
      /\ EmptyProfile("unused").auth = NoAuth
      /\ NoPlan.auth = NoAuth
  BY DEF EmptyCollection, EmptyProfile, NoPlan
<1>2. HInit => /\ \A c \in Collections : collections[c].auth = NoAuth
               /\ \A p \in Profiles : profiles[p].auth = NoAuth
               /\ \A j \in Jobs : handlers[j].plan.auth = NoAuth /\ jobs[j].plan.auth = NoAuth
  BY <1>1 DEF HInit, Init
<1> QED
  BY <1>2, NoAuthUsable DEF AuthInv, Explained, ExplainedPlan

\* An update of no single part keeps an auth as it is, or replaces it by a whole one.
LEMMA UpdatedUsable ==
  ASSUME NEW doc \in CollectionDoc, NEW body \in Body, ValidCollection(body),
         body.parts = NoParts
  PROVE  Updated(doc, body).auth = doc.auth \/ UsableAuth(Updated(doc, body).auth)
<1>1. body.auth # AuthNotGiven => UsableAuth(body.auth)
  <2>1. ValidAuth(body.auth)
    BY DEF ValidCollection
  <2> QED
    BY <2>1 DEF ValidAuth, UsableAuth, AuthTypes
<1>2. Patched(doc.auth, body.parts) = doc.auth
  BY DEF Patched, GivenPart, NoParts, CollectionDoc, Auth
<1>3. Updated(doc, body).auth = UpdatedAuth(doc.auth, body)
  BY DEF Updated
<1> QED
  BY <1>1, <1>2, <1>3 DEF UpdatedAuth

LEMMA EditKeepsAuth ==
  ASSUME TypeOK, AuthInv, HNext, NEW c \in Collections, EditCollection(c)
  PROVE  Explained(c, collections[c].auth)'
<1>1. collections[c] \in CollectionDoc /\ SchemaDefaults \in CollectionDoc
  BY EmptyTypes DEF TypeOK
<1>2. patched \subseteq patched'
  BY DEF HNext
<1>3. Explained(c, collections[c].auth)
  BY DEF AuthInv
<1>4. SchemaDefaults.auth = NoAuth /\ EmptyCollection("deleted").auth = NoAuth
  BY DEF SchemaDefaults, EmptyCollection
<1>5. ASSUME NEW body \in Bodies, createCollection(c, body)
      PROVE  Explained(c, collections[c].auth)'
  <2> DEFINE taken == [body EXCEPT !.parts = NoParts]
  <2>1. taken \in Body /\ taken.parts = NoParts /\ ValidCollection(taken)
    BY <1>5, CreatedType, SnapshotAssumption DEF createCollection, ValidCollection, Body
  <2>2. collections'[c] = Updated(SchemaDefaults, taken)
    BY <1>5 DEF createCollection, TypeOK
  <2> HIDE DEF taken
  <2>3. UsableAuth(collections'[c].auth)
    BY <1>1, <1>4, <2>1, <2>2, UpdatedUsable, NoAuthUsable
  <2> QED
    BY <2>3 DEF Explained
<1>6. ASSUME NEW body \in Bodies, updateCollection(c, body)
      PROVE  Explained(c, collections[c].auth)'
  <2>1. CASE body.parts # NoParts
    <3>1. PatchesAuth(c)
      BY <1>6, <2>1 DEF PatchesAuth
    <3>2. [collectionId |-> c, auth |-> collections'[c].auth] \in patched'
      BY <3>1 DEF HNext
    <3> QED
      BY <3>2 DEF Explained
  <2>2. CASE body.parts = NoParts
    <3>1. body \in Body /\ ValidCollection(body)
      BY <1>6, SnapshotAssumption DEF updateCollection
    <3>2. collections'[c] = Updated(collections[c], body)
      BY <1>6 DEF updateCollection, TypeOK
    <3>3. collections'[c].auth = collections[c].auth \/ UsableAuth(collections'[c].auth)
      BY <1>1, <2>2, <3>1, <3>2, UpdatedUsable
    <3> QED
      BY <1>2, <1>3, <3>3 DEF Explained
  <2> QED
    BY <2>1, <2>2
<1>7. ASSUME deleteCollection(c) PROVE Explained(c, collections[c].auth)'
  <2>1. collections'[c] = EmptyCollection("deleted")
    BY <1>7 DEF deleteCollection, TypeOK
  <2> QED
    BY <1>4, <2>1, NoAuthUsable DEF Explained
<1> QED
  BY <1>5, <1>6, <1>7 DEF EditCollection

LEMMA AuthInvStep ==
  ASSUME TypeInv, AuthInv, [HNext]_hvars
  PROVE  AuthInv'
<1>1. TypeOK /\ HasLink
  BY DEF TypeInv
<1>2. CASE UNCHANGED hvars
  BY <1>2 DEF hvars, vars, AuthInv, Explained, ExplainedPlan
<1> SUFFICES ASSUME HNext PROVE AuthInv'
  BY <1>2
<1>3. patched \subseteq patched'
  BY DEF HNext
<1>4. ASSUME NEW c \in Collections, EditCollection(c) PROVE AuthInv'
  <2>1. PICK doc \in CollectionDoc : Replaces(c, doc)
    BY <1>1, <1>4, EditCollectionEffect
  <2>2. Explained(c, collections[c].auth)'
    BY <1>1, <1>4, EditKeepsAuth
  <2>3. \A d \in Collections \ {c} : collections'[d] = collections[d]
    BY <1>1, <2>1 DEF Replaces, TypeOK
  <2>4. \A d \in Collections : Explained(d, collections[d].auth)'
    BY <1>3, <2>2, <2>3 DEF AuthInv, Explained
  <2> QED
    BY <1>3, <2>1, <2>4 DEF Replaces, AuthInv, Explained, ExplainedPlan
<1>5. ASSUME NEW p \in Profiles, EditProfile(p) PROVE AuthInv'
  BY <1>1, <1>3, <1>5, EditProfileEffect
     DEF ReplacesProfile, AuthInv, Explained, ExplainedPlan, TypeOK
<1>6. ASSUME NEW j \in Jobs, Start(j) PROVE AuthInv'
  <2>1. \A k \in Jobs : ExplainedPlan(handlers[k].plan) /\ ExplainedPlan(jobs[k].plan)
    BY DEF AuthInv
  <2>2. /\ UNCHANGED <<collections, profiles, jobs>>
        /\ \A k \in Jobs \ {j} : handlers'[k] = handlers[k]
    BY <1>1, <1>6 DEF Start, createJob, rerunJob, Handle, UnchangedDefinitions, TypeOK
  <2>3. ExplainedPlan(handlers'[j].plan)
    <3>1. ASSUME NEW c \in Collections, createJob(j, c) PROVE ExplainedPlan(handlers'[j].plan)
      <4>1. /\ handlers'[j].plan.collectionId = c
            /\ handlers'[j].plan.auth = collections[c].auth
        BY <1>1, <3>1 DEF createJob, Handle, TypeOK
      <4> QED
        BY <4>1 DEF AuthInv, ExplainedPlan
    <3>2. ASSUME NEW o \in Jobs, rerunJob(j, o) PROVE ExplainedPlan(handlers'[j].plan)
      <4>1. handlers'[j].plan = jobs[o].plan
        BY <1>1, <3>2 DEF rerunJob, Handle, TypeOK
      <4> QED
        BY <2>1, <4>1
    <3> QED
      BY <1>6, <3>1, <3>2 DEF Start
  <2> QED
    BY <1>3, <2>1, <2>2, <2>3 DEF AuthInv, Explained, ExplainedPlan
<1>7. ASSUME NEW j \in Jobs, FindProfile(j) PROVE AuthInv'
  <2> DEFINE h == handlers[j]
             auth == Resolve(h.plan.auth, h.authProfileId)
  <2>1. h \in Handler /\ h.authProfileId \in Profiles
    BY <1>1, <1>7 DEF HasLink, FindProfile, TypeOK
  <2>2. Explained(h.plan.collectionId, auth)
    BY <2>1 DEF Resolve, AuthInv, Explained, ExplainedPlan
  <2>3. /\ handlers'[j].plan.auth = auth
        /\ handlers'[j].plan.collectionId = h.plan.collectionId
        /\ \A k \in Jobs \ {j} : handlers'[k] = handlers[k]
        /\ UNCHANGED <<collections, profiles, jobs>>
    BY <1>1, <1>7, <2>1 DEF FindProfile, Handle, UnchangedDefinitions, TypeOK, Handler, Plan
  <2> HIDE DEF auth
  <2> QED
    BY <1>3, <2>2, <2>3 DEF AuthInv, Explained, ExplainedPlan
<1>8. ASSUME NEW j \in Jobs, StoreJob(j) \/ StoreStubs(j) \/ Rejected(j) PROVE AuthInv'
  <2>1. handlers'[j].plan = handlers[j].plan /\ \A k \in Jobs \ {j} : handlers'[k] = handlers[k]
    BY <1>1, <1>8 DEF StoreJob, StoreStubs, Rejected, Handle, TypeOK, Handler
  <2>2. /\ jobs'[j].plan \in {jobs[j].plan, handlers[j].plan}
        /\ \A k \in Jobs \ {j} : jobs'[k] = jobs[k]
    BY <1>1, <1>8 DEF StoreJob, StoreStubs, Rejected, JobOf, TypeOK, JobDoc
  <2>3. UNCHANGED <<collections, profiles>>
    BY <1>8 DEF StoreJob, StoreStubs, Rejected, UnchangedDefinitions
  <2> QED
    BY <1>3, <2>1, <2>2, <2>3 DEF AuthInv, Explained, ExplainedPlan
<1> QED
  BY <1>4, <1>5, <1>6, <1>7, <1>8 DEF HNext, Next, Step

-----------------------------------------------------------------------------
(* Requests *)

GoodRequests(requests) ==
  /\ Len(requests) \in 1..MaxRequests
  /\ \A p, q \in 1..Len(requests) : requests[p].index = requests[q].index => p = q

\* Comparing the number of indexes with the number of requests, as
\* validateCollection does, finds every duplicate.
LEMMA UniqueMeansInjective ==
  ASSUME NEW requests \in Seq(Request), UniqueIndexes(requests)
  PROVE  \A p, q \in 1..Len(requests) : requests[p].index = requests[q].index => p = q
<1> DEFINE n == Len(requests)
           T == {requests[p].index : p \in 1..n}
           f == [p \in 1..n |-> requests[p].index]
<1>1. n \in Nat
  BY LenProperties
<1>2. IsFiniteSet(1..n) /\ Cardinality(1..n) = n
  BY <1>1, FS_Interval
<1>3. f \in Surjection(1..n, T)
  BY DEF Surjection
<1>4. Cardinality(T) = Cardinality(1..n)
  BY <1>2 DEF UniqueIndexes
<1>5. f \in Injection(1..n, T)
  BY <1>2, <1>3, <1>4, FS_SurjSameCardinalityImpliesInj
<1>6. \A p, q \in 1..n : f[p] = f[q] => p = q
  BY <1>5 DEF Injection, IsInjective
<1> QED
  BY <1>6

\* What validateCollection admits is stored in good order.
LEMMA ValidMeansGood ==
  ASSUME NEW body \in Body, ValidCollection(body)
  PROVE  GoodRequests(Requests(body))
<1>1. body.requests \in Seq(Request)
  BY DEF Body
<1>2. Len(body.requests) \in 1..MaxRequests /\ UniqueIndexes(body.requests)
  BY DEF ValidCollection
<1> QED
  BY <1>1, <1>2, UniqueMeansInjective, RequestsType DEF GoodRequests

\* Stored collections, handlers and jobs have requests in good order.
RequestsInv ==
  /\ \A c \in Collections : collections[c].state = "stored" => GoodRequests(collections[c].requests)
  /\ \A j \in Jobs : InProgress(j) => GoodRequests(handlers[j].plan.requests)
  /\ \A j \in Jobs : jobs[j].exists => GoodRequests(jobs[j].plan.requests)

LEMMA RequestsInvInit == Init => RequestsInv
<1>1. EmptyCollection("unused").state # "stored"
  BY DEF EmptyCollection
<1> QED
  BY <1>1 DEF Init, RequestsInv, InProgress

\* A step of a handler after its first.
StepEffect(j) ==
  /\ InProgress(j)
  /\ UNCHANGED <<collections, profiles>>
  /\ \A k \in Jobs \ {j} : handlers'[k] = handlers[k] /\ jobs'[k] = jobs[k]
  /\ handlers'[j].original = handlers[j].original
  /\ handlers'[j].pc # "idle"
  /\ \/ FindProfile(j)
     \/ /\ handlers'[j].plan = handlers[j].plan
        /\ handlers'[j].pc \notin {"findProfile", "createJob"}
        /\ \/ /\ UNCHANGED jobs
              /\ handlers'[j].pc = "failed"
           \/ /\ At(j, "createJob")
              /\ jobs'[j] = JobOf(handlers[j])
              /\ handlers'[j].pc \in {"insertStubs", "failed"}
           \/ /\ At(j, "insertStubs")
              /\ handlers'[j].pc = "done"
              /\ jobs'[j] = [jobs[j] EXCEPT !.stubs = Stubs(handlers[j].plan.requests,
                                                          Len(handlers[j].plan.requests))]
           \/ /\ At(j, "insertStubs")
              /\ handlers'[j].pc = "failed"
              /\ \E k \in 0..Len(handlers[j].plan.requests) :
                   jobs'[j] = [jobs[j] EXCEPT !.stubs = Stubs(handlers[j].plan.requests, k)]

LEMMA StepHasEffect ==
  ASSUME TypeInv, NEW j \in Jobs, Step(j)
  PROVE  StepEffect(j)
<1>1. TypeOK /\ handlers[j] \in Handler /\ jobs[j] \in JobDoc
  BY DEF TypeInv, TypeOK
<1>2. Len(handlers[j].plan.requests) \in Nat
  BY <1>1, LenProperties DEF Handler, Plan
<1>3. Len(handlers[j].plan.requests) \in 0..Len(handlers[j].plan.requests)
  BY <1>2
<1>4. CASE FindProfile(j)
  BY <1>1, <1>4 DEF StepEffect, FindProfile, Handle, UnchangedDefinitions, InProgress, At, TypeOK, Handler
<1>5. CASE StoreJob(j)
  BY <1>1, <1>5 DEF StepEffect, StoreJob, Handle, UnchangedDefinitions, InProgress, At, TypeOK, Handler
<1>6. CASE StoreStubs(j)
  BY <1>1, <1>3, <1>6
     DEF StepEffect, StoreStubs, Handle, UnchangedDefinitions, InProgress, At, TypeOK, Handler
<1>7. CASE Rejected(j)
  <2>1. /\ UNCHANGED <<collections, profiles>>
        /\ handlers' = [handlers EXCEPT ![j] = [handlers[j] EXCEPT !.pc = "failed"]]
        /\ InProgress(j)
    BY <1>7 DEF Rejected, Handle, UnchangedDefinitions
  <2>2. /\ \A k \in Jobs \ {j} : handlers'[k] = handlers[k]
        /\ handlers'[j].original = handlers[j].original
        /\ handlers'[j].plan = handlers[j].plan
        /\ handlers'[j].pc = "failed"
    BY <1>1, <2>1 DEF TypeOK, Handler
  <2>3. \/ UNCHANGED jobs
        \/ At(j, "createJob") /\ jobs' = [jobs EXCEPT ![j] = JobOf(handlers[j])]
        \/ /\ At(j, "insertStubs")
           /\ \E k \in 0..Len(handlers[j].plan.requests) :
                jobs' = [jobs EXCEPT ![j].stubs = Stubs(handlers[j].plan.requests, k)]
    BY <1>2, <1>7 DEF Rejected
  <2> QED
    BY <1>1, <2>1, <2>2, <2>3 DEF StepEffect, TypeOK
<1> QED
  BY <1>4, <1>5, <1>6, <1>7 DEF Step

\* A step leaves plan and original of its job as they are, or stores them.
LEMMA StepKeepsPlan ==
  ASSUME NEW j \in Jobs, StepEffect(j), jobs[j] \in JobDoc
  PROVE  \/ /\ jobs'[j].exists = jobs[j].exists
            /\ jobs'[j].plan = jobs[j].plan
            /\ jobs'[j].original = jobs[j].original
         \/ /\ At(j, "createJob")
            /\ jobs'[j] = JobOf(handlers[j])
            /\ jobs'[j].plan = handlers[j].plan
<1>1. CASE FindProfile(j)
  BY <1>1 DEF FindProfile
<1>2. ASSUME NEW stubs, jobs'[j] = [jobs[j] EXCEPT !.stubs = stubs]
      PROVE  /\ jobs'[j].exists = jobs[j].exists
             /\ jobs'[j].plan = jobs[j].plan
             /\ jobs'[j].original = jobs[j].original
  BY <1>2 DEF JobDoc
<1>3. JobOf(handlers[j]).plan = handlers[j].plan
  BY DEF JobOf
<1> QED
  BY <1>1, <1>2, <1>3 DEF StepEffect

LEMMA RequestsInvStep ==
  ASSUME TypeInv, RequestsInv, [Next]_vars,
         \A j \in Jobs : At(j, "insertStubs") => jobs[j].plan = handlers[j].plan
  PROVE  RequestsInv'
<1>1. TypeOK /\ HasLink
  BY DEF TypeInv
<1>2. CASE UNCHANGED vars
  BY <1>2 DEF vars, RequestsInv, InProgress
<1>3. ASSUME NEW c \in Collections, EditCollection(c) PROVE RequestsInv'
  <2>1. PICK doc \in CollectionDoc : Replaces(c, doc)
    BY <1>1, <1>3, EditCollectionEffect
  <2>2. EmptyCollection("deleted").state # "stored"
    BY DEF EmptyCollection
  <2>3. \A body \in Body : \A old : ValidCollection(body) => GoodRequests(Updated(old, body).requests)
    BY ValidMeansGood DEF Updated
  <2>4. doc.state = "stored" => GoodRequests(doc.requests)
    BY <2>1, <2>2, <2>3 DEF Replaces
  <2>5. /\ \A d \in Collections \ {c} : collections'[d] = collections[d]
        /\ collections'[c] = doc
        /\ UNCHANGED <<jobs, handlers>>
    BY <1>1, <2>1 DEF Replaces, TypeOK
  <2> QED
    BY <2>4, <2>5 DEF RequestsInv, InProgress
<1>4. ASSUME NEW p \in Profiles, EditProfile(p) PROVE RequestsInv'
  BY <1>1, <1>4, EditProfileEffect DEF ReplacesProfile, RequestsInv, InProgress
<1>5. ASSUME NEW j \in Jobs, Start(j) PROVE RequestsInv'
  <2>1. /\ UNCHANGED <<collections, jobs>>
        /\ \A k \in Jobs \ {j} : handlers'[k] = handlers[k]
        /\ GoodRequests(handlers'[j].plan.requests)
    BY <1>1, <1>5 DEF Start, createJob, rerunJob, Handle, UnchangedDefinitions, RequestsInv, TypeOK
  <2> QED
    BY <2>1 DEF RequestsInv, InProgress
<1>6. ASSUME NEW j \in Jobs, Step(j) PROVE RequestsInv'
  <2>1. StepEffect(j) /\ handlers[j] \in Handler /\ jobs[j] \in JobDoc
    BY <1>1, <1>6, StepHasEffect DEF TypeInv, TypeOK
  <2>2. handlers'[j].plan.requests = handlers[j].plan.requests
    <3>1. CASE FindProfile(j)
      BY <1>1, <2>1, <3>1 DEF FindProfile, Handle, TypeOK, Handler, Plan
    <3> QED
      BY <2>1, <3>1 DEF StepEffect
  <2>3. jobs'[j].exists => GoodRequests(jobs'[j].plan.requests)
    <3>1. InProgress(j)
      BY <2>1 DEF StepEffect
    <3>2. \/ jobs'[j].exists = jobs[j].exists /\ jobs'[j].plan = jobs[j].plan
          \/ jobs'[j].plan = handlers[j].plan
      BY <2>1, StepKeepsPlan
    <3> QED
      BY <3>1, <3>2 DEF RequestsInv
  <2>4. /\ UNCHANGED collections /\ InProgress(j)
        /\ \A k \in Jobs \ {j} : handlers'[k] = handlers[k] /\ jobs'[k] = jobs[k]
    BY <2>1 DEF StepEffect
  <2> QED
    BY <2>2, <2>3, <2>4 DEF RequestsInv, InProgress
<1> QED
  BY <1>2, <1>3, <1>4, <1>5, <1>6 DEF Next

-----------------------------------------------------------------------------
(* Job documents and handlers *)

\* A job exists once its handler has stored it, with the handler's plan; a
\* handler that reruns a job has that job's plan.
CopyInv ==
  /\ \A j \in Jobs : handlers[j].pc \in {"idle", "findProfile", "createJob"} => ~jobs[j].exists
  /\ \A j \in Jobs : At(j, "insertStubs") =>
       jobs[j].exists /\ jobs[j].plan = handlers[j].plan /\ jobs[j].original = handlers[j].original
  /\ \A j \in Jobs : At(j, "done") =>
       jobs[j].stubs = Stubs(jobs[j].plan.requests, Len(jobs[j].plan.requests))
  /\ \A j \in Jobs : InProgress(j) /\ handlers[j].original # NoJob =>
       LET o == handlers[j].original IN
       ~At(j, "findProfile") /\ jobs[o].exists /\ jobs[o].plan = handlers[j].plan
  /\ RerunsRepeat

LEMMA CopyInvInit == Init => CopyInv
BY DEF Init, CopyInv, RerunsRepeat, InProgress, At

\* A job that exists keeps its plan and its original.
LEMMA JobsKeepPlans ==
  ASSUME TypeInv, CopyInv, NEW j \in Jobs, Step(j)
  PROVE  \A k \in Jobs : jobs[k].exists =>
           jobs'[k].exists /\ jobs'[k].plan = jobs[k].plan /\ jobs'[k].original = jobs[k].original
<1>1. StepEffect(j) /\ jobs[j] \in JobDoc
  BY StepHasEffect DEF TypeInv, TypeOK
<1>2. \A k \in Jobs \ {j} : jobs'[k] = jobs[k]
  BY <1>1 DEF StepEffect
<1>3. At(j, "createJob") => ~jobs[j].exists
  BY DEF CopyInv, At
<1>4. jobs[j].exists =>
        jobs'[j].exists /\ jobs'[j].plan = jobs[j].plan /\ jobs'[j].original = jobs[j].original
  BY <1>1, <1>3, StepKeepsPlan
<1> QED
  BY <1>2, <1>4

LEMMA CopyInvStep ==
  ASSUME TypeInv, CopyInv, [Next]_vars
  PROVE  CopyInv'
<1>1. TypeOK
  BY DEF TypeInv
<1>2. ASSUME UNCHANGED <<jobs, handlers>> PROVE CopyInv'
  BY <1>2 DEF CopyInv, RerunsRepeat, InProgress, At
<1>3. ASSUME NEW c \in Collections, EditCollection(c) PROVE CopyInv'
  BY <1>1, <1>2, <1>3, EditCollectionEffect DEF Replaces
<1>4. ASSUME NEW p \in Profiles, EditProfile(p) PROVE CopyInv'
  BY <1>1, <1>2, <1>4, EditProfileEffect DEF ReplacesProfile
<1>5. ASSUME NEW j \in Jobs, Start(j) PROVE CopyInv'
  <2>1. /\ UNCHANGED jobs
        /\ \A k \in Jobs \ {j} : handlers'[k] = handlers[k]
        /\ At(j, "idle")
        /\ handlers'[j].pc \in {"findProfile", "createJob"}
    BY <1>1, <1>5 DEF Start, createJob, rerunJob, Handle, UnchangedDefinitions, TypeOK
  <2>2. handlers'[j].original # NoJob =>
          LET o == handlers'[j].original IN
          handlers'[j].pc # "findProfile" /\ jobs[o].exists /\ jobs[o].plan = handlers'[j].plan
    BY <1>1, <1>5 DEF Start, createJob, rerunJob, Handle, TypeOK
  <2>3. RerunsRepeat'
    BY <2>1 DEF CopyInv, RerunsRepeat
  <2> QED
    BY <2>1, <2>2, <2>3 DEF CopyInv, InProgress, At
<1>6. ASSUME NEW j \in Jobs, Step(j) PROVE CopyInv'
  <2>1. StepEffect(j) /\ handlers[j] \in Handler /\ jobs[j] \in JobDoc
    BY <1>1, <1>6, StepHasEffect DEF TypeOK
  <2>2. \A k \in Jobs : jobs[k].exists =>
          jobs'[k].exists /\ jobs'[k].plan = jobs[k].plan /\ jobs'[k].original = jobs[k].original
    BY <1>6, JobsKeepPlans
  <2>3. \A k \in Jobs \ {j} : handlers'[k] = handlers[k] /\ jobs'[k] = jobs[k]
    BY <2>1 DEF StepEffect
  <2>4. handlers'[j].original = handlers[j].original /\ InProgress(j) /\ handlers[j].original \in Jobs \cup {NoJob}
    BY <2>1 DEF StepEffect, Handler
  <2>5. FindProfile(j) => /\ UNCHANGED jobs
                          /\ handlers[j].pc = "findProfile" /\ handlers'[j].pc = "createJob"
    BY <1>1, <2>1 DEF FindProfile, Handle, TypeOK, Handler, At
  <2>6. ~FindProfile(j) => handlers'[j].plan = handlers[j].plan
    BY <2>1 DEF StepEffect
  <2>7. handlers'[j].pc \in {"idle", "findProfile", "createJob"} => ~jobs'[j].exists
    BY <2>1, <2>5 DEF StepEffect, CopyInv
  <2>8. handlers'[j].pc = "insertStubs" =>
          /\ jobs'[j].exists
          /\ jobs'[j].plan = handlers'[j].plan
          /\ jobs'[j].original = handlers'[j].original
    BY <2>1, <2>5 DEF StepEffect, JobOf
  <2>9. handlers'[j].pc = "done" =>
          jobs'[j].stubs = Stubs(jobs'[j].plan.requests, Len(jobs'[j].plan.requests))
    <3> SUFFICES ASSUME handlers'[j].pc = "done"
                 PROVE  jobs'[j].stubs = Stubs(jobs'[j].plan.requests, Len(jobs'[j].plan.requests))
      OBVIOUS
    <3> DEFINE stubs == Stubs(handlers[j].plan.requests, Len(handlers[j].plan.requests))
    <3>1. At(j, "insertStubs") /\ jobs'[j] = [jobs[j] EXCEPT !.stubs = stubs]
      BY <2>1, <2>5 DEF StepEffect
    <3>2. jobs[j].plan = handlers[j].plan
      BY <3>1 DEF CopyInv
    <3> QED
      BY <2>1, <3>1, <3>2 DEF JobDoc
  <2>10. InProgress(j)' /\ handlers'[j].original # NoJob =>
           LET o == handlers'[j].original IN
           handlers'[j].pc # "findProfile" /\ jobs'[o].exists /\ jobs'[o].plan = handlers'[j].plan
    BY <2>1, <2>2, <2>4, <2>5, <2>6 DEF CopyInv, StepEffect, At
  <2>11. ASSUME NEW k \in Jobs, jobs'[k].exists, jobs'[k].original # NoJob
         PROVE  LET o == jobs'[k].original IN jobs'[o].exists /\ jobs'[o].plan = jobs'[k].plan
    <3>1. CASE jobs[k].exists
      <4> DEFINE o == jobs[k].original
      <4>1. o \in Jobs /\ jobs[o].exists /\ jobs[o].plan = jobs[k].plan
        BY <1>1, <2>2, <2>11, <3>1 DEF CopyInv, RerunsRepeat, TypeOK, JobDoc
      <4> QED
        BY <2>2, <3>1, <4>1
    <3>2. CASE ~jobs[k].exists
      <4> DEFINE o == handlers[j].original
      <4>1. k = j /\ jobs'[j] = JobOf(handlers[j]) /\ jobs'[j].plan = handlers[j].plan
        BY <2>1, <2>3, <2>11, <3>2, StepKeepsPlan
      <4>2. jobs'[j].original = o
        BY <4>1 DEF JobOf
      <4>3. o \in Jobs /\ jobs[o].exists /\ jobs[o].plan = handlers[j].plan
        BY <2>4, <2>11, <4>1, <4>2 DEF CopyInv
      <4> QED
        BY <2>2, <4>1, <4>2, <4>3
    <3> QED
      BY <3>1, <3>2
  <2> QED
    <3>1. RerunsRepeat'
      BY <2>11 DEF RerunsRepeat
    <3>2. \A k \in Jobs \ {j} : InProgress(k)' /\ handlers'[k].original # NoJob =>
            LET o == handlers'[k].original IN
            handlers'[k].pc # "findProfile" /\ jobs'[o].exists /\ jobs'[o].plan = handlers'[k].plan
      BY <1>1, <2>2, <2>3 DEF CopyInv, InProgress, At, TypeOK, Handler
    <3> QED
      BY <2>3, <2>7, <2>8, <2>9, <2>10, <3>1, <3>2 DEF CopyInv, InProgress, At
<1> QED
  BY <1>2, <1>3, <1>4, <1>5, <1>6 DEF Next, vars

-----------------------------------------------------------------------------
(* What the handlers have seen *)

FromOneVersion(plan, moments) ==
  \E m \in moments :
    LET doc == m.collections[plan.collectionId] IN
    /\ doc.state = "stored"
    /\ doc.executionMode = plan.executionMode
    /\ doc.requests = plan.requests

FromOneMoment(plan, moments) ==
  LET c == plan.collectionId IN
  \/ \E m \in moments : plan = PlanAt(m, c)
  \/ /\ \E m, n \in moments : m.collections[c] # n.collections[c]
     /\ \E m, n \in moments : m.profiles # n.profiles

\* The plan before the profile is looked up.
UnresolvedPlan(m, c) ==
  LET doc == m.collections[c] IN
  [collectionId |-> c, executionMode |-> doc.executionMode,
   requests |-> doc.requests, auth |-> doc.auth]

\* What the handler of j holds while it looks the profile up, read at moment m.
ReadAt(m, j) ==
  LET h == handlers[j]
      doc == m.collections[h.plan.collectionId]
  IN /\ doc.state = "stored"
     /\ h.plan = UnresolvedPlan(m, h.plan.collectionId)
     /\ h.authProfileId = doc.authProfileId
     /\ h.authProfileId # NoProfile

SeenInv ==
  /\ \A j \in Jobs : InProgress(j) => Moment \in seen[j]
  /\ \A j \in Jobs : At(j, "findProfile") => \E m \in seen[j] : ReadAt(m, j)
  /\ \A j \in Jobs : At(j, "createJob") \/ At(j, "insertStubs") =>
       \/ handlers[j].original # NoJob
       \/ /\ FromOneVersion(handlers[j].plan, seen[j])
          /\ FromOneMoment(handlers[j].plan, seen[j])

LEMMA SeenInvInit == HInit => SeenInv
BY DEF HInit, Init, SeenInv, InProgress, At

\* What was seen is not forgotten before the handler ends.
LEMMA SeenGrows ==
  ASSUME HNext, NEW j \in Jobs, InProgress(j)'
  PROVE  /\ Moment' \in seen'[j]
         /\ At(j, "idle") => Moment \in seen'[j]
         /\ ~At(j, "idle") => seen[j] \subseteq seen'[j]
BY DEF HNext

LEMMA MoreMoments ==
  ASSUME NEW plan, NEW old, NEW new, old \subseteq new
  PROVE  /\ FromOneVersion(plan, old) => FromOneVersion(plan, new)
         /\ FromOneMoment(plan, old) => FromOneMoment(plan, new)
BY DEF FromOneVersion, FromOneMoment

\* Between the two reads either one of the stores stayed as it was, and the
\* plan is that of the later or of the earlier read, or both changed.
LEMMA ProfileReadLater ==
  ASSUME TypeOK, NEW j \in Jobs, FindProfile(j), NEW m, ReadAt(m, j),
         NEW moments, m \in moments, Moment \in moments
  PROVE  /\ FromOneVersion(handlers'[j].plan, moments)
         /\ FromOneMoment(handlers'[j].plan, moments)
<1> DEFINE h == handlers[j]
           c == h.plan.collectionId
           p == h.authProfileId
           doc == m.collections[c]
           next == [h.plan EXCEPT !.auth = Resolve(h.plan.auth, p)]
<1>1. h \in Handler
  BY DEF TypeOK
<1>2. handlers'[j].plan = next
  BY <1>1 DEF FindProfile, Handle, TypeOK, Handler, Plan
<1>3. next = [collectionId |-> c, executionMode |-> doc.executionMode, requests |-> doc.requests,
              auth |-> IF profiles[p].state = "stored" THEN profiles[p].auth ELSE doc.auth]
  BY DEF ReadAt, UnresolvedPlan, Resolve
<1>4. FromOneVersion(next, moments)
  BY <1>3 DEF FromOneVersion, ReadAt
<1>5. CASE m.collections[c] = collections[c]
  <2>1. next = PlanAt(Moment, c)
    BY <1>3, <1>5 DEF PlanAt, Moment, ReadAt
  <2> QED
    BY <1>2, <1>3, <1>4, <2>1 DEF FromOneMoment
<1>6. CASE m.profiles = profiles
  <2>1. next = PlanAt(m, c)
    BY <1>3, <1>6 DEF PlanAt, ReadAt
  <2> QED
    BY <1>2, <1>3, <1>4, <2>1 DEF FromOneMoment
<1>7. CASE m.collections[c] # collections[c] /\ m.profiles # profiles
  BY <1>2, <1>3, <1>4, <1>7 DEF FromOneMoment, Moment
<1> QED
  BY <1>5, <1>6, <1>7

LEMMA SeenInvStep ==
  ASSUME TypeInv, CopyInv, SeenInv, [HNext]_hvars
  PROVE  SeenInv'
<1>1. TypeOK
  BY DEF TypeInv
<1>2. CASE UNCHANGED hvars
  BY <1>2 DEF hvars, vars, SeenInv, InProgress, At, Moment, ReadAt
<1>3. CASE HNext
  <2> DEFINE Rest(k) == handlers'[k] = handlers[k]
             Good(k) == /\ InProgress(k)' => Moment' \in seen'[k]
                        /\ At(k, "findProfile")' => \E m \in seen'[k] : ReadAt(m, k)'
                        /\ At(k, "createJob")' \/ At(k, "insertStubs")' =>
                             \/ handlers'[k].original # NoJob
                             \/ /\ FromOneVersion(handlers'[k].plan, seen'[k])
                                /\ FromOneMoment(handlers'[k].plan, seen'[k])
  <2>1. ASSUME NEW k \in Jobs, Rest(k) PROVE Good(k)
    <3>1. InProgress(k)' => InProgress(k) /\ Moment' \in seen'[k] /\ seen[k] \subseteq seen'[k]
      BY <1>3, <2>1, SeenGrows DEF InProgress, At
    <3>2. \A m : ReadAt(m, k) => ReadAt(m, k)'
      BY <2>1 DEF ReadAt
    <3> QED
      BY <2>1, <3>1, <3>2, MoreMoments DEF SeenInv, InProgress, At
  <2>2. ASSUME NEW c \in Collections, EditCollection(c) PROVE \A k \in Jobs : Good(k)
    BY <1>1, <2>1, <2>2, EditCollectionEffect DEF Replaces
  <2>3. ASSUME NEW p \in Profiles, EditProfile(p) PROVE \A k \in Jobs : Good(k)
    BY <1>1, <2>1, <2>3, EditProfileEffect DEF ReplacesProfile
  <2>4. ASSUME NEW j \in Jobs, NEW c \in Collections, createJob(j, c) PROVE \A k \in Jobs : Good(k)
    <3> DEFINE doc == collections[c]
    <3>1. /\ UNCHANGED <<collections, profiles>>
          /\ doc.state = "stored"
          /\ At(j, "idle")
          /\ \A k \in Jobs \ {j} : Rest(k)
          /\ handlers'[j].pc = IF doc.authProfileId = NoProfile THEN "createJob" ELSE "findProfile"
          /\ handlers'[j].plan = UnresolvedPlan(Moment, c)
          /\ handlers'[j].authProfileId = doc.authProfileId
      BY <1>1, <2>4 DEF createJob, Handle, UnchangedDefinitions, TypeOK, UnresolvedPlan, Moment
    <3>2. InProgress(j)' /\ Moment \in seen'[j] /\ Moment' \in seen'[j]
      <4>1. InProgress(j)'
        BY <3>1 DEF InProgress
      <4> QED
        BY <1>3, <3>1, <4>1, SeenGrows
    <3>3. CASE doc.authProfileId = NoProfile
      <4>1. UnresolvedPlan(Moment, c) = PlanAt(Moment, c)
        BY <3>3 DEF UnresolvedPlan, PlanAt, Moment
      <4>2. FromOneMoment(handlers'[j].plan, seen'[j])
        BY <3>1, <3>2, <4>1 DEF FromOneMoment, UnresolvedPlan
      <4>3. FromOneVersion(handlers'[j].plan, seen'[j])
        BY <3>1, <3>2 DEF FromOneVersion, UnresolvedPlan, Moment
      <4> QED
        BY <2>1, <3>1, <3>2, <3>3, <4>2, <4>3 DEF At
    <3>4. CASE doc.authProfileId # NoProfile
      <4>1. ReadAt(Moment, j)'
        BY <3>1, <3>4 DEF ReadAt, UnresolvedPlan, Moment
      <4>2. Moment' = Moment
        BY <3>1 DEF Moment
      <4> QED
        BY <2>1, <3>1, <3>2, <3>4, <4>1, <4>2 DEF At
    <3> QED
      BY <3>3, <3>4
  <2>5. ASSUME NEW j \in Jobs, NEW o \in Jobs, rerunJob(j, o) PROVE \A k \in Jobs : Good(k)
    <3>1. /\ \A k \in Jobs \ {j} : Rest(k)
          /\ handlers'[j].pc = "createJob"
          /\ handlers'[j].original = o
      BY <1>1, <2>5 DEF rerunJob, Handle, TypeOK
    <3>2. Moment' \in seen'[j]
      BY <1>3, <3>1, SeenGrows DEF InProgress
    <3>3. o # NoJob
      BY SnapshotAssumption
    <3> QED
      BY <2>1, <3>1, <3>2, <3>3 DEF At
  <2>6. ASSUME NEW j \in Jobs, Step(j) PROVE \A k \in Jobs : Good(k)
    <3>1. StepEffect(j)
      BY <2>6, StepHasEffect
    <3>2. /\ InProgress(j)
          /\ \A k \in Jobs \ {j} : Rest(k)
          /\ handlers'[j].original = handlers[j].original
      BY <3>1 DEF StepEffect
    <3>3. Moment \in seen[j]
      BY <3>2 DEF SeenInv
    <3>4. InProgress(j)' => Moment' \in seen'[j] /\ seen[j] \subseteq seen'[j]
      BY <1>3, <3>2, SeenGrows DEF InProgress, At
    <3>5. CASE FindProfile(j)
      <4>1. handlers'[j].pc = "createJob" /\ InProgress(j)'
        BY <1>1, <3>5 DEF FindProfile, Handle, TypeOK, Handler, InProgress
      <4>2. PICK m \in seen[j] : ReadAt(m, j)
        BY <3>5 DEF FindProfile, SeenInv
      <4>3. m \in seen'[j] /\ Moment \in seen'[j]
        BY <3>3, <3>4, <4>1
      <4>4. /\ FromOneVersion(handlers'[j].plan, seen'[j])
            /\ FromOneMoment(handlers'[j].plan, seen'[j])
        BY <1>1, <3>5, <4>2, <4>3, ProfileReadLater
      <4> QED
        BY <2>1, <3>2, <3>4, <4>1, <4>4 DEF At
    <3>6. CASE ~FindProfile(j)
      <4>1. /\ handlers'[j].plan = handlers[j].plan
            /\ handlers'[j].pc \notin {"findProfile", "createJob"}
            /\ handlers'[j].pc = "insertStubs" => At(j, "createJob")
        BY <3>1, <3>6 DEF StepEffect
      <4>2. Good(j)
        BY <3>2, <3>4, <4>1, MoreMoments DEF SeenInv, InProgress, At
      <4> QED
        BY <2>1, <3>2, <4>2
    <3> QED
      BY <3>5, <3>6
  <2>7. \A k \in Jobs : Good(k)
    BY <1>3, <2>2, <2>3, <2>4, <2>5, <2>6 DEF HNext, Next, Start
  <2> QED
    BY <2>7 DEF SeenInv
<1> QED
  BY <1>2, <1>3

-----------------------------------------------------------------------------

IndInv == TypeInv /\ AuthInv /\ RequestsInv /\ CopyInv /\ SeenInv

LEMMA IndInvInit == HInit => IndInv
BY TypeInvInit, AuthInvInit, RequestsInvInit, CopyInvInit, SeenInvInit DEF HInit, IndInv

LEMMA IndInvStep == IndInv /\ [HNext]_hvars => IndInv'
<1> SUFFICES ASSUME IndInv, [HNext]_hvars PROVE IndInv'
  OBVIOUS
<1>1. [Next]_vars
  BY DEF HNext, hvars
<1>2. \A j \in Jobs : At(j, "insertStubs") => jobs[j].plan = handlers[j].plan
  BY DEF IndInv, CopyInv
<1> QED
  BY <1>1, <1>2, TypeInvStep, AuthInvStep, RequestsInvStep, CopyInvStep, SeenInvStep DEF IndInv

LEMMA Invariance == HSpec => []IndInv
BY IndInvInit, IndInvStep, PTL DEF HSpec

\* The variables have their types, for any bodies and any number of changes.
THEOREM TypeCorrect == HSpec => []TypeOK
<1>1. IndInv => TypeOK
  BY DEF IndInv, TypeInv
<1> QED
  BY Invariance, <1>1, PTL

\* A rerun has the plan of its original, whatever else happens.
THEOREM RerunsAreDeterministic == HSpec => []RerunsRepeat
<1>1. IndInv => RerunsRepeat
  BY DEF IndInv, CopyInv
<1> QED
  BY Invariance, <1>1, PTL

\* No sequence of creations, updates, rotations, deletions and reruns leads to a
\* job whose auth has a part missing, but for an auth that a PUT naming single
\* parts of it has put into the job's collection.
THEOREM AuthIsWhole == HSpec => []AuthUsable
<1>1. IndInv => AuthUsable
  BY DEF IndInv, AuthInv, AuthUsable, Explained, ExplainedPlan, PatchedAuth
<1> QED
  BY Invariance, <1>1, PTL

\* The requests of a job and its stubs correspond one to one.
THEOREM StubsMatch == HSpec => []EveryRequestHasItsStub
<1>1. ASSUME IndInv, NEW j \in Jobs, jobs[j].exists, At(j, "done")
      PROVE  /\ Len(RequestsOf(j)) \in 1..MaxRequests
             /\ Len(jobs[j].stubs) = Len(RequestsOf(j))
             /\ \A p \in 1..Len(RequestsOf(j)) :
                  \A q \in 1..Len(jobs[j].stubs) :
                    jobs[j].stubs[q] = RequestsOf(j)[p].index <=> q = p
  <2>1. GoodRequests(RequestsOf(j))
    BY <1>1 DEF IndInv, RequestsInv, RequestsOf
  <2>2. jobs[j].stubs = Stubs(RequestsOf(j), Len(RequestsOf(j)))
    BY <1>1 DEF IndInv, CopyInv, RequestsOf
  <2>3. RequestsOf(j) \in Seq(Request) /\ Len(RequestsOf(j)) \in 0..Len(RequestsOf(j))
    <3>1. RequestsOf(j) \in Seq(Request)
      BY <1>1 DEF IndInv, TypeInv, TypeOK, JobDoc, Plan, RequestsOf
    <3> QED
      BY <3>1, LenProperties
  <2>4. Len(jobs[j].stubs) = Len(RequestsOf(j))
    BY <2>2, <2>3, StubsType
  <2> QED
    BY <2>1, <2>2, <2>4 DEF GoodRequests, Stubs
<1>2. IndInv => EveryRequestHasItsStub
  BY <1>1 DEF EveryRequestHasItsStub
<1> QED
  BY Invariance, <1>2, PTL

\* A new job copies one version of its collection, and one moment of collection
\* and profile unless both changed while it was created.
THEOREM SnapshotsAreConsistent == HSpec => []ConsistentCopies
<1>1. ASSUME IndInv, NEW j \in Jobs, JustCreated(j)
      PROVE  FromOneVersion(jobs[j].plan, seen[j]) /\ FromOneMoment(jobs[j].plan, seen[j])
  BY <1>1 DEF IndInv, CopyInv, SeenInv, JustCreated
<1>2. IndInv => ConsistentCopies
  BY <1>1 DEF ConsistentCopies, OneVersion, PlanOfOneMoment, FromOneVersion, FromOneMoment
<1> QED
  BY Invariance, <1>2, PTL

=============================================================================
