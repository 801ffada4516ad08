\* One collection, one profile, four changes of them, two jobs.
SPECIFICATION HSpec
CONSTANTS
  Text <- MCText
  MaxRequests = 3
  MaxHeaders = 1
  MinTimeout = 1
  MaxTimeout = 3
  DefaultTimeout = 2
  p1 = p1
  Jobs = {j1, j2}
  NoJob = NoJob
  Collections = {c1}
  NoCollection = NoCollection
  Profiles = {p1}
  NoProfile = NoProfile
  Unchanged = Unchanged
  Bodies <- MCBodies
  ProfileBodies <- MCProfileBodies
  ProfileUpdates <- MCProfileUpdates
  MaxEdits = 4
\* Clients may leave it at that.
CHECK_DEADLOCK FALSE
INVARIANTS
  TypeOK
  ConsistentCopies
  RerunsRepeat
  AuthUsable
  EveryRequestHasItsStub
