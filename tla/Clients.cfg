\* Two collections, two calls at a time, windows of two ticks, small limits.
SPECIFICATION Spec
CONSTANTS
  Text <- MCText
  MaxRequests = 2
  MaxHeaders = 1
  MinTimeout = 1
  MaxTimeout = 3
  DefaultTimeout = 2
  Window = 2
  MaxCalls = 3
  MaxJobs = 2
  Calls = {1, 2}
  Collections = {c1, c2}
  NoCollection = NoCollection
  MaxTimers = 2
  Rows <- MCRows
  MaxRows = 3
  MaxLimit = 2
  Limits = {1, 3}
  MaxListed = 4
INVARIANTS
  CreationBounded
  RowsNumbered
  WalkMissesNothing
PROPERTIES
  RunComesBack
