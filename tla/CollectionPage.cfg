\* Two jobs of two requests, one of them of the collection; a list
\* of one failure; one failing call.
SPECIFICATION Spec
CONSTANTS
  Jobs = {j1, j2}
  Sequential = {j1}
  N = 2
  Own = {j1}
  NoJob = NoJob
  NoList = NoList
  MaxFailures = 1
  MaxErrors = 1
\* Jobs end, and the user leaves it at that.
CHECK_DEADLOCK FALSE
INVARIANTS
  CountsBracketed
  FailuresListed
PROPERTIES
  RunEndsLinked
  HistoryGrows
