\* Two overlapping fetches, one of which may fail.
SPECIFICATION Spec
CONSTANTS
  Fetches = {f1, f2}
  MaxErrors = 1
\* A page that has been left and has no timer does nothing more.
CHECK_DEADLOCK FALSE
INVARIANTS
  ShownIsOneFetch
  StopsOnlyAtTheEnd
  LeftPagesStop
PROPERTIES
  PollingEnds
  TheEndIsShown
