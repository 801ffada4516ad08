\* The fetch of an earlier tick lands after that of a later one.
SPECIFICATION Spec
CONSTANTS
  Fetches = {f1, f2}
  MaxErrors = 2
\* A page that has been left and has no timer does nothing more.
CHECK_DEADLOCK FALSE
INVARIANTS
  LiveMeansPolling
