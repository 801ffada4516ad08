\* Three attempts, each with up to two redirects, two variables, two rules for one of them.
SPECIFICATION Spec
CONSTANTS
  Variables = {"userId", "token"}
  Earlier <- MCEarlier
  Calls <- MCCalls
  Responses <- MCResponses
  HttpStatuses = {200, 304, 401, 500}
  MaxRedirects = 2
  MaxAttempts = 3
\* A call that has returned does nothing more.
CHECK_DEADLOCK FALSE
INVARIANTS
  AnswerIsFinal
  RetriesCounted
  StoreMatchesReport
  SentIsChecked
  AttemptsAlike
PROPERTIES
  ImplementsCall
