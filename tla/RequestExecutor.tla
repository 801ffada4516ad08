-------------------------- MODULE RequestExecutor --------------------------
(***************************************************************************)
(* executeRequest: one request of a job, with its retries.  Each action is *)
(* one awaited call and the synchronous code up to the next one.           *)
(*                                                                         *)
(* axios is external.  It is called without maxRedirects, so it follows an *)
(* answer of 3xx with a Location by a request of its own, up to a number   *)
(* of them, before the call it was awaited for returns.  It also looks the *)
(* name of a host up for itself: which address it connects to, and where   *)
(* redirects lead, is up to others, and left out.                          *)
(***************************************************************************)
EXTENDS RequestData, FiniteSets

CONSTANTS
  Variables,     \* names in the variable store of the job
  Earlier,       \* values that earlier requests of the job may have stored
  Calls,         \* requestDef, the request of the snapshot, and authSnapshot
  Responses,     \* bodies of answers
  HttpStatuses,  \* statuses of the answers that axios hands over: a 3xx has no Location
  MaxRedirects,  \* how many redirects axios follows in one call
  MaxAttempts    \* 3 when called by executeJob

ASSUME RequestExecutorAssumption ==
  /\ \A c \in Calls : c.requestDef.extract \in Seq([variable : Variables, from : Seq(STRING)])
  /\ HttpStatuses \subseteq 200..599
  /\ MaxRedirects \in Nat
  /\ MaxAttempts \in Nat \ {0}

VARIABLES
  call,       \* the arguments
  pc,         \* the call that is awaited
  attempt,
  redirects,  \* redirects that axios has followed in the call in progress
  variables,  \* the variable store
  result,     \* what executeRequest returns
  initial,    \* history: the variable store before the call
  retrying,   \* history: the attempts that have a REQUEST_RETRYING event
  checked,    \* history: the URLs that the check has let through
  sent,       \* history: the requests that were given to axios and sent
  answer      \* history: the status of the answer that axios handed over

vars == <<call, pc, attempt, redirects, variables, result, initial, retrying, checked, sent, answer>>

Pcs == {"onRetry", "sleep", "validateUrl", "axios", "done"}
NoStatus == 0        \* httpStatus: null

NoResult == [status |-> "none", httpStatus |-> NoStatus, retryCount |-> 0, extractedVars |-> <<>>]

\* A variable that no request has set is undefined.
Stores == [Variables -> Earlier \cup {Undefined}]

Init ==
  /\ pc = "validateUrl" /\ attempt = 1 /\ redirects = 0 /\ result = NoResult
  /\ call \in Calls
  /\ initial \in Stores
  /\ variables = initial
  /\ retrying = {} /\ checked = {} /\ sent = {} /\ answer = NoStatus

-----------------------------------------------------------------------------

\* Bug kept for comparison: axios's default, which throws on 4xx and 5xx.
validateDefault(status) == status \in 200..299
validateStatus(status) == TRUE

\* The codes of axios's errors that executeRequest tells apart.
Errors == {"ECONNREFUSED", "ERR_INVALID_URL", "other"}
nonRetryable(err, httpStatus) ==
  err \in {"ECONNREFUSED", "ERR_INVALID_URL"} \/ httpStatus \in {401, 403, 404}

attemptsLeft(n) == n < MaxAttempts

\* Bug kept for comparison: attempts are reported for retries.
attemptsFor(n) == n
retriesFor(n) == n - 1

Returns(status, httpStatus, retryCount, extracted) ==
  /\ result' = [status |-> status, httpStatus |-> httpStatus,
                retryCount |-> retryCount, extractedVars |-> extracted]
  /\ pc' = "done"

-----------------------------------------------------------------------------

Request == build(call.requestDef, call.authSnapshot, variables)

\* Bug kept for comparison: the callback lets a failed write reject the call.
OnRetryThrows ==
  /\ pc = "onRetry"
  /\ \/ retrying' = retrying \cup {attempt} /\ pc' = "sleep"
     \/ UNCHANGED retrying /\ pc' = "thrown"
  /\ UNCHANGED <<call, attempt, redirects, variables, result, initial, checked, sent, answer>>

\* The callback writes a REQUEST_RETRYING event, and swallows its failure.
OnRetry ==
  /\ pc = "onRetry"
  /\ retrying' \in {retrying, retrying \cup {attempt}}
  /\ pc' = "sleep"
  /\ UNCHANGED <<call, attempt, redirects, variables, result, initial, checked, sent, answer>>

\* Bug kept for comparison: the URL is checked once, before the first attempt.
SleepThenSend ==
  /\ pc = "sleep"
  /\ pc' = "axios"
  /\ UNCHANGED <<call, attempt, redirects, variables, result, initial, retrying, checked, sent, answer>>

\* The back-off.
Sleep ==
  /\ pc = "sleep"
  /\ pc' = "validateUrl"
  /\ UNCHANGED <<call, attempt, redirects, variables, result, initial, retrying, checked, sent, answer>>

\* The resolved URL is checked before every attempt; a rejection ends the call.
ValidateUrl ==
  /\ pc = "validateUrl"
  /\ \E address \in Lookups(Request.url.host) :
       \/ /\ validateUrl(Request.url.host, address)
          /\ pc' = "axios"
          /\ checked' = checked \cup {[attempt |-> attempt, url |-> Request.url]}
          /\ UNCHANGED result
       \/ /\ ~validateUrl(Request.url.host, address)
          /\ Returns("FAILED", NoStatus, 0, <<>>)
          /\ UNCHANGED checked
  /\ UNCHANGED <<call, attempt, redirects, variables, initial, retrying, sent, answer>>

\* After an error: return at once, retry while attempts are left, or give up.
Catch(err, httpStatus) ==
  /\ \/ /\ nonRetryable(err, httpStatus)
        /\ Returns("FAILED", httpStatus, retriesFor(attempt), <<>>)
        /\ UNCHANGED attempt
     \/ /\ ~nonRetryable(err, httpStatus) /\ attemptsLeft(attempt)
        /\ attempt' = attempt + 1
        /\ pc' = "onRetry"
        /\ UNCHANGED result
     \/ /\ ~nonRetryable(err, httpStatus) /\ ~attemptsLeft(attempt)
        /\ Returns("FAILED", NoStatus, retriesFor(attempt), <<>>)
        /\ UNCHANGED attempt
  /\ UNCHANGED variables

\* The request of an attempt goes out.  What axios sends after it, to where
\* redirects lead, is not recorded.
Send == sent' = sent \cup {[attempt |-> attempt, request |-> Request]}

\* The answer is a redirect: axios follows it, and executeRequest goes on
\* waiting.  What was sent has been answered, and may be sent again all the
\* same, in another attempt, when what it leads to fails.
Redirected ==
  /\ pc = "axios"
  /\ redirects < MaxRedirects
  /\ redirects' = redirects + 1
  /\ Send
  /\ UNCHANGED <<call, pc, attempt, variables, result, initial, retrying, checked, answer>>

\* An answer that axios hands over, of whatever status, completes the request.
Answered ==
  /\ pc = "axios"
  /\ \E status \in HttpStatuses, data \in Responses :
       LET after == extractVariables(data, call.requestDef.extract, variables) IN
       /\ answer' = status
       /\ IF validateStatus(status)
          THEN /\ variables' = after.variables
               /\ Returns("COMPLETED", status, retriesFor(attempt), after.extracted)
               /\ UNCHANGED attempt
          ELSE Catch("other", status)
  /\ Send
  /\ redirects' = 0
  /\ UNCHANGED <<call, initial, retrying, checked>>

\* axios throws: nothing came back in time, or not all of it, or there was one
\* redirect too many; what was asked last may be the target of a redirect.
Unanswered ==
  /\ pc = "axios"
  /\ \E err \in Errors : Catch(err, NoStatus)
  /\ Send
  /\ redirects' = 0
  /\ UNCHANGED <<call, initial, retrying, checked, answer>>

Next == OnRetry \/ Sleep \/ ValidateUrl \/ Redirected \/ Answered \/ Unanswered

\* Timers fire, axios has a timeout, and the look-up of a name ends.
Spec == Init /\ [][Next]_vars /\ WF_vars(Next)

-----------------------------------------------------------------------------

Done == pc = "done"

\* An answer that axios hands over completes the call with its status, whatever
\* that is: none is retried, and none fails the call.  (It does not say that a
\* request is sent once: redirects and lost answers are answers, too, and what
\* comes after them may fail and be retried.)
AnswerIsFinal ==
  answer # NoStatus => result.status = "COMPLETED" /\ result.httpStatus = answer

\* A call whose last attempt was sent reports the attempts that were sent before
\* it, whatever redirects each of them followed: none is lost or counted twice.
\* A call that ends with a URL that the check blocks reports none, although
\* earlier attempts may have been sent.
RetriesCounted ==
  Done => result.retryCount = IF \E s \in sent : s.attempt = attempt
                              THEN Cardinality(sent) - 1 ELSE 0

\* The variable store after the call is the one before it, changed by the
\* reported extractions only, the last one winning: what executeJob logs as
\* VAR_EXTRACTED is what later requests are given.
StoreMatchesReport ==
  \A v \in Variables :
    LET reported == {k \in DOMAIN result.extractedVars : result.extractedVars[k].variable = v} IN
    IF reported = {} THEN variables[v] = initial[v]
    ELSE \E last \in reported : /\ \A k \in reported : k <= last
                                /\ variables[v] = result.extractedVars[last].value

\* The request of an attempt is given to axios with the URL that the check has
\* let through in that very attempt: a name is looked up again before each
\* retry.  (Of the URLs that redirects lead to, and of the address that axios
\* looks up after the check, it says nothing: they are not checked.)
SentIsChecked ==
  \A s \in sent : [attempt |-> s.attempt, url |-> s.request.url] \in checked

\* Every attempt gives axios the same request, resolved with the variables there were
\* before the call, and with the auth of the job in it, whatever headers the
\* request and its variables bring.
AttemptsAlike ==
  \A s \in sent :
    LET def == call.requestDef
        auth == AuthHeaders(call.authSnapshot)
        own == injectVariablesDeep(def.headers, initial)
    IN /\ s.request.url = [host |-> def.host, path |-> injectVariables(def.path, initial)]
       /\ s.request.body = injectVariablesDeep(def.body, initial)
       /\ \A p \in DOMAIN auth : s.request.headers[p] = auth[p]
       /\ \A p \in DOMAIN own \ DOMAIN auth : s.request.headers[p] = own[p]

Touched == {v \in Variables : variables[v] # initial[v]}
Call == INSTANCE RequestCall WITH outcome <- result.status, touched <- Touched

\* executeJob may treat the whole call as one step: whatever its attempts run
\* into, it returns, once, and a call that failed has set no variable.
ImplementsCall == Call!Spec

=============================================================================
