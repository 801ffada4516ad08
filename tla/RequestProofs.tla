--------------------------- MODULE RequestProofs ---------------------------
(***************************************************************************)
(* The invariants of RequestExecutor, and the steps of its refinement of   *)
(* RequestCall, for any requests, responses, rules and number of attempts; *)
(* then what a call leaves in the variable store, rule by rule.            *)
(***************************************************************************)
EXTENDS RequestExecutor, FiniteSetTheorems, TLAPS

\* The request as it is resolved before the first attempt.
First == build(call.requestDef, call.authSnapshot, initial)

SentIn(n) == {[attempt |-> a, request |-> First] : a \in 1..n}
CheckedIn(n) == {[attempt |-> a, url |-> First.url] : a \in 1..n}

\* Nothing but the events and the attempts has changed while the loop goes on.
Untouched == variables = initial /\ result = NoResult /\ answer = NoStatus

\* In attempt n of the loop, n - 1 requests have been sent, all of them checked,
\* and the n-th as well once axios follows a redirect.
InLoop ==
  /\ pc \in {"onRetry", "sleep", "validateUrl", "axios"}
  /\ Untouched
  /\ redirects \in Nat /\ (pc # "axios" => redirects = 0)
  /\ sent = SentIn(IF redirects = 0 THEN attempt - 1 ELSE attempt)
  /\ CheckedIn(IF pc = "axios" THEN attempt ELSE attempt - 1) \subseteq checked

\* The ways out: the URL was blocked, the request of the last attempt has been
\* answered, or it has failed.
Blocked ==
  /\ result.status = "FAILED" /\ result.retryCount = 0 /\ variables = initial /\ answer = NoStatus
  /\ sent = SentIn(attempt - 1)
  /\ CheckedIn(attempt - 1) \subseteq checked
LastSent ==
  /\ result.retryCount = attempt - 1
  /\ sent = SentIn(attempt)
  /\ CheckedIn(attempt) \subseteq checked
Completed ==
  LastSent /\ result.status = "COMPLETED" /\ result.httpStatus = answer
Failed ==
  LastSent /\ result.status = "FAILED" /\ variables = initial /\ answer = NoStatus

IndInv ==
  /\ attempt \in Nat \ {0}
  /\ \/ InLoop
     \/ pc = "done" /\ (Blocked \/ Completed \/ Failed)

-----------------------------------------------------------------------------

LEMMA InitEstablishes == Init => IndInv
<1> SUFFICES ASSUME Init PROVE IndInv
  OBVIOUS
<1>1. SentIn(0) = {} /\ CheckedIn(0) = {}
  BY DEF SentIn, CheckedIn
<1> QED BY <1>1 DEF Init, IndInv, InLoop, Untouched

LEMMA OneMore ==
  ASSUME NEW n \in Nat
  PROVE  /\ SentIn(n + 1) = SentIn(n) \cup {[attempt |-> n + 1, request |-> First]}
         /\ CheckedIn(n + 1) = CheckedIn(n) \cup {[attempt |-> n + 1, url |-> First.url]}
<1>1. 1..(n + 1) = (1..n) \cup {n + 1}
  OBVIOUS
<1> QED BY <1>1 DEF SentIn, CheckedIn

LEMMA RetryPreserves == IndInv /\ (OnRetry \/ Sleep) => IndInv'
<1> SUFFICES ASSUME IndInv, OnRetry \/ Sleep PROVE IndInv'
  OBVIOUS
<1>1. /\ UNCHANGED <<call, attempt, redirects, variables, result, initial, checked, sent, answer>>
      /\ pc \in {"onRetry", "sleep"} /\ pc' \in {"sleep", "validateUrl"}
  BY DEF OnRetry, Sleep
<1>2. First' = First
  BY <1>1 DEF First
<1> QED BY <1>1, <1>2 DEF IndInv, InLoop, Untouched, SentIn, CheckedIn

LEMMA ValidateUrlPreserves == IndInv /\ ValidateUrl => IndInv'
<1> SUFFICES ASSUME IndInv, ValidateUrl PROVE IndInv'
  OBVIOUS
<1>1. /\ pc = "validateUrl" /\ attempt \in Nat \ {0} /\ InLoop
      /\ redirects = 0 /\ sent = SentIn(attempt - 1)
      /\ UNCHANGED <<call, attempt, redirects, variables, initial, sent, answer>>
  BY DEF IndInv, InLoop, ValidateUrl
<1>2. First' = First /\ Request = First
  BY <1>1 DEF First, Request, InLoop, Untouched
<1>3. CASE /\ pc' = "axios"
           /\ checked' = checked \cup {[attempt |-> attempt, url |-> Request.url]}
           /\ UNCHANGED result
  <2>1. CheckedIn(attempt) \subseteq checked'
    <3>1. CheckedIn((attempt - 1) + 1)
            = CheckedIn(attempt - 1) \cup {[attempt |-> (attempt - 1) + 1, url |-> First.url]}
      BY <1>1, OneMore
    <3> QED BY <3>1, <1>1, <1>2, <1>3 DEF InLoop
  <2>2. CheckedIn(attempt)' = CheckedIn(attempt) /\ SentIn(attempt - 1)' = SentIn(attempt - 1)
    BY <1>1, <1>2 DEF CheckedIn, SentIn
  <2> QED BY <1>1, <1>3, <2>1, <2>2 DEF IndInv, InLoop, Untouched
<1>4. CASE Returns("FAILED", NoStatus, 0, <<>>) /\ UNCHANGED checked
  <2>1. CheckedIn(attempt - 1)' = CheckedIn(attempt - 1) /\ SentIn(attempt - 1)' = SentIn(attempt - 1)
    BY <1>1, <1>2 DEF CheckedIn, SentIn
  <2> QED BY <1>1, <1>4, <2>1 DEF IndInv, InLoop, Untouched, Blocked, Returns
<1> QED BY <1>3, <1>4 DEF ValidateUrl

\* What sending does to the histories, whatever comes of it.
LEMMA SendCounts ==
  ASSUME IndInv, pc = "axios", Send, UNCHANGED <<call, initial, checked>>
  PROVE  /\ attempt \in Nat \ {0} /\ Untouched
         /\ \A n : SentIn(n)' = SentIn(n) /\ CheckedIn(n)' = CheckedIn(n)
         /\ sent' = SentIn(attempt)
         /\ CheckedIn(attempt) \subseteq checked'
<1>1. attempt \in Nat \ {0} /\ InLoop
  BY DEF IndInv
<1>2. First' = First /\ Request = First
  BY <1>1 DEF First, Request, InLoop, Untouched
<1>3. SentIn((attempt - 1) + 1)
        = SentIn(attempt - 1) \cup {[attempt |-> (attempt - 1) + 1, request |-> First]}
  BY <1>1, OneMore
<1>4. sent' = sent \cup {[attempt |-> attempt, request |-> First]}
  BY <1>2 DEF Send
<1>5. \A n : SentIn(n)' = SentIn(n) /\ CheckedIn(n)' = CheckedIn(n)
  BY <1>2 DEF SentIn, CheckedIn
<1>6. (attempt - 1) + 1 = attempt
  BY <1>1
<1>7. CASE redirects = 0
  BY <1>1, <1>3, <1>4, <1>5, <1>6, <1>7 DEF InLoop
<1>8. CASE redirects # 0
  BY <1>1, <1>3, <1>4, <1>5, <1>6, <1>8 DEF InLoop
<1> QED BY <1>7, <1>8

LEMMA RedirectedPreserves == IndInv /\ Redirected => IndInv'
<1> SUFFICES ASSUME IndInv, Redirected PROVE IndInv'
  OBVIOUS
<1>1. /\ pc = "axios" /\ pc' = "axios" /\ Send
      /\ UNCHANGED <<call, attempt, variables, result, initial, checked, answer>>
  BY DEF Redirected
<1>2. /\ attempt \in Nat \ {0} /\ Untouched
      /\ \A n : SentIn(n)' = SentIn(n) /\ CheckedIn(n)' = CheckedIn(n)
      /\ sent' = SentIn(attempt)
      /\ CheckedIn(attempt) \subseteq checked'
  BY <1>1, SendCounts
<1>3. redirects' \in Nat \ {0}
  BY <1>1 DEF Redirected, IndInv, InLoop
<1> QED BY <1>1, <1>2, <1>3 DEF IndInv, InLoop, Untouched

LEMMA UnansweredPreserves == IndInv /\ Unanswered => IndInv'
<1> SUFFICES ASSUME IndInv, Unanswered PROVE IndInv'
  OBVIOUS
<1>1. /\ pc = "axios" /\ Send
      /\ redirects' = 0
      /\ UNCHANGED <<call, initial, retrying, checked, answer>>
  BY DEF Unanswered
<1>2. /\ attempt \in Nat \ {0} /\ Untouched
      /\ \A n : SentIn(n)' = SentIn(n) /\ CheckedIn(n)' = CheckedIn(n)
      /\ sent' = SentIn(attempt)
      /\ CheckedIn(attempt) \subseteq checked'
  BY <1>1, SendCounts
<1>3. PICK err \in Errors : Catch(err, NoStatus)
  BY DEF Unanswered
<1>4. CASE attempt' = attempt + 1 /\ pc' = "onRetry" /\ UNCHANGED result
  BY <1>1, <1>2, <1>3, <1>4 DEF IndInv, InLoop, Untouched, Catch
<1>5. CASE Returns("FAILED", NoStatus, retriesFor(attempt), <<>>) /\ UNCHANGED attempt
  BY <1>1, <1>2, <1>3, <1>5 DEF IndInv, Failed, LastSent, Untouched, Returns, retriesFor, Catch
<1> QED BY <1>3, <1>4, <1>5 DEF Catch

LEMMA AnsweredPreserves == IndInv /\ Answered => IndInv'
<1> SUFFICES ASSUME IndInv, Answered PROVE IndInv'
  OBVIOUS
<1>1. /\ pc = "axios" /\ Send
      /\ UNCHANGED <<call, initial, retrying, checked>>
  BY DEF Answered
<1>2. /\ attempt \in Nat \ {0} /\ Untouched
      /\ \A n : SentIn(n)' = SentIn(n) /\ CheckedIn(n)' = CheckedIn(n)
      /\ sent' = SentIn(attempt)
      /\ CheckedIn(attempt) \subseteq checked'
  BY <1>1, SendCounts
<1>3. PICK status \in HttpStatuses, data \in Responses :
        /\ answer' = status
        /\ Returns("COMPLETED", status, retriesFor(attempt),
                   extractVariables(data, call.requestDef.extract, variables).extracted)
        /\ UNCHANGED attempt
  BY DEF Answered, validateStatus
<1> QED BY <1>1, <1>2, <1>3 DEF IndInv, Completed, LastSent, Returns, retriesFor

LEMMA StepPreserves == IndInv /\ [Next]_vars => IndInv'
<1> SUFFICES ASSUME IndInv, [Next]_vars PROVE IndInv'
  OBVIOUS
<1>1. CASE OnRetry \/ Sleep
  BY <1>1, RetryPreserves
<1>2. CASE ValidateUrl
  BY <1>2, ValidateUrlPreserves
<1>3. CASE Answered
  BY <1>3, AnsweredPreserves
<1>4. CASE Unanswered
  BY <1>4, UnansweredPreserves
<1>5. CASE Redirected
  BY <1>5, RedirectedPreserves
<1>6. CASE UNCHANGED vars
  BY <1>6 DEF vars, IndInv, InLoop, Blocked, Completed, Failed, LastSent, Untouched,
              SentIn, CheckedIn, First
<1> QED BY <1>1, <1>2, <1>3, <1>4, <1>5, <1>6 DEF Next

LEMMA Invariance == Spec => []IndInv
BY InitEstablishes, StepPreserves, PTL DEF Spec

-----------------------------------------------------------------------------

LEMMA SentInCounts ==
  ASSUME NEW n \in Nat
  PROVE  Cardinality(SentIn(n)) = n
<1> DEFINE Send1(a) == [attempt |-> a, request |-> First]
           f == [a \in 1..n |-> Send1(a)]
<1>1. f \in Bijection(1..n, SentIn(n))
  <2>1. f \in [1..n -> SentIn(n)]
    BY DEF SentIn
  <2>2. \A a, b \in 1..n : f[a] = f[b] => a = b
    OBVIOUS
  <2>3. \A t \in SentIn(n) : \E a \in 1..n : f[a] = t
    BY DEF SentIn
  <2> QED BY <2>1, <2>2, <2>3 DEF Bijection, Injection, IsInjective, Surjection
<1>2. IsFiniteSet(1..n) /\ Cardinality(1..n) = n
  BY FS_Interval
<1>3. ExistsBijection(1..n, SentIn(n))
  BY <1>1 DEF ExistsBijection
<1> QED BY <1>2, <1>3, FS_Bijection

\* What the request that is sent has of the one it is built from.
LEMMA BuildKeeps ==
  ASSUME NEW def, NEW auth, NEW store
  PROVE  LET own == injectVariablesDeep(def.headers, store)
             added == AuthHeaders(auth)
             sends == build(def, auth, store)
         IN /\ sends.url = [host |-> def.host, path |-> injectVariables(def.path, store)]
            /\ sends.body = injectVariablesDeep(def.body, store)
            /\ \A p \in DOMAIN added : sends.headers[p] = added[p]
            /\ \A p \in DOMAIN own \ DOMAIN added : sends.headers[p] = own[p]
BY DEF build, Over

\* An answer that axios hands over, whatever its status, completes the call with
\* that status: nothing is sent after it.  Redirects that axios follows are not
\* handed over.  (executeRequest: validateStatus lets every status through.)
THEOREM AnsweredOnce == Spec => []AnswerIsFinal
<1>1. IndInv => AnswerIsFinal
  BY DEF IndInv, InLoop, Untouched, Blocked, Completed, Failed, AnswerIsFinal
<1> QED BY <1>1, Invariance, PTL

\* On every way out, retryCount is the number of attempts that were sent before the
\* last one, except that a URL blocked before a retry reports 0.
\* (executeRequest: attempt - 1 on both ways out after axios, 0 after validateUrl.)
THEOREM RetriesAreCounted == Spec => []RetriesCounted
<1>1. IndInv => RetriesCounted
  <2> SUFFICES ASSUME IndInv, Done
               PROVE  result.retryCount = IF \E s \in sent : s.attempt = attempt
                                          THEN Cardinality(sent) - 1 ELSE 0
    BY DEF RetriesCounted
  <2>1. attempt \in Nat \ {0} /\ (Blocked \/ Completed \/ Failed)
    BY DEF IndInv, InLoop, Done
  <2>2. CASE Blocked
    BY <2>1, <2>2 DEF Blocked, SentIn
  <2>3. CASE LastSent
    <3>1. \E s \in sent : s.attempt = attempt
      <4> DEFINE last == [attempt |-> attempt, request |-> First]
      <4>1. attempt \in 1..attempt
        BY <2>1
      <4>2. last \in sent
        BY <2>3, <4>1 DEF LastSent, SentIn
      <4>3. last.attempt = attempt
        OBVIOUS
      <4> HIDE DEF last
      <4> QED BY <4>2, <4>3
    <3>2. Cardinality(sent) = attempt
      BY <2>1, <2>3, SentInCounts DEF LastSent
    <3> QED BY <2>3, <3>1, <3>2 DEF LastSent
  <2> QED BY <2>1, <2>2, <2>3 DEF Completed, Failed
<1> QED BY <1>1, Invariance, PTL

\* Each attempt gives axios a URL that was checked in that attempt.  Where
\* redirects lead, and what axios looks the name up to, is not covered.
\* (executeRequest: validateUrl is inside the loop.)
THEOREM EverySendIsChecked == Spec => []SentIsChecked
<1>1. IndInv => SentIsChecked
  <2> SUFFICES ASSUME IndInv PROVE SentIsChecked
    OBVIOUS
  <2>1. PICK n \in Nat : sent = SentIn(n) /\ CheckedIn(n) \subseteq checked
    <3>1. CASE InLoop
      <4>1. CheckedIn(attempt - 1) \subseteq CheckedIn(attempt)
        BY DEF CheckedIn, IndInv
      <4>2. CheckedIn(IF redirects = 0 THEN attempt - 1 ELSE attempt) \subseteq checked
        BY <3>1, <4>1 DEF InLoop
      <4>3. (IF redirects = 0 THEN attempt - 1 ELSE attempt) \in Nat
        BY DEF IndInv
      <4> QED BY <3>1, <4>2, <4>3 DEF InLoop
    <3>2. CASE Blocked
      <4>1. attempt - 1 \in Nat
        BY DEF IndInv
      <4> QED BY <3>2, <4>1 DEF Blocked
    <3>3. CASE LastSent
      <4>1. attempt \in Nat
        BY DEF IndInv
      <4> QED BY <3>3, <4>1 DEF LastSent
    <3> QED BY <3>1, <3>2, <3>3 DEF IndInv, Completed, Failed
  <2> QED BY <2>1 DEF SentIsChecked, SentIn, CheckedIn
<1> QED BY <1>1, Invariance, PTL

\* All attempts send the request that the variables before the call resolve to,
\* with the headers of the job's auth in it.  (executeRequest builds it anew in
\* each attempt.)
THEOREM EveryAttemptIsAlike == Spec => []AttemptsAlike
<1>1. IndInv => AttemptsAlike
  <2> SUFFICES ASSUME IndInv PROVE AttemptsAlike
    OBVIOUS
  <2>1. \A s \in sent : s.request = First
    BY DEF IndInv, InLoop, Blocked, Completed, Failed, LastSent, SentIn
  <2> QED BY <2>1, BuildKeeps DEF AttemptsAlike, First
<1> QED BY <1>1, Invariance, PTL

\* The safety part of ImplementsCall: seen from executeJob, the call is one
\* step, and a call that fails has changed no variable.
THEOREM CallIsOneStep == Spec => Call!Init /\ [][Call!Return]_<<result.status, Touched>>
<1>1. Init => Call!Init
  BY DEF Init, Call!Init, Touched, NoResult
<1>2. IndInv /\ [Next]_vars => [Call!Return]_<<result.status, Touched>>
  <2> SUFFICES ASSUME IndInv, [Next]_vars
               PROVE  Call!Return \/ UNCHANGED <<result.status, Touched>>
    OBVIOUS
  <2>1. CASE OnRetry \/ Sleep \/ Redirected \/ UNCHANGED vars
    BY <2>1 DEF OnRetry, Sleep, Redirected, vars, Touched
  <2>2. ASSUME pc # "done" PROVE result.status = "none" /\ Touched = {}
    BY <2>2 DEF IndInv, InLoop, Untouched, Touched, NoResult
  <2>3. ASSUME pc # "done", UNCHANGED initial, variables' = variables,
               result' = result \/ result'.status = "FAILED"
        PROVE  Call!Return \/ UNCHANGED <<result.status, Touched>>
    BY <2>2, <2>3 DEF Touched, Call!Return
  <2>4. CASE ValidateUrl
    BY <2>3, <2>4 DEF ValidateUrl, Returns
  <2>5. CASE Unanswered
    BY <2>3, <2>5 DEF Unanswered, Catch, Returns
  <2>6. CASE Answered
    <3>1. pc # "done" /\ result'.status = "COMPLETED"
      BY <2>6 DEF Answered, validateStatus, Returns
    <3>2. Touched' \subseteq Variables
      BY DEF Touched
    <3> QED BY <2>2, <3>1, <3>2 DEF Call!Return
  <2> QED BY <2>1, <2>4, <2>5, <2>6 DEF Next
<1> QED BY <1>1, <1>2, Invariance, PTL DEF Spec

-----------------------------------------------------------------------------
(* What extractVariables returns *)

\* Induction, as it is done below: the least number that is no good does not exist.
LEMMA LeastNatural ==
  ASSUME NEW S, S \subseteq Nat, S # {}
  PROVE  \E m \in S : \A n \in S : m <= n
<1> DEFINE R == {ss \in Nat \X Nat : ss[1] < ss[2]}
<1>1. IsWellFoundedOn(R, Nat)
  <2>1. OpToRel(<, Nat) = R
    BY DEF OpToRel
  <2> QED BY <2>1, NatLessThanWellFounded
<1>2. \A m, n \in Nat : m < n => <<m, n>> \in R
  OBVIOUS
<1> HIDE DEF R
<1>3. PICK m \in S : \A n \in S : <<n, m>> \notin R
  BY <1>1, WFMin
<1>4. \A n \in S : ~(n < m)
  BY <1>2, <1>3
<1>5. m \in Nat /\ \A n \in S : n \in Nat
  BY <1>3
<1> QED BY <1>4, <1>5

Nothing(store) == [variables |-> store, extracted |-> <<>>]

\* after is what the first m rules have extracted, and before that the first m - 1, ...
Extracts(after, m, data, rules, store) ==
  after = [n \in 0..m |-> IF n = 0 THEN Nothing(store) ELSE Applied(after[n - 1], rules[n], data)]

\* The recursion of extractVariables has a solution.
LEMMA ExtractionExists ==
  ASSUME NEW data, NEW rules, NEW store, NEW m \in Nat
  PROVE  \E after : Extracts(after, m, data, rules, store)
<1> DEFINE Unsolved == {n \in Nat : ~\E after : Extracts(after, n, data, rules, store)}
<1>1. ASSUME Unsolved # {} PROVE FALSE
  <2>1. PICK n \in Unsolved : \A k \in Unsolved : n <= k
    BY <1>1, LeastNatural
  <2>2. n \in Nat /\ ~\E after : Extracts(after, n, data, rules, store)
    BY <2>1
  <2>3. CASE n = 0
    <3>1. Extracts([k \in 0..0 |-> Nothing(store)], 0, data, rules, store)
      BY DEF Extracts
    <3> QED BY <2>2, <2>3, <3>1
  <2>4. CASE n > 0
    <3>1. n - 1 \in Nat /\ ~(n <= n - 1)
      BY <2>2, <2>4
    <3>2. n - 1 \notin Unsolved
      BY <2>1, <3>1
    <3>3. PICK f : Extracts(f, n - 1, data, rules, store)
      BY <3>1, <3>2
    <3> DEFINE g == [k \in 0..n |-> IF k = n THEN Applied(f[n - 1], rules[n], data) ELSE f[k]]
    <3>4. \A k \in 0..(n - 1) : f[k] = IF k = 0 THEN Nothing(store) ELSE Applied(f[k - 1], rules[k], data)
      BY <3>3 DEF Extracts
    <3>5. \A k \in 0..n : g[k] = IF k = 0 THEN Nothing(store) ELSE Applied(g[k - 1], rules[k], data)
      BY <2>2, <2>4, <3>4
    <3>6. Extracts(g, n, data, rules, store)
      BY <3>5 DEF Extracts
    <3> QED BY <2>2, <3>6
  <2> QED BY <2>2, <2>3, <2>4
<1> QED BY <1>1

\* The last of the reported extractions of a variable has set it.
Matches(acc, store) ==
  \A v \in Variables :
    LET reported == {k \in DOMAIN acc.extracted : acc.extracted[k].variable = v} IN
    IF reported = {} THEN acc.variables[v] = store[v]
    ELSE \E last \in reported : /\ \A k \in reported : k <= last
                                /\ acc.variables[v] = acc.extracted[last].value

\* A store in which variables were set to some of the values, and the report of it.
Extraction(values) ==
  [variables : [Variables -> values], extracted : Seq([variable : Variables, value : values])]

LEMMA SetVariableMatches ==
  ASSUME NEW values, NEW acc \in Extraction(values), NEW store, Matches(acc, store),
         NEW w \in Variables, NEW value \in values
  PROVE  /\ SetVariable(acc, w, value) \in Extraction(values)
         /\ Matches(SetVariable(acc, w, value), store)
<1> DEFINE new == SetVariable(acc, w, value)
           n == Len(acc.extracted) + 1
<1>1. acc.extracted \in Seq([variable : Variables, value : values]) /\ n \in Nat \ {0}
  BY DEF Extraction
<1>2. /\ new.variables = [acc.variables EXCEPT ![w] = value]
      /\ new.extracted = Append(acc.extracted, [variable |-> w, value |-> value])
  BY DEF SetVariable
<1>3. /\ DOMAIN acc.extracted = 1..(n - 1) /\ DOMAIN new.extracted = 1..n
      /\ \A k \in 1..(n - 1) : new.extracted[k] = acc.extracted[k]
      /\ new.extracted[n] = [variable |-> w, value |-> value]
  BY <1>1, <1>2
<1>4. new \in Extraction(values)
  BY <1>1 DEF SetVariable, Extraction
<1>5. /\ new.variables[w] = value
      /\ \A v \in Variables \ {w} : new.variables[v] = acc.variables[v]
  BY <1>2 DEF Extraction
<1> HIDE DEF new, n
<1>6. ASSUME NEW v \in Variables
      PROVE  LET reported == {k \in DOMAIN new.extracted : new.extracted[k].variable = v} IN
             IF reported = {} THEN new.variables[v] = store[v]
             ELSE \E last \in reported : /\ \A k \in reported : k <= last
                                         /\ new.variables[v] = new.extracted[last].value
  <2> DEFINE before == {k \in DOMAIN acc.extracted : acc.extracted[k].variable = v}
             after == {k \in DOMAIN new.extracted : new.extracted[k].variable = v}
  <2>1. CASE v = w
    <3>1. n \in after /\ \A k \in after : k <= n
      BY <1>1, <1>3, <2>1
    <3>2. new.variables[v] = new.extracted[n].value
      BY <1>3, <1>5, <2>1
    <3> QED BY <3>1, <3>2
  <2>2. CASE v # w
    <3>1. after = before
      BY <1>1, <1>3, <2>2
    <3>2. \A k \in before : new.extracted[k] = acc.extracted[k]
      BY <1>3
    <3>3. new.variables[v] = acc.variables[v]
      BY <1>5, <2>2
    <3>4. IF before = {} THEN acc.variables[v] = store[v]
          ELSE \E last \in before : /\ \A k \in before : k <= last
                                    /\ acc.variables[v] = acc.extracted[last].value
      BY DEF Matches
    <3> HIDE DEF before
    <3> QED BY <3>1, <3>2, <3>3, <3>4
  <2> QED BY <2>1, <2>2
<1>7. Matches(new, store)
  BY <1>6 DEF Matches
<1> QED BY <1>4, <1>7 DEF new

LEMMA ExtractionMatches ==
  ASSUME NEW data, NEW known, NEW store \in [Variables -> known],
         NEW rules \in Seq([variable : Variables, from : Seq(STRING)])
  PROVE  Matches(extractVariables(data, rules, store), store)
<1> DEFINE L == Len(rules)
           after[n \in 0..L] == IF n = 0 THEN Nothing(store) ELSE Applied(after[n - 1], rules[n], data)
           values == known \cup {resolvePath(data, rules[n].from) : n \in 1..L}
           Good(n) == after[n] \in Extraction(values) /\ Matches(after[n], store)
           Bad == {n \in 0..L : ~Good(n)}
<1>1. L \in Nat /\ \A n \in 1..L : rules[n] \in [variable : Variables, from : Seq(STRING)]
  <2> DEFINE Rule == [variable : Variables, from : Seq(STRING)]
  <2>1. rules \in Seq(Rule)
    OBVIOUS
  <2> HIDE DEF Rule
  <2>2. L \in Nat /\ \A n \in 1..L : rules[n] \in Rule
    BY <2>1
  <2> QED BY <2>2 DEF Rule
<1>2. after = [n \in 0..L |-> IF n = 0 THEN Nothing(store) ELSE Applied(after[n - 1], rules[n], data)]
  <2>1. \E f : Extracts(f, L, data, rules, store)
    BY <1>1, ExtractionExists
  <2> QED BY <2>1 DEF Extracts
<1>3. extractVariables(data, rules, store) = after[L]
  BY DEF extractVariables, Nothing
<1> HIDE DEF after
<1>4. after[0] = Nothing(store) /\ \A n \in 1..L : after[n] = Applied(after[n - 1], rules[n], data)
  BY <1>1, <1>2
<1>5. Good(0)
  BY <1>4 DEF Nothing, Extraction, Matches
<1>6. ASSUME NEW n \in 1..L, Good(n - 1) PROVE Good(n)
  <2> DEFINE value == resolvePath(data, rules[n].from)
  <2>1. rules[n].variable \in Variables /\ value \in values
    BY <1>1
  <2>2. CASE value = Undefined
    <3>1. after[n] = after[n - 1]
      BY <1>4, <2>2 DEF Applied
    <3> QED BY <1>6, <3>1
  <2>3. CASE value # Undefined
    <3>1. after[n] = SetVariable(after[n - 1], rules[n].variable, value)
      BY <1>4, <2>3 DEF Applied
    <3> HIDE DEF values, value
    <3>2. after[n - 1] \in Extraction(values) /\ Matches(after[n - 1], store)
      BY <1>6
    <3> QED BY <2>1, <3>1, <3>2, SetVariableMatches
  <2> QED BY <2>2, <2>3
<1> HIDE DEF Good
<1>7. Bad = {}
  <2> SUFFICES ASSUME Bad # {} PROVE FALSE
    OBVIOUS
  <2>1. Bad \subseteq Nat
    BY <1>1
  <2>2. PICK m \in Bad : \A n \in Bad : m <= n
    BY <2>1, LeastNatural
  <2>3. m \in 1..L /\ ~Good(m)
    BY <1>1, <1>5, <2>2
  <2>4. Good(m - 1)
    BY <1>1, <2>2, <2>3
  <2> QED BY <1>6, <2>3, <2>4
<1>8. Good(L)
  BY <1>1, <1>7
<1> QED BY <1>3, <1>8 DEF Good

-----------------------------------------------------------------------------

\* What is known of the store: it is the one before the call, with what the
\* report says in it.
StoreInv == call \in Calls /\ initial \in Stores /\ StoreMatchesReport

LEMMA NothingReported ==
  ASSUME variables = initial, result.extractedVars = <<>>
  PROVE  StoreMatchesReport
BY DEF StoreMatchesReport

LEMMA StorePreserved == IndInv /\ StoreInv /\ [Next]_vars => StoreInv'
<1> SUFFICES ASSUME IndInv, StoreInv, [Next]_vars PROVE StoreInv'
  OBVIOUS
<1>1. call' = call /\ initial' = initial
  BY DEF Next, vars, OnRetry, Sleep, ValidateUrl, Redirected, Answered, Unanswered
<1>2. CASE variables' = variables /\ result' = result
  BY <1>1, <1>2 DEF StoreInv, StoreMatchesReport
<1>3. ASSUME variables' = initial', result'.extractedVars = <<>> PROVE StoreMatchesReport'
  BY <1>3 DEF StoreMatchesReport
<1>4. CASE ValidateUrl \/ Unanswered
  <2>1. variables' = variables /\ variables = initial
    BY <1>4 DEF ValidateUrl, Unanswered, Catch, IndInv, InLoop, Untouched
  <2>2. result' = result \/ result'.extractedVars = <<>>
    BY <1>4 DEF ValidateUrl, Unanswered, Catch, Returns
  <2> QED BY <1>1, <1>2, <1>3, <2>1, <2>2 DEF StoreInv
<1>5. CASE Answered
  <2>1. variables = initial
    BY <1>5 DEF Answered, IndInv, InLoop, Untouched
  <2>2. PICK data \in Responses :
          LET after == extractVariables(data, call.requestDef.extract, variables) IN
          variables' = after.variables /\ result'.extractedVars = after.extracted
    BY <1>5 DEF Answered, validateStatus, Returns
  <2> DEFINE after == extractVariables(data, call.requestDef.extract, initial)
  <2>3. Matches(after, initial)
    <3>1. call.requestDef.extract \in Seq([variable : Variables, from : Seq(STRING)])
      BY RequestExecutorAssumption DEF StoreInv
    <3>2. initial \in [Variables -> Earlier \cup {Undefined}]
      BY DEF StoreInv, Stores
    <3> QED BY <3>1, <3>2, ExtractionMatches
  <2>4. variables' = after.variables /\ result'.extractedVars = after.extracted
    BY <2>1, <2>2
  <2> HIDE DEF after
  <2>5. StoreMatchesReport'
    BY <1>1, <2>3, <2>4 DEF Matches, StoreMatchesReport
  <2> QED BY <1>1, <2>5 DEF StoreInv
<1>6. CASE OnRetry \/ Sleep \/ Redirected \/ UNCHANGED vars
  BY <1>2, <1>6 DEF OnRetry, Sleep, Redirected, vars
<1> QED BY <1>4, <1>5, <1>6 DEF Next

\* Whatever the rules and the response are, the store after the call is the one
\* before it with exactly the reported extractions in it, the last one of a
\* variable winning.  (extractVariables: the store and the report are written
\* together, rule by rule.)
THEOREM ReportIsTheStore == Spec => []StoreMatchesReport
<1>1. Init => StoreInv
  BY NothingReported DEF Init, NoResult, StoreInv
<1>2. StoreInv => StoreMatchesReport
  BY DEF StoreInv
<1> QED BY <1>1, <1>2, Invariance, StorePreserved, PTL DEF Spec

=============================================================================
