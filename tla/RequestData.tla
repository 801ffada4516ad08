---------------------------- MODULE RequestData ----------------------------
(***************************************************************************)
(* What executeRequest does to data: it resolves placeholders in URL,      *)
(* headers and body, adds the auth of the job, checks the URL, and takes   *)
(* variables from the response.                                            *)
(*                                                                         *)
(* A text is a sequence of tokens, each a literal or a placeholder         *)
(* {{name}}.  A JSON value is a function from the paths of its leaves; an  *)
(* empty object is a leaf.  No value is an array or a string that is asked *)
(* for its properties.                                                     *)
(***************************************************************************)
EXTENDS Integers, Sequences, SequencesExt

Literal(s) == [hole |-> FALSE, name |-> s]
Hole(v) == [hole |-> TRUE, name |-> v]

\* The text of a leaf that is not a string is what String() makes of it.
String(text) == [isString |-> TRUE, text |-> text]
Other(text) == [isString |-> FALSE, text |-> text]
Leaf(leaf) == [p \in {<<>>} |-> leaf]
Undefined == <<>>   \* a value without a path

-----------------------------------------------------------------------------
(* Extraction *)

Member(value, key) ==
  [p \in {Tail(q) : q \in {q \in DOMAIN value : q # <<>> /\ Head(q) = key}} |-> value[<<key>> \o p]]

\* A member of undefined, or of null, is undefined.
resolvePath(value, path) == FoldLeft(Member, value, path)

\* Bug kept for comparison: a variable that is set already keeps its value.
SetIfUnset(acc, variable, value) ==
  [variables |-> [acc.variables EXCEPT ![variable] = IF @ = Undefined THEN value ELSE @],
   extracted |-> Append(acc.extracted, [variable |-> variable, value |-> value])]
SetVariable(acc, variable, value) ==
  [variables |-> [acc.variables EXCEPT ![variable] = value],
   extracted |-> Append(acc.extracted, [variable |-> variable, value |-> value])]

\* A rule whose path is not there is passed over.
Applied(acc, rule, data) ==
  LET value == resolvePath(data, rule.from) IN
  IF value = Undefined THEN acc ELSE SetVariable(acc, rule.variable, value)

\* The rules are applied in order.
extractVariables(data, rules, variables) ==
  LET after[n \in 0..Len(rules)] ==
        IF n = 0 THEN [variables |-> variables, extracted |-> <<>>]
        ELSE Applied(after[n - 1], rules[n], data)
  IN after[Len(rules)]

-----------------------------------------------------------------------------
(* Injection *)

StringOf(value) ==
  IF DOMAIN value = {<<>>} THEN value[<<>>].text ELSE <<Literal("[object Object]")>>

\* One pass: what is put in is not looked at again.
injectVariables(text, variables) ==
  FlattenSeq([i \in 1..Len(text) |->
    IF text[i].hole /\ text[i].name \in DOMAIN variables /\ variables[text[i].name] # Undefined
    THEN StringOf(variables[text[i].name]) ELSE <<text[i]>>])

injectVariablesDeep(value, variables) ==
  [p \in DOMAIN value |->
    IF value[p].isString THEN String(injectVariables(value[p].text, variables)) ELSE value[p]]

\* What the auth of the job adds: an auth with a part missing adds nothing.
AuthHeaders(auth) ==
  CASE auth.type = "bearer" /\ auth.token # "" ->
         [p \in {<<"authorization">>} |-> String(<<Literal("Bearer "), Literal(auth.token)>>)]
    [] auth.type = "apiKey" /\ auth.token # "" /\ auth.headerName # "" ->
         [p \in {<<auth.headerName>>} |-> String(<<Literal(auth.token)>>)]
    [] OTHER -> Undefined

\* f where f is defined, g elsewhere.
Over(f, g) == [p \in DOMAIN f \cup DOMAIN g |-> IF p \in DOMAIN f THEN f[p] ELSE g[p]]

\* Bug kept for comparison: a header of the request wins over the auth.
buildAuthFirst(request, auth, variables) ==
  [url     |-> [host |-> request.host, path |-> injectVariables(request.path, variables)],
   headers |-> Over(injectVariablesDeep(request.headers, variables), AuthHeaders(auth)),
   body    |-> injectVariablesDeep(request.body, variables)]

\* The request that is sent.  Names of headers have one case, as for axios.
build(request, auth, variables) ==
  [url     |-> [host |-> request.host, path |-> injectVariables(request.path, variables)],
   headers |-> Over(AuthHeaders(auth), injectVariablesDeep(request.headers, variables)),
   body    |-> injectVariablesDeep(request.body, variables)]

-----------------------------------------------------------------------------
(* The URL check *)

\* A host is what new URL, isIP, isBlockedIP and the list of names make of it.
\* validateCollection lets no placeholder into it.
Hosts == {"invalid", "publicIP", "blockedIP", "blockedName", "name"}
Addresses == {"public", "blocked", "none"}

\* What a look-up may end with: only names are looked up.
Lookups(host) == IF host = "name" THEN Addresses ELSE {"none"}

\* validateUrl returns: a name that cannot be looked up is left to axios.
validateUrl(host, address) == host = "publicIP" \/ (host = "name" /\ address # "blocked")

=============================================================================
