----------------------------- MODULE MCRequest -----------------------------
(* An instance of RequestExecutor for TLC. *)
EXTENDS RequestExecutor

Rule(variable, path) == [variable |-> variable, from |-> path]
Number == Leaf(Other(<<Literal("7")>>))
Word(s) == Leaf(String(<<Literal(s)>>))
Pair(p, v, q, w) == [r \in {p, q} |-> IF r = p THEN v ELSE w]

\* Two rules set the same variable, a third another one; a header has the name
\* of that of the auth; one placeholder is of no variable.
Def(host) ==
  [host    |-> host,
   path    |-> <<Literal("/users/"), Hole("userId")>>,
   headers |-> Pair(<<"authorization">>, String(<<Hole("token")>>),
                    <<"x-user">>, String(<<Hole("userId"), Hole("other")>>)),
   body    |-> Pair(<<"id">>, String(<<Hole("userId")>>), <<"user", "age">>, Other(<<Literal("7")>>)),
   extract |-> <<Rule("token", <<"token">>), Rule("userId", <<"data", "id">>),
                 Rule("token", <<"data", "token">>)>>]

Auth(type, token, headerName) == [type |-> type, token |-> token, headerName |-> headerName]
MCCalls ==
  {[requestDef |-> Def(host), authSnapshot |-> Auth("bearer", "secret", "")] : host \in Hosts}
    \cup {[requestDef |-> Def("name"), authSnapshot |-> auth] :
             auth \in {Auth("apiKey", "secret", "x-user"), Auth("none", "", "")}}

\* A number, a text, a text with a placeholder in it, and an object.
MCEarlier == {Number, Word("u1"), Leaf(String(<<Hole("userId")>>)),
              [p \in {<<"id">>} |-> Other(<<Literal("7")>>)]}

\* Nothing is found, one rule, two rules for two variables, two for one.
MCResponses ==
  {Word("ok"),
   [p \in {<<"token">>} |-> String(<<Literal("t1")>>)],
   Pair(<<"token">>, String(<<Literal("t1")>>), <<"data", "id">>, Other(<<Literal("8")>>)),
   Pair(<<"token">>, String(<<Literal("t1")>>), <<"data", "token">>, String(<<Literal("t2")>>))}

=============================================================================
