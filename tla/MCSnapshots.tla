---------------------------- MODULE MCSnapshots ----------------------------
(* An instance of JobSnapshots for TLC: bodies that pass and bodies that do not. *)
EXTENDS SnapshotProperties

CONSTANTS p1

MCText == STRING

Req(index) == [index |-> index, method |-> "GET", url |-> "http", timeoutMs |-> NoTimeout,
               headers |-> {}, extract |-> {}]
Bearer(token) == [type |-> "bearer", token |-> token, headerName |-> ""]
ApiKey(token, name) == [type |-> "apiKey", token |-> token, headerName |-> name]
Col(mode, auth, profile, requests) ==
  [name |-> "c", executionMode |-> mode, auth |-> auth, parts |-> NoParts,
   authProfileId |-> profile, requests |-> requests]

Linked == Col("sequential", AuthNotGiven, p1, <<Req(1), Req(0)>>)
Inline == Col("parallel", ApiKey("k1", "x-key"), NoProfile, <<Req(0)>>)
Both == Col("parallel", Bearer("b1"), p1, <<[Req(2) EXCEPT !.timeoutMs = 3]>>)
RequestsOnly == Col("", AuthNotGiven, Unchanged, <<Req(0), Req(1), Req(2)>>)

\* The token is taken away, and the type changed.
NoToken == [RequestsOnly EXCEPT !.parts.token = ""]
OtherType == [RequestsOnly EXCEPT !.parts.type = "apiKey"]

\* Rejected for one reason each.
Rejects == {[Linked EXCEPT !.name = ""],
            [Linked EXCEPT !.executionMode = "random"],
            [Inline EXCEPT !.auth.headerName = ""],
            [Both EXCEPT !.auth.token = ""],
            [Inline EXCEPT !.requests = <<>>],
            [Inline EXCEPT !.requests = <<Req(0), Req(1), Req(2), Req(3)>>],
            [Inline EXCEPT !.requests = <<Req(0), Req(1), Req(0)>>],
            [Inline EXCEPT !.requests = <<Req(-1)>>],
            [Inline EXCEPT !.requests = <<[Req(0) EXCEPT !.method = "TRACE"]>>],
            [Inline EXCEPT !.requests = <<[Req(0) EXCEPT !.timeoutMs = 4]>>],
            [RequestsOnly EXCEPT !.parts.type = "basic"],
            [Both EXCEPT !.parts.token = ""]}

MCBodies == {Linked, Inline, Both, RequestsOnly, NoToken, OtherType} \cup Rejects

MCProfileBodies ==
  {[name |-> "p", type |-> "bearer", token |-> "t1", headerName |-> ""],
   [name |-> "p", type |-> "apiKey", token |-> "t1", headerName |-> "x-key"],
   [name |-> "p", type |-> "apiKey", token |-> "t1", headerName |-> ""],
   [name |-> "p", type |-> "basic", token |-> "t1", headerName |-> ""]}

MCProfileUpdates == {[token |-> "t2", headerName |-> ""], [token |-> "", headerName |-> "x-other"]}

=============================================================================
