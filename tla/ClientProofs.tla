---------------------------- MODULE ClientProofs ----------------------------
(***************************************************************************)
(* What the form submits, what a walk through the list of jobs finds, and  *)
(* how many jobs the limiters let through, for any limits and windows, any *)
(* number of rows, jobs and calls in progress.                             *)
(***************************************************************************)
EXTENDS Clients, FiniteSetTheorems, TLAPS

\* A walk, but for the bounds of its numbers.
SomeWalk == [jobs : Nat, limit : Nat, page : Nat \ {0}, first : Nat,
             seen : SUBSET (Collections \cup Nat), pc : {"idle", "asking", "asked", "done"}]

TypeInv ==
  /\ calls \in [Calls -> Call]
  /\ form \in Form
  /\ walk \in SomeWalk

Numbered(rows) == rows # <<>> /\ \A p \in 1..Len(rows) : rows[p].index = p - 1
FormInv ==
  /\ Numbered(form.requests)
  /\ \A f \in Calls : calls[f].op = "createCollection" => Numbered(calls[f].rows)

\* Every job of the beginning that is newer than those on page n and after it
\* is among the jobs in found.
NewerThan(n, found) ==
  \A j \in 1..walk.first : j > walk.jobs - skip(n, walk.limit) => j \in found

\* What the answer to the page that was asked for adds to what was seen.
Adds(answer) ==
  /\ NewerThan(walk.page + 1, walk.seen \cup answer)
  /\ answer = {} => 1..walk.first \subseteq walk.seen

WalkInv ==
  /\ walk.first <= walk.jobs
  /\ walk.pc # "idle" => walk.limit >= 1
  /\ walk.pc \in {"asking", "asked"} => NewerThan(walk.page, walk.seen)
  /\ WalkMissesNothing

\* There is at most one call of the walk.
ListInv ==
  \A f \in Calls : calls[f].op = "listJobs" =>
    /\ page = "list" /\ walk.pc = "asked"
    /\ calls[f].pc = "ok" => Adds(calls[f].answer)
    /\ \A g \in Calls : calls[g].op = "listJobs" => g = f

IndInv == TypeInv /\ FormInv /\ WalkInv /\ ListInv

\* No call is made by the form or the walk; those they have made may fail or land.
OthersOnly ==
  /\ calls' \in [Calls -> Call]
  /\ \A f \in Calls :
       /\ calls'[f].op = "createCollection" =>
            calls[f].op = "createCollection" /\ calls'[f].rows = calls[f].rows
       /\ calls'[f].op = "listJobs" =>
            /\ calls[f].op = "listJobs"
            /\ calls'[f].pc = "ok" => calls[f].pc = "ok" /\ calls'[f].answer = calls[f].answer

-----------------------------------------------------------------------------

LEMMA NoCallIsCall == NoCall \in Call /\ NoCall.op = "none" /\ NoCall.pc = "sent"
BY DEF NoCall, Call, Ops

LEMMA EmptyRow ==
  ASSUME NEW n \in Nat
  PROVE  emptyRequest(n) \in Request /\ emptyRequest(n).index = n
<1>1. DefaultTimeout \in Nat
  BY ValidationAssumption
<1>2. "GET" \in Text
  BY NewCollectionPageAssumption
<1> QED BY <1>1, <1>2 DEF emptyRequest, Request

LEMMA EmptyForm == NoForm \in Form /\ Numbered(NoForm.requests)
<1>1. emptyRequest(0) \in Request /\ emptyRequest(0).index = 0
  BY EmptyRow
<1> QED BY <1>1 DEF NoForm, Form, Numbered

LEMMA EmptyWalk ==
  /\ NoWalk \in SomeWalk /\ NoWalk.pc = "idle" /\ NoWalk.first = 0 /\ NoWalk.jobs = 0
  /\ NoWalk.page = 1
BY DEF NoWalk, SomeWalk

LEMMA InitEstablishes == Init => IndInv
<1> SUFFICES ASSUME Init PROVE IndInv
  OBVIOUS
<1>1. calls \in [Calls -> Call] /\ \A f \in Calls : calls[f].op = "none"
  BY NoCallIsCall DEF Init, CallsInit, NoCalls
<1>2. TypeInv /\ FormInv
  BY <1>1, EmptyForm, EmptyWalk DEF Init, TypeInv, FormInv
<1>3. WalkInv /\ ListInv
  BY <1>1, EmptyWalk DEF Init, WalkInv, ListInv, WalkMissesNothing
<1> QED BY <1>2, <1>3 DEF IndInv

-----------------------------------------------------------------------------
(* What happens to calls *)

\* The number a call is given does not matter here, not even whether it is free.
LEMMA SendIsOthers ==
  ASSUME TypeInv, NEW made \in Call, made.op \notin {"createCollection", "listJobs"}, Send(made)
  PROVE  OthersOnly
<1>1. \A f \in Calls : calls'[f] = calls[f] \/ calls'[f] = made
  BY DEF Send, TypeInv
<1>2. calls' \in [Calls -> Call]
  BY DEF Send, TypeInv
<1> QED BY <1>1, <1>2 DEF OthersOnly

LEMMA LandsIsOthers ==
  ASSUME TypeInv, NEW f \in Calls, NEW op, NEW pc, Lands(f, op, pc)
  PROVE  OthersOnly
<1>1. \A g \in Calls : calls'[g] = calls[g] \/ calls'[g] = NoCall
  BY DEF Lands, TypeInv
<1>2. calls' \in [Calls -> Call]
  BY NoCallIsCall DEF Lands, TypeInv
<1> QED BY <1>1, <1>2, NoCallIsCall DEF OthersOnly

LEMMA AnswerIsOthers ==
  ASSUME TypeInv, NEW f \in Calls, NEW pc \in {"ok", "failed"},
         NEW answer \in SUBSET (Collections \cup Nat),
         Answer(f, pc, answer), calls[f].op # "listJobs" \/ pc = "failed"
  PROVE  OthersOnly
<1>1. /\ calls'[f] \in Call /\ calls'[f].pc = pc
      /\ calls'[f].op = calls[f].op /\ calls'[f].rows = calls[f].rows
  BY DEF Answer, TypeInv, Call
<1>2. \A g \in Calls \ {f} : calls'[g] = calls[g]
  BY DEF Answer, TypeInv
<1>3. calls' \in [Calls -> Call]
  BY <1>1 DEF Answer, TypeInv
<1> QED BY <1>1, <1>2, <1>3 DEF OthersOnly

LEMMA UnchangedIsOthers == TypeInv /\ UNCHANGED calls => OthersOnly
BY DEF TypeInv, OthersOnly

\* Such steps leave the invariant as it was, if form and walk stay.
LEMMA OthersPreserve ==
  ASSUME IndInv, OthersOnly, UNCHANGED <<form, walk>>,
         page' = page \/ page # "list"
  PROVE  IndInv'
<1>1. TypeInv' /\ FormInv'
  BY DEF IndInv, TypeInv, FormInv, OthersOnly
<1>2. WalkInv'
  BY DEF IndInv, WalkInv, WalkMissesNothing, NewerThan
<1>3. ListInv'
  BY DEF IndInv, ListInv, OthersOnly, Adds, NewerThan
<1> QED BY <1>1, <1>2, <1>3 DEF IndInv

-----------------------------------------------------------------------------
(* The pages *)

LEMMA HomePreserves == IndInv /\ UseHome /\ UNCHANGED page => IndInv'
<1> SUFFICES ASSUME IndInv, UseHome, UNCHANGED page PROVE IndInv'
  OBVIOUS
<1>1. TypeInv /\ HomeStep /\ UNCHANGED <<form, walk>>
  BY DEF IndInv, UseHome
<1>2. OthersOnly
  <2>1. CASE \E c \in Collections : ClickRun(c) \/ TimerFires(c) \/ ClickDelete(c)
    <3>1. PICK c \in Collections : ClickRun(c) \/ TimerFires(c) \/ ClickDelete(c)
      BY <2>1
    <3> DEFINE made(op) == [NoCall EXCEPT !.op = op, !.collection = c]
    <3>a. ASSUME NEW op \in Ops PROVE made(op) \in Call /\ made(op).op = op
      BY NoCallIsCall DEF Call
    <3>2. CASE ClickRun(c)
      <4>1. Send(made("createJob")) /\ "createJob" \in Ops
        BY <3>2 DEF ClickRun, Ops
      <4> QED BY <1>1, <3>a, <4>1, SendIsOthers
    <3>3. CASE TimerFires(c)
      BY <1>1, <3>3, UnchangedIsOthers DEF TimerFires
    <3>4. CASE ClickDelete(c)
      <4>1. Send(made("deleteCollection")) /\ "deleteCollection" \in Ops
        BY <3>4 DEF ClickDelete, Ops
      <4> QED BY <1>1, <3>a, <4>1, SendIsOthers
    <3> QED BY <3>1, <3>2, <3>3, <3>4
  <2>2. CASE \E f \in Calls : HomeLoads(f) \/ RunAnswered(f) \/ DeleteAnswered(f)
    BY <1>1, <2>2, LandsIsOthers DEF HomeLoads, RunAnswered, DeleteAnswered
  <2> QED BY <1>1, <2>1, <2>2 DEF HomeStep
<1> QED BY <1>1, <1>2, OthersPreserve

LEMMA RowsPreserved ==
  ASSUME IndInv, UNCHANGED <<calls, walk, page>>, form' \in Form, Numbered(form'.requests)
  PROVE  IndInv'
BY DEF IndInv, TypeInv, FormInv, WalkInv, ListInv, WalkMissesNothing, NewerThan, Adds

LEMMA UpdatePreserves ==
  ASSUME IndInv, NEW i \in 1..Len(form.requests), NEW row \in Rows, updateRequest(i, row),
         UNCHANGED <<walk, page>>
  PROVE  IndInv'
<1>1. form \in Form /\ Numbered(form.requests) /\ row \in Request
  BY NewCollectionPageAssumption DEF IndInv, TypeInv, FormInv
<1> DEFINE new == [row EXCEPT !.index = form.requests[i].index]
<1>2. form.requests \in Seq(Request) /\ form.requests[i] \in Request
  BY <1>1 DEF Form
<1>3. new \in Request /\ new.index = form.requests[i].index
  BY <1>1, <1>2 DEF Request
<1> HIDE DEF new
<1>4. [form.requests EXCEPT ![i] = new] \in Seq(Request)
  BY <1>2, <1>3
<1>5. form' = [form EXCEPT !.requests = [form.requests EXCEPT ![i] = new]]
  BY DEF updateRequest, new
<1>6. form'.requests = [form.requests EXCEPT ![i] = new] /\ form' \in Form
  BY <1>1, <1>4, <1>5 DEF Form
<1>7. Numbered(form'.requests)
  BY <1>1, <1>2, <1>3, <1>6 DEF Numbered
<1> QED BY <1>6, <1>7, RowsPreserved DEF updateRequest

LEMMA AddPreserves ==
  ASSUME IndInv, addRequest, UNCHANGED <<walk, page>>
  PROVE  IndInv'
<1>1. form \in Form /\ Numbered(form.requests)
  BY DEF IndInv, TypeInv, FormInv
<1> DEFINE new == emptyRequest(Len(form.requests))
<1>2. new \in Request /\ new.index = Len(form.requests)
  BY <1>1, EmptyRow DEF Form
<1>3. form'.requests = Append(form.requests, new) /\ form' \in Form
  <2>1. form' = [form EXCEPT !.requests = Append(form.requests, new)]
    BY DEF addRequest
  <2>2. Append(form.requests, new) \in Seq(Request)
    BY <1>1, <1>2 DEF Form
  <2> HIDE DEF new
  <2> QED BY <1>1, <2>1, <2>2 DEF Form
<1>4. Numbered(form'.requests)
  BY <1>1, <1>2, <1>3 DEF Numbered, Form
<1> QED BY <1>3, <1>4, RowsPreserved DEF addRequest

LEMMA RemovePreserves ==
  ASSUME IndInv, NEW i \in 1..Len(form.requests), removeRequest(i), UNCHANGED <<walk, page>>
  PROVE  IndInv'
<1>1. form \in Form /\ Len(form.requests) > 1
  BY DEF IndInv, TypeInv, removeRequest
<1> DEFINE left == RemoveAt(form.requests, i)
<1>2. left \in Seq(Request) /\ Len(left) = Len(form.requests) - 1
  <2>1. form.requests \in Seq(Request)
    BY <1>1 DEF Form
  <2> DEFINE before == SubSeq(form.requests, 1, i - 1)
             after == SubSeq(form.requests, i + 1, Len(form.requests))
  <2>2. before \in Seq(Request) /\ Len(before) = i - 1
    BY <2>1
  <2>3. after \in Seq(Request) /\ Len(after) = Len(form.requests) - i
    BY <2>1
  <2>4. left = before \o after
    BY DEF RemoveAt
  <2> HIDE DEF before, after, left
  <2> QED BY <2>1, <2>2, <2>3, <2>4
<1> HIDE DEF left
<1>3. \A p \in 1..Len(left) : /\ [left[p] EXCEPT !.index = p - 1] \in Request
                              /\ [left[p] EXCEPT !.index = p - 1].index = p - 1
  <2> SUFFICES ASSUME NEW p \in 1..Len(left)
               PROVE  /\ [left[p] EXCEPT !.index = p - 1] \in Request
                      /\ [left[p] EXCEPT !.index = p - 1].index = p - 1
    OBVIOUS
  <2>1. left[p] \in Request /\ p - 1 \in Int
    BY <1>2
  <2> QED BY <2>1 DEF Request
<1>4. /\ Renumbered(left) \in Seq(Request)
      /\ Len(Renumbered(left)) = Len(left)
      /\ \A p \in 1..Len(left) : Renumbered(left)[p].index = p - 1
  BY <1>2, <1>3 DEF Renumbered
<1>5. form'.requests = Renumbered(left) /\ form' \in Form
  BY <1>1, <1>4 DEF removeRequest, Form, left
<1>6. Numbered(form'.requests)
  BY <1>1, <1>2, <1>4, <1>5 DEF Numbered
<1> QED BY <1>5, <1>6, RowsPreserved DEF removeRequest

LEMMA SubmitPreserves ==
  ASSUME IndInv, page = "new", handleSubmit, UNCHANGED <<walk, page>>
  PROVE  IndInv'
<1> DEFINE made == [NoCall EXCEPT !.op = "createCollection", !.rows = form.requests]
<1>1. TypeInv /\ FormInv /\ WalkInv /\ ListInv
  BY DEF IndInv
<1>2. made \in Call /\ made.op = "createCollection" /\ made.rows = form.requests
  <2>1. form.requests \in Seq(Request)
    BY <1>1 DEF TypeInv, Form
  <2> QED BY <2>1, NoCallIsCall DEF Call, Ops
<1>3. /\ calls' \in [Calls -> Call]
      /\ \A f \in Calls : calls'[f] = calls[f] \/ calls'[f] = made
  BY <1>1, <1>2 DEF handleSubmit, Send, TypeInv
<1>4. form' \in Form /\ form'.requests = form.requests
  BY <1>1 DEF handleSubmit, TypeInv, Form
<1>5. TypeInv' /\ FormInv'
  BY <1>1, <1>2, <1>3, <1>4 DEF TypeInv, FormInv
<1>6. WalkInv'
  BY <1>1 DEF WalkInv, WalkMissesNothing, NewerThan
<1>7. ListInv'
  BY <1>1, <1>2, <1>3 DEF ListInv
<1> QED BY <1>5, <1>6, <1>7 DEF IndInv

LEMMA FormPreserves == IndInv /\ UseForm /\ UNCHANGED page => IndInv'
<1> SUFFICES ASSUME IndInv, UseForm, UNCHANGED page PROVE IndInv'
  OBVIOUS
<1>1. page = "new" /\ FormStep /\ UNCHANGED walk
  BY DEF UseForm
<1>2. CASE \E i \in 1..Len(form.requests) : removeRequest(i)
  BY <1>1, <1>2, RemovePreserves
<1>3. CASE \E i \in 1..Len(form.requests) : \E row \in Rows : updateRequest(i, row)
  BY <1>1, <1>3, UpdatePreserves
<1>4. CASE addRequest
  BY <1>1, <1>4, AddPreserves
<1>5. CASE handleSubmit
  BY <1>1, <1>5, SubmitPreserves
<1>6. CASE \E f \in Calls : SubmitAnswered(f)
  <2>1. OthersOnly
    BY <1>6, LandsIsOthers DEF SubmitAnswered, IndInv
  <2>2. form' \in Form /\ form'.requests = form.requests
    BY <1>6 DEF SubmitAnswered, IndInv, TypeInv, Form
  <2>3. TypeInv' /\ FormInv'
    BY <1>1, <2>1, <2>2 DEF IndInv, TypeInv, FormInv, OthersOnly
  <2>4. WalkInv' /\ ListInv'
    BY <1>1, <2>1 DEF IndInv, WalkInv, WalkMissesNothing, NewerThan, ListInv, OthersOnly
  <2> QED BY <2>3, <2>4 DEF IndInv
<1> QED BY <1>1, <1>2, <1>3, <1>4, <1>5, <1>6 DEF FormStep

-----------------------------------------------------------------------------
(* The walk *)

LEMMA SkipGrows ==
  ASSUME NEW n \in Nat \ {0}, NEW limit \in Nat, limit >= 1
  PROVE  /\ Smaller(MaxLimit, limit) \in Nat \ {0}
         /\ skip(1, limit) = 0
         /\ skip(n, limit) \in Nat
         /\ skip(n + 1, limit) = skip(n, limit) + Smaller(MaxLimit, limit)
<1>1. Smaller(MaxLimit, limit) \in Nat \ {0}
  BY JobListAssumption DEF Smaller
<1> DEFINE L == Smaller(MaxLimit, limit)
<1>2. skip(1, limit) = 0 * L /\ skip(n, limit) = (n - 1) * L /\ skip(n + 1, limit) = n * L
  BY DEF skip
<1> HIDE DEF L
<1>3. L \in Nat \ {0}
  BY <1>1 DEF L
<1>4. 0 * L = 0 /\ (n - 1) * L \in Nat /\ n * L = (n - 1) * L + L
  BY <1>3
<1> QED BY <1>1, <1>2, <1>4 DEF L

\* A page that is served adds the jobs on it, as the list is then; an empty one
\* is behind the last job.
LEMMA PageAdds ==
  ASSUME TypeInv, WalkInv, walk.pc = "asked"
  PROVE  /\ PageOf(walk.page, walk.limit) \in SUBSET (Collections \cup Nat)
         /\ Adds(PageOf(walk.page, walk.limit))
<1> DEFINE answer == PageOf(walk.page, walk.limit)
           L == Smaller(MaxLimit, walk.limit)
           newest == walk.jobs - skip(walk.page, walk.limit)
<1>1. /\ walk.jobs \in Nat /\ walk.limit \in Nat /\ walk.page \in Nat \ {0} /\ walk.first \in Nat
      /\ walk.limit >= 1 /\ walk.first <= walk.jobs
      /\ NewerThan(walk.page, walk.seen)
  BY DEF TypeInv, SomeWalk, WalkInv
<1>2. /\ L \in Nat \ {0} /\ skip(walk.page, walk.limit) \in Nat
      /\ skip(walk.page + 1, walk.limit) = skip(walk.page, walk.limit) + L
  BY <1>1, SkipGrows
<1>3. answer = {j \in 1..walk.jobs : j <= newest /\ newest - j < L}
  BY DEF PageOf
<1>4. \A j \in 1..walk.first : j > newest => j \in walk.seen
  BY <1>1 DEF NewerThan
<1> HIDE DEF answer, L
<1>5. NewerThan(walk.page + 1, walk.seen \cup answer)
  <2> SUFFICES ASSUME NEW j \in 1..walk.first,
                      j > walk.jobs - skip(walk.page + 1, walk.limit)
               PROVE  j \in walk.seen \cup answer
    BY DEF NewerThan
  <2>1. j \in 1..walk.jobs /\ newest \in Int /\ newest - j < L
    BY <1>1, <1>2
  <2> QED BY <1>3, <1>4, <2>1
<1>6. ASSUME answer = {} PROVE 1..walk.first \subseteq walk.seen
  <2>1. newest \notin 1..walk.jobs
    BY <1>1, <1>2, <1>3, <1>6
  <2>2. newest < 1
    BY <1>1, <1>2, <2>1
  <2> QED BY <1>1, <1>2, <1>4, <2>2
<1>7. answer \in SUBSET (Collections \cup Nat)
  BY <1>1, <1>3
<1> QED BY <1>5, <1>6, <1>7 DEF Adds, answer

\* The walk's own steps change no other call.
LEMMA CreatedPreserves ==
  ASSUME IndInv, JobCreated, UNCHANGED <<form, page>>
  PROVE  IndInv'
<1>1. TypeInv /\ FormInv /\ WalkInv /\ ListInv /\ UNCHANGED calls
  BY DEF IndInv, JobCreated
<1>2. /\ walk' \in SomeWalk /\ walk'.jobs = walk.jobs + 1
      /\ walk'.limit = walk.limit /\ walk'.page = walk.page /\ walk'.first = walk.first
      /\ walk'.seen = walk.seen /\ walk'.pc = walk.pc
  BY <1>1 DEF JobCreated, TypeInv, SomeWalk
<1>3. ASSUME NEW n \in Nat \ {0}, NEW found, walk.limit >= 1, NewerThan(n, found)
      PROVE  NewerThan(n, found)'
  <2>1. skip(n, walk.limit) \in Nat /\ skip(n, walk'.limit) = skip(n, walk.limit)
    BY <1>1, <1>2, <1>3, SkipGrows DEF TypeInv, SomeWalk
  <2> QED BY <1>1, <1>2, <1>3, <2>1 DEF NewerThan, TypeInv, SomeWalk
<1>4. TypeInv' /\ FormInv'
  BY <1>1, <1>2 DEF TypeInv, FormInv
<1>5. WalkInv'
  BY <1>1, <1>2, <1>3 DEF WalkInv, WalkMissesNothing, TypeInv, SomeWalk
<1>6. ListInv'
  <2>1. ASSUME NEW answer, walk.pc = "asked", Adds(answer) PROVE Adds(answer)'
    <3>1. walk.limit >= 1 /\ walk.page + 1 \in Nat \ {0}
      BY <1>1, <2>1 DEF WalkInv, TypeInv, SomeWalk
    <3>2. NewerThan(walk.page + 1, walk.seen \cup answer)'
      BY <1>2, <1>3, <2>1, <3>1 DEF Adds
    <3> QED BY <1>2, <2>1, <3>2 DEF Adds
  <2> QED BY <1>1, <1>2, <2>1 DEF ListInv
<1> QED BY <1>4, <1>5, <1>6 DEF IndInv

LEMMA AskPreserves ==
  ASSUME IndInv, page = "list", AskPage, UNCHANGED <<form, page>>
  PROVE  IndInv'
<1> DEFINE made == [NoCall EXCEPT !.op = "listJobs"]
           new == Min(Doing("none"))
<1>1. TypeInv /\ FormInv /\ WalkInv /\ ListInv /\ walk.pc = "asking"
  BY DEF IndInv, AskPage
<1>2. made \in Call /\ made.op = "listJobs" /\ made.pc = "sent"
  BY NoCallIsCall DEF Call, Ops
<1> HIDE DEF made
<1>3. calls' = [calls EXCEPT ![new] = made]
  BY DEF AskPage, Send, made
<1> HIDE DEF new
<1>4. /\ calls' \in [Calls -> Call]
      /\ \A f \in Calls : calls'[f] = IF f = new THEN made ELSE calls[f]
  BY <1>1, <1>2, <1>3 DEF TypeInv
<1>5. /\ walk' \in SomeWalk /\ walk'.pc = "asked" /\ walk'.jobs = walk.jobs
      /\ walk'.limit = walk.limit /\ walk'.page = walk.page /\ walk'.first = walk.first
      /\ walk'.seen = walk.seen
  BY <1>1 DEF AskPage, TypeInv, SomeWalk
<1>6. \A f \in Calls : calls[f].op # "listJobs"
  BY <1>1 DEF ListInv
<1>7. TypeInv' /\ FormInv'
  BY <1>1, <1>2, <1>4, <1>5 DEF TypeInv, FormInv
<1>8. WalkInv'
  BY <1>1, <1>5 DEF WalkInv, WalkMissesNothing, NewerThan
<1>9. ListInv'
  BY <1>2, <1>4, <1>5, <1>6 DEF ListInv
<1> QED BY <1>7, <1>8, <1>9 DEF IndInv

\* When the call of the walk lands, there is none in progress.
LEMMA WalkCallOver ==
  ASSUME TypeInv, ListInv, NEW f \in Calls, NEW pc, Lands(f, "listJobs", pc)
  PROVE  /\ OthersOnly
         /\ \A g \in Calls : calls'[g].op # "listJobs"
         /\ walk.pc = "asked"
BY LandsIsOthers, NoCallIsCall DEF Lands, ListInv, TypeInv

LEMMA PageAnsweredPreserves ==
  ASSUME IndInv, NEW f \in Calls, PageAnswered(f), UNCHANGED <<form, page>>
  PROVE  IndInv'
<1>1. TypeInv /\ FormInv /\ WalkInv /\ ListInv
  BY DEF IndInv
<1>2. /\ OthersOnly
      /\ \A g \in Calls : calls'[g].op # "listJobs"
      /\ walk.pc = "asked" /\ calls[f].op = "listJobs"
  BY <1>1, WalkCallOver DEF PageAnswered, Lands
<1>3. /\ FormInv' /\ ListInv' /\ calls' \in [Calls -> Call]
      /\ walk.limit >= 1 /\ walk.first <= walk.jobs /\ NewerThan(walk.page, walk.seen)
  BY <1>1, <1>2 DEF FormInv, ListInv, OthersOnly, WalkInv
<1> DEFINE found == calls[f].answer
<1>4. walk \in SomeWalk /\ found \in SUBSET (Collections \cup Nat)
  BY <1>1 DEF TypeInv, Call
<1> HIDE DEF found
<1>5. CASE calls[f].pc = "ok" /\ found = {} /\ walk' = [walk EXCEPT !.pc = "done"]
  <2>1. 1..walk.first \subseteq walk.seen
    BY <1>1, <1>2, <1>5 DEF ListInv, Adds, found
  <2>2. /\ walk' \in SomeWalk /\ walk'.pc = "done" /\ walk'.jobs = walk.jobs
        /\ walk'.limit = walk.limit /\ walk'.first = walk.first /\ walk'.seen = walk.seen
    BY <1>4, <1>5 DEF SomeWalk
  <2>3. TypeInv'
    BY <1>1, <1>3, <2>2 DEF TypeInv
  <2>4. WalkInv'
    BY <1>3, <2>1, <2>2 DEF WalkInv, WalkMissesNothing
  <2> QED BY <1>3, <2>3, <2>4 DEF IndInv
<1>6. CASE /\ calls[f].pc = "ok"
           /\ walk' = [walk EXCEPT !.pc = "asking", !.page = @ + 1, !.seen = @ \cup found]
  <2>1. NewerThan(walk.page + 1, walk.seen \cup found)
    BY <1>1, <1>2, <1>6 DEF ListInv, Adds, found
  <2>2. /\ walk' \in SomeWalk /\ walk'.pc = "asking" /\ walk'.jobs = walk.jobs
        /\ walk'.limit = walk.limit /\ walk'.first = walk.first
        /\ walk'.page = walk.page + 1 /\ walk'.seen = walk.seen \cup found
    <3>1. walk.seen \cup found \in SUBSET (Collections \cup Nat) /\ walk.page + 1 \in Nat \ {0}
      BY <1>4 DEF SomeWalk
    <3> QED BY <1>4, <1>6, <3>1 DEF SomeWalk
  <2>3. TypeInv'
    BY <1>1, <1>3, <2>2 DEF TypeInv
  <2>4. WalkInv'
    BY <1>3, <2>1, <2>2 DEF WalkInv, WalkMissesNothing, NewerThan
  <2> QED BY <1>3, <2>3, <2>4 DEF IndInv
<1>7. CASE walk' = [walk EXCEPT !.pc = "asking"]
  <2>2. /\ walk' \in SomeWalk /\ walk'.pc = "asking" /\ walk'.jobs = walk.jobs
        /\ walk'.limit = walk.limit /\ walk'.first = walk.first
        /\ walk'.page = walk.page /\ walk'.seen = walk.seen
    BY <1>4, <1>7 DEF SomeWalk
  <2>3. TypeInv'
    BY <1>1, <1>3, <2>2 DEF TypeInv
  <2>4. WalkInv'
    BY <1>3, <2>2 DEF WalkInv, WalkMissesNothing, NewerThan
  <2> QED BY <1>3, <2>3, <2>4 DEF IndInv
<1> QED BY <1>5, <1>6, <1>7 DEF PageAnswered, Lands, found

LEMMA ListPreserves == IndInv /\ UseList /\ UNCHANGED page => IndInv'
BY CreatedPreserves, AskPreserves, PageAnsweredPreserves DEF UseList, ListStep

-----------------------------------------------------------------------------
(* The API *)

LEMMA listJobsPreserves ==
  ASSUME IndInv, NEW f \in Calls, listJobs(f), UNCHANGED <<form, page>>
  PROVE  IndInv'
<1> DEFINE answer == PageOf(walk.page, walk.limit)
<1>1. /\ TypeInv /\ FormInv /\ WalkInv /\ ListInv /\ UNCHANGED walk
      /\ calls[f].op = "listJobs" /\ Answer(f, "ok", answer)
  BY DEF IndInv, listJobs, Arrived
<1>2. walk.pc = "asked"
  BY <1>1 DEF ListInv
<1>3. answer \in SUBSET (Collections \cup Nat) /\ Adds(answer)
  BY <1>1, <1>2, PageAdds
<1> HIDE DEF answer
<1>4. /\ calls'[f] \in Call /\ calls'[f].answer = answer /\ calls'[f].op = "listJobs"
      /\ \A g \in Calls \ {f} : calls'[g] = calls[g]
  BY <1>1, <1>3 DEF Answer, TypeInv, Call
<1>5. calls' \in [Calls -> Call]
  BY <1>1, <1>4 DEF Answer, TypeInv
<1>6. TypeInv' /\ FormInv'
  BY <1>1, <1>4, <1>5 DEF TypeInv, FormInv
<1>7. WalkInv'
  BY <1>1 DEF WalkInv, WalkMissesNothing, NewerThan
<1>8. ListInv'
  <2>1. \A g \in Calls \ {f} : calls[g].op # "listJobs"
    BY <1>1 DEF ListInv
  <2>2. page' = page /\ walk' = walk /\ page = "list"
    BY <1>1 DEF ListInv
  <2> QED BY <1>2, <1>3, <1>4, <2>1, <2>2 DEF ListInv, Adds, NewerThan
<1> QED BY <1>6, <1>7, <1>8 DEF IndInv

LEMMA HandlePreserves ==
  ASSUME IndInv, NEW f \in Calls, Handle(f), UNCHANGED pageVars
  PROVE  IndInv'
<1>1. TypeInv /\ UNCHANGED <<form, walk, page>>
  BY DEF IndInv, pageVars
<1>2. OthersOnly
  <2>1. CASE getCollections(f)
    BY <1>1, <2>1, AnswerIsOthers DEF getCollections, Arrived
  <2>2. CASE createJob(f)
    BY <1>1, <2>2, AnswerIsOthers DEF createJob, Arrived
  <2>3. CASE deleteCollection(f)
    BY <1>1, <2>3, AnswerIsOthers DEF deleteCollection, Arrived
  <2>4. CASE createCollection(f)
    BY <1>1, <2>4, AnswerIsOthers DEF createCollection, Arrived
  <2>5. CASE Refused(f) \/ Lost(f)
    BY <1>1, <2>5, AnswerIsOthers DEF Refused, Lost
  <2> QED BY <2>1, <2>2, <2>3, <2>4, <2>5 DEF Handle
<1> QED BY <1>1, <1>2, OthersPreserve

-----------------------------------------------------------------------------

LEMMA OpenPreserves == IndInv /\ Open => IndInv'
<1> SUFFICES ASSUME IndInv, Open PROVE IndInv'
  OBVIOUS
<1>1. TypeInv /\ FormInv /\ WalkInv /\ ListInv /\ page = "none"
  BY DEF IndInv, Open
<1>2. CASE OpenHome /\ UNCHANGED <<form, walk>>
  <2> DEFINE made == [NoCall EXCEPT !.op = "getCollections"]
  <2>1. made \in Call /\ made.op = "getCollections"
    BY NoCallIsCall DEF Call, Ops
  <2>2. OthersOnly
    BY <1>1, <1>2, <2>1, SendIsOthers DEF OpenHome
  <2> QED BY <1>1, <1>2, <2>2, OthersPreserve
<1>3. CASE OpenForm /\ UNCHANGED <<calls, home, walk>>
  <2>1. TypeInv' /\ FormInv'
    BY <1>1, <1>3, EmptyForm DEF OpenForm, TypeInv, FormInv
  <2>2. WalkInv'
    BY <1>1, <1>3 DEF WalkInv, WalkMissesNothing, NewerThan
  <2>3. ListInv'
    BY <1>1, <1>3 DEF ListInv
  <2> QED BY <2>1, <2>2, <2>3 DEF IndInv
<1>4. CASE OpenList /\ UNCHANGED <<calls, home, form>>
  <2>1. PICK n \in 0..MaxListed, limit \in Limits :
          walk' = [NoWalk EXCEPT !.jobs = n, !.first = n, !.limit = limit, !.pc = "asking"]
    BY <1>4 DEF OpenList
  <2>2. limit \in Nat /\ limit >= 1 /\ n \in Nat
    BY JobListAssumption
  <2>3. /\ walk' \in SomeWalk /\ walk'.jobs = n /\ walk'.first = n /\ walk'.page = 1
        /\ walk'.limit = limit /\ walk'.pc = "asking"
    BY <2>1, <2>2, EmptyWalk DEF SomeWalk
  <2>4. skip(1, limit) = 0
    BY <2>2, SkipGrows
  <2>5. TypeInv' /\ FormInv'
    BY <1>1, <1>4, <2>3 DEF TypeInv, FormInv
  <2>6. WalkInv'
    BY <2>2, <2>3, <2>4 DEF WalkInv, WalkMissesNothing, NewerThan
  <2>7. ListInv'
    BY <1>1, <1>4 DEF ListInv
  <2> QED BY <2>5, <2>6, <2>7 DEF IndInv
<1> QED BY <1>2, <1>3, <1>4 DEF Open

LEMMA LeavePreserves == IndInv /\ Leave => IndInv'
<1> SUFFICES ASSUME Leave PROVE IndInv'
  OBVIOUS
<1>1. calls' \in [Calls -> Call] /\ \A f \in Calls : calls'[f].op = "none"
  BY NoCallIsCall DEF Leave, Forsaken, NoCalls
<1>2. TypeInv' /\ FormInv'
  BY <1>1, EmptyForm, EmptyWalk DEF Leave, TypeInv, FormInv
<1>3. WalkInv' /\ ListInv'
  BY <1>1, EmptyWalk DEF Leave, WalkInv, ListInv, WalkMissesNothing
<1> QED BY <1>2, <1>3 DEF IndInv

LEMMA StepPreserves == IndInv /\ [Next]_vars => IndInv'
<1> SUFFICES ASSUME IndInv, [Next]_vars PROVE IndInv'
  OBVIOUS
<1>1. CASE Open
  BY <1>1, OpenPreserves
<1>2. CASE Leave
  BY <1>2, LeavePreserves
<1>3. CASE Use
  BY <1>3, HomePreserves, FormPreserves, ListPreserves DEF Use
<1>4. CASE Serve
  BY <1>4, HandlePreserves, listJobsPreserves DEF Serve
<1>5. CASE World \/ UNCHANGED vars
  <2>1. UNCHANGED <<calls, form, walk, page>>
    BY <1>5 DEF World, OtherTab, TimePasses, pageVars, vars
  <2> QED BY <2>1, UnchangedIsOthers, OthersPreserve DEF IndInv
<1> QED BY <1>1, <1>2, <1>3, <1>4, <1>5 DEF Next

LEMMA Invariance == Spec => []IndInv
BY InitEstablishes, StepPreserves, PTL DEF Spec

-----------------------------------------------------------------------------

\* Whatever is done to the rows of the form, before and during a submission, it
\* submits at least one row, and the rows in the order of their indexes.
\* (addRequest, removeRequest and handleSubmit.)
THEOREM SubmitsNumberedRows == Spec => []RowsNumbered
<1>1. IndInv => RowsNumbered
  BY DEF IndInv, FormInv, Numbered, RowsNumbered, Doing
<1> QED BY <1>1, Invariance, PTL

\* A walk through the list misses no job that was there when it began, for any
\* limit that is asked for and any number of jobs created meanwhile.
\* (listJobs: the skip is computed from the limit that is applied.)
THEOREM WalksAreComplete == Spec => []WalkMissesNothing
<1>1. IndInv => WalkMissesNothing
  BY DEF IndInv, WalkInv
<1> QED BY <1>1, Invariance, PTL

-----------------------------------------------------------------------------
(* How many jobs are let through *)

\* What the window that is open has let through, and the one before it.
Current == {c \in created : c[1] + creation.left <= Window}
Former == created \ Current

\* The first call of a window is let through as long as there is a maximum.  So
\* when the window is over, one of its calls is too old to count, and as long as
\* the next one is open, no call of a third is young enough to.
LimiterInv ==
  /\ creation \in Counter(MaxJobs)
  /\ created \subseteq Ages \X (1..MaxJobs)
  /\ creation.left = 0 => /\ creation.hits = 0
                          /\ \A c \in created : c[1] > 0
                          /\ Cardinality(created) < MaxJobs
  /\ creation.left > 0 => /\ <<Window - creation.left, 1>> \in created
                          /\ creation.hits > 0
                          /\ \A c \in Current : c[2] <= creation.hits
                          /\ Cardinality(Current) <= creation.hits
                          /\ Cardinality(Current) <= MaxJobs
                          /\ Cardinality(Former) < MaxJobs

LEMMA CallsFinite ==
  ASSUME NEW S, S \subseteq Ages \X (1..MaxJobs)
  PROVE  IsFiniteSet(S) /\ Cardinality(S) \in Nat
<1>1. IsFiniteSet(Ages) /\ IsFiniteSet(1..MaxJobs)
  BY RateLimiterAssumption, FS_Interval DEF Ages
<1>2. IsFiniteSet(Ages \X (1..MaxJobs))
  BY <1>1, FS_Product
<1> QED BY <1>2, FS_Subset, FS_CardinalityType

\* Calls that have grown a tick older have not become more.
LEMMA OlderAreNoMore ==
  ASSUME NEW S, S \subseteq Ages \X (1..MaxJobs),
         NEW T, T \subseteq Ages \X (1..MaxJobs),
         \A c \in T : <<c[1] - 1, c[2]>> \in S
  PROVE  Cardinality(T) <= Cardinality(S)
<1> DEFINE younger == [c \in T |-> <<c[1] - 1, c[2]>>]
<1>1. \A c, d \in T : <<c[1] - 1, c[2]>> = <<d[1] - 1, d[2]>> => c = d
  BY DEF Ages
<1>2. younger \in Injection(T, S)
  BY <1>1 DEF Injection, IsInjective
<1> QED BY <1>2, CallsFinite, FS_Injection

LEMMA LimiterStarts == Init => LimiterInv
<1> SUFFICES ASSUME Init PROVE LimiterInv
  OBVIOUS
<1>1. creation = [hits |-> 0, left |-> 0] /\ created = {}
  BY DEF Init, CallsInit, LimiterInit, Expired
<1> QED BY <1>1, RateLimiterAssumption, FS_EmptySet DEF LimiterInv, Counter

LEMMA AdmitPreservesLimiter == LimiterInv /\ AdmitCreation => LimiterInv'
<1> SUFFICES ASSUME LimiterInv, AdmitCreation PROVE LimiterInv'
  OBVIOUS
<1> DEFINE new == <<0, creation'.hits>>
<1>1. /\ creation' = Counted(creation, MaxJobs) /\ ~Over(creation', MaxJobs)
      /\ created' = created \cup {new}
  BY DEF AdmitCreation, CountCreation
<1>2. creation \in Counter(MaxJobs) /\ created \subseteq Ages \X (1..MaxJobs)
  BY DEF LimiterInv
<1>3. CASE creation.left = 0
  <2>1. creation' = [hits |-> 1, left |-> Window]
    BY <1>1, <1>3 DEF Counted
  <2>2. creation' \in Counter(MaxJobs) /\ created' \subseteq Ages \X (1..MaxJobs)
    BY <1>1, <1>2, <2>1, RateLimiterAssumption DEF Counter, Ages
  <2>3. Current' = {<<0, 1>>} /\ Former' = created
    BY <1>1, <1>2, <1>3, <2>1, RateLimiterAssumption DEF LimiterInv, Current, Former, Ages
  <2>4. Cardinality(Current') = 1
    BY <2>3, FS_Singleton
  <2>5. Cardinality(Former') < MaxJobs
    BY <1>3, <2>3 DEF LimiterInv
  <2> QED BY <1>1, <2>1, <2>2, <2>3, <2>4, <2>5, RateLimiterAssumption DEF LimiterInv
<1>4. CASE creation.left > 0
  <2>1. /\ creation'.hits = creation.hits + 1 /\ creation'.left = creation.left
        /\ creation'.hits <= MaxJobs /\ creation' \in Counter(MaxJobs)
        /\ creation.hits \in Nat /\ creation.left \in 1..Window
    BY <1>1, <1>2, <1>4, RateLimiterAssumption DEF Counted, Over, Counter
  <2>2. new \in Ages \X (1..MaxJobs)
    BY <2>1, RateLimiterAssumption DEF Ages
  <2>3. Current' = Current \cup {new} /\ Former' = Former
    <3>1. Current' = {c \in created \cup {new} : c[1] + creation.left <= Window}
      BY <1>1, <2>1 DEF Current
    <3>2. new[1] + creation.left <= Window
      BY <2>1, RateLimiterAssumption
    <3>3. Current' = Current \cup {new}
      BY <3>1, <3>2 DEF Current
    <3>4. new \in created => new \in Current
      BY <3>2 DEF Current
    <3> QED BY <1>1, <3>3, <3>4 DEF Former
  <2>4. /\ IsFiniteSet(Current) /\ Cardinality(Current) \in Nat
    BY <1>2, CallsFinite DEF Current
  <2>5. Cardinality(Current') <= Cardinality(Current) + 1
    <3> HIDE DEF new
    <3>1. Cardinality(Current \cup {new}) =
            IF new \in Current THEN Cardinality(Current) ELSE Cardinality(Current) + 1
      BY <2>4, FS_AddElement
    <3> QED BY <2>3, <2>4, <3>1
  <2>6. Cardinality(Current') \in Nat
    BY <2>2, <2>3, <1>2, CallsFinite DEF Current
  <2>7. Cardinality(Current) <= creation.hits
    BY <1>4 DEF LimiterInv
  <2>8. Cardinality(Current') <= creation'.hits /\ Cardinality(Current') <= MaxJobs
    BY <2>1, <2>4, <2>5, <2>6, <2>7, RateLimiterAssumption
  <2>9. \A c \in Current' : c[2] <= creation'.hits
    BY <1>4, <1>2, <2>1, <2>3 DEF LimiterInv, Current
  <2> QED BY <1>1, <1>2, <1>4, <2>1, <2>2, <2>3, <2>8, <2>9 DEF LimiterInv
<1> QED BY <1>2, <1>3, <1>4 DEF Counter


\* A set of calls counts each that is let through: none has the age and the
\* number of an earlier one.
LEMMA EveryCallIsNew == LimiterInv /\ AdmitCreation => <<0, creation'.hits>> \notin created
<1> SUFFICES ASSUME LimiterInv, AdmitCreation, <<0, creation'.hits>> \in created PROVE FALSE
  OBVIOUS
<1>1. /\ creation' = Counted(creation, MaxJobs) /\ ~Over(creation', MaxJobs)
      /\ creation \in Counter(MaxJobs)
  BY DEF AdmitCreation, CountCreation, LimiterInv
<1>2. CASE creation.left = 0
  BY <1>2 DEF LimiterInv
<1>3. CASE creation.left > 0
  <2>1. creation'.hits = creation.hits + 1 /\ creation.hits \in Nat /\ creation.left \in 1..Window
    BY <1>1, <1>3, RateLimiterAssumption DEF Counted, Over, Counter
  <2>2. <<0, creation'.hits>> \in Current
    BY <2>1, RateLimiterAssumption DEF Current
  <2> QED BY <1>3, <2>1, <2>2 DEF LimiterInv
<1> QED BY <1>1, <1>2, <1>3 DEF Counter

LEMMA RefusePreservesLimiter ==
  ASSUME LimiterInv, CountCreation, Over(creation', MaxJobs), UNCHANGED created
  PROVE  LimiterInv'
<1>1. /\ creation' = Counted(creation, MaxJobs) /\ creation'.hits > MaxJobs
      /\ creation \in Counter(MaxJobs)
  BY DEF CountCreation, LimiterInv, Over
<1>2. creation.left > 0
  BY <1>1, RateLimiterAssumption DEF Counted, Counter
<1>3. /\ creation' \in Counter(MaxJobs) /\ creation'.left = creation.left
      /\ creation.hits \in Nat /\ creation'.hits \in Nat /\ creation.hits <= creation'.hits
  BY <1>1, <1>2, RateLimiterAssumption DEF Counted, Counter
<1>4. created \subseteq Ages \X (1..MaxJobs)
  BY DEF LimiterInv
<1>5. Current' = Current /\ Former' = Former
  BY <1>3 DEF Current, Former
<1>6. Cardinality(Current) \in Nat
  BY <1>4, CallsFinite DEF Current
<1>7. /\ Cardinality(Current') <= creation'.hits
      /\ \A c \in Current' : c[2] <= creation'.hits
  BY <1>2, <1>3, <1>4, <1>5, <1>6 DEF LimiterInv, Current
<1> QED BY <1>1, <1>2, <1>3, <1>4, <1>5, <1>7, RateLimiterAssumption DEF LimiterInv

LEMMA TickPreservesLimiter == LimiterInv /\ Tick => LimiterInv'
<1> SUFFICES ASSUME LimiterInv, Tick PROVE LimiterInv'
  OBVIOUS
<1> DEFINE older(S) == {c \in Ages \X (1..MaxJobs) : <<c[1] - 1, c[2]>> \in S}
<1>1. creation \in Counter(MaxJobs) /\ created \subseteq Ages \X (1..MaxJobs)
  BY DEF LimiterInv
<1>2. creation' = Left(creation) /\ created' = older(created)
  BY DEF Tick
<1>3. creation.left \in 0..Window /\ creation.hits \in 0..(MaxJobs + 1) /\ Window \in Nat \ {0}
  BY <1>1, RateLimiterAssumption DEF Counter
<1>4. \A c \in created' : c[1] > 0
  BY <1>1, <1>2 DEF Ages
<1>5. /\ Cardinality(created') <= Cardinality(created)
      /\ Cardinality(created') \in Nat /\ Cardinality(created) \in Nat
  BY <1>1, <1>2, OlderAreNoMore, CallsFinite
<1>6. CASE creation.left <= 1
  <2>1. creation' = [hits |-> 0, left |-> 0]
    BY <1>2, <1>6 DEF Left, Expired
  <2>2. Cardinality(created') < MaxJobs
    <3>1. CASE creation.left = 0
      BY <1>5, <3>1, RateLimiterAssumption DEF LimiterInv
    <3>2. CASE creation.left = 1
      <4> DEFINE first == <<Window - 1, 1>>
      <4>1. first \in created
        BY <3>2 DEF LimiterInv
      <4>2. Current = created
        BY <1>1, <1>3, <3>2 DEF Current, Ages
      <4>3. \A c \in created' : <<c[1] - 1, c[2]>> \in created \ {first}
        BY <1>2, <1>3 DEF Ages
      <4>4. Cardinality(created') <= Cardinality(created \ {first})
        BY <1>1, <1>2, <4>3, OlderAreNoMore
      <4>5. Cardinality(created \ {first}) = Cardinality(created) - 1
        <5> HIDE DEF first
        <5> QED BY <1>1, <4>1, CallsFinite, FS_RemoveElement
      <4>6. Cardinality(created) <= MaxJobs
        BY <3>2, <4>2 DEF LimiterInv
      <4> QED BY <1>5, <4>4, <4>5, <4>6, RateLimiterAssumption
    <3> QED BY <1>3, <1>6, <3>1, <3>2
  <2> QED BY <1>2, <1>4, <2>1, <2>2, RateLimiterAssumption DEF LimiterInv, Counter
<1>7. CASE creation.left > 1
  <2>1. creation'.left = creation.left - 1 /\ creation'.hits = creation.hits /\ creation' \in Counter(MaxJobs)
    BY <1>1, <1>2, <1>3, <1>7 DEF Left, Counter
  <2>2. \A c \in Current' : <<c[1] - 1, c[2]>> \in Current
    BY <1>2, <1>3, <2>1 DEF Current, Ages
  <2>3. \A c \in Former' : <<c[1] - 1, c[2]>> \in Former
    BY <1>2, <1>3, <2>1 DEF Current, Former, Ages
  <2>4. /\ Current \subseteq Ages \X (1..MaxJobs) /\ Current' \subseteq Ages \X (1..MaxJobs)
        /\ Former \subseteq Ages \X (1..MaxJobs) /\ Former' \subseteq Ages \X (1..MaxJobs)
    BY <1>1, <1>2 DEF Current, Former
  <2>5. /\ Cardinality(Current') <= Cardinality(Current)
        /\ Cardinality(Former') <= Cardinality(Former)
    BY <2>2, <2>3, <2>4, OlderAreNoMore
  <2>6. /\ Cardinality(Current) \in Nat /\ Cardinality(Current') \in Nat
        /\ Cardinality(Former) \in Nat /\ Cardinality(Former') \in Nat
    BY <2>4, CallsFinite
  <2>7. <<Window - creation'.left, 1>> \in created'
    <3>1. <<Window - creation.left, 1>> \in created
      BY <1>3, <1>7 DEF LimiterInv
    <3>2. Window - creation'.left - 1 = Window - creation.left /\ Window - creation'.left \in Ages
      BY <1>3, <1>7, <2>1 DEF Ages
    <3>3. 1 \in 1..MaxJobs
      BY RateLimiterAssumption
    <3> QED BY <1>2, <3>1, <3>2, <3>3
  <2>8. \A c \in Current' : c[2] <= creation'.hits
    <3>1. \A c \in Current : c[2] <= creation.hits
      BY <1>3, <1>7 DEF LimiterInv
    <3> SUFFICES ASSUME NEW c \in Current' PROVE c[2] <= creation.hits
      BY <2>1
    <3>2. <<c[1] - 1, c[2]>> \in Current
      BY <2>2
    <3> QED BY <3>1, <3>2
  <2> QED BY <1>2, <1>3, <1>7, <2>1, <2>5, <2>6, <2>7, <2>8, RateLimiterAssumption DEF LimiterInv
<1> QED BY <1>3, <1>6, <1>7


\* What a step does to the limiter of job creations.
LEMMA LimiterSteps ==
  ASSUME [Next]_vars
  PROVE  \/ UNCHANGED <<creation, created>>
         \/ AdmitCreation \/ Tick
         \/ CountCreation /\ Over(creation', MaxJobs) /\ UNCHANGED created
<1>1. CASE Open \/ Leave \/ Use \/ UNCHANGED vars
  BY <1>1 DEF Open, Leave, Use, vars, limiterVars
<1>2. CASE Serve
  <2>1. ASSUME NEW f \in Calls, Handle(f)
        PROVE  UNCHANGED limiterVars \/ AdmitCall \/ AdmitCreation \/ RefuseCall \/ RefuseCreation
    BY <2>1 DEF Handle, getCollections, createJob, deleteCollection, createCollection, Refused, Lost
  <2>2. ASSUME NEW f \in Calls, listJobs(f) PROVE AdmitCall
    BY <2>2 DEF listJobs
  <2> QED BY <1>2, <2>1, <2>2
          DEF Serve, AdmitCall, RefuseCall, CountCall, RefuseCreation, limiterVars
<1>3. CASE World
  BY <1>3 DEF World, OtherTab, TimePasses, AdmitCall, RefuseCall, CountCall, RefuseCreation
<1> QED BY <1>1, <1>2, <1>3 DEF Next

LEMMA LimiterPreserved == LimiterInv /\ [Next]_vars => LimiterInv'
<1>1. LimiterInv /\ UNCHANGED <<creation, created>> => LimiterInv'
  BY DEF LimiterInv, Current, Former
<1> QED BY <1>1, LimiterSteps, AdmitPreservesLimiter, RefusePreservesLimiter, TickPreservesLimiter

\* In any interval as long as a window, fewer than twice the maximum of POST /jobs
\* are let through, for any window and maximum, and however the calls are spread.
\* (jobCreationLimiter: windows of its own, each begun by the first call after
\* the end of the last.)
THEOREM CreationsAreBounded == Spec => []CreationBounded
<1>1. LimiterInv => CreationBounded
  <2> SUFFICES ASSUME LimiterInv PROVE CreationBounded
    OBVIOUS
  <2>1. creation.left \in Nat
    BY RateLimiterAssumption DEF LimiterInv, Counter
  <2>2. created \subseteq Ages \X (1..MaxJobs)
    BY DEF LimiterInv
  <2>3. IsFiniteSet(Current) /\ Cardinality(Current) \in Nat
        /\ IsFiniteSet(Former) /\ Cardinality(Former) \in Nat
    BY <2>2, CallsFinite DEF Current, Former
  <2>4. Current \cup Former = created /\ Current \cap Former = {}
    BY DEF Current, Former
  <2>5. Cardinality(created) = Cardinality(Current) + Cardinality(Former)
    BY <2>3, <2>4, FS_Union, FS_EmptySet
  <2>6. CASE creation.left = 0
    BY <2>2, <2>6, CallsFinite, RateLimiterAssumption DEF LimiterInv, CreationBounded
  <2>7. CASE creation.left > 0
    BY <2>3, <2>5, <2>7, RateLimiterAssumption DEF LimiterInv, CreationBounded
  <2> QED BY <2>1, <2>6, <2>7
<1> QED BY <1>1, LimiterStarts, LimiterPreserved, PTL DEF Spec

=============================================================================
