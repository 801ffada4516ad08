----------------------------- MODULE PageProofs -----------------------------
(***************************************************************************)
(* The invariants of JobDetailPage hold for any number of overlapping      *)
(* fetches and of errors.                                                  *)
(***************************************************************************)
EXTENDS JobDetailPage, TLAPS

\* A call is answered with a stage between that of its making and the present one.
ReadsBetween(r) ==
  /\ r.began <= stage
  /\ \A part \in Parts : r.read[part] # Unknown => r.began <= r.read[part] /\ r.read[part] <= stage

\* As long as the first fetch is in progress, the page is loading, there is no
\* timer, and hence no other fetch.
InitAlone(f) ==
  fetch[f].by = "init" =>
    /\ loading /\ interval = "unset"
    /\ \A g \in Fetches \ {f} : fetch[g].by = "nobody"

FetchInv ==
  \A f \in Fetches : /\ fetch[f].by = "nobody" <=> fetch[f] = Idle
                     /\ ReadsBetween(fetch[f])
                     /\ InitAlone(f)

IndInv == TypeOK /\ FetchInv /\ StopsOnlyAtTheEnd /\ LeftPagesStop /\ ShownIsOneFetch

USE JobDetailPageAssumption

LEMMA BegunIsFetch ==
  ASSUME NEW who \in {"init", "tick", "nobody"}, NEW v \in Stages
  PROVE  /\ Begun(who, v) \in Fetch
         /\ Begun(who, v).by = who
         /\ Begun(who, v).began = v
         /\ \A part \in Parts : Begun(who, v).read[part] = Unknown
BY DEF Begun, Fetch, Stages, Unknown, Parts

\* An idle fetch has been told nothing, whatever the stage.
LEMMA IdleIsFetch ==
  /\ Idle \in Fetch /\ Idle.by = "nobody" /\ Idle.began = 0
  /\ \A part \in Parts : Idle.read[part] = Unknown
BY BegunIsFetch DEF Idle, Stages

LEMMA InitEstablishes == Init => IndInv
<1> SUFFICES ASSUME Init PROVE IndInv
  OBVIOUS
<1>1. PICK f \in Fetches : fetch = [g \in Fetches |-> IF g = f THEN Begun("init", stage) ELSE Idle]
  BY DEF Init
<1>2. TypeOK
  BY <1>1, BegunIsFetch, IdleIsFetch DEF Init, TypeOK, Nothing
<1>3. FetchInv
  <2> SUFFICES ASSUME NEW g \in Fetches
               PROVE  /\ fetch[g].by = "nobody" <=> fetch[g] = Idle
                      /\ ReadsBetween(fetch[g]) /\ InitAlone(g)
    BY DEF FetchInv
  <2>1. CASE g = f
    BY <2>1, <1>1, BegunIsFetch, IdleIsFetch DEF Init, ReadsBetween, InitAlone, Stages
  <2>2. CASE g # f
    BY <2>2, <1>1, IdleIsFetch DEF Init, ReadsBetween, InitAlone, Stages
  <2> QED BY <2>1, <2>2
<1>4. StopsOnlyAtTheEnd /\ LeftPagesStop /\ ShownIsOneFetch
  BY DEF Init, StopsOnlyAtTheEnd, LeftPagesStop, ShownIsOneFetch
<1> QED BY <1>2, <1>3, <1>4 DEF IndInv

-----------------------------------------------------------------------------

LEMMA AdvancePreserves == IndInv /\ Advance => IndInv'
<1> SUFFICES ASSUME IndInv, Advance PROVE IndInv'
  OBVIOUS
<1> USE DEF IndInv, Advance
<1>1. TypeOK' /\ stage' \in Stages /\ stage <= stage'
  BY DEF TypeOK, Stages, Ended
<1>2. FetchInv'
  <2> SUFFICES ASSUME NEW f \in Fetches
               PROVE  ReadsBetween(fetch[f])'
    BY DEF FetchInv, InitAlone
  <2>1. fetch[f] \in Fetch /\ ReadsBetween(fetch[f]) /\ stage \in Stages
    BY DEF TypeOK, FetchInv
  <2> QED BY <2>1, <1>1 DEF ReadsBetween, Fetch, Stages, Unknown, Parts
<1>3. StopsOnlyAtTheEnd' /\ LeftPagesStop' /\ ShownIsOneFetch'
  BY DEF StopsOnlyAtTheEnd, LeftPagesStop, ShownIsOneFetch, Ended
<1> QED BY <1>1, <1>2, <1>3

LEMMA UnmountPreserves == IndInv /\ Unmount => IndInv'
<1> SUFFICES ASSUME IndInv, Unmount PROVE IndInv'
  OBVIOUS
<1> USE DEF IndInv, Unmount, cleanup
<1>1. TypeOK'
  BY DEF TypeOK
<1>2. FetchInv'
  BY DEF FetchInv, ReadsBetween, InitAlone
<1>3. StopsOnlyAtTheEnd' /\ LeftPagesStop' /\ ShownIsOneFetch'
  BY DEF StopsOnlyAtTheEnd, LeftPagesStop, ShownIsOneFetch, TypeOK
<1> QED BY <1>1, <1>2, <1>3

LEMMA ServePreserves ==
  ASSUME IndInv, NEW f \in Fetches, NEW part \in Parts, Serve(f, part)
  PROVE  IndInv'
<1> USE DEF IndInv, Serve
<1>1. fetch \in [Fetches -> Fetch] /\ stage \in Stages
  BY DEF TypeOK
<1>2. fetch[f].by # "nobody" /\ ReadsBetween(fetch[f])
  BY DEF FetchInv
<1>3. /\ fetch'[f] \in Fetch
      /\ fetch'[f].by = fetch[f].by /\ fetch'[f].began = fetch[f].began
      /\ fetch'[f].read = [fetch[f].read EXCEPT ![part] = stage]
      /\ \A g \in Fetches \ {f} : fetch'[g] = fetch[g]
  BY <1>1 DEF Fetch, Stages, Unknown
<1>4. TypeOK'
  BY <1>1, <1>3 DEF TypeOK
<1>5. FetchInv'
  <2>1. ReadsBetween(fetch[f])'
    BY <1>1, <1>2, <1>3 DEF ReadsBetween, Fetch, Stages
  <2>2. fetch'[f] # Idle
    BY <1>2, <1>3, IdleIsFetch
  <2>3. \A g \in Fetches : fetch'[g].by = fetch[g].by
    BY <1>3
  <2>4. ASSUME NEW g \in Fetches \ {f} PROVE ReadsBetween(fetch[g])'
    BY <1>3 DEF ReadsBetween, FetchInv
  <2> QED BY <1>2, <1>3, <2>1, <2>2, <2>3, <2>4 DEF FetchInv, InitAlone
<1>6. StopsOnlyAtTheEnd' /\ LeftPagesStop' /\ ShownIsOneFetch'
  BY DEF StopsOnlyAtTheEnd, LeftPagesStop, ShownIsOneFetch
<1> QED BY <1>4, <1>5, <1>6

LEMMA TickPreserves ==
  ASSUME IndInv, NEW f \in Fetches, Tick(f)
  PROVE  IndInv'
<1> USE DEF IndInv, Tick
<1>1. fetch \in [Fetches -> Fetch] /\ stage \in Stages
  BY DEF TypeOK
<1>2. /\ fetch'[f] = Begun("tick", stage)
      /\ \A g \in Fetches \ {f} : fetch'[g] = fetch[g]
  BY <1>1
<1>3. TypeOK'
  BY <1>1, BegunIsFetch DEF TypeOK
<1>4. \A g \in Fetches : fetch[g].by # "init"
  BY DEF FetchInv, InitAlone
<1>5. FetchInv'
  <2>1. ReadsBetween(fetch[f])' /\ fetch'[f].by = "tick" /\ fetch'[f] # Idle
    BY <1>1, <1>2, BegunIsFetch, IdleIsFetch DEF ReadsBetween, Stages
  <2>2. ASSUME NEW g \in Fetches \ {f} PROVE ReadsBetween(fetch[g])'
    BY <1>2 DEF ReadsBetween, FetchInv
  <2> QED BY <1>2, <1>4, <2>1, <2>2 DEF FetchInv, InitAlone
<1>6. StopsOnlyAtTheEnd' /\ LeftPagesStop' /\ ShownIsOneFetch'
  BY DEF StopsOnlyAtTheEnd, LeftPagesStop, ShownIsOneFetch
<1> QED BY <1>3, <1>5, <1>6

\* A fetch that has ended leaves the others as they were, and no first fetch
\* is in progress after it has.
LEMMA FetchOver ==
  ASSUME TypeOK, FetchInv, NEW f \in Fetches, fetch[f] # Idle,
         fetch' = [fetch EXCEPT ![f] = Idle], UNCHANGED stage
  PROVE  /\ fetch' \in [Fetches -> Fetch]
         /\ FetchInv'
<1>1. fetch \in [Fetches -> Fetch] /\ stage \in Stages
  BY DEF TypeOK
<1>2. /\ fetch'[f] = Idle
      /\ \A g \in Fetches \ {f} : fetch'[g] = fetch[g] /\ fetch[g].by # "init"
  BY <1>1, IdleIsFetch DEF FetchInv, InitAlone
<1>3. ASSUME NEW g \in Fetches PROVE ReadsBetween(fetch[g])'
  <2>1. CASE g = f
    BY <2>1, <1>1, <1>2, IdleIsFetch DEF ReadsBetween, Stages
  <2>2. CASE g # f
    BY <2>2, <1>2 DEF ReadsBetween, FetchInv
  <2> QED BY <2>1, <2>2
<1> QED BY <1>1, <1>2, <1>3, IdleIsFetch DEF FetchInv, InitAlone

LEMMA RejectPreserves ==
  ASSUME IndInv, NEW f \in Fetches, Reject(f)
  PROVE  IndInv'
<1> USE DEF IndInv, Reject
<1>1. fetch' \in [Fetches -> Fetch] /\ FetchInv'
  BY FetchOver
<1>2. TypeOK'
  BY <1>1 DEF TypeOK
<1>3. StopsOnlyAtTheEnd' /\ LeftPagesStop' /\ ShownIsOneFetch'
  BY DEF StopsOnlyAtTheEnd, LeftPagesStop, ShownIsOneFetch, TypeOK
<1> QED BY <1>1, <1>2, <1>3

LEMMA LandPreserves ==
  ASSUME IndInv, NEW f \in Fetches, Land(f)
  PROVE  IndInv'
<1> USE DEF IndInv, Land
<1>1. fetch' \in [Fetches -> Fetch] /\ FetchInv'
  BY FetchOver
<1>2. /\ fetch[f] \in Fetch /\ fetch[f].by # "nobody" /\ ReadsBetween(fetch[f])
      /\ \A part \in Parts : fetch[f].read[part] # Unknown
  BY DEF TypeOK, FetchInv, Answered
<1>3. interval' \in {"unset", "set", "cleared"}
  BY DEF TimerAfter, TypeOK
<1>4. TypeOK'
  BY <1>1, <1>2, <1>3 DEF TypeOK
<1>5. fetch[f].began <= fetch[f].read["job"] /\ fetch[f].read["job"] <= stage
  BY <1>2 DEF ReadsBetween, Parts
<1>6. StopsOnlyAtTheEnd'
  <2> SUFFICES ASSUME mounted', interval' = "cleared" PROVE Ended(stage)'
    BY DEF StopsOnlyAtTheEnd
  <2>1. CASE interval = "cleared"
    BY <2>1 DEF StopsOnlyAtTheEnd
  <2>2. CASE interval # "cleared"
    <3>1. ~InProgress(fetch[f].read["job"])
      BY <2>2 DEF TimerAfter
    <3> QED BY <3>1, <1>5 DEF InProgress, Ended, TypeOK, Stages
  <2> QED BY <2>1, <2>2
<1>7. LeftPagesStop'
  <2> SUFFICES ASSUME ~mounted, interval' = "set" PROVE loading
    BY DEF LeftPagesStop, TypeOK
  <2>1. CASE interval = "set"
    BY <2>1 DEF LeftPagesStop
  <2>2. CASE interval # "set"
    <3>1. fetch[f].by = "init"
      BY <2>2 DEF TimerAfter
    <3> QED BY <3>1 DEF FetchInv, InitAlone
  <2> QED BY <2>1, <2>2
<1>8. ShownIsOneFetch'
  BY <1>2 DEF ShownIsOneFetch, ReadsBetween, Fetch, Stages
<1> QED BY <1>1, <1>4, <1>6, <1>7, <1>8

LEMMA StepPreserves == IndInv /\ [Next]_vars => IndInv'
<1> SUFFICES ASSUME IndInv, [Next]_vars PROVE IndInv'
  OBVIOUS
<1>1. CASE Advance
  BY <1>1, AdvancePreserves
<1>2. CASE Unmount
  BY <1>2, UnmountPreserves
<1>3. CASE \E f \in Fetches : Land(f)
  BY <1>3, LandPreserves
<1>4. CASE \E f \in Fetches : Reject(f)
  BY <1>4, RejectPreserves
<1>5. CASE \E f \in Fetches : Tick(f)
  BY <1>5, TickPreserves
<1>6. CASE \E f \in Fetches, part \in Parts : Serve(f, part)
  BY <1>6, ServePreserves
<1>7. CASE UNCHANGED vars
  BY <1>7 DEF vars, IndInv, TypeOK, FetchInv, ReadsBetween, InitAlone, StopsOnlyAtTheEnd,
              LeftPagesStop, ShownIsOneFetch
<1> QED BY <1>1, <1>2, <1>3, <1>4, <1>5, <1>6, <1>7 DEF Next

LEMMA Invariance == Spec => []IndInv
BY InitEstablishes, StepPreserves, PTL DEF Spec

-----------------------------------------------------------------------------

\* The page's variables are well typed.  (page.jsx: fetches, timer and errors.)
THEOREM TypeCorrect == Spec => []TypeOK
BY Invariance, PTL DEF IndInv

\* What is on the screen was read by one fetch, after it began, whatever else
\* was in progress.  (fetchAll: Promise.all, and its three setters.)
THEOREM OneFetchIsShown == Spec => []ShownIsOneFetch
BY Invariance, PTL DEF IndInv

\* A page that is there stops its timer only when the job has ended: of the
\* fetches that overlap, each was told no more than the database holds.
\* (init and its interval.)
THEOREM StopsAtTheEnd == Spec => []StopsOnlyAtTheEnd
BY Invariance, PTL DEF IndInv

\* The only timer that outlives its page is that of a page that was left while
\* it was loading.  (The cleanup of the effect.)
THEOREM OnlyLoadingLeaks == Spec => []LeftPagesStop
BY Invariance, PTL DEF IndInv

=============================================================================
