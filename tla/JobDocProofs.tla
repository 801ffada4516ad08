---------------------------- MODULE JobDocProofs ----------------------------
(***************************************************************************)
(* Proofs about what an execution leaves in the documents of its job, for  *)
(* every number of jobs, requests, workers, rejected calls and crashes, as *)
(* long as no lock expires under a live worker.                            *)
(***************************************************************************)
EXTENDS JobProofs, FiniteSetTheorems

-----------------------------------------------------------------------------
(* The invariant *)

RequestEvents == {"REQUEST_STARTED", "REQUEST_COMPLETED", "REQUEST_FAILED", "REQUEST_SKIPPED",
                  "VAR_EXTRACTED"}

\* The result of the p-th request.
Res(doc, p) == doc.results[Snapshot[p]]
AllRes(doc, statuses) == \A p \in Positions : Res(doc, p) \in statuses

\* Nothing of the job has been executed.
Untouched(doc) ==
  /\ \A i \in Indexes : doc.results[i] \in {"none", "PENDING"}
  /\ \A ev \in RequestEvents : Logged(doc, ev) = {}
  /\ doc.vars = {}

StartsOnce(doc) ==
  \A k, l \in 1..Len(doc.logs) :
    /\ doc.logs[k].event = "REQUEST_STARTED" /\ doc.logs[l].event = "REQUEST_STARTED"
    /\ doc.logs[k].req = doc.logs[l].req
    => k = l

\* What an event in the log says of the result it is about.
EventsTrue(doc) ==
  /\ \A i \in Logged(doc, "REQUEST_STARTED") : doc.results[i] \in {"RUNNING", "COMPLETED", "FAILED"}
  /\ \A i \in Logged(doc, "REQUEST_COMPLETED") : doc.results[i] = "COMPLETED"
  /\ \A i \in Logged(doc, "REQUEST_FAILED") : doc.results[i] = "FAILED"
  /\ \A i \in Logged(doc, "REQUEST_SKIPPED") : doc.results[i] = "SKIPPED"

SkipsAfterFailure(doc, sequential) ==
  \A p \in Positions :
    /\ Res(doc, p) = "SKIPPED" => sequential /\ \E q \in 1..(p - 1) : Res(doc, q) = "FAILED"
    /\ sequential /\ Res(doc, p) = "FAILED" =>
         \A q \in (p + 1)..Len(Snapshot) : Res(doc, q) \in {"PENDING", "SKIPPED"}

\* The verdict that st would be on the results of a document.
Deserved(doc, st) ==
  /\ st = "COMPLETED" => AllRes(doc, {"COMPLETED"})
  /\ st = "PARTIAL" => /\ AllRes(doc, Settled)
                       /\ ~AllRes(doc, {"COMPLETED"}) /\ ~AllRes(doc, {"FAILED"})

\* The verdict that deriveJobStatus comes to.
Derived(doc, st) == Deserved(doc, st) /\ (st = "FAILED" => AllRes(doc, {"FAILED"}))

GoodDoc(doc, sequential) ==
  /\ doc.status \in {"none", "PENDING"} => Untouched(doc)
  /\ StartsOnce(doc)
  /\ EventsTrue(doc)
  /\ SkipsAfterFailure(doc, sequential)
  /\ Deserved(doc, doc.status)
  /\ doc.status \in {"COMPLETED", "PARTIAL"} => doc.vars = Logged(doc, "VAR_EXTRACTED")

Skipping == {"skipResult", "logSkip"}
Sending == {"startResult", "logStart", "executeRequest", "logVar", "persistResult", "logOutcome"}
AfterLoop == {"persistVars", "derive", "persistStatus", "logFinal"}

FailedBefore(doc, p) == \E q \in 1..(p - 1) : Res(doc, q) = "FAILED"

\* An execution is at request p of the loop: what comes before has its
\* verdict, what comes after is untouched, and abort says whether one before
\* p failed in a sequential job.
AtRequest(e, doc) ==
  /\ \A q \in Positions : /\ q < e.pos => Res(doc, q) \in Settled
                          /\ q > e.pos => Res(doc, q) = "PENDING"
  /\ e.stubs = Indexes
  /\ e.abort = (e.job \in Sequential /\ FailedBefore(doc, e.pos))

\* The result of the request at hand, at each of the calls made for it.
AtCall(e, doc) ==
  LET i == Snapshot[e.pos] IN
  /\ e.pc \in {"skipResult", "startResult"} => doc.results[i] = "PENDING"
  /\ e.pc = "logSkip" => doc.results[i] = "SKIPPED"
  /\ e.pc \in {"logStart", "executeRequest", "logVar", "persistResult"} => doc.results[i] = "RUNNING"
  /\ e.pc = "logStart" => i \notin Logged(doc, "REQUEST_STARTED")
  /\ e.pc = "logOutcome" => doc.results[i] = e.outcome

\* The variables an execution has in memory are those it has logged, but for
\* the one it is about to log.
VarsLogged(e, doc) ==
  e.vars = Logged(doc, "VAR_EXTRACTED") \cup (IF e.pc = "logVar" THEN {Snapshot[e.pos]} ELSE {})

\* An execution and the document it works on.
SlotDoc(e, doc) ==
  /\ e.pc = "markRunning" => doc.status = "PENDING"
  /\ e.pc \in {"findJob", "markRunning", "logStarted", "findStubs"} => ~e.abort /\ e.vars = {}
  /\ e.pc \in {"logStarted", "findStubs"} => doc.status = "RUNNING" /\ Untouched(doc)
  /\ e.pc \in Skipping \cup Sending => /\ doc.status = "RUNNING"
                                       /\ AtRequest(e, doc) /\ AtCall(e, doc)
                                       /\ e.abort <=> e.pc \in Skipping
  /\ e.pc \in Skipping \cup Sending \cup AfterLoop => VarsLogged(e, doc)
  /\ e.pc \in AfterLoop => AllRes(doc, Settled)
  /\ e.pc \in {"persistVars", "derive", "persistStatus"} => doc.status = "RUNNING"
  /\ e.pc \in {"derive", "persistStatus"} => doc.vars = e.vars
  /\ e.pc = "persistStatus" => Derived(doc, e.final)

\* A handler has its job to itself until the job is queued.
HandlersAlone ==
  \A j \in Jobs : api[j] \in {"idle"} \cup InHandler =>
    /\ bull[j].state = "absent"
    /\ db[j].status = IF api[j] = "idle" THEN "none" ELSE "PENDING"

HistoryInv ==
  /\ \A j \in Jobs : GoodDoc(db[j], j \in Sequential)
  /\ \A s \in Slots : Busy(s) => SlotDoc(exec[s], db[JobOf(s)])
  /\ HandlersAlone

-----------------------------------------------------------------------------
(* New versions of a document *)

LEMMA LogAppended ==
  ASSUME NEW doc \in JobDoc, NEW ev \in LogEvents, NEW i \in Indexes \cup {NoIndex}
  PROVE  LET new == WithLog(doc, ev, i) IN
         /\ new \in JobDoc
         /\ new.status = doc.status /\ new.results = doc.results /\ new.vars = doc.vars
         /\ \A ev2 : Logged(new, ev2) = Logged(doc, ev2) \cup (IF ev2 = ev THEN {i} ELSE {})
         /\ StartsOnce(doc) /\ (ev = "REQUEST_STARTED" => i \notin Logged(doc, ev)) => StartsOnce(new)
<1> DEFINE new == WithLog(doc, ev, i)
           entry == [event |-> ev, req |-> i]
           n == Len(doc.logs)
<1>1. new \in JobDoc
  BY DocTypes
<1>2. /\ new.status = doc.status /\ new.results = doc.results /\ new.vars = doc.vars
      /\ new.logs = Append(doc.logs, entry)
  BY DEF WithLog, JobDoc
<1>3. doc.logs \in Seq(LogEntry) /\ entry \in LogEntry
  BY DEF JobDoc, LogEntry
<1>4. /\ n \in Nat /\ Len(new.logs) = n + 1
      /\ new.logs[n + 1] = entry /\ \A k \in 1..n : new.logs[k] = doc.logs[k]
  BY <1>2, <1>3, AppendProperties, LenProperties
<1>5. ASSUME NEW ev2
      PROVE  Logged(new, ev2) = Logged(doc, ev2) \cup (IF ev2 = ev THEN {i} ELSE {})
  <2>1. 1..(n + 1) = 1..n \cup {n + 1} /\ (n + 1) \notin 1..n
    BY <1>4
  <2>2. \A x : x \in Logged(new, ev2) <=>
                 \E k \in 1..(n + 1) : new.logs[k].event = ev2 /\ new.logs[k].req = x
    BY <1>4 DEF Logged
  <2>3. \A x : x \in Logged(doc, ev2) <=>
                 \E k \in 1..n : doc.logs[k].event = ev2 /\ doc.logs[k].req = x
    BY DEF Logged
  <2>4. entry.event = ev /\ entry.req = i
    OBVIOUS
  <2>5. \A x : x \in Logged(new, ev2) <=> x \in Logged(doc, ev2) \/ (ev2 = ev /\ x = i)
    <3>1. ASSUME NEW x, x \in Logged(new, ev2) PROVE x \in Logged(doc, ev2) \/ (ev2 = ev /\ x = i)
      <4>1. PICK k \in 1..(n + 1) : new.logs[k].event = ev2 /\ new.logs[k].req = x
        BY <2>2, <3>1
      <4>2. CASE k = n + 1
        BY <1>4, <2>4, <4>1, <4>2
      <4>3. CASE k \in 1..n
        BY <1>4, <2>3, <4>1, <4>3
      <4> QED
        BY <2>1, <4>1, <4>2, <4>3
    <3>2. ASSUME NEW x, x \in Logged(doc, ev2) PROVE x \in Logged(new, ev2)
      <4>1. PICK k \in 1..n : doc.logs[k].event = ev2 /\ doc.logs[k].req = x
        BY <2>3, <3>2
      <4>2. k \in 1..(n + 1) /\ new.logs[k].event = ev2 /\ new.logs[k].req = x
        BY <1>4, <2>1, <4>1
      <4> QED
        BY <2>2, <4>2
    <3>3. ASSUME ev2 = ev PROVE i \in Logged(new, ev2)
      <4>1. n + 1 \in 1..(n + 1) /\ new.logs[n + 1].event = ev2 /\ new.logs[n + 1].req = i
        BY <1>4, <2>1, <2>4, <3>3
      <4> QED
        BY <2>2, <4>1
    <3> QED
      BY <3>1, <3>2, <3>3
  <2> QED
    BY <2>5
<1>6. ASSUME StartsOnce(doc), ev = "REQUEST_STARTED" => i \notin Logged(doc, ev)
      PROVE  StartsOnce(new)
  <2>1. ASSUME NEW k \in 1..n, doc.logs[k].event = "REQUEST_STARTED", ev = "REQUEST_STARTED"
        PROVE  doc.logs[k].req # i
    BY <1>6, <2>1 DEF Logged
  <2>2. SUFFICES ASSUME NEW k \in 1..(n + 1), NEW l \in 1..(n + 1), k < l,
                        new.logs[k].event = "REQUEST_STARTED", new.logs[l].event = "REQUEST_STARTED",
                        new.logs[k].req = new.logs[l].req
                 PROVE  FALSE
    BY <1>4 DEF StartsOnce
  <2>3. k \in 1..n /\ new.logs[k] = doc.logs[k]
    BY <1>4, <2>2
  <2>4. CASE l = n + 1
    BY <1>4, <2>1, <2>2, <2>3, <2>4
  <2>5. CASE l \in 1..n
    BY <1>4, <1>6, <2>2, <2>3, <2>5 DEF StartsOnce
  <2> QED
    BY <1>4, <2>4, <2>5
<1> QED
  BY <1>1, <1>2, <1>5, <1>6

\* An event may be logged once it is true.
LEMMA LogKeepsGood ==
  ASSUME NEW doc \in JobDoc, NEW sequential, GoodDoc(doc, sequential),
         NEW ev \in LogEvents, NEW i \in Indexes \cup {NoIndex},
         ev \in RequestEvents => doc.status \notin {"none", "PENDING"},
         ev = "REQUEST_STARTED" => doc.results[i] \in {"RUNNING", "COMPLETED", "FAILED"}
                                   /\ i \notin Logged(doc, ev),
         ev = "REQUEST_COMPLETED" => doc.results[i] = "COMPLETED",
         ev = "REQUEST_FAILED" => doc.results[i] = "FAILED",
         ev = "REQUEST_SKIPPED" => doc.results[i] = "SKIPPED",
         ev = "VAR_EXTRACTED" => doc.status \notin {"COMPLETED", "PARTIAL"}
  PROVE  GoodDoc(WithLog(doc, ev, i), sequential)
<1> DEFINE new == WithLog(doc, ev, i)
<1>1. /\ new.status = doc.status /\ new.results = doc.results /\ new.vars = doc.vars
      /\ \A ev2 : Logged(new, ev2) = Logged(doc, ev2) \cup (IF ev2 = ev THEN {i} ELSE {})
      /\ StartsOnce(new)
  BY LogAppended DEF GoodDoc
<1>2. doc.status \in {"none", "PENDING"} => Untouched(new)
  BY <1>1 DEF GoodDoc, Untouched
<1>3. EventsTrue(new)
  BY <1>1 DEF GoodDoc, EventsTrue
<1>4. SkipsAfterFailure(new, sequential) /\ Deserved(new, new.status)
  BY <1>1 DEF GoodDoc, SkipsAfterFailure, Deserved, AllRes, Res
<1>5. doc.status \in {"COMPLETED", "PARTIAL"} => new.vars = Logged(new, "VAR_EXTRACTED")
  BY <1>1 DEF GoodDoc
<1> QED
  BY <1>1, <1>2, <1>3, <1>4, <1>5 DEF GoodDoc

LEMMA ResultWritten ==
  ASSUME NEW doc \in JobDoc, NEW p \in Positions, NEW st \in ResultStatuses
  PROVE  LET new == WithResult(doc, Snapshot[p], st) IN
         /\ new \in JobDoc
         /\ new.status = doc.status /\ new.vars = doc.vars /\ new.logs = doc.logs
         /\ \A ev : Logged(new, ev) = Logged(doc, ev)
         /\ \A i \in Indexes : new.results[i] = IF i = Snapshot[p] THEN st ELSE doc.results[i]
         /\ \A q \in Positions : Res(new, q) = IF q = p THEN st ELSE Res(doc, q)
<1> DEFINE new == WithResult(doc, Snapshot[p], st)
<1>1. Snapshot[p] \in Indexes /\ \A q \in Positions : Snapshot[q] \in Indexes
  BY IndexType
<1>2. /\ new \in JobDoc
      /\ new.status = doc.status /\ new.vars = doc.vars /\ new.logs = doc.logs
      /\ new.results = [doc.results EXCEPT ![Snapshot[p]] = st]
  BY <1>1, DocTypes DEF WithResult, JobDoc
<1>3. \A i \in Indexes : new.results[i] = IF i = Snapshot[p] THEN st ELSE doc.results[i]
  BY <1>2 DEF JobDoc
<1>4. \A q \in Positions : Res(new, q) = IF q = p THEN st ELSE Res(doc, q)
  BY <1>1, <1>3, JobStoreAssumption DEF Res, Positions
<1> QED
  BY <1>2, <1>3, <1>4 DEF Logged

\* A result that is open may be decided, while the job is running.
LEMMA ResultKeepsGood ==
  ASSUME NEW doc \in JobDoc, NEW sequential, GoodDoc(doc, sequential), doc.status = "RUNNING",
         NEW p \in Positions, NEW st \in ResultStatuses,
         <<Res(doc, p), st>> \in ResultSteps,
         st = "SKIPPED" => sequential /\ FailedBefore(doc, p),
         sequential /\ FailedBefore(doc, p) => st = "SKIPPED",
         st = "FAILED" => \A q \in Positions : q > p => Res(doc, q) = "PENDING"
  PROVE  GoodDoc(WithResult(doc, Snapshot[p], st), sequential)
<1> DEFINE new == WithResult(doc, Snapshot[p], st)
<1>1. /\ new.status = doc.status /\ new.vars = doc.vars /\ new.logs = doc.logs
      /\ \A ev : Logged(new, ev) = Logged(doc, ev)
      /\ \A i \in Indexes : new.results[i] = IF i = Snapshot[p] THEN st ELSE doc.results[i]
      /\ \A q \in Positions : Res(new, q) = IF q = p THEN st ELSE Res(doc, q)
  BY ResultWritten
<1>2. Res(doc, p) = doc.results[Snapshot[p]] /\ Len(Snapshot) \in Nat
  BY JobStoreAssumption, LenProperties DEF Res
<1>3. StartsOnce(new)
  BY <1>1 DEF GoodDoc, StartsOnce
<1>4. EventsTrue(new)
  <2>1. doc.results[Snapshot[p]] \in {"none", "PENDING", "RUNNING"} /\ doc.results[Snapshot[p]] # st
    BY <1>2 DEF ResultSteps
  <2>2. doc.results[Snapshot[p]] = "RUNNING" => st \in {"COMPLETED", "FAILED"}
    BY <1>2 DEF ResultSteps
  <2>3. \A ev : Logged(doc, ev) \subseteq {doc.logs[k].req : k \in 1..Len(doc.logs)}
    BY DEF Logged
  <2>4. \A i : i \notin Indexes => i # Snapshot[p]
    BY IndexType
  <2>5. \A i : i # Snapshot[p] => new.results[i] = doc.results[i]
    BY DEF WithResult, JobDoc
  <2>6. new.results[Snapshot[p]] = st
    BY <1>1, IndexType
  <2> QED
    BY <1>1, <2>1, <2>2, <2>5, <2>6 DEF GoodDoc, EventsTrue
<1>5. SkipsAfterFailure(new, sequential)
  <2>1. ASSUME NEW r \in Positions, Res(new, r) = "SKIPPED"
        PROVE  sequential /\ \E q \in 1..(r - 1) : Res(new, q) = "FAILED"
    <3>1. sequential /\ \E q \in 1..(r - 1) : Res(doc, q) = "FAILED"
      BY <1>1, <2>1 DEF GoodDoc, SkipsAfterFailure, FailedBefore
    <3>2. PICK q \in 1..(r - 1) : Res(doc, q) = "FAILED"
      BY <3>1
    <3>3. q # p /\ q \in Positions
      BY <1>2, <3>2 DEF ResultSteps, Positions
    <3> QED
      BY <1>1, <3>1, <3>2, <3>3
  <2>2. ASSUME sequential, NEW r \in Positions, Res(new, r) = "FAILED",
               NEW q \in (r + 1)..Len(Snapshot)
        PROVE  Res(new, q) \in {"PENDING", "SKIPPED"}
    <3>1. q \in Positions /\ q > r /\ r \in 1..(q - 1)
      BY <1>2 DEF Positions
    <3>2. CASE r = p
      BY <1>1, <2>2, <3>1, <3>2
    <3>3. CASE r # p /\ q = p
      <4>1. FailedBefore(doc, p)
        BY <1>1, <2>2, <3>1, <3>3 DEF FailedBefore
      <4> QED
        BY <1>1, <2>2, <3>1, <3>3, <4>1
    <3>4. CASE r # p /\ q # p
      BY <1>1, <2>2, <3>1, <3>4 DEF GoodDoc, SkipsAfterFailure
    <3> QED
      BY <3>2, <3>3, <3>4
  <2> QED
    BY <2>1, <2>2 DEF SkipsAfterFailure
<1> QED
  BY <1>1, <1>3, <1>4, <1>5 DEF GoodDoc, Deserved

\* A status may be written that the results deserve.
LEMMA StatusKeepsGood ==
  ASSUME NEW doc \in JobDoc, NEW sequential, GoodDoc(doc, sequential),
         NEW st \in {"RUNNING"} \cup Terminal, Deserved(doc, st),
         st \in {"COMPLETED", "PARTIAL"} => doc.vars = Logged(doc, "VAR_EXTRACTED")
  PROVE  /\ GoodDoc(WithStatus(doc, st), sequential)
         /\ WithStatus(doc, st).status = st
         /\ WithStatus(doc, st).results = doc.results
         /\ Untouched(doc) => Untouched(WithStatus(doc, st))
<1> DEFINE new == WithStatus(doc, st)
<1>1. /\ new.status = st /\ new.results = doc.results /\ new.vars = doc.vars
      /\ new.logs = doc.logs
  BY DEF WithStatus, JobDoc
<1>2. \A ev : Logged(new, ev) = Logged(doc, ev)
  BY <1>1 DEF Logged
<1>3. StartsOnce(new) /\ EventsTrue(new)
  BY <1>1, <1>2 DEF GoodDoc, StartsOnce, EventsTrue
<1>4. SkipsAfterFailure(new, sequential) /\ Deserved(new, st)
  BY <1>1 DEF GoodDoc, SkipsAfterFailure, Deserved, AllRes, Res
<1>5. st \notin {"none", "PENDING"}
  BY DEF Terminal
<1> QED
  BY <1>1, <1>2, <1>3, <1>4, <1>5 DEF GoodDoc, Untouched

LEMMA VarsKeepGood ==
  ASSUME NEW doc \in JobDoc, NEW sequential, GoodDoc(doc, sequential), doc.status = "RUNNING",
         NEW vs \in SUBSET Indexes
  PROVE  /\ GoodDoc(WithVars(doc, vs), sequential)
         /\ WithVars(doc, vs).status = doc.status
         /\ WithVars(doc, vs).results = doc.results
         /\ WithVars(doc, vs).vars = vs
         /\ \A ev : Logged(WithVars(doc, vs), ev) = Logged(doc, ev)
<1> DEFINE new == WithVars(doc, vs)
<1>1. /\ new.status = doc.status /\ new.results = doc.results /\ new.vars = vs
      /\ new.logs = doc.logs
  BY DEF WithVars, JobDoc
<1>2. \A ev : Logged(new, ev) = Logged(doc, ev)
  BY <1>1 DEF Logged
<1>3. StartsOnce(new) /\ EventsTrue(new)
  BY <1>1, <1>2 DEF GoodDoc, StartsOnce, EventsTrue
<1>4. SkipsAfterFailure(new, sequential) /\ Deserved(new, new.status)
  BY <1>1 DEF GoodDoc, SkipsAfterFailure, Deserved, AllRes, Res
<1> QED
  BY <1>1, <1>2, <1>3, <1>4 DEF GoodDoc

-----------------------------------------------------------------------------
(* The steps of an execution *)

\* What a step may do to a document: a result is decided once, and a terminal
\* status is overturned by nothing but a failure.
StepOk(old, new) ==
  /\ \A i \in Indexes : new.results[i] # old.results[i] =>
                          <<old.results[i], new.results[i]>> \in ResultSteps
  /\ old.status \in Terminal => /\ new.status \in {old.status, "FAILED"}
                                /\ new.results = old.results

GoodStep(s) ==
  LET j == JobOf(s) IN
  /\ GoodDoc(db'[j], j \in Sequential)
  /\ SlotDoc(exec'[s], db'[j])
  /\ StepOk(db[j], db'[j])

\* One awaited call: an execution whose call was rejected has nothing to keep.
LEMMA AwaitGood ==
  ASSUME StoreTypeOK, ExecTypeOK, NEW s \in Slots, JobOf(s) \in Jobs,
         NEW doc \in JobDoc, NEW next \in Exec, NEW thrown \in {"thrown", "catchStatus"},
         Await(s, doc, next, thrown),
         GoodDoc(DocOf(s), JobOf(s) \in Sequential), GoodDoc(doc, JobOf(s) \in Sequential),
         SlotDoc(next, doc), StepOk(DocOf(s), doc)
  PROVE  GoodStep(s)
<1>1. Effect(s, doc, next, thrown)
  BY AwaitEffect DEF ExecPcs
<1>2. exec[s] \in Exec
  BY DEF ExecTypeOK
<1>3. GoTo(s, thrown).pc = thrown
  BY <1>2 DEF GoTo, Exec
<1>4. \A d : SlotDoc(GoTo(s, thrown), d)
  BY <1>3 DEF SlotDoc, Skipping, Sending, AfterLoop
<1>5. StepOk(DocOf(s), DocOf(s))
  BY DEF StepOk
<1> QED
  BY <1>1, <1>4, <1>5 DEF Effect, GoodStep, DocOf

\* The head of the loop: p is the next request, or there is none.
LEMMA AdvanceGood ==
  ASSUME NEW e \in Exec, NEW doc \in JobDoc, NEW p \in Nat, 1 <= p, p <= Len(Snapshot) + 1,
         e.stubs = Indexes, doc.status = "RUNNING",
         \A q \in Positions : /\ q < p => Res(doc, q) \in Settled
                              /\ q >= p => Res(doc, q) = "PENDING",
         e.abort = (e.job \in Sequential /\ FailedBefore(doc, p)),
         e.vars = Logged(doc, "VAR_EXTRACTED")
  PROVE  AdvanceTo(e, p) \in Exec /\ SlotDoc(AdvanceTo(e, p), doc)
<1> DEFINE rest == {q \in Positions : q >= p /\ Snapshot[q] \in e.stubs}
           next == AdvanceTo(e, p)
<1>1. next \in Exec /\ Len(Snapshot) \in Nat
  BY AdvanceType, JobStoreAssumption, LenProperties
<1>2. CASE p = Len(Snapshot) + 1
  <2>1. rest = {}
    BY <1>1, <1>2 DEF Positions
  <2>2. next = [e EXCEPT !.pc = "persistVars"]
    BY <2>1 DEF AdvanceTo
  <2>3. next.pc = "persistVars" /\ next.vars = e.vars
    BY <2>2 DEF Exec
  <2>4. AllRes(doc, Settled)
    BY <1>1, <1>2 DEF AllRes, Positions
  <2> QED
    BY <1>1, <2>3, <2>4 DEF SlotDoc, VarsLogged, Skipping, Sending, AfterLoop
<1>3. CASE p \in Positions
  <2>1. p \in rest /\ \A r \in rest : p <= r
    BY <1>3, IndexType
  <2>2. rest \subseteq Positions /\ rest # {}
    BY <2>1
  <2>3. (CHOOSE q \in rest : \A r \in rest : q <= r) = p
    <3> DEFINE m == CHOOSE q \in rest : \A r \in rest : q <= r
    <3>1. m \in rest /\ \A r \in rest : m <= r
      BY <2>1
    <3> QED
      BY <1>1, <1>3, <2>1, <3>1 DEF Positions
  <2>4. next = [e EXCEPT !.pos = p, !.pc = IF ShouldSkip(e) THEN "skipResult" ELSE "startResult"]
    BY <2>2, <2>3 DEF AdvanceTo
  <2>5. /\ next.pos = p /\ next.pc = IF ShouldSkip(e) THEN "skipResult" ELSE "startResult"
        /\ next.stubs = Indexes /\ next.abort = e.abort /\ next.vars = e.vars /\ next.job = e.job
    BY <2>4 DEF Exec
  <2>6. ShouldSkip(e) <=> next.abort
    BY <2>5 DEF ShouldSkip
  <2>7. AtRequest(next, doc)
    BY <1>1, <1>3, <2>5 DEF AtRequest, Positions
  <2>8. AtCall(next, doc)
    BY <1>1, <1>3, <2>5 DEF AtCall, Res
  <2>9. VarsLogged(next, doc)
    BY <2>5 DEF VarsLogged
  <2>10. /\ next.pc \in {"skipResult", "startResult"}
         /\ next.abort <=> next.pc \in Skipping
    BY <2>5, <2>6 DEF Skipping
  <2>11. SlotDoc(next, doc)
    <3> HIDE DEF next
    <3> QED
      BY <2>7, <2>8, <2>9, <2>10 DEF SlotDoc, AfterLoop
  <2> QED
    BY <1>1, <2>11
<1> QED
  BY <1>1, <1>2, <1>3 DEF Positions

\* The precondition of every step: the execution has its job to itself, and a
\* stub for every request.
Ready(s) ==
  /\ StoreTypeOK /\ ExecTypeOK /\ JobOf(s) \in Jobs
  /\ StubsOf(DocOf(s)) = Indexes
  /\ exec[s].pc \in Body => DocOf(s).status \notin {"none", "PENDING"}
  /\ GoodDoc(DocOf(s), JobOf(s) \in Sequential)
  /\ SlotDoc(exec[s], DocOf(s))

LEMMA ReadyFacts ==
  ASSUME NEW s \in Slots, Ready(s)
  PROVE  /\ exec[s] \in Exec /\ DocOf(s) \in JobDoc
         /\ exec[s].pos \in Positions /\ Len(Snapshot) \in Nat
         /\ Current(s) \in Indexes /\ Current(s) \in Indexes \cup {NoIndex}
         /\ NoIndex \in Indexes \cup {NoIndex}
         /\ Current(s) = Snapshot[exec[s].pos]
         /\ DocOf(s).results[Current(s)] = Res(DocOf(s), exec[s].pos)
         /\ JobOf(s) = exec[s].job
         /\ Res(DocOf(s), exec[s].pos) \in ResultStatuses
BY JobStoreAssumption, LenProperties, IndexType
   DEF Ready, ExecTypeOK, StoreTypeOK, DocOf, Exec, Current, Res, JobOf, StubsOf, JobDoc

LEMMA GoToFields ==
  ASSUME NEW s \in Slots, exec[s] \in Exec, NEW pc \in ExecPcs
  PROVE  LET e == GoTo(s, pc) IN
         /\ e \in Exec /\ e.pc = pc
         /\ e.job = exec[s].job /\ e.pos = exec[s].pos /\ e.stubs = exec[s].stubs
         /\ e.abort = exec[s].abort /\ e.outcome = exec[s].outcome
         /\ e.vars = exec[s].vars /\ e.final = exec[s].final
BY DEF GoTo, Exec

LEMMA FindJobGood ==
  ASSUME NEW s \in Slots, Ready(s), FindJob(s)
  PROVE  GoodStep(s)
<1> DEFINE pc == IF Executable(DocOf(s)) THEN "markRunning" ELSE "notPending"
<1>1. exec[s].pc = "findJob" /\ Await(s, DocOf(s), GoTo(s, pc), "thrown")
  BY DEF FindJob, At
<1>2. GoTo(s, pc) \in Exec /\ GoTo(s, pc).pc = pc
      /\ GoTo(s, pc).abort = exec[s].abort /\ GoTo(s, pc).vars = exec[s].vars
  BY ReadyFacts, GoToFields DEF ExecPcs
<1>3. SlotDoc(GoTo(s, pc), DocOf(s))
  BY <1>1, <1>2 DEF Ready, SlotDoc, Executable, Skipping, Sending, AfterLoop
<1>4. StepOk(DocOf(s), DocOf(s))
  BY DEF StepOk
<1> QED
  BY <1>1, <1>2, <1>3, <1>4, ReadyFacts, AwaitGood DEF Ready

LEMMA MarkRunningGood ==
  ASSUME NEW s \in Slots, Ready(s), MarkRunning(s)
  PROVE  GoodStep(s)
<1> DEFINE doc == DocOf(s)
           new == WithStatus(doc, "RUNNING")
           next == GoTo(s, "logStarted")
<1>1. exec[s].pc = "markRunning" /\ Await(s, new, next, "thrown")
  BY DEF MarkRunning, At
<1>2. next \in Exec /\ next.pc = "logStarted" /\ next.abort = exec[s].abort /\ next.vars = exec[s].vars
  BY ReadyFacts, GoToFields DEF ExecPcs
<1>3. doc \in JobDoc /\ GoodDoc(doc, JobOf(s) \in Sequential) /\ doc.status = "PENDING"
      /\ Untouched(doc) /\ ~exec[s].abort /\ exec[s].vars = {}
  BY <1>1, ReadyFacts DEF Ready, SlotDoc, GoodDoc
<1>4. /\ new \in JobDoc /\ GoodDoc(new, JobOf(s) \in Sequential)
      /\ new.status = "RUNNING" /\ new.results = doc.results /\ Untouched(new)
  BY <1>3, StatusKeepsGood, DocTypes DEF Deserved, JobStatuses
<1>5. SlotDoc(next, new)
  BY <1>2, <1>3, <1>4 DEF SlotDoc, Skipping, Sending, AfterLoop
<1>6. StepOk(doc, new)
  BY <1>3, <1>4 DEF StepOk, Terminal
<1> QED
  BY <1>1, <1>2, <1>3, <1>4, <1>5, <1>6, AwaitGood DEF Ready

LEMMA LogStartedGood ==
  ASSUME NEW s \in Slots, Ready(s), LogStarted(s)
  PROVE  GoodStep(s)
<1> DEFINE doc == DocOf(s)
           new == Log(s, "JOB_STARTED", NoIndex)
           next == GoTo(s, "findStubs")
<1>1. exec[s].pc = "logStarted" /\ Await(s, new, next, "thrown")
  BY DEF LogStarted, At
<1>2. next \in Exec /\ next.pc = "findStubs" /\ next.abort = exec[s].abort /\ next.vars = exec[s].vars
  BY ReadyFacts, GoToFields DEF ExecPcs
<1>3. doc \in JobDoc /\ GoodDoc(doc, JobOf(s) \in Sequential) /\ doc.status = "RUNNING"
      /\ Untouched(doc) /\ ~exec[s].abort /\ exec[s].vars = {}
  BY <1>1, ReadyFacts DEF Ready, SlotDoc
<1>4. /\ new \in JobDoc /\ new.status = doc.status /\ new.results = doc.results
      /\ new.vars = doc.vars
      /\ \A ev2 : Logged(new, ev2) = Logged(doc, ev2) \cup (IF ev2 = "JOB_STARTED" THEN {NoIndex} ELSE {})
  BY <1>3, LogAppended DEF Log, LogEvents
<1>5. Untouched(new)
  BY <1>3, <1>4 DEF Untouched, RequestEvents
<1>6. GoodDoc(new, JobOf(s) \in Sequential)
  BY <1>3, LogKeepsGood DEF Log, LogEvents, RequestEvents
<1>7. SlotDoc(next, new)
  BY <1>2, <1>3, <1>4, <1>5 DEF SlotDoc, Skipping, Sending, AfterLoop
<1>8. StepOk(doc, new)
  BY <1>4 DEF StepOk
<1> QED
  BY <1>1, <1>2, <1>3, <1>4, <1>6, <1>7, <1>8, AwaitGood DEF Ready

LEMMA FindStubsGood ==
  ASSUME NEW s \in Slots, Ready(s), FindStubs(s)
  PROVE  GoodStep(s)
<1> DEFINE doc == DocOf(s)
           e == [exec[s] EXCEPT !.stubs = StubsOf(doc)]
<1>1. exec[s].pc = "findStubs" /\ Await(s, doc, AdvanceTo(e, 1), "thrown")
  BY DEF FindStubs, At
<1>2. exec[s] \in Exec /\ doc \in JobDoc /\ Len(Snapshot) \in Nat /\ StubsOf(doc) = Indexes
  BY ReadyFacts DEF Ready
<1>3. e \in Exec /\ e.stubs = Indexes /\ e.abort = exec[s].abort /\ e.vars = exec[s].vars
      /\ e.job = exec[s].job
  BY <1>2 DEF Exec
<1>4. doc.status = "RUNNING" /\ Untouched(doc) /\ ~e.abort /\ e.vars = {}
  BY <1>1, <1>3 DEF Ready, SlotDoc
<1>5. \A q \in Positions : q >= 1 /\ Res(doc, q) = "PENDING"
  BY <1>2, <1>4, IndexType DEF Untouched, StubsOf, Res, Positions
<1>6. ~FailedBefore(doc, 1) /\ e.vars = Logged(doc, "VAR_EXTRACTED") /\ e.abort = FALSE
  BY <1>3, <1>4 DEF FailedBefore, Untouched, RequestEvents, Exec
<1>7. \A q \in Positions : (q < 1 => Res(doc, q) \in Settled) /\ (q >= 1 => Res(doc, q) = "PENDING")
  BY <1>2, <1>5 DEF Positions
<1>8. AdvanceTo(e, 1) \in Exec /\ SlotDoc(AdvanceTo(e, 1), doc)
  <2>1. 1 <= 1 /\ 1 <= Len(Snapshot) + 1 /\ 1 \in Nat
    BY <1>2
  <2>2. e.abort = (e.job \in Sequential /\ FailedBefore(doc, 1))
    BY <1>6
  <2> QED
    BY <1>2, <1>3, <1>4, <1>6, <1>7, <2>1, <2>2, AdvanceGood
<1>9. StepOk(doc, doc)
  BY DEF StepOk
<1> QED
  BY <1>1, <1>2, <1>8, <1>9, AwaitGood DEF Ready

-----------------------------------------------------------------------------
(* The steps of the loop *)

\* A call for the request at hand leaves the other requests alone.
LEMMA SameRequest ==
  ASSUME NEW e \in Exec, NEW next \in Exec, NEW doc \in JobDoc, NEW new \in JobDoc,
         AtRequest(e, doc),
         next.pos = e.pos, next.stubs = e.stubs, next.abort = e.abort, next.job = e.job,
         \A q \in Positions : q # e.pos => Res(new, q) = Res(doc, q)
  PROVE  AtRequest(next, new)
<1>1. Len(Snapshot) \in Nat /\ e.pos \in Positions
  BY JobStoreAssumption, LenProperties DEF Exec
<1>2. \A q \in 1..(e.pos - 1) : q \in Positions /\ q # e.pos
  BY <1>1 DEF Positions
<1>3. FailedBefore(new, e.pos) <=> FailedBefore(doc, e.pos)
  BY <1>2 DEF FailedBefore
<1>4. \A q \in Positions : /\ q < e.pos => Res(new, q) \in Settled
                           /\ q > e.pos => Res(new, q) = "PENDING"
  BY <1>1 DEF AtRequest, Positions
<1> QED
  BY <1>3, <1>4 DEF AtRequest

\* The execution goes on to another call for the same request.
LEMMA NextCallGood ==
  ASSUME NEW s \in Slots, Ready(s), exec[s].pc \in Skipping \cup Sending,
         NEW next \in Exec, NEW new \in JobDoc, new.status = "RUNNING",
         next.pos = exec[s].pos, next.stubs = exec[s].stubs, next.abort = exec[s].abort,
         next.job = exec[s].job,
         next.pc \in Skipping \cup Sending,
         next.pc \in Skipping <=> exec[s].pc \in Skipping,
         \A q \in Positions : q # exec[s].pos => Res(new, q) = Res(DocOf(s), q),
         AtCall(next, new), VarsLogged(next, new)
  PROVE  SlotDoc(next, new)
<1>1. AtRequest(next, new)
  BY ReadyFacts, SameRequest DEF Ready, SlotDoc
<1>2. next.abort <=> next.pc \in Skipping
  BY DEF Ready, SlotDoc
<1>3. /\ next.pc \notin AfterLoop
      /\ next.pc \notin {"findJob", "markRunning", "logStarted", "findStubs"}
      /\ next.pc \notin {"persistVars", "derive", "persistStatus"}
  BY DEF AfterLoop, Skipping, Sending
<1> QED
  BY <1>1, <1>2, <1>3 DEF SlotDoc, AfterLoop

\* What a running execution knows about the request at hand.
LEMMA LoopFacts ==
  ASSUME NEW s \in Slots, Ready(s), exec[s].pc \in Skipping \cup Sending
  PROVE  LET doc == DocOf(s)
             p == exec[s].pos IN
         /\ GoodDoc(doc, JobOf(s) \in Sequential) /\ doc.status = "RUNNING"
         /\ AtRequest(exec[s], doc) /\ AtCall(exec[s], doc) /\ VarsLogged(exec[s], doc)
         /\ exec[s].abort <=> exec[s].pc \in Skipping
         /\ exec[s].abort <=> JobOf(s) \in Sequential /\ FailedBefore(doc, p)
         /\ \A q \in Positions : q > p => Res(doc, q) = "PENDING"
BY ReadyFacts DEF Ready, SlotDoc, AtRequest

\* An event about the request at hand is logged once it is true.
LEMMA LoopLogGood ==
  ASSUME NEW s \in Slots, Ready(s), exec[s].pc \in Skipping \cup Sending,
         NEW ev \in LogEvents,
         LET doc == DocOf(s)
             i == Snapshot[exec[s].pos] IN
         /\ ev = "REQUEST_STARTED" => doc.results[i] = "RUNNING" /\ i \notin Logged(doc, ev)
         /\ ev = "REQUEST_COMPLETED" => doc.results[i] = "COMPLETED"
         /\ ev = "REQUEST_FAILED" => doc.results[i] = "FAILED"
         /\ ev = "REQUEST_SKIPPED" => doc.results[i] = "SKIPPED"
  PROVE  LET doc == DocOf(s)
             i == Snapshot[exec[s].pos]
             new == Log(s, ev, i) IN
         /\ new \in JobDoc /\ new.status = "RUNNING" /\ new.results = doc.results
         /\ \A ev2 : Logged(new, ev2) = Logged(doc, ev2) \cup (IF ev2 = ev THEN {i} ELSE {})
         /\ GoodDoc(new, JobOf(s) \in Sequential)
         /\ StepOk(doc, new)
<1> DEFINE doc == DocOf(s)
           i == Snapshot[exec[s].pos]
           new == WithLog(doc, ev, i)
<1>1. doc \in JobDoc /\ i \in Indexes \cup {NoIndex}
  BY ReadyFacts
<1>2. GoodDoc(doc, JobOf(s) \in Sequential) /\ doc.status = "RUNNING"
  BY LoopFacts
<1>3. /\ new \in JobDoc /\ new.status = doc.status /\ new.results = doc.results
      /\ \A ev2 : Logged(new, ev2) = Logged(doc, ev2) \cup (IF ev2 = ev THEN {i} ELSE {})
  BY <1>1, LogAppended
<1>4. GoodDoc(new, JobOf(s) \in Sequential)
  BY <1>1, <1>2, LogKeepsGood
<1>5. StepOk(doc, new)
  BY <1>3 DEF StepOk
<1> QED
  BY <1>2, <1>3, <1>4, <1>5 DEF Log

LEMMA SkipResultGood ==
  ASSUME NEW s \in Slots, Ready(s), SkipResult(s)
  PROVE  GoodStep(s)
<1> DEFINE doc == DocOf(s)
           p == exec[s].pos
           new == WithResult(doc, Snapshot[p], "SKIPPED")
           next == GoTo(s, "logSkip")
<1>1. exec[s].pc = "skipResult" /\ Await(s, new, next, "catchStatus")
  BY DEF SkipResult, At, Current
<1>2. exec[s].pc \in Skipping /\ exec[s].pc \in Skipping \cup Sending
  BY <1>1 DEF Skipping
<1>3. Res(doc, p) = "PENDING" /\ JobOf(s) \in Sequential /\ FailedBefore(doc, p)
  BY <1>1, <1>2, LoopFacts DEF AtCall, Res
<1>4. /\ new \in JobDoc /\ new.status = doc.status
      /\ \A ev : Logged(new, ev) = Logged(doc, ev)
      /\ \A i \in Indexes : new.results[i] = IF i = Snapshot[p] THEN "SKIPPED" ELSE doc.results[i]
      /\ \A q \in Positions : Res(new, q) = IF q = p THEN "SKIPPED" ELSE Res(doc, q)
  <2>1. doc \in JobDoc /\ p \in Positions /\ "SKIPPED" \in ResultStatuses
    BY ReadyFacts DEF ResultStatuses
  <2> QED
    BY <2>1, ResultWritten
<1>5. GoodDoc(new, JobOf(s) \in Sequential)
  <2>1. doc \in JobDoc /\ p \in Positions /\ "SKIPPED" \in ResultStatuses
        /\ <<Res(doc, p), "SKIPPED">> \in ResultSteps
    BY <1>3, ReadyFacts DEF ResultStatuses, ResultSteps
  <2>2. GoodDoc(doc, JobOf(s) \in Sequential) /\ doc.status = "RUNNING"
    BY <1>2, LoopFacts
  <2> QED
    BY <1>3, <2>1, <2>2, ResultKeepsGood
<1>6. /\ next \in Exec /\ next.pc = "logSkip" /\ next.pos = p /\ next.stubs = exec[s].stubs
      /\ next.abort = exec[s].abort /\ next.job = exec[s].job /\ next.vars = exec[s].vars
  BY ReadyFacts, GoToFields DEF ExecPcs
<1>7. AtCall(next, new)
  BY <1>4, <1>6, ReadyFacts DEF AtCall, Res
<1>8. VarsLogged(next, new)
  BY <1>1, <1>2, <1>4, <1>6, LoopFacts DEF VarsLogged
<1>9. SlotDoc(next, new)
  BY <1>2, <1>4, <1>6, <1>7, <1>8, LoopFacts, NextCallGood DEF Skipping
<1>10. StepOk(doc, new)
  BY <1>2, <1>3, <1>4, LoopFacts DEF StepOk, ResultSteps, Res, Terminal
<1> QED
  BY <1>1, <1>4, <1>5, <1>6, <1>9, <1>10, AwaitGood DEF Ready

LEMMA LogSkipGood ==
  ASSUME NEW s \in Slots, Ready(s), LogSkip(s)
  PROVE  GoodStep(s)
<1> DEFINE doc == DocOf(s)
           p == exec[s].pos
           new == Log(s, "REQUEST_SKIPPED", Snapshot[p])
           next == AdvanceTo(exec[s], p + 1)
<1>1. exec[s].pc = "logSkip" /\ Await(s, new, next, "catchStatus")
  BY DEF LogSkip, At, Current
<1>2. exec[s].pc \in Skipping /\ exec[s].pc \in Skipping \cup Sending
  BY <1>1 DEF Skipping
<1>3. doc.results[Snapshot[p]] = "SKIPPED"
  BY <1>1, <1>2, LoopFacts DEF AtCall
<1>4. /\ new \in JobDoc /\ new.status = "RUNNING" /\ new.results = doc.results
      /\ \A ev2 : Logged(new, ev2) = Logged(doc, ev2) \cup (IF ev2 = "REQUEST_SKIPPED" THEN {Snapshot[p]} ELSE {})
      /\ GoodDoc(new, JobOf(s) \in Sequential) /\ StepOk(doc, new)
  BY <1>2, <1>3, LoopLogGood DEF LogEvents
<1>6. /\ \A q \in Positions : /\ q < p + 1 => Res(new, q) \in Settled
                              /\ q >= p + 1 => Res(new, q) = "PENDING"
      /\ p + 1 \in Nat /\ 1 <= p + 1 /\ p + 1 <= Len(Snapshot) + 1
  BY <1>2, <1>3, <1>4, LoopFacts, ReadyFacts DEF AtRequest, Res, Settled, Positions
<1>7. FailedBefore(new, p + 1)
  <2>1. PICK q \in 1..(p - 1) : Res(doc, q) = "FAILED"
    BY <1>2, LoopFacts DEF FailedBefore
  <2>2. q \in 1..((p + 1) - 1) /\ Res(new, q) = "FAILED"
    BY <1>4, <2>1, ReadyFacts DEF Res, Positions
  <2> QED
    BY <2>2 DEF FailedBefore
<1>8. exec[s].vars = Logged(new, "VAR_EXTRACTED") /\ new.status = "RUNNING"
      /\ exec[s].stubs = Indexes
  BY <1>1, <1>2, <1>4, LoopFacts DEF VarsLogged, AtRequest
<1>9. exec[s].abort = (exec[s].job \in Sequential /\ FailedBefore(new, p + 1))
  BY <1>2, <1>7, LoopFacts, ReadyFacts DEF Exec
<1>10. next \in Exec /\ SlotDoc(next, new)
  BY <1>4, <1>6, <1>8, <1>9, ReadyFacts, AdvanceGood
<1> QED
  BY <1>1, <1>4, <1>10, AwaitGood DEF Ready

LEMMA StartResultGood ==
  ASSUME NEW s \in Slots, Ready(s), StartResult(s)
  PROVE  GoodStep(s)
<1> DEFINE doc == DocOf(s)
           p == exec[s].pos
           new == WithResult(doc, Snapshot[p], "RUNNING")
           next == GoTo(s, "logStart")
<1>1. exec[s].pc = "startResult" /\ Await(s, new, next, "catchStatus")
  BY DEF StartResult, At, Current
<1>2. exec[s].pc \in Sending /\ exec[s].pc \in Skipping \cup Sending /\ exec[s].pc \notin Skipping
  BY <1>1 DEF Skipping, Sending
<1>3. Res(doc, p) = "PENDING" /\ ~(JobOf(s) \in Sequential /\ FailedBefore(doc, p))
  BY <1>1, <1>2, LoopFacts DEF AtCall, Res
<1>4. /\ new \in JobDoc /\ new.status = doc.status
      /\ \A ev : Logged(new, ev) = Logged(doc, ev)
      /\ \A i \in Indexes : new.results[i] = IF i = Snapshot[p] THEN "RUNNING" ELSE doc.results[i]
      /\ \A q \in Positions : Res(new, q) = IF q = p THEN "RUNNING" ELSE Res(doc, q)
  <2>1. doc \in JobDoc /\ p \in Positions /\ "RUNNING" \in ResultStatuses
    BY ReadyFacts DEF ResultStatuses
  <2> QED
    BY <2>1, ResultWritten
<1>5. GoodDoc(new, JobOf(s) \in Sequential)
  <2>1. doc \in JobDoc /\ p \in Positions /\ "RUNNING" \in ResultStatuses
        /\ <<Res(doc, p), "RUNNING">> \in ResultSteps
    BY <1>3, ReadyFacts DEF ResultStatuses, ResultSteps
  <2>2. GoodDoc(doc, JobOf(s) \in Sequential) /\ doc.status = "RUNNING"
    BY <1>2, LoopFacts
  <2> QED
    BY <1>3, <2>1, <2>2, ResultKeepsGood
<1>6. /\ next \in Exec /\ next.pc = "logStart" /\ next.pos = p /\ next.stubs = exec[s].stubs
      /\ next.abort = exec[s].abort /\ next.job = exec[s].job /\ next.vars = exec[s].vars
  BY ReadyFacts, GoToFields DEF ExecPcs
<1>7. Snapshot[p] \notin Logged(doc, "REQUEST_STARTED")
  BY <1>2, <1>3, LoopFacts DEF GoodDoc, EventsTrue, Res
<1>8. AtCall(next, new)
  BY <1>4, <1>6, <1>7, ReadyFacts DEF AtCall, Res
<1>9. VarsLogged(next, new)
  BY <1>1, <1>2, <1>4, <1>6, LoopFacts DEF VarsLogged
<1>10. SlotDoc(next, new)
  BY <1>2, <1>4, <1>6, <1>8, <1>9, LoopFacts, NextCallGood DEF Skipping, Sending
<1>11. StepOk(doc, new)
  BY <1>2, <1>3, <1>4, LoopFacts DEF StepOk, ResultSteps, Res, Terminal
<1> QED
  BY <1>1, <1>4, <1>5, <1>6, <1>10, <1>11, AwaitGood DEF Ready

LEMMA LogStartGood ==
  ASSUME NEW s \in Slots, Ready(s), LogStart(s)
  PROVE  GoodStep(s)
<1> DEFINE doc == DocOf(s)
           p == exec[s].pos
           new == Log(s, "REQUEST_STARTED", Snapshot[p])
           next == GoTo(s, "executeRequest")
<1>1. exec[s].pc = "logStart" /\ Await(s, new, next, "catchStatus")
  BY DEF LogStart, At, Current
<1>2. exec[s].pc \in Sending /\ exec[s].pc \in Skipping \cup Sending /\ exec[s].pc \notin Skipping
  BY <1>1 DEF Skipping, Sending
<1>3. doc.results[Snapshot[p]] = "RUNNING" /\ Snapshot[p] \notin Logged(doc, "REQUEST_STARTED")
  BY <1>1, <1>2, LoopFacts DEF AtCall
<1>4. /\ new \in JobDoc /\ new.status = "RUNNING" /\ new.results = doc.results
      /\ \A ev2 : Logged(new, ev2) = Logged(doc, ev2) \cup (IF ev2 = "REQUEST_STARTED" THEN {Snapshot[p]} ELSE {})
      /\ GoodDoc(new, JobOf(s) \in Sequential) /\ StepOk(doc, new)
  BY <1>2, <1>3, LoopLogGood DEF LogEvents
<1>5. /\ next \in Exec /\ next.pc = "executeRequest" /\ next.pos = p /\ next.stubs = exec[s].stubs
      /\ next.abort = exec[s].abort /\ next.job = exec[s].job /\ next.vars = exec[s].vars
  BY ReadyFacts, GoToFields DEF ExecPcs
<1>6. AtCall(next, new) /\ VarsLogged(next, new)
  BY <1>1, <1>2, <1>3, <1>4, <1>5, LoopFacts DEF AtCall, VarsLogged
<1>7. SlotDoc(next, new)
  BY <1>2, <1>4, <1>5, <1>6, NextCallGood DEF Skipping, Sending, Res
<1> QED
  BY <1>1, <1>4, <1>5, <1>7, AwaitGood DEF Ready

LEMMA ExecuteRequestGood ==
  ASSUME NEW s \in Slots, Ready(s), ExecuteRequest(s)
  PROVE  GoodStep(s)
<1> DEFINE doc == DocOf(s)
           p == exec[s].pos
<1>1. PICK outcome \in {"COMPLETED", "FAILED"}, extracted \in {{}, {Snapshot[p]}} :
        exec' = [exec EXCEPT ![s] = Answered(exec[s], outcome, extracted)]
  BY DEF ExecuteRequest, Current
<1> DEFINE next == Answered(exec[s], outcome, extracted)
<1>2. exec[s].pc = "executeRequest" /\ db' = db
  BY DEF ExecuteRequest, At, storeVars
<1>3. exec[s].pc \in Sending /\ exec[s].pc \in Skipping \cup Sending /\ exec[s].pc \notin Skipping
  BY <1>2 DEF Skipping, Sending
<1>4. /\ next \in Exec
      /\ next.pc = IF extracted = {} THEN "persistResult" ELSE "logVar"
      /\ next.vars = exec[s].vars \cup extracted
      /\ next.pos = p /\ next.stubs = exec[s].stubs
      /\ next.abort = exec[s].abort /\ next.job = exec[s].job
  <2>1. exec[s] \in Exec /\ extracted \in SUBSET Indexes
    BY ReadyFacts
  <2> QED
    BY <2>1 DEF Answered, Exec, ExecPcs
<1>5. doc.results[Snapshot[p]] = "RUNNING" /\ exec[s].vars = Logged(doc, "VAR_EXTRACTED")
  BY <1>2, <1>3, LoopFacts DEF AtCall, VarsLogged
<1>6. AtCall(next, doc) /\ VarsLogged(next, doc)
  BY <1>4, <1>5 DEF AtCall, VarsLogged
<1>7. next.pc \in Sending /\ next.pc \in Skipping \cup Sending /\ next.pc \notin Skipping
  BY <1>4 DEF Skipping, Sending
<1>8. SlotDoc(next, doc)
  <2>1. doc \in JobDoc /\ doc.status = "RUNNING"
    BY <1>3, ReadyFacts, LoopFacts
  <2> HIDE DEF next
  <2> QED
    BY <1>3, <1>4, <1>6, <1>7, <2>1, NextCallGood
<1>9. exec'[s] = next
  BY <1>1 DEF Ready, ExecTypeOK
<1> QED
  BY <1>2, <1>8, <1>9 DEF Ready, GoodStep, StepOk, DocOf

LEMMA LogVarGood ==
  ASSUME NEW s \in Slots, Ready(s), LogVar(s)
  PROVE  GoodStep(s)
<1> DEFINE doc == DocOf(s)
           p == exec[s].pos
           new == Log(s, "VAR_EXTRACTED", Snapshot[p])
           next == GoTo(s, "persistResult")
<1>1. exec[s].pc = "logVar" /\ Await(s, new, next, "catchStatus")
  BY DEF LogVar, At, Current
<1>2. exec[s].pc \in Sending /\ exec[s].pc \in Skipping \cup Sending /\ exec[s].pc \notin Skipping
  BY <1>1 DEF Skipping, Sending
<1>3. doc.results[Snapshot[p]] = "RUNNING"
      /\ exec[s].vars = Logged(doc, "VAR_EXTRACTED") \cup {Snapshot[p]}
  BY <1>1, <1>2, LoopFacts DEF AtCall, VarsLogged
<1>4. /\ new \in JobDoc /\ new.status = "RUNNING" /\ new.results = doc.results
      /\ \A ev2 : Logged(new, ev2) = Logged(doc, ev2) \cup (IF ev2 = "VAR_EXTRACTED" THEN {Snapshot[p]} ELSE {})
      /\ GoodDoc(new, JobOf(s) \in Sequential) /\ StepOk(doc, new)
  BY <1>2, LoopLogGood DEF LogEvents
<1>5. /\ next \in Exec /\ next.pc = "persistResult" /\ next.pos = p /\ next.stubs = exec[s].stubs
      /\ next.abort = exec[s].abort /\ next.job = exec[s].job /\ next.vars = exec[s].vars
  BY ReadyFacts, GoToFields DEF ExecPcs
<1>6. AtCall(next, new) /\ VarsLogged(next, new)
  BY <1>3, <1>4, <1>5 DEF AtCall, VarsLogged
<1>7. SlotDoc(next, new)
  BY <1>2, <1>4, <1>5, <1>6, NextCallGood DEF Skipping, Sending, Res
<1> QED
  BY <1>1, <1>4, <1>5, <1>7, AwaitGood DEF Ready

LEMMA PersistResultGood ==
  ASSUME NEW s \in Slots, Ready(s), PersistResult(s)
  PROVE  GoodStep(s)
<1> DEFINE doc == DocOf(s)
           p == exec[s].pos
           st == exec[s].outcome
           new == WithResult(doc, Snapshot[p], st)
           next == GoTo(s, "logOutcome")
<1>1. exec[s].pc = "persistResult" /\ Await(s, new, next, "catchStatus")
  BY DEF PersistResult, At, Current
<1>2. exec[s].pc \in Sending /\ exec[s].pc \in Skipping \cup Sending /\ exec[s].pc \notin Skipping
  BY <1>1 DEF Skipping, Sending
<1>3. Res(doc, p) = "RUNNING" /\ ~(JobOf(s) \in Sequential /\ FailedBefore(doc, p))
  BY <1>1, <1>2, LoopFacts DEF AtCall, Res
<1>4. doc \in JobDoc /\ p \in Positions /\ st \in {"COMPLETED", "FAILED"} /\ st \in ResultStatuses
  BY ReadyFacts DEF Exec, ResultStatuses
<1>5. /\ new \in JobDoc /\ new.status = doc.status
      /\ \A ev : Logged(new, ev) = Logged(doc, ev)
      /\ \A i \in Indexes : new.results[i] = IF i = Snapshot[p] THEN st ELSE doc.results[i]
      /\ \A q \in Positions : Res(new, q) = IF q = p THEN st ELSE Res(doc, q)
  BY <1>4, ResultWritten
<1>6. GoodDoc(new, JobOf(s) \in Sequential)
  <2>1. <<Res(doc, p), st>> \in ResultSteps
    BY <1>3, <1>4 DEF ResultSteps
  <2>2. GoodDoc(doc, JobOf(s) \in Sequential) /\ doc.status = "RUNNING"
        /\ \A q \in Positions : q > p => Res(doc, q) = "PENDING"
    BY <1>2, LoopFacts
  <2>3. st # "SKIPPED"
    BY <1>4
  <2> HIDE DEF st, doc, p
  <2> QED
    BY <1>3, <1>4, <2>1, <2>2, <2>3, ResultKeepsGood
<1>7. /\ next \in Exec /\ next.pc = "logOutcome" /\ next.pos = p /\ next.stubs = exec[s].stubs
      /\ next.abort = exec[s].abort /\ next.job = exec[s].job /\ next.vars = exec[s].vars
      /\ next.outcome = st
  BY ReadyFacts, GoToFields DEF ExecPcs
<1>8. AtCall(next, new)
  BY <1>5, <1>7, ReadyFacts DEF AtCall, Res
<1>9. VarsLogged(next, new)
  BY <1>1, <1>2, <1>5, <1>7, LoopFacts DEF VarsLogged
<1>10. SlotDoc(next, new)
  BY <1>2, <1>5, <1>7, <1>8, <1>9, LoopFacts, NextCallGood DEF Skipping, Sending
<1>11. StepOk(doc, new)
  BY <1>2, <1>3, <1>4, <1>5, LoopFacts DEF StepOk, ResultSteps, Res, Terminal
<1> QED
  BY <1>1, <1>5, <1>6, <1>7, <1>10, <1>11, AwaitGood DEF Ready

LEMMA LogOutcomeGood ==
  ASSUME NEW s \in Slots, Ready(s), LogOutcome(s)
  PROVE  GoodStep(s)
<1> DEFINE doc == DocOf(s)
           p == exec[s].pos
           e == [exec[s] EXCEPT !.abort = @ \/ Aborts(exec[s])]
           ev == OutcomeEvent(e)
           new == Log(s, ev, Snapshot[p])
           next == AdvanceTo(e, p + 1)
<1>1. exec[s] \in Exec /\ exec[s].pc = "logOutcome"
  BY ReadyFacts DEF LogOutcome, At
<1>2. /\ e \in Exec /\ e.job = exec[s].job /\ e.pos = p /\ e.stubs = exec[s].stubs
      /\ e.vars = exec[s].vars /\ e.outcome = exec[s].outcome
      /\ e.abort <=> exec[s].abort \/ (exec[s].outcome = "FAILED" /\ exec[s].job \in Sequential)
  BY <1>1 DEF Exec, Aborts
<1>3. Await(s, new, next, "catchStatus")
  BY <1>2 DEF LogOutcome, Current
<1>4. exec[s].pc \in Sending /\ exec[s].pc \in Skipping \cup Sending /\ exec[s].pc \notin Skipping
  BY <1>1 DEF Skipping, Sending
<1>5. Res(doc, p) = exec[s].outcome /\ exec[s].outcome \in {"COMPLETED", "FAILED"}
  BY <1>1, <1>4, LoopFacts DEF AtCall, Res, Exec
<1>6. /\ ev \in {"REQUEST_COMPLETED", "REQUEST_FAILED"} /\ ev \in LogEvents
      /\ ev = "REQUEST_COMPLETED" => exec[s].outcome = "COMPLETED"
      /\ ev = "REQUEST_FAILED" => exec[s].outcome = "FAILED"
  BY <1>2, <1>5 DEF OutcomeEvent, LogEvents
<1>7. /\ new \in JobDoc /\ new.status = "RUNNING" /\ new.results = doc.results
      /\ \A ev2 : Logged(new, ev2) = Logged(doc, ev2) \cup (IF ev2 = ev THEN {Snapshot[p]} ELSE {})
      /\ GoodDoc(new, JobOf(s) \in Sequential) /\ StepOk(doc, new)
  <2> HIDE DEF ev
  <2> QED
    BY <1>4, <1>5, <1>6, LoopLogGood DEF Res
<1>8. /\ \A q \in Positions : /\ q < p + 1 => Res(new, q) \in Settled
                              /\ q >= p + 1 => Res(new, q) = "PENDING"
      /\ p + 1 \in Nat /\ 1 <= p + 1 /\ p + 1 <= Len(Snapshot) + 1
  <2>1. \A q \in Positions : Res(new, q) = Res(doc, q)
    BY <1>7 DEF Res
  <2>2. p \in Positions /\ Len(Snapshot) \in Nat
    BY ReadyFacts
  <2>3. \A q \in Positions : /\ q < p => Res(doc, q) \in Settled
                             /\ q > p => Res(doc, q) = "PENDING"
    BY <1>4, LoopFacts DEF AtRequest
  <2>4. Res(doc, p) \in Settled
    BY <1>5 DEF Settled
  <2> HIDE DEF new
  <2> QED
    BY <2>1, <2>2, <2>3, <2>4 DEF Positions
<1>9. FailedBefore(new, p + 1) <=> FailedBefore(doc, p) \/ Res(doc, p) = "FAILED"
  <2>1. \A q : Res(new, q) = Res(doc, q)
    BY <1>7 DEF Res
  <2>2. p \in Nat /\ p >= 1
    BY ReadyFacts DEF Positions
  <2>3. (p + 1) - 1 = p /\ 1..p = 1..(p - 1) \cup {p}
    BY <2>2
  <2> HIDE DEF new
  <2> QED
    BY <2>1, <2>3 DEF FailedBefore
<1>10. e.vars = Logged(new, "VAR_EXTRACTED") /\ e.stubs = Indexes
  BY <1>1, <1>2, <1>4, <1>6, <1>7, LoopFacts DEF VarsLogged, AtRequest
<1>11. e.abort = (e.job \in Sequential /\ FailedBefore(new, p + 1))
  <2>1. exec[s].abort <=> exec[s].job \in Sequential /\ FailedBefore(doc, p)
    BY <1>4, LoopFacts, ReadyFacts
  <2>2. e.abort \in BOOLEAN
    BY <1>2 DEF Exec
  <2> HIDE DEF new, e
  <2> QED
    BY <1>2, <1>5, <1>9, <2>1, <2>2
<1>12. next \in Exec /\ SlotDoc(next, new)
  <2> HIDE DEF new, e
  <2> QED
    BY <1>2, <1>7, <1>8, <1>10, <1>11, AdvanceGood
<1> QED
  BY <1>3, <1>7, <1>12, AwaitGood DEF Ready

-----------------------------------------------------------------------------
(* The steps after the loop, and the catch block *)

\* A call after the loop that leaves the results as they are.
LEMMA AfterLoopFacts ==
  ASSUME NEW s \in Slots, Ready(s), exec[s].pc \in AfterLoop
  PROVE  /\ AllRes(DocOf(s), Settled)
         /\ exec[s].vars = Logged(DocOf(s), "VAR_EXTRACTED")
         /\ exec[s].pc # "logFinal" => DocOf(s).status = "RUNNING"
         /\ exec[s].pc \in {"derive", "persistStatus"} => DocOf(s).vars = exec[s].vars
BY DEF Ready, SlotDoc, AfterLoop, VarsLogged

LEMMA PersistVarsGood ==
  ASSUME NEW s \in Slots, Ready(s), PersistVars(s)
  PROVE  GoodStep(s)
<1> DEFINE doc == DocOf(s)
           new == WithVars(doc, exec[s].vars)
           next == GoTo(s, "derive")
<1>1. exec[s].pc = "persistVars" /\ Await(s, new, next, "catchStatus")
  BY DEF PersistVars, At
<1>2. /\ doc \in JobDoc /\ GoodDoc(doc, JobOf(s) \in Sequential) /\ exec[s].vars \in SUBSET Indexes
      /\ doc.status = "RUNNING" /\ AllRes(doc, Settled)
      /\ exec[s].vars = Logged(doc, "VAR_EXTRACTED")
  BY <1>1, ReadyFacts, AfterLoopFacts DEF Ready, AfterLoop, Exec
<1>3. /\ new \in JobDoc /\ GoodDoc(new, JobOf(s) \in Sequential)
      /\ new.status = "RUNNING" /\ new.results = doc.results /\ new.vars = exec[s].vars
      /\ \A ev : Logged(new, ev) = Logged(doc, ev)
  BY <1>2, VarsKeepGood, DocTypes
<1>4. next \in Exec /\ next.pc = "derive" /\ next.vars = exec[s].vars
  BY ReadyFacts, GoToFields DEF ExecPcs
<1>5. AllRes(new, Settled) /\ VarsLogged(next, new)
  BY <1>2, <1>3, <1>4 DEF AllRes, Res, VarsLogged
<1>6. SlotDoc(next, new)
  <2> HIDE DEF next, new
  <2> QED
    BY <1>3, <1>4, <1>5 DEF SlotDoc, Skipping, Sending
<1>7. StepOk(doc, new)
  BY <1>2, <1>3 DEF StepOk, Terminal
<1> QED
  BY <1>1, <1>3, <1>4, <1>6, <1>7, AwaitGood DEF Ready

\* deriveJobStatus gives the results the verdict they deserve.
LEMMA DerivedIsDeserved ==
  ASSUME NEW doc \in JobDoc, StubsOf(doc) = Indexes, AllRes(doc, Settled)
  PROVE  Derived(doc, deriveJobStatus({doc.results[i] : i \in StubsOf(doc)}))
<1> DEFINE statuses == {doc.results[i] : i \in StubsOf(doc)}
           st == deriveJobStatus(statuses)
<1>1. \A v : v \in statuses <=> \E p \in Positions : Res(doc, p) = v
  BY DEF Indexes, Res
<1>2. 1 \in Positions
  BY JobStoreAssumption, LenProperties DEF Positions
<1>3. ASSUME st = "COMPLETED" PROVE AllRes(doc, {"COMPLETED"})
  <2>1. statuses \subseteq {"COMPLETED"}
    BY <1>3 DEF deriveJobStatus
  <2> QED
    BY <1>1, <2>1 DEF AllRes
<1>4. ASSUME st = "PARTIAL" PROVE ~AllRes(doc, {"COMPLETED"}) /\ ~AllRes(doc, {"FAILED"})
  <2>1. ~(statuses \subseteq {"COMPLETED"}) /\ statuses # {"FAILED"}
    BY <1>4 DEF deriveJobStatus
  <2>2. ~AllRes(doc, {"COMPLETED"})
    BY <1>1, <2>1 DEF AllRes
  <2>3. ASSUME AllRes(doc, {"FAILED"}) PROVE FALSE
    <3>1. \A v : v \in statuses <=> v = "FAILED"
      BY <1>1, <1>2, <2>3 DEF AllRes
    <3> HIDE DEF statuses
    <3> QED
      BY <2>1, <3>1
  <2> QED
    BY <2>2, <2>3
<1>5. ASSUME st = "FAILED" PROVE AllRes(doc, {"FAILED"})
  <2>1. statuses = {"FAILED"}
    BY <1>5 DEF deriveJobStatus
  <2> HIDE DEF statuses
  <2> QED
    BY <1>1, <2>1 DEF AllRes
<1> HIDE DEF st, statuses
<1>6. Derived(doc, st)
  BY <1>3, <1>4, <1>5 DEF Derived, Deserved
<1> QED
  BY <1>6 DEF st, statuses

LEMMA DeriveStatusGood ==
  ASSUME NEW s \in Slots, Ready(s), DeriveStatus(s)
  PROVE  GoodStep(s)
<1> DEFINE doc == DocOf(s)
           statuses == {doc.results[i] : i \in StubsOf(doc)}
           next == [exec[s] EXCEPT !.pc = "persistStatus", !.final = deriveJobStatus(statuses)]
<1>1. exec[s].pc = "derive" /\ Await(s, doc, next, "catchStatus")
  BY DEF DeriveStatus, At
<1>2. /\ doc \in JobDoc /\ GoodDoc(doc, JobOf(s) \in Sequential) /\ exec[s] \in Exec
      /\ doc.status = "RUNNING" /\ AllRes(doc, Settled) /\ StubsOf(doc) = Indexes
      /\ exec[s].vars = Logged(doc, "VAR_EXTRACTED") /\ doc.vars = exec[s].vars
  BY <1>1, ReadyFacts, AfterLoopFacts DEF Ready, AfterLoop
<1>3. deriveJobStatus(statuses) \in Terminal
  BY DEF deriveJobStatus, Terminal
<1>4. Derived(doc, deriveJobStatus(statuses))
  BY <1>2, DerivedIsDeserved
<1>5. /\ next \in Exec /\ next.pc = "persistStatus" /\ next.vars = exec[s].vars
      /\ next.final = deriveJobStatus(statuses)
  <2> HIDE DEF statuses
  <2> QED
    BY <1>2, <1>3 DEF Exec, ExecPcs
<1>6. VarsLogged(next, doc) /\ Derived(doc, next.final)
  <2> HIDE DEF next
  <2> QED
    BY <1>2, <1>4, <1>5 DEF VarsLogged
<1>7. SlotDoc(next, doc)
  <2> HIDE DEF next
  <2> QED
    BY <1>2, <1>5, <1>6 DEF SlotDoc, Skipping, Sending
<1>8. StepOk(doc, doc)
  BY DEF StepOk
<1> QED
  BY <1>1, <1>2, <1>5, <1>7, <1>8, AwaitGood DEF Ready

LEMMA PersistStatusGood ==
  ASSUME NEW s \in Slots, Ready(s), PersistStatus(s)
  PROVE  GoodStep(s)
<1> DEFINE doc == DocOf(s)
           new == WithStatus(doc, exec[s].final)
           next == GoTo(s, "logFinal")
<1>1. exec[s].pc = "persistStatus" /\ Await(s, new, next, "catchStatus")
  BY DEF PersistStatus, At
<1>2. /\ doc \in JobDoc /\ GoodDoc(doc, JobOf(s) \in Sequential) /\ exec[s].final \in Terminal
      /\ doc.status = "RUNNING" /\ AllRes(doc, Settled)
      /\ exec[s].vars = Logged(doc, "VAR_EXTRACTED") /\ doc.vars = exec[s].vars
  BY <1>1, ReadyFacts, AfterLoopFacts DEF Ready, AfterLoop, Exec
<1>3. Deserved(doc, exec[s].final)
  BY <1>1 DEF Ready, SlotDoc, Derived
<1>4. /\ new \in JobDoc /\ GoodDoc(new, JobOf(s) \in Sequential)
      /\ new.results = doc.results
  BY <1>2, <1>3, StatusKeepsGood, DocTypes DEF JobStatuses
<1>5. next \in Exec /\ next.pc = "logFinal" /\ next.vars = exec[s].vars
  BY ReadyFacts, GoToFields DEF ExecPcs
<1>6. AllRes(new, Settled) /\ VarsLogged(next, new)
  <2>1. new.logs = doc.logs
    BY <1>2 DEF WithStatus, JobDoc
  <2> QED
    BY <1>2, <1>4, <1>5, <2>1 DEF AllRes, Res, VarsLogged, Logged
<1>7. SlotDoc(next, new)
  <2> HIDE DEF next, new
  <2> QED
    BY <1>5, <1>6 DEF SlotDoc, Skipping, Sending
<1>8. StepOk(doc, new)
  BY <1>2, <1>4 DEF StepOk, Terminal
<1> QED
  BY <1>1, <1>4, <1>5, <1>7, <1>8, AwaitGood DEF Ready

\* What is left to do touches neither results nor variables, and makes the
\* status FAILED if it changes it.
LEMMA EndingGood ==
  ASSUME NEW s \in Slots, Ready(s), LogFinal(s) \/ CatchStatus(s) \/ CatchLog(s)
  PROVE  GoodStep(s)
<1> DEFINE doc == DocOf(s)
<1>1. \A pc \in {"returned", "catchLog", "thrown"} : \A d :
        GoTo(s, pc) \in Exec /\ SlotDoc(GoTo(s, pc), d)
  BY ReadyFacts, GoToFields DEF ExecPcs, SlotDoc, Skipping, Sending, AfterLoop
<1>2. doc \in JobDoc /\ GoodDoc(doc, JobOf(s) \in Sequential) /\ NoIndex \in Indexes \cup {NoIndex}
  BY ReadyFacts DEF Ready
<1>3. \A ev \in LogEvents \ RequestEvents :
        LET new == Log(s, ev, NoIndex) IN
        new \in JobDoc /\ GoodDoc(new, JobOf(s) \in Sequential) /\ StepOk(doc, new)
  <2> SUFFICES ASSUME NEW ev \in LogEvents, ev \notin RequestEvents
               PROVE  LET new == WithLog(doc, ev, NoIndex) IN
                      new \in JobDoc /\ GoodDoc(new, JobOf(s) \in Sequential) /\ StepOk(doc, new)
    BY DEF Log
  <2>1. /\ ev # "REQUEST_STARTED" /\ ev # "REQUEST_COMPLETED" /\ ev # "REQUEST_FAILED"
        /\ ev # "REQUEST_SKIPPED" /\ ev # "VAR_EXTRACTED"
    BY DEF RequestEvents
  <2>2. GoodDoc(WithLog(doc, ev, NoIndex), JobOf(s) \in Sequential)
    BY <1>2, <2>1, LogKeepsGood
  <2>3. /\ WithLog(doc, ev, NoIndex) \in JobDoc
        /\ WithLog(doc, ev, NoIndex).status = doc.status
        /\ WithLog(doc, ev, NoIndex).results = doc.results
    BY <1>2, LogAppended
  <2> QED
    BY <2>2, <2>3 DEF StepOk
<1>4. CASE LogFinal(s)
  <2>1. Await(s, Log(s, FinalEvent(exec[s].final), NoIndex), GoTo(s, "returned"), "catchStatus")
    BY <1>4 DEF LogFinal
  <2>2. FinalEvent(exec[s].final) \in LogEvents \ RequestEvents
    BY ReadyFacts DEF Exec, Terminal, FinalEvent, LogEvents, RequestEvents
  <2> QED
    BY <1>1, <1>2, <1>3, <2>1, <2>2, AwaitGood DEF Ready
<1>5. CASE CatchStatus(s)
  <2> DEFINE new == WithStatus(doc, "FAILED")
  <2>1. Await(s, new, GoTo(s, "catchLog"), "thrown")
    BY <1>5 DEF CatchStatus
  <2>2. /\ new \in JobDoc /\ GoodDoc(new, JobOf(s) \in Sequential)
        /\ new.status = "FAILED" /\ new.results = doc.results
    BY <1>2, StatusKeepsGood, DocTypes DEF Deserved, Terminal, JobStatuses
  <2>3. StepOk(doc, new)
    BY <2>2 DEF StepOk
  <2> QED
    BY <1>1, <1>2, <2>1, <2>2, <2>3, AwaitGood DEF Ready
<1>6. CASE CatchLog(s)
  <2>1. Await(s, Log(s, "JOB_FAILED", NoIndex), GoTo(s, "thrown"), "thrown")
    BY <1>6 DEF CatchLog
  <2>2. "JOB_FAILED" \in LogEvents \ RequestEvents
    BY DEF LogEvents, RequestEvents
  <2> QED
    BY <1>1, <1>2, <1>3, <2>1, <2>2, AwaitGood DEF Ready
<1> QED
  BY <1>4, <1>5, <1>6

LEMMA ExecStepGood ==
  ASSUME NEW s \in Slots, Ready(s), ExecStep(s)
  PROVE  GoodStep(s)
BY FindJobGood, MarkRunningGood, LogStartedGood, FindStubsGood, SkipResultGood, LogSkipGood,
   StartResultGood, LogStartGood, ExecuteRequestGood, LogVarGood, PersistResultGood,
   LogOutcomeGood, PersistVarsGood, DeriveStatusGood, PersistStatusGood, EndingGood
   DEF ExecStep

-----------------------------------------------------------------------------
(* The invariant is inductive *)

\* Before its job is queued, a document gets nothing but a status, stubs and a
\* log entry.
LEMMA HandlerKeepsGood ==
  ASSUME NEW doc \in JobDoc, NEW sequential, GoodDoc(doc, sequential),
         doc.status \in {"none", "PENDING"},
         NEW new, \/ new \in {doc, WithStatus(doc, "PENDING"), WithLog(doc, "JOB_STARTED", NoIndex)}
                  \/ \E k \in 0..Len(Snapshot) : new = StubbedUpTo(doc, k)
  PROVE  GoodDoc(new, sequential) /\ StepOk(doc, new)
<1>1. Untouched(doc) /\ StartsOnce(doc) /\ doc.vars = {}
  BY DEF GoodDoc, Untouched
<1>2. ASSUME NEW d, d.status \in {"none", "PENDING"}, Untouched(d), StartsOnce(d)
      PROVE  GoodDoc(d, sequential)
  <2>1. \A p \in Positions : Res(d, p) \in {"none", "PENDING"}
    BY <1>2, IndexType DEF Untouched, Res
  <2>2. \A ev \in RequestEvents : Logged(d, ev) = {}
    BY <1>2 DEF Untouched
  <2>3. EventsTrue(d)
    BY <2>2 DEF EventsTrue, RequestEvents
  <2>4. SkipsAfterFailure(d, sequential) /\ Deserved(d, d.status)
    BY <1>2, <2>1 DEF SkipsAfterFailure, Deserved
  <2> QED
    BY <1>2, <2>3, <2>4 DEF GoodDoc
<1>3. CASE new = doc
  BY <1>3 DEF StepOk
<1>4. CASE new = WithStatus(doc, "PENDING")
  <2>1. /\ new.status = "PENDING" /\ new.results = doc.results /\ new.vars = doc.vars
        /\ new.logs = doc.logs
    BY <1>4 DEF WithStatus, JobDoc
  <2>2. \A ev : Logged(new, ev) = Logged(doc, ev)
    BY <2>1 DEF Logged
  <2>3. Untouched(new) /\ StartsOnce(new)
    BY <1>1, <2>1, <2>2 DEF Untouched, StartsOnce
  <2> QED
    BY <1>2, <2>1, <2>3 DEF StepOk, Terminal
<1>5. CASE new = WithLog(doc, "JOB_STARTED", NoIndex)
  <2>1. NoIndex \in Indexes \cup {NoIndex} /\ "JOB_STARTED" \in LogEvents
    BY DEF LogEvents
  <2>2. /\ new.status = doc.status /\ new.results = doc.results
        /\ GoodDoc(new, sequential)
    BY <1>5, <2>1, LogAppended, LogKeepsGood DEF RequestEvents
  <2> QED
    BY <2>2 DEF StepOk
<1>6. ASSUME NEW k \in 0..Len(Snapshot), new = StubbedUpTo(doc, k)
      PROVE  GoodDoc(new, sequential) /\ StepOk(doc, new)
  <2>1. /\ new.status = doc.status /\ new.vars = doc.vars /\ new.logs = doc.logs
        /\ \A i \in Indexes : new.results[i] \in {"PENDING", doc.results[i]}
    BY <1>6 DEF StubbedUpTo, JobDoc
  <2>2. \A ev : Logged(new, ev) = Logged(doc, ev)
    BY <2>1 DEF Logged
  <2>3. Untouched(new) /\ StartsOnce(new)
    BY <1>1, <2>1, <2>2 DEF Untouched, StartsOnce
  <2>4. StepOk(doc, new)
    BY <1>1, <2>1 DEF StepOk, Untouched, ResultSteps, Terminal
  <2> QED
    BY <1>2, <2>1, <2>3, <2>4
<1> QED
  BY <1>3, <1>4, <1>5, <1>6

LEMMA HistoryInit == Init => HistoryInv
<1> SUFFICES ASSUME Init PROVE HistoryInv
  OBVIOUS
<1>1. \A j \in Jobs : db[j] = NoDoc
  BY DEF Init, StoreInit
<1>2. /\ NoDoc.status = "none" /\ NoDoc.vars = {} /\ Len(NoDoc.logs) = 0
      /\ \A i \in Indexes : NoDoc.results[i] = "none"
  BY DEF NoDoc
<1>3. \A ev : Logged(NoDoc, ev) = {}
  BY <1>2 DEF Logged
<1>4. Untouched(NoDoc) /\ StartsOnce(NoDoc) /\ EventsTrue(NoDoc)
  BY <1>2, <1>3 DEF Untouched, StartsOnce, EventsTrue
<1>5. \A sequential : SkipsAfterFailure(NoDoc, sequential) /\ Deserved(NoDoc, "none")
  BY <1>2, IndexType DEF SkipsAfterFailure, Res, Deserved
<1>6. \A j \in Jobs : GoodDoc(db[j], j \in Sequential)
  BY <1>1, <1>2, <1>4, <1>5 DEF GoodDoc
<1>7. \A s \in Slots : ~Busy(s)
  BY IdleTyped DEF Init, ExecInit, Busy, At
<1>8. HandlersAlone
  BY <1>1, <1>2 DEF Init, QueueInit, ControllerInit, HandlersAlone, InHandler
<1> QED
  BY <1>6, <1>7, <1>8 DEF HistoryInv

DocStepsOk == \A j \in Jobs : StepOk(db[j], db'[j])

\* The handlers' writes, and the documents they leave alone.
LEMMA ApiWrites ==
  ASSUME IndInv, HistoryInv, NEW j \in Jobs, Submit(j) \/ Handle(j)
  PROVE  /\ UNCHANGED exec
         /\ \A k \in Jobs \ {j} : db'[k] = db[k] /\ api'[k] = api[k] /\ bull'[k] = bull[k]
         /\ bull[j].state = "absent" /\ db[j].status \in {"none", "PENDING"}
         /\ GoodDoc(db[j], j \in Sequential)
         /\ \/ db'[j] \in {db[j], WithStatus(db[j], "PENDING"), WithLog(db[j], "JOB_STARTED", NoIndex)}
            \/ \E k \in 0..Len(Snapshot) : db'[j] = StubbedUpTo(db[j], k)
         /\ api'[j] \in InHandler => bull'[j] = bull[j] /\ db'[j].status = "PENDING"
         /\ api'[j] # "idle"
<1>1. /\ db \in [Jobs -> JobDoc] /\ api \in [Jobs -> ApiPcs] /\ bull \in [Jobs -> QueueEntry]
      /\ db[j] \in JobDoc /\ Len(Snapshot) \in 0..Len(Snapshot)
  BY JobStoreAssumption, LenProperties
     DEF IndInv, TypeInv, TypeOK, StoreTypeOK, ControllerTypeOK, QueueTypeOK
<1>2. UNCHANGED exec /\ \A k \in Jobs \ {j} : db'[k] = db[k] /\ api'[k] = api[k] /\ bull'[k] = bull[k]
  BY <1>1 DEF Submit, Handle, HandlerStep, CreateJobDoc, InsertStubs, LogCreated, Enqueue,
              Commits, Rejects, enqueueJob, storeVars
<1>3. api[j] \in {"idle"} \cup InHandler
  BY DEF Submit, Handle, HandlerStep, CreateJobDoc, InsertStubs, LogCreated, Enqueue, InHandler
<1>4. /\ bull[j].state = "absent" /\ db[j].status \in {"none", "PENDING"}
      /\ api[j] \in InHandler => db[j].status = "PENDING"
      /\ GoodDoc(db[j], j \in Sequential)
  BY <1>3 DEF HistoryInv, HandlersAlone, InHandler
<1>5. /\ \/ db'[j] \in {db[j], WithStatus(db[j], "PENDING"), WithLog(db[j], "JOB_STARTED", NoIndex)}
         \/ \E k \in 0..Len(Snapshot) : db'[j] = StubbedUpTo(db[j], k)
      /\ api'[j] \in InHandler => bull'[j] = bull[j] /\ db'[j].status = "PENDING"
      /\ api'[j] # "idle"
  <2>1. CASE CreateJobDoc(j)
    <3>1. WithStatus(db[j], "PENDING").status = "PENDING"
      BY <1>1 DEF WithStatus, JobDoc
    <3> QED
      BY <1>1, <2>1, <3>1 DEF CreateJobDoc, Commits, Rejects, InHandler
  <2>2. CASE InsertStubs(j)
    <3>1. \A k : StubbedUpTo(db[j], k).status = db[j].status
      BY <1>1 DEF StubbedUpTo, JobDoc
    <3>2. api[j] \in InHandler
      BY <2>2 DEF InsertStubs, InHandler
    <3>3. \E k \in 0..Len(Snapshot) : db'[j] = StubbedUpTo(db[j], k)
      BY <1>1, <2>2 DEF InsertStubs, Commits, Rejects
    <3> QED
      BY <1>1, <1>4, <2>2, <3>1, <3>2, <3>3 DEF InsertStubs, InHandler
  <2>3. CASE LogCreated(j)
    <3>1. \A ev, i : WithLog(db[j], ev, i).status = db[j].status
      BY <1>1 DEF WithLog, JobDoc
    <3>2. api[j] \in InHandler
      BY <2>3 DEF LogCreated, InHandler
    <3> QED
      BY <1>1, <1>4, <2>3, <3>1, <3>2 DEF LogCreated, Commits, Rejects, InHandler
  <2>4. CASE Enqueue(j)
    <3>1. db'[j] = db[j] /\ api'[j] \notin InHandler /\ api'[j] # "idle"
      BY <1>1, <2>4 DEF Enqueue, Rejects, storeVars, InHandler
    <3> QED
      BY <3>1
  <2> QED
    BY <2>1, <2>2, <2>3, <2>4 DEF Submit, Handle, HandlerStep
<1> QED
  BY <1>2, <1>4, <1>5

LEMMA HistoryApi ==
  ASSUME IndInv, DocInv, HistoryInv, NEW j \in Jobs, Submit(j) \/ Handle(j)
  PROVE  HistoryInv' /\ DocStepsOk
<1>1. BusyHasJob /\ db[j] \in JobDoc
  BY DEF IndInv, TypeInv, TypeOK, StoreTypeOK
<1>2. UNCHANGED exec /\ \A k \in Jobs \ {j} : db'[k] = db[k] /\ api'[k] = api[k] /\ bull'[k] = bull[k]
  BY ApiWrites
<1>3. /\ bull[j].state = "absent" /\ db[j].status \in {"none", "PENDING"}
      /\ GoodDoc(db[j], j \in Sequential)
  BY ApiWrites
<1>4. /\ \/ db'[j] \in {db[j], WithStatus(db[j], "PENDING"), WithLog(db[j], "JOB_STARTED", NoIndex)}
         \/ \E k \in 0..Len(Snapshot) : db'[j] = StubbedUpTo(db[j], k)
      /\ api'[j] \in InHandler => bull'[j] = bull[j] /\ db'[j].status = "PENDING"
      /\ api'[j] # "idle"
  BY ApiWrites
<1>5. GoodDoc(db'[j], j \in Sequential) /\ StepOk(db[j], db'[j])
  BY <1>1, <1>3, <1>4, HandlerKeepsGood
<1>6. \A d : StepOk(d, d)
  BY DEF StepOk
<1>7. \A s \in Slots : Busy(s) => JobOf(s) \in Jobs \ {j}
  BY <1>1, <1>3 DEF DocInv, BusyHasJob
<1>8. \A s \in Slots : Busy(s)' => SlotDoc(exec'[s], db'[JobOf(s)'])
  BY <1>2, <1>7 DEF HistoryInv, Busy, At, JobOf
<1>9. HandlersAlone'
  <2> SUFFICES ASSUME NEW k \in Jobs, api'[k] \in {"idle"} \cup InHandler
               PROVE  /\ bull'[k].state = "absent"
                      /\ db'[k].status = IF api'[k] = "idle" THEN "none" ELSE "PENDING"
    BY DEF HandlersAlone
  <2> QED
    BY <1>2, <1>3, <1>4 DEF HistoryInv, HandlersAlone
<1> QED
  BY <1>2, <1>5, <1>6, <1>8, <1>9 DEF HistoryInv, DocStepsOk

\* An execution of a job that no other slot has taken is ready for its step.
LEMMA HistoryExecute ==
  ASSUME IndInv, BusyLocked, DocInv, HistoryInv, NEW s \in Slots, Execute(s)
  PROVE  HistoryInv' /\ DocStepsOk
<1>1. /\ StoreTypeOK /\ ExecTypeOK /\ BusyHasJob /\ UNCHANGED <<bull, api>> /\ ExecStep(s)
  BY DEF IndInv, TypeInv, TypeOK, Execute
<1>2. StepSummary(s)
  BY <1>1, ExecStepEffect DEF IndInv
<1>3. Busy(s) /\ JobOf(s) \in Jobs /\ bull[JobOf(s)].state # "absent"
  BY <1>1, <1>2 DEF StepSummary, Busy, At, BusyHasJob, DocInv
<1>4. Ready(s)
  BY <1>1, <1>3 DEF Ready, DocOf, DocInv, StubsBeforeExecution, HistoryInv
<1>5. GoodStep(s)
  BY <1>1, <1>4, ExecStepGood
<1>6. \A t \in Slots \ {s} : Busy(t) => JobOf(t) \in Jobs \ {JobOf(s)}
  BY <1>1, <1>3 DEF IndInv, LockInv, BusyLocked, BusyHasJob
<1>7. \A t \in Slots : Busy(t)' => SlotDoc(exec'[t], db'[JobOf(t)'])
  <2>1. SlotDoc(exec'[s], db'[JobOf(s)'])
    BY <1>2, <1>5 DEF StepSummary, GoodStep, JobOf
  <2>2. ASSUME NEW t \in Slots \ {s}, Busy(t)' PROVE SlotDoc(exec'[t], db'[JobOf(t)'])
    BY <1>2, <1>6, <2>2 DEF StepSummary, HistoryInv, Busy, At, JobOf
  <2> QED
    BY <2>1, <2>2
<1>8. \A j \in Jobs : GoodDoc(db'[j], j \in Sequential) /\ StepOk(db[j], db'[j])
  BY <1>2, <1>3, <1>5 DEF StepSummary, GoodStep, HistoryInv, StepOk
<1>9. HandlersAlone'
  <2>1. \A j \in Jobs : bull[j].state = "absent" => j # JobOf(s)
    BY <1>3
  <2> QED
    BY <1>1, <1>2, <2>1 DEF StepSummary, HistoryInv, HandlersAlone
<1> QED
  BY <1>7, <1>8, <1>9 DEF HistoryInv, DocStepsOk

\* The queue, the processes and the beginning and end of an execution leave
\* the documents alone.
LEMMA HistoryElsewhere ==
  ASSUME HistoryInv, UNCHANGED db,
         \A j \in Jobs : api'[j] \in {api[j], "lost"},
         \A j \in Jobs : bull[j].state = "absent" => bull'[j].state = "absent",
         \A s \in Slots : \/ exec'[s].pc = "idle" \/ exec'[s] = exec[s]
                          \/ \E j \in Jobs : exec'[s] = Fresh("findJob", j, TRUE)
  PROVE  HistoryInv' /\ DocStepsOk
<1>1. DocStepsOk
  BY DEF DocStepsOk, StepOk
<1>2. HandlersAlone'
  BY DEF HistoryInv, HandlersAlone, InHandler
<1>3. \A j \in Jobs : \A d : SlotDoc(Fresh("findJob", j, TRUE), d)
  BY DEF Fresh, SlotDoc, Skipping, Sending, AfterLoop
<1>4. \A s \in Slots : Busy(s)' => SlotDoc(exec'[s], db'[JobOf(s)'])
  BY <1>3 DEF HistoryInv, Busy, At, JobOf
<1> QED
  BY <1>1, <1>2, <1>4 DEF HistoryInv

LEMMA HistoryStep ==
  ASSUME ~LockLoss, IndInv, BusyLocked, DocInv, HistoryInv, [Next]_vars
  PROVE  HistoryInv' /\ DocStepsOk
<1>1. /\ bull \in [Jobs -> QueueEntry] /\ exec \in [Slots -> Exec] /\ BusyHasJob
      /\ \A s \in Slots : exec[s].locked => JobOf(s) \in Jobs /\ bull[JobOf(s)].state = "active"
  BY DEF IndInv, TypeInv, TypeOK, QueueTypeOK, ExecTypeOK, LockInv, BusyHasJob
<1>2. ASSUME NEW j \in Jobs, Submit(j) \/ Handle(j) PROVE HistoryInv' /\ DocStepsOk
  BY <1>2, HistoryApi
<1>3. ASSUME NEW s \in Slots, Execute(s) PROVE HistoryInv' /\ DocStepsOk
  BY <1>3, HistoryExecute
<1>4. ASSUME NEW s \in Slots, NEW j \in Jobs, Take(s, j) PROVE HistoryInv' /\ DocStepsOk
  <2>1. \A k \in Jobs : bull[k].state = "absent" => bull'[k].state = "absent"
    BY <1>1, <1>4 DEF Take, Deliver, QueueEntry
  <2>2. \A t \in Slots : exec'[t] = exec[t] \/ exec'[t] = Fresh("findJob", j, TRUE)
    BY <1>1, <1>4 DEF Take, Begin
  <2> QED
    BY <1>4, <2>1, <2>2, HistoryElsewhere DEF Take, storeVars
<1>5. ASSUME NEW s \in Slots, Complete(s) \/ Fail(s) PROVE HistoryInv' /\ DocStepsOk
  <2>1. \A k \in Jobs : bull[k].state = "absent" => bull'[k].state = "absent"
    BY <1>1, <1>5 DEF Complete, Fail, Settle, MoveToCompleted, MoveToFailed, QueueEntry
  <2>2. \A t \in Slots : exec'[t] = exec[t] \/ exec'[t].pc = "idle"
    BY <1>1, <1>5, IdleTyped DEF Complete, Fail, Settle
  <2> QED
    BY <1>5, <2>1, <2>2, HistoryElsewhere DEF Complete, Fail, Settle, storeVars
<1>6. ASSUME NEW s \in Slots, LockExpires(s) PROVE HistoryInv' /\ DocStepsOk
  BY <1>6 DEF LockExpires
<1>7. ASSUME NEW j \in Jobs, StalledCheck(j) \/ BackOffEnds(j) PROVE HistoryInv' /\ DocStepsOk
  <2>1. \A k \in Jobs : bull[k].state = "absent" => bull'[k].state = "absent"
    BY <1>1, <1>7 DEF StalledCheck, BackOffEnds, Stall, Promote, QueueEntry
  <2> QED
    BY <1>7, <2>1, HistoryElsewhere DEF StalledCheck, BackOffEnds, storeVars
<1>8. ASSUME NEW p \in Processes, Crash(p) \/ Exit(p) PROVE HistoryInv' /\ DocStepsOk
  <2>1. UNCHANGED <<db, bull>> /\ \A s \in Slots : exec'[s] = exec[s] \/ exec'[s] = IdleExec
    BY <1>8, RestartEffect DEF Crash, Exit, storeVars, IndInv
  <2>2. \A j \in Jobs : api'[j] \in {api[j], "lost"}
    BY <1>8 DEF Crash, Exit, Restart, LoseHandlers
  <2> QED
    BY <2>1, <2>2, IdleTyped, HistoryElsewhere
<1>9. ASSUME NEW p \in Processes, Sigterm(p) PROVE HistoryInv' /\ DocStepsOk
  BY <1>9, HistoryElsewhere DEF Sigterm, storeVars
<1>10. CASE UNCHANGED vars
  BY <1>10, HistoryElsewhere DEF vars
<1> QED
  BY <1>2, <1>3, <1>4, <1>5, <1>6, <1>7, <1>8, <1>9, <1>10 DEF Next

-----------------------------------------------------------------------------
(* What the documents of a job tell *)

DocumentsInv == IndInv /\ BusyLocked /\ DocInv /\ HistoryInv

LEMMA DocumentsInvariant ==
  ASSUME LockLoss = FALSE
  PROVE  /\ Init => DocumentsInv
         /\ DocumentsInv /\ [Next]_vars => DocumentsInv' /\ DocStepsOk
<1>1. Init => BusyLocked
  BY IdleTyped DEF Init, ExecInit, BusyLocked, Busy, At
<1>2. Init => DocumentsInv
  BY <1>1, IndInit, DocInvInit, HistoryInit DEF DocumentsInv
<1>3. DocumentsInv /\ [Next]_vars => DocumentsInv' /\ DocStepsOk
  BY IndStep, BusyLockedStep, DocInvStep, HistoryStep DEF DocumentsInv
<1> QED
  BY <1>2, <1>3

\* No request of a job is fired twice, however often the queue delivers the
\* job again, as long as no lock expires under a live worker.
THEOREM NothingFiredTwice ==
  ASSUME LockLoss = FALSE
  PROVE  Spec => []FiredAtMostOnce
<1>1. DocumentsInv => FiredAtMostOnce
  <2> SUFFICES ASSUME DocumentsInv, NEW j \in Jobs, NEW i \in Indexes
               PROVE  Cardinality(Starts(j, i)) <= 1
    BY DEF FiredAtMostOnce
  <2>1. \A k, l \in Starts(j, i) : k = l
    BY DEF DocumentsInv, HistoryInv, GoodDoc, StartsOnce, Starts
  <2>2. CASE Starts(j, i) = {}
    BY <2>2, FS_EmptySet
  <2>3. ASSUME NEW k \in Starts(j, i) PROVE Cardinality(Starts(j, i)) <= 1
    <3>1. Starts(j, i) = {k}
      BY <2>1, <2>3
    <3> QED
      BY <3>1, FS_Singleton
  <2> QED
    BY <2>2, <2>3
<1> QED
  BY <1>1, DocumentsInvariant, PTL DEF Spec

\* The log never runs ahead of the results: a verdict in it is the one stored
\* on the RequestResult.
THEOREM LogIsTrue ==
  ASSUME LockLoss = FALSE
  PROVE  Spec => []LogFollowsResult
<1>1. DocumentsInv => LogFollowsResult
  BY DEF DocumentsInv, HistoryInv, GoodDoc, EventsTrue, LogFollowsResult
<1> QED
  BY <1>1, DocumentsInvariant, PTL DEF Spec

\* A job that ended as COMPLETED or PARTIAL stores exactly the variables whose
\* extraction is in its log.
THEOREM VariablesAreAudited ==
  ASSUME LockLoss = FALSE
  PROVE  Spec => []VariablesAudited
<1>1. DocumentsInv => VariablesAudited
  BY DEF DocumentsInv, HistoryInv, GoodDoc, VariablesAudited
<1> QED
  BY <1>1, DocumentsInvariant, PTL DEF Spec

\* shouldAbort: after a failed request a sequential job runs nothing more, and
\* a request is skipped for no other reason.
THEOREM SkipsPropagate ==
  ASSUME LockLoss = FALSE
  PROVE  Spec => []SkipPropagation
<1>1. DocumentsInv => SkipPropagation
  BY DEF DocumentsInv, HistoryInv, GoodDoc, SkipsAfterFailure, SkipPropagation, Result, Res
<1> QED
  BY <1>1, DocumentsInvariant, PTL DEF Spec

\* deriveJobStatus: COMPLETED and PARTIAL say what the results of the job say,
\* also when calls are rejected on the way.
THEOREM VerdictIsTrue ==
  ASSUME LockLoss = FALSE
  PROVE  Spec => []VerdictMatchesResults
<1>1. DocumentsInv => VerdictMatchesResults
  BY DEF DocumentsInv, HistoryInv, GoodDoc, Deserved, AllRes, VerdictMatchesResults,
         AllResults, Result, Res
<1> QED
  BY <1>1, DocumentsInvariant, PTL DEF Spec

\* A step decides a result once and for all: it goes from PENDING over RUNNING
\* to its outcome, or to SKIPPED.
THEOREM ResultsDecidedOnce ==
  ASSUME LockLoss = FALSE
  PROVE  Spec => ResultLifecycle
<1>1. DocStepsOk => \A j \in Jobs, i \in Indexes :
                      db'[j].results[i] # db[j].results[i] =>
                        <<db[j].results[i], db'[j].results[i]>> \in ResultSteps
  BY DEF DocStepsOk, StepOk
<1> QED
  BY <1>1, DocumentsInvariant, PTL DEF Spec, ResultLifecycle

\* Three calls of an execution write the status: RUNNING, the verdict, FAILED.
LEMMA StatusWriters ==
  ASSUME StoreTypeOK, NEW s \in Slots, JobOf(s) \in Jobs, ExecStep(s),
         db'[JobOf(s)].status # DocOf(s).status
  PROVE  exec[s].pc \in {"markRunning", "persistStatus", "catchStatus"}
<1> DEFINE doc == DocOf(s)
<1>1. doc \in JobDoc /\ db \in [Jobs -> JobDoc]
  BY DEF DocOf, StoreTypeOK
<1>2. ASSUME NEW new, NEW next, NEW thrown, Await(s, new, next, thrown), new.status = doc.status
      PROVE  FALSE
  BY <1>1, <1>2 DEF Await, Commits, Rejects
<1>3. /\ \A i, st : WithResult(doc, i, st).status = doc.status
      /\ \A vs : WithVars(doc, vs).status = doc.status
      /\ \A ev, i : Log(s, ev, i).status = doc.status
  BY <1>1 DEF WithResult, WithVars, WithLog, Log, JobDoc
<1> HIDE DEF doc
<1>4. ~ExecuteRequest(s)
  BY DEF ExecuteRequest, storeVars, DocOf
<1>5. ~(FindJob(s) \/ FindStubs(s) \/ DeriveStatus(s))
  BY <1>2 DEF FindJob, FindStubs, DeriveStatus, doc
<1>6. ~(SkipResult(s) \/ StartResult(s) \/ PersistResult(s) \/ PersistVars(s))
  BY <1>2, <1>3 DEF SkipResult, StartResult, PersistResult, PersistVars, doc
<1>7. ~(LogStarted(s) \/ LogSkip(s) \/ LogStart(s) \/ LogVar(s))
  BY <1>2, <1>3 DEF LogStarted, LogSkip, LogStart, LogVar
<1>8. ~(LogOutcome(s) \/ LogFinal(s) \/ CatchLog(s))
  BY <1>2, <1>3 DEF LogOutcome, LogFinal, CatchLog
<1> QED
  BY <1>4, <1>5, <1>6, <1>7, <1>8 DEF ExecStep, MarkRunning, PersistStatus, CatchStatus, At

\* An execution that is about to write another status than FAILED finds the job
\* unfinished.
LEMMA OverturnedInCatch ==
  ASSUME LockLoss = FALSE, DocumentsInv, [Next]_vars,
         NEW j \in Jobs, db[j].status \in Terminal, db'[j].status # db[j].status
  PROVE  InCatch(j)
<1>1. /\ IndInv /\ BusyLocked /\ DocInv /\ HistoryInv
      /\ StoreTypeOK /\ ExecTypeOK /\ BusyHasJob
  BY DEF DocumentsInv, IndInv, TypeInv, TypeOK
<1>2. ASSUME NEW k \in Jobs, Submit(k) \/ Handle(k) PROVE FALSE
  <2>1. /\ \A l \in Jobs \ {k} : db'[l] = db[l]
        /\ db[k].status \in {"none", "PENDING"}
    BY <1>1, <1>2, ApiWrites
  <2> QED
    BY <2>1 DEF Terminal
<1>3. ASSUME NEW s \in Slots, Execute(s) PROVE InCatch(j)
  <2>1. ExecStep(s) /\ StepSummary(s)
    BY <1>1, <1>3, ExecStepEffect DEF Execute, IndInv
  <2>2. Busy(s) /\ JobOf(s) \in Jobs /\ bull[JobOf(s)].state # "absent"
    BY <1>1, <2>1 DEF StepSummary, Busy, At, BusyHasJob, DocInv
  <2>3. Ready(s)
    BY <1>1, <2>2 DEF Ready, DocOf, DocInv, StubsBeforeExecution, HistoryInv
  <2>4. j = JobOf(s) /\ DocOf(s) = db[j]
    BY <2>1 DEF StepSummary, DocOf
  <2>5. exec[s].pc \in {"markRunning", "persistStatus", "catchStatus"}
    BY <1>1, <2>1, <2>4, StatusWriters
  <2>6. exec[s].pc # "persistStatus"
    BY <2>3, <2>4, AfterLoopFacts DEF AfterLoop, Terminal
  <2>7. exec[s].pc = "markRunning" => db'[j].status \in {db[j].status, "RUNNING"}
    <3>1. exec[s].pc = "markRunning" => MarkRunning(s)
      BY <2>1 DEF ExecStep, FindJob, MarkRunning, LogStarted, FindStubs, SkipResult, LogSkip,
           StartResult, LogStart, ExecuteRequest, LogVar, PersistResult, LogOutcome,
           PersistVars, DeriveStatus, PersistStatus, LogFinal, CatchStatus, CatchLog, At
    <3>2. WithStatus(db[j], "RUNNING").status = "RUNNING"
      BY <1>1 DEF WithStatus, StoreTypeOK, JobDoc
    <3> QED
      BY <1>1, <2>4, <3>1, <3>2 DEF MarkRunning, Await, Commits, Rejects, StoreTypeOK
  <2>8. db'[j].status \in {db[j].status, "FAILED"}
    BY DocumentsInvariant DEF DocStepsOk, StepOk
  <2> QED
    BY <2>4, <2>5, <2>6, <2>7, <2>8 DEF InCatch, At
<1>4. db' # db
  OBVIOUS
<1>5. \A s \in Slots : /\ ~(\E k \in Jobs : Take(s, k))
                      /\ ~Complete(s) /\ ~Fail(s) /\ ~LockExpires(s)
  BY <1>4 DEF Take, Complete, Fail, Settle, LockExpires, storeVars
<1>6. /\ \A k \in Jobs : ~StalledCheck(k) /\ ~BackOffEnds(k)
      /\ \A p \in Processes : ~Crash(p) /\ ~Sigterm(p) /\ ~Exit(p)
  BY <1>4 DEF StalledCheck, BackOffEnds, Crash, Sigterm, Exit, Restart, storeVars
<1>7. ~UNCHANGED vars
  BY <1>4 DEF vars, storeVars
<1> QED
  BY <1>2, <1>3, <1>5, <1>6, <1>7 DEF Next

\* A finished job keeps its status and its results; only an execution of it that
\* is in its catch block may still turn the status into FAILED.
THEOREM CatchAloneOverturns ==
  ASSUME LockLoss = FALSE
  PROVE  Spec => OnlyCatchOverturns
<1>1. DocumentsInv /\ [Next]_vars =>
        \A j \in Jobs : db[j].status \in Terminal =>
          /\ db'[j].status # db[j].status => db'[j].status = "FAILED" /\ InCatch(j)
          /\ db'[j].results = db[j].results
  BY OverturnedInCatch, DocumentsInvariant DEF DocStepsOk, StepOk
<1> QED
  BY <1>1, DocumentsInvariant, PTL DEF Spec, OnlyCatchOverturns

=============================================================================
