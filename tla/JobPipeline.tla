---------------------------- MODULE JobPipeline ----------------------------
(***************************************************************************)
(* The path of a job through the whole system: the API process accepts it, *)
(* the queue delivers it, a worker executes it.  Workers run as processes  *)
(* of their own (worker.js), inside the API process (inlineWorker.js), or  *)
(* both.  Processes crash and restart, and are redeployed with SIGTERM;    *)
(* the lock a worker holds on a job may expire while it still runs.        *)
(***************************************************************************)
EXTENDS JobController, JobExecutor

CONSTANTS
  Server,              \* the API process
  Workers,             \* the dedicated worker processes
  InlineWorker,        \* env.INLINE_WORKER = "true"
  WORKER_CONCURRENCY,  \* the environment variable of that name
  LockLoss,            \* whether a lock may expire under a live worker
  MaxCrashes,          \* bound: crashes in one behaviour
  MaxDeploys           \* bound: SIGTERMs in one behaviour

Processes == {Server} \cup Workers
WorkerProcs == Workers \cup (IF InlineWorker THEN {Server} ELSE {})

\* worker.js passes the literal 5 to BullMQ; inlineWorker.js passes the variable.
Concurrency(p) == IF p = Server THEN WORKER_CONCURRENCY ELSE 5
AllSlots == UNION {{p} \X (1..Concurrency(p)) : p \in WorkerProcs}

ASSUME JobPipelineAssumption ==
  /\ Server \notin Workers
  /\ InlineWorker \in BOOLEAN
  /\ LockLoss \in BOOLEAN
  /\ WORKER_CONCURRENCY \in Nat \ {0}
  /\ MaxCrashes \in Nat
  /\ MaxDeploys \in Nat
  /\ Slots = AllSlots

VARIABLES
  proc,     \* proc[p]: "up", or "closing" after a SIGTERM
  crashes,  \* crashes so far
  deploys   \* SIGTERMs so far

procVars == <<proc, crashes, deploys>>
vars == <<db, faults, bull, api, exec, proc, crashes, deploys>>

Init ==
  /\ StoreInit /\ QueueInit /\ ControllerInit /\ ExecInit
  /\ proc = [p \in Processes |-> "up"] /\ crashes = 0 /\ deploys = 0

SlotsOf(p) == {s \in Slots : s[1] = p}
Busy(s) == ~At(s, "idle")

-----------------------------------------------------------------------------
(* The API process *)

\* A closing server accepts no new request, and finishes those it has.
Submit(j) == proc[Server] = "up" /\ CreateJobDoc(j) /\ UNCHANGED <<exec, procVars>>
Handle(j) == HandlerStep(j) /\ UNCHANGED <<exec, procVars>>

-----------------------------------------------------------------------------
(* The workers *)

\* worker.close() stops the fetching of jobs; server.js closes the HTTP
\* server only, and never the inline worker.
Fetching(p) == p = Server \/ proc[p] = "up"

\* Slots of a process are interchangeable: the first free one is used.
Take(s, j) ==
  /\ At(s, "idle")
  /\ \A t \in SlotsOf(s[1]) : t[2] < s[2] => Busy(t)
  /\ Fetching(s[1])
  /\ Deliver(j)
  /\ Begin(s, j)
  /\ UNCHANGED <<storeVars, api, procVars>>

Execute(s) == ExecStep(s) /\ UNCHANGED <<bull, api, procVars>>

\* The processor's promise settles.  BullMQ refuses the verdict of a worker
\* that no longer holds the lock.
Settle(s, verdict) ==
  /\ exec' = [exec EXCEPT ![s] = IdleExec]
  /\ IF exec[s].locked THEN verdict ELSE UNCHANGED bull
  /\ UNCHANGED <<storeVars, api, procVars>>

\* Bug kept for comparison: the processor swallows the error.
FailSwallowed(s) == At(s, "thrown") /\ Settle(s, MoveToCompleted(JobOf(s)))

Complete(s) == (At(s, "returned") \/ At(s, "notPending")) /\ Settle(s, MoveToCompleted(JobOf(s)))
Fail(s) == At(s, "thrown") /\ Settle(s, MoveToFailed(JobOf(s)))

\* The lock is not renewed in time: a blocked event loop, a lost connection.
LockExpires(s) ==
  /\ LockLoss
  /\ exec[s].locked
  /\ exec' = [exec EXCEPT ![s].locked = FALSE]
  /\ UNCHANGED <<storeVars, bull, api, procVars>>

\* Bug kept for comparison: nobody renews the lock.
LockedNever(j) == FALSE
Locked(j) == \E s \in Slots : JobOf(s) = j /\ exec[s].locked
StalledCheck(j) == ~Locked(j) /\ Stall(j) /\ UNCHANGED <<storeVars, api, exec, procVars>>
BackOffEnds(j) == Promote(j) /\ UNCHANGED <<storeVars, api, exec, procVars>>

-----------------------------------------------------------------------------
(* Process life and death *)

\* Process p is gone, with everything it had in memory, and is started again.
Restart(p) ==
  /\ proc' = [proc EXCEPT ![p] = "up"]
  /\ exec' = [s \in Slots |-> IF s[1] = p THEN IdleExec ELSE exec[s]]
  /\ IF p = Server THEN LoseHandlers ELSE UNCHANGED api
  /\ UNCHANGED <<storeVars, bull>>

Crash(p) ==
  /\ crashes < MaxCrashes
  /\ crashes' = crashes + 1
  /\ Restart(p)
  /\ UNCHANGED deploys

Sigterm(p) ==
  /\ proc[p] = "up"
  /\ deploys < MaxDeploys
  /\ deploys' = deploys + 1
  /\ proc' = [proc EXCEPT ![p] = "closing"]
  /\ UNCHANGED <<storeVars, bull, api, exec, crashes>>

\* Bug kept for comparison: the worker exits without waiting for its jobs.
WorkDoneUnawaited(p) == p = Server => \A j \in Jobs : api[j] \notin InHandler

\* What the shutdown handler of p awaits before process.exit: server.close
\* waits for the requests being served, worker.close for the active jobs.
WorkDone(p) == IF p = Server THEN \A j \in Jobs : api[j] \notin InHandler
                             ELSE \A s \in SlotsOf(p) : At(s, "idle")

Exit(p) ==
  /\ proc[p] = "closing"
  /\ WorkDone(p)
  /\ Restart(p)
  /\ UNCHANGED <<crashes, deploys>>

-----------------------------------------------------------------------------

Next ==
  \/ \E j \in Jobs : Submit(j) \/ Handle(j) \/ StalledCheck(j) \/ BackOffEnds(j)
  \/ \E s \in Slots : \/ \E j \in Jobs : Take(s, j)
                      \/ Execute(s) \/ Complete(s) \/ Fail(s) \/ LockExpires(s)
  \/ \E p \in Processes : Crash(p) \/ Sigterm(p) \/ Exit(p)

Spec == Init /\ [][Next]_vars

\* Awaited calls settle, timers fire, free workers fetch, a closing process
\* exits.  Nobody has to submit a job, and nothing has to fail.
Fairness ==
  /\ \A j \in Jobs : WF_vars(Handle(j)) /\ WF_vars(StalledCheck(j)) /\ WF_vars(BackOffEnds(j))
                     /\ WF_vars(\E s \in Slots : Take(s, j))
  /\ \A s \in Slots : WF_vars(Execute(s)) /\ WF_vars(Complete(s)) /\ WF_vars(Fail(s))
  /\ \A p \in Processes : WF_vars(Exit(p))

FairSpec == Spec /\ Fairness

=============================================================================
