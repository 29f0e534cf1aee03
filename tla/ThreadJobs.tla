----------------------------- MODULE ThreadJobs -----------------------------
(***************************************************************************)
(* LocalDispatchAdapter in "thread" mode (core/dispatch/local.py): trials  *)
(* run on a ThreadPoolExecutor of the adapter, and a job table answers     *)
(* status and cancel.  A job is one attempt of a trial.  What happens      *)
(* under _jobs_lock is one step; the pool marks a future running before    *)
(* the body has the lock.                                                  *)
(***************************************************************************)
EXTENDS Naturals, FiniteSets

CONSTANTS
  Jobs,          \* job keys: (trial_id, attempt_id)
  PoolWorkers    \* max_workers of the adapter's pool

ASSUME ThreadAssumption == PoolWorkers \in Nat \ {0}

VARIABLES
  caller,    \* of each job: its thread in _run_on_thread
  future,    \* of each job: its Future
  worker,    \* of each job: its pool thread, off, picked (not in the body) or body
  state,     \* JobState in the table
  held,      \* whether the table still holds the future
  pool,      \* open, cancelling, shutdown (draining) or closed
  toCancel,  \* jobs the stop handler still has to cancel
  ran        \* history: jobs whose trial was started

jobVars == <<caller, future, worker, state, held, pool, toCancel, ran>>

TerminalStates == {"completed", "failed", "cancelled"}

JobTypeOK ==
  /\ caller \in [Jobs -> {"idle", "called", "waiting", "returned", "refused"}]
  /\ future \in [Jobs -> {"none", "queued", "executing", "result", "error", "cancelled"}]
  /\ worker \in [Jobs -> {"off", "picked", "body"}]
  /\ state \in [Jobs -> {"unknown", "pending", "running"} \cup TerminalStates]
  /\ held \in [Jobs -> BOOLEAN]
  /\ pool \in {"open", "cancelling", "shutdown", "closed"}
  /\ toCancel \subseteq Jobs
  /\ ran \subseteq Jobs

JobInit ==
  /\ caller = [j \in Jobs |-> "idle"]
  /\ future = [j \in Jobs |-> "none"]
  /\ worker = [j \in Jobs |-> "off"]
  /\ state = [j \in Jobs |-> "unknown"]
  /\ held = [j \in Jobs |-> FALSE]
  /\ pool = "open"
  /\ toCancel = {}
  /\ ran = {}

\* The orchestrator's thread enters _run_on_thread ...
Call(j) ==
  /\ pool = "open"
  /\ caller[j] = "idle"
  /\ caller' = [caller EXCEPT ![j] = "called"]
  /\ UNCHANGED <<future, worker, state, held, pool, toCancel, ran>>

\* ... submits and records PENDING under one lock ...
Submit(j) ==
  /\ caller[j] = "called"
  /\ pool \in {"open", "cancelling"}
  /\ caller' = [caller EXCEPT ![j] = "waiting"]
  /\ future' = [future EXCEPT ![j] = "queued"]
  /\ state' = [state EXCEPT ![j] = "pending"]
  /\ held' = [held EXCEPT ![j] = TRUE]
  /\ UNCHANGED <<worker, pool, toCancel, ran>>

\* ... or finds the pool shut down, and raises with no entry.
SubmitRefused(j) ==
  /\ caller[j] = "called"
  /\ pool \in {"shutdown", "closed"}
  /\ caller' = [caller EXCEPT ![j] = "refused"]
  /\ UNCHANGED <<future, worker, state, held, pool, toCancel, ran>>

\* A pool thread takes the future; from here on cancel() fails.
PickUp(j) ==
  /\ future[j] = "queued"
  /\ Cardinality({k \in Jobs : worker[k] # "off"}) < PoolWorkers
  /\ future' = [future EXCEPT ![j] = "executing"]
  /\ worker' = [worker EXCEPT ![j] = "picked"]
  /\ UNCHANGED <<caller, state, held, pool, toCancel, ran>>

\* _run_one flips PENDING to RUNNING and starts the trial ...
RunOne(j) ==
  /\ worker[j] = "picked"
  /\ worker' = [worker EXCEPT ![j] = "body"]
  /\ state' = [state EXCEPT ![j] = IF @ = "pending" THEN "running" ELSE @]
  /\ ran' = ran \cup {j}
  /\ UNCHANGED <<caller, future, held, pool, toCancel>>

\* ... which returns or raises.
BodyEnds(j, f) ==
  /\ worker[j] = "body"
  /\ worker' = [worker EXCEPT ![j] = "off"]
  /\ future' = [future EXCEPT ![j] = f]
  /\ UNCHANGED <<caller, state, held, pool, toCancel, ran>>

\* future.result() comes back: only a job still RUNNING becomes FAILED.
CollectJob(j) ==
  /\ caller[j] = "waiting"
  /\ future[j] \in {"result", "error", "cancelled"}
  /\ caller' = [caller EXCEPT ![j] = "returned"]
  /\ state' = [state EXCEPT ![j] = CASE future[j] = "result" -> "completed"
                                     [] future[j] # "result" /\ @ = "running" -> "failed"
                                     [] OTHER -> @]
  /\ held' = [held EXCEPT ![j] = FALSE]
  /\ UNCHANGED <<future, worker, pool, toCancel, ran>>

\* The orchestrator stops: _cancel_active_dispatch_jobs.
StopJobs ==
  /\ pool = "open"
  /\ pool' = "cancelling"
  /\ toCancel' = {j \in Jobs : caller[j] # "idle"}
  /\ UNCHANGED <<caller, future, worker, state, held, ran>>

\* A slip: whether cancel() succeeded is not looked at.
CancelThreadBlindly(j) ==
  /\ j \in toCancel
  /\ toCancel' = toCancel \ {j}
  /\ IF held[j]
     THEN /\ future' = [future EXCEPT ![j] = IF @ = "queued" THEN "cancelled" ELSE @]
          /\ state' = [state EXCEPT ![j] = "cancelled"]
     ELSE UNCHANGED <<future, state>>
  /\ UNCHANGED <<caller, worker, held, pool, ran>>

\* _cancel_thread: Future.cancel() works on a queued (or cancelled) future.
CancelThread(j) ==
  /\ j \in toCancel
  /\ toCancel' = toCancel \ {j}
  /\ IF held[j] /\ future[j] \in {"queued", "cancelled"}
     THEN /\ future' = [future EXCEPT ![j] = "cancelled"]
          /\ state' = [state EXCEPT ![j] = "cancelled"]
     ELSE UNCHANGED <<future, state>>
  /\ UNCHANGED <<caller, worker, held, pool, ran>>

\* close(): shutdown(wait=True), after a stop or at the end of the run ...
ShutdownPool ==
  /\ \/ pool = "cancelling" /\ toCancel = {}
     \/ pool = "open" /\ \A j \in Jobs : caller[j] = "returned"
  /\ pool' = "shutdown"
  /\ UNCHANGED <<caller, future, worker, state, held, toCancel, ran>>

\* ... which drains what was submitted.
PoolDrained ==
  /\ pool = "shutdown"
  /\ \A j \in Jobs : future[j] \notin {"queued", "executing"}
  /\ pool' = "closed"
  /\ UNCHANGED <<caller, future, worker, state, held, toCancel, ran>>

JobStep(j) ==
  \/ Submit(j) \/ SubmitRefused(j) \/ PickUp(j) \/ RunOne(j)
  \/ BodyEnds(j, "result") \/ BodyEnds(j, "error")
  \/ CollectJob(j) \/ CancelThread(j)

JobNext ==
  \/ \E j \in Jobs : Call(j) \/ JobStep(j)
  \/ StopJobs
  \/ ShutdownPool
  \/ PoolDrained

(***************************************************************************)
(* Properties                                                              *)
(***************************************************************************)

\* Once a call has returned, status() tells what became of its future, and
\* the future (with the result it pins) is let go; before that it is held.  A
\* job reported cancelled never started: cancel() racing the pool thread that
\* takes the job up, or its completion, does not overwrite what happened.
JobTellsTruth ==
  \A j \in Jobs :
    /\ state[j] = "cancelled" => j \notin ran
    /\ caller[j] = "returned" =>
         <<future[j], state[j]>> \in {<<"result", "completed">>, <<"error", "failed">>,
                                      <<"cancelled", "cancelled">>}
    /\ held[j] <=> caller[j] = "waiting"
=============================================================================
