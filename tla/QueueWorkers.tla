---------------------------- MODULE QueueWorkers ----------------------------
(***************************************************************************)
(* Distributed execution: `tolokaforge prepare` seeds the durable queue    *)
(* (Orchestrator.prepare_run), any number of `tolokaforge worker`          *)
(* processes drain it (Orchestrator.run_worker), and all of them register  *)
(* their trials with the one Runner service behind EXECUTOR_ADDRESS.       *)
(*                                                                         *)
(* A worker's pc is the queue or Runner call it makes next:                *)
(*                                                                         *)
(*   down -> idle -> leased -> starting -> executing -> finished -> idle   *)
(*                     |          |  \         |          |                *)
(*                     |          |   refused -+          |                *)
(*                     v          v            v          v                *)
(*                   update <-- select <-------+----------+                *)
(*                     |                                                   *)
(*                     +--> cleanup --> idle                               *)
(*                                                                         *)
(* and idle -> exited when the queue is empty or a limit is reached.       *)
(***************************************************************************)
EXTENDS RunQueue

CONSTANTS
  UnknownTasks,  \* rows whose task_id the workers' configuration lacks
  Faults,        \* which of AllFaults the environment may show
  MaxCrashes     \* bound on worker crashes

AllFaults == {"prepare_crash",  \* prepare dies between two inserts
              "crash",          \* a worker process dies
              "overrun",        \* a trial outlives its lease
              "restart",        \* a worker that exited is started again
              "limits",         \* max_attempts or max_budget_usd stops a worker
              "queue_error",    \* mark_completed fails, unserved
              "mark_lost",      \* mark_completed is served, its answer lost
              "cleanup_error"}  \* the Runner's CleanupTrial fails

ASSUME WorkersAssumption ==
  /\ UnknownTasks \subseteq Attempts
  /\ Faults \subseteq AllFaults
  /\ MaxCrashes \in Nat

VARIABLES
  cursor,       \* prepare's progress: 0 not running, k the next row to insert
  prepared,     \* engine_run_state.json carries the run_id
  pc,           \* see above
  lease,        \* the AttemptLease run_worker has in hand, 0 for none
  shouldRetry,  \* should_retry of the mark_failed call under way
  registered,   \* the Runner: whose registration the trial id carries
  runs,         \* history: how often a worker set out to execute the trial
  crashes       \* history: worker crashes so far

workerVars == <<pc, lease, shouldRetry>>
prepareVars == <<cursor, prepared>>
historyVars == <<runs, crashes>>
vars == <<now, queueVars, prepareVars, workerVars, registered, historyVars>>

(* The worker is answerable for the row it leased: it has not told the queue
   how the attempt ended. *)
Holding(w) == pc[w] \in {"leased", "starting", "executing", "refused",
                         "finished", "select", "update"}

Labels == {"down", "idle", "leased", "starting", "executing", "refused",
           "finished", "select", "update", "cleanup", "exited"}

RunTypeOK ==
  /\ cursor \in 0..NumAttempts + 1
  /\ prepared \in BOOLEAN
  /\ pc \in [Workers -> Labels]
  /\ lease \in [Workers -> 0..NumAttempts]
  /\ shouldRetry \in [Workers -> BOOLEAN]
  /\ registered \in [Attempts -> Workers \cup {None}]
  /\ runs \in [Attempts -> Nat]
  /\ crashes \in 0..MaxCrashes

(* A worker has a lease in hand exactly while it owes a call for it. *)
LeaseInHand ==
  \A w \in Workers : (Holding(w) \/ pc[w] = "cleanup") <=> lease[w] # 0

TypeOK == QueueTypeOK /\ RunTypeOK /\ LeaseInHand

Init ==
  /\ QueueInit
  /\ cursor = 0
  /\ prepared = FALSE
  /\ pc = [w \in Workers |-> "down"]
  /\ lease = [w \in Workers |-> 0]
  /\ shouldRetry = [w \in Workers |-> FALSE]
  /\ registered = [a \in Attempts |-> None]
  /\ runs = [a \in Attempts |-> 0]
  /\ crashes = 0

Goto(w, l) == pc' = [pc EXCEPT ![w] = l]

-----------------------------------------------------------------------------
(* prepare_run, until the run is announced (a reset of a queue that workers
   already drain is not modelled).  A queue that holds any row is left as it
   is, unless the operator asks for a reset. *)

PrepareBegin ==
  /\ cursor = 0 /\ ~prepared
  /\ \/ /\ \A a \in Attempts : status[a] = "absent"
        /\ cursor' = 1
        /\ UNCHANGED queueVars
     \/ /\ \E a \in Attempts : status[a] # "absent"
        /\ cursor' = NumAttempts + 1
        /\ UNCHANGED queueVars
     \/ /\ clear_all
        /\ cursor' = 1
  /\ UNCHANGED <<now, prepared, workerVars, registered, historyVars>>

PrepareInsert ==
  /\ cursor \in Attempts
  /\ enqueue(cursor)
  /\ cursor' = cursor + 1
  /\ UNCHANGED <<now, prepared, workerVars, registered, historyVars>>

(* A slip: the run is announced before its rows are in. *)
PrepareFinishEarly ==
  /\ cursor # 0
  /\ prepared' = TRUE
  /\ cursor' = 0
  /\ UNCHANGED <<now, queueVars, workerVars, registered, historyVars>>

(* write_engine_run_state: from here on a worker finds its run_id. *)
PrepareFinish ==
  /\ cursor = NumAttempts + 1
  /\ prepared' = TRUE
  /\ cursor' = 0
  /\ UNCHANGED <<now, queueVars, workerVars, registered, historyVars>>

PrepareCrash ==
  /\ "prepare_crash" \in Faults
  /\ cursor # 0
  /\ cursor' = 0
  /\ UNCHANGED <<now, queueVars, prepared, workerVars, registered, historyVars>>

-----------------------------------------------------------------------------
(* run_worker *)

(* Start a worker, one that died, or one that exited: read_persisted_run_id, connect to the
   Runner, recover_inflight. *)
Start(w) ==
  /\ prepared
  /\ pc[w] = "down" \/ ("restart" \in Faults /\ pc[w] = "exited")
  /\ recover_inflight
  /\ Goto(w, "idle")
  /\ UNCHANGED <<now, prepareVars, lease, shouldRetry, registered, historyVars>>

Lease(w) ==
  /\ pc[w] = "idle"
  /\ \E a \in Attempts : lease_next(w, a) /\ lease' = [lease EXCEPT ![w] = a]
  /\ Goto(w, "leased")
  /\ UNCHANGED <<now, prepareVars, shouldRetry, registered, historyVars>>

(* lease_next returned None: the worker is done. *)
ExitOnEmpty(w) ==
  /\ pc[w] = "idle"
  /\ Pending = {}
  /\ Goto(w, "exited")
  /\ UNCHANGED <<now, queueVars, prepareVars, lease, shouldRetry, registered,
                 historyVars>>

(* processed >= max_attempts, or total_cost_usd >= budget_limit. *)
ExitOnLimit(w) ==
  /\ "limits" \in Faults
  /\ pc[w] = "idle"
  /\ Goto(w, "exited")
  /\ UNCHANGED <<now, queueVars, prepareVars, lease, shouldRetry, registered,
                 historyVars>>

(* task_by_id has no such task: mark_failed with retryable = FALSE, whose
   UPDATE does not depend on its SELECT. *)
UnknownTask(w) ==
  /\ pc[w] = "leased"
  /\ lease[w] \in UnknownTasks
  /\ Goto(w, "update")
  /\ shouldRetry' = [shouldRetry EXCEPT ![w] = FALSE]
  /\ UNCHANGED <<now, queueVars, prepareVars, lease, registered, historyVars>>

MarkRunning(w) ==
  /\ pc[w] = "leased"
  /\ lease[w] \notin UnknownTasks
  /\ mark_running(lease[w], w)
  /\ runs' = [runs EXCEPT ![lease[w]] = @ + 1]
  /\ Goto(w, "starting")
  /\ UNCHANGED <<now, prepareVars, lease, shouldRetry, registered, crashes>>

(* Conductor._setup_trial registers the trial; the DB Service refuses an id it
   still has, which ends the attempt as PROVISION_ERROR. *)
Register(w) ==
  /\ pc[w] = "starting"
  /\ IF registered[lease[w]] = None
     THEN /\ registered' = [registered EXCEPT ![lease[w]] = w]
          /\ Goto(w, "executing")
     ELSE /\ Goto(w, "refused")
          /\ UNCHANGED registered
  /\ UNCHANGED <<now, queueVars, prepareVars, lease, shouldRetry, historyVars>>

(* trial_unit.execute gave a trajectory that _is_retryable_trajectory turns
   down: a verdict of the trial's own, or (before registration) a
   deterministic provisioning fault. *)
Decide(w) ==
  /\ pc[w] \in {"starting", "executing"}
  /\ Goto(w, "finished")
  /\ UNCHANGED <<now, queueVars, prepareVars, lease, shouldRetry, registered, historyVars>>

(* A retryable trajectory, or an exception out of _build_trial_spec or
   execute. *)
FailRetryably(w) ==
  /\ pc[w] \in {"starting", "executing"}
  /\ Goto(w, "select")
  /\ UNCHANGED <<now, queueVars, prepareVars, lease, shouldRetry, registered,
                 historyVars>>

(* A slip: the finished lease stays in hand. *)
MarkCompletedKeepsLease(w) ==
  /\ pc[w] \in {"finished", "refused"}
  /\ mark_completed(lease[w])
  /\ Goto(w, "idle")
  /\ UNCHANGED <<now, prepareVars, lease, shouldRetry, registered, historyVars>>

MarkCompleted(w) ==
  /\ pc[w] \in {"finished", "refused"}
  /\ mark_completed(lease[w])
  /\ lease' = [lease EXCEPT ![w] = 0]
  /\ Goto(w, "idle")
  /\ UNCHANGED <<now, prepareVars, shouldRetry, registered, historyVars>>

(* mark_completed is inside the try: if it raises, the handler calls
   mark_failed with retryable = TRUE. *)
MarkCompletedRaises(w) ==
  /\ "queue_error" \in Faults
  /\ pc[w] \in {"finished", "refused"}
  /\ Goto(w, "select")
  /\ UNCHANGED <<now, queueVars, prepareVars, lease, shouldRetry, registered,
                 historyVars>>

(* The UPDATE was committed and the connection broke before its answer: the
   handler sees the same exception. *)
MarkCompletedLost(w) ==
  /\ "mark_lost" \in Faults
  /\ pc[w] \in {"finished", "refused"}
  /\ mark_completed(lease[w])
  /\ Goto(w, "select")
  /\ UNCHANGED <<now, prepareVars, lease, shouldRetry, registered, historyVars>>

MarkFailedSelect(w) ==
  /\ pc[w] = "select"
  /\ shouldRetry' = [shouldRetry EXCEPT ![w] = ShouldRetry(lease[w])]
  /\ Goto(w, "update")
  /\ UNCHANGED <<now, queueVars, prepareVars, lease, registered, historyVars>>

(* Only a requeued attempt's registration is cleaned up, and only after the
   row is pending again. *)
MarkFailedUpdate(w) ==
  /\ pc[w] = "update"
  /\ mark_failed(lease[w], shouldRetry[w])
  /\ IF shouldRetry[w]
     THEN Goto(w, "cleanup") /\ UNCHANGED lease
     ELSE Goto(w, "idle") /\ lease' = [lease EXCEPT ![w] = 0]
  /\ shouldRetry' = [shouldRetry EXCEPT ![w] = FALSE]
  /\ UNCHANGED <<now, prepareVars, registered, historyVars>>

(* _cleanup_runner_state_for_retry: CleanupTrial forgets the trial id, whoever
   registered it; a failure is logged and the worker goes on. *)
CleanupForRetry(w) ==
  /\ pc[w] = "cleanup"
  /\ \/ registered' = [registered EXCEPT ![lease[w]] = None]
     \/ "cleanup_error" \in Faults /\ UNCHANGED registered
  /\ lease' = [lease EXCEPT ![w] = 0]
  /\ Goto(w, "idle")
  /\ UNCHANGED <<now, queueVars, prepareVars, shouldRetry, historyVars>>

-----------------------------------------------------------------------------
(* The environment. *)

Crash(w) ==
  /\ "crash" \in Faults
  /\ crashes < MaxCrashes
  /\ now + LeaseTicks < MaxNow  \* the bounded clock can still expire the lease
  /\ pc[w] \notin {"down", "exited"}
  /\ Goto(w, "down")
  /\ lease' = [lease EXCEPT ![w] = 0]
  /\ shouldRetry' = [shouldRetry EXCEPT ![w] = FALSE]
  /\ crashes' = crashes + 1
  /\ UNCHANGED <<now, queueVars, prepareVars, registered, runs>>

(* Without "overrun", the clock stops short of the expiry of a lease whose
   worker is alive and has not reported: the lease is twice the episode
   timeout, which bounds a trial unless tool execution, grading or a stream
   runs away (docs/CONFIG.md). *)
Tick ==
  /\ now < MaxNow
  /\ \/ "overrun" \in Faults
     \/ \A w \in Workers : Holding(w) => now < leaseExpires[lease[w]]
  /\ now' = now + 1
  /\ UNCHANGED <<queueVars, prepareVars, workerVars, registered, historyVars>>

WorkerStep(w) ==
  \/ Lease(w) \/ ExitOnEmpty(w) \/ ExitOnLimit(w)
  \/ UnknownTask(w) \/ MarkRunning(w)
  \/ Register(w) \/ Decide(w) \/ FailRetryably(w)
  \/ MarkCompleted(w) \/ MarkCompletedRaises(w) \/ MarkCompletedLost(w)
  \/ MarkFailedSelect(w) \/ MarkFailedUpdate(w) \/ CleanupForRetry(w)

Prepare == PrepareBegin \/ PrepareInsert \/ PrepareFinish

Next ==
  \/ Prepare \/ PrepareCrash
  \/ \E w \in Workers : Start(w) \/ WorkerStep(w) \/ Crash(w)
  \/ Tick

Spec == Init /\ [][Next]_vars
(* The scheduling the code and its operator give: a process that can take its
   next step takes it, time passes, and whoever runs the workers starts again
   one that stopped or died (docs/RUNNER.md, "Restart the same command"). *)
FairSpec ==
  /\ Spec
  /\ WF_vars(Prepare)
  /\ WF_vars(Tick)
  /\ \A w \in Workers : WF_vars(Start(w)) /\ WF_vars(WorkerStep(w))

-----------------------------------------------------------------------------
(* Properties.  Those that read "while no trial outlives its lease" are false
   with "overrun" in Faults, and those that add "and no served mark is lost"
   with "mark_lost" too: a worker then acts on a row that is not its own any
   more, and the operations of the queue look at neither the status nor the
   owner of the row they change. *)

(* While no trial outlives its lease, no attempt is in the hands of two live
   workers, whatever crashes, restarts and recoveries happen: recover_inflight
   takes rows from the dead only. *)
LeaseExclusive ==
  \A v, w \in Workers :
    Holding(v) /\ Holding(w) /\ lease[v] = lease[w] => v = w

HeldRow(w, a) ==
  /\ status[a] \in InFlight
  /\ leaseOwner[a] = w
  /\ now <= leaseExpires[a]
  /\ leaseExpires[a] <= updatedAt[a] + LeaseTicks
  /\ updatedAt[a] <= now

(* While no trial outlives its lease and no served mark is lost, the row of an
   attempt under way says so: it is in flight, names the worker that has it,
   and neither its lease nor its age lets recover_inflight take it. *)
HolderOwnsRow == \A w \in Workers : Holding(w) => HeldRow(w, lease[w])

(* While no trial outlives its lease, what the SELECT of mark_failed read is
   still so when its UPDATE runs. *)
SelectStillTrue ==
  \A w \in Workers : pc[w] = "update" /\ shouldRetry[w] => ShouldRetry(lease[w])

(* While no trial outlives its lease, an attempt is requeued at most
   max_attempt_retries times, although mark_failed reads the count in one
   statement and raises it in another. *)
RetryBound == \A a \in Attempts : retryCount[a] <= MaxRetries

(* While no trial outlives its lease and no served mark is lost, a row that
   completed or failed never leaves that state again. *)
TerminalIsFinal ==
  [][\A a \in Attempts : status[a] \in Terminal => status'[a] = status[a]]_vars

(* While no trial outlives its lease, every execution of a trial beyond the
   first is paid for, by one of its retries or by a crash. *)
EveryRunPaidFor == \A a \in Attempts : runs[a] <= 1 + retryCount[a] + crashes

(* Without crashes and limits, workers that leave because the queue is empty
   leave nothing behind: an attempt that is not finished has a worker that
   will come back to the queue for it, even when leases are overrun, when a
   mark was served and its worker requeues the attempt all the same, and when
   prepare died half-way through its inserts. *)
NothingStranded ==
  prepared /\ (\A w \in Workers : pc[w] = "exited")
    => \A a \in Attempts : status[a] \in Terminal \cup {"absent"}

(* Once prepare has announced the run to the workers, every trial of the run
   has its row, unless prepare itself died among its inserts. *)
PreparedIsFull == prepared => \A a \in Attempts : status[a] # "absent"

(* The registration of an earlier attempt is gone when the next one registers:
   RegisterTrial never refuses a trial as a duplicate. *)
NeverRefused == \A w \in Workers : pc[w] # "refused"

(* Every attempt ends up completed or failed and stays so, through crashes,
   as long as workers are started again. *)
EventuallyFinished == <>[](\A a \in Attempts : status[a] \in Terminal)

-----------------------------------------------------------------------------
(* The ledger the queue keeps: leases, clock and statements forgotten. *)

PhaseOf(a) ==
  CASE status[a] = "absent" -> "unlisted"
    [] status[a] = "pending" -> "open"
    [] status[a] \in InFlight -> "taken"
    [] status[a] \in Terminal -> "over"

Holds(w, a) == Holding(w) /\ lease[w] = a

HolderOf(a) ==
  IF leaseOwner[a] \in Workers /\ Holds(leaseOwner[a], a)
  THEN leaseOwner[a] ELSE None

Ledger == INSTANCE AttemptLedger WITH
  Trials <- Attempts,
  phase <- [a \in Attempts |-> PhaseOf(a)],
  holder <- [a \in Attempts |-> HolderOf(a)],
  credit <- [a \in Attempts |-> MaxRetries - retryCount[a]]

(* While no trial outlives its lease and no served mark is lost, prepare, the
   workers and the queue implement the ledger: in particular an attempt is
   given up for lost, and leased to another worker, only when the worker that
   had it is gone. *)
ImplementsLedger == Ledger!Spec
=============================================================================
