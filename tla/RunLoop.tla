------------------------------ MODULE RunLoop -------------------------------
(***************************************************************************)
(* `tolokaforge run` and `run --resume` (Orchestrator.run): one process    *)
(* drains the durable queue through a thread pool, keeps the ledger        *)
(* run_state.json beside it, stops scheduling when a budget is hit, and    *)
(* may die at any point; a later invocation resumes from the two files and *)
(* the trial bundles.                                                      *)
(*                                                                         *)
(* The orchestrator's thread is at pc; every save_state is a step of its   *)
(* own, and ctx says whose it is:                                          *)
(*                                                                         *)
(*   down -> save(init) -> enqueue -> fill -> leased -> save(start)        *)
(*                                     ^ |       \           |             *)
(*        save(unrunnable) ------------+ v        \        submit -> fill  *)
(*                                      wait       save(unrunnable)        *)
(*                                       |                                 *)
(*     save(end) -> down  <--------------+--> save(result) -> poll -> fill *)
(*                                            |   \                        *)
(*                                            |    raised -> save(handler) *)
(*                                            +--> poll (a retry)          *)
(*                                                                         *)
(* Only this process uses the queue, so mark_failed is one step here.      *)
(* `wait` hands over a batch of finished futures; taking them one by one   *)
(* is the same, since a future may as well finish later.                   *)
(***************************************************************************)
EXTENDS RunQueue, Budgets, FiniteSets

CONSTANTS
  PoolSize,        \* effective_workers
  InjectedBudget,  \* the CLI injects a budget it built itself
  Dropped,         \* rows of tasks a resumed invocation no longer loads
  Faults,          \* which of AllFaults the environment may show
  MaxStops         \* bound on stops and failing saves

AllFaults == {"stop",          \* Ctrl-C, kill, an exception out of the loop
              "torn",          \* a save cut short leaves half a file
              "save_error",    \* save_state raises
              "spec_error",    \* _build_trial_spec raises
              "early_resume"}  \* resumed before the old leases have expired

ASSUME RunLoopAssumption ==
  /\ Workers # {}
  /\ PoolSize \in Nat \ {0}
  /\ InjectedBudget \in BOOLEAN
  /\ Dropped \subseteq Attempts
  /\ Faults \subseteq AllFaults
  /\ MaxStops \in Nat

VARIABLES
  file,       \* run_state.json
  bundle,     \* trials/<task>/<index>: what its latest bundle shows
  pc, ctx,    \* see above
  cur,        \* the lease in hand, 0 for none
  run,        \* run_state, the ledger in memory
  todo,       \* rows enqueue_many has still to insert
  fut,        \* active_futures: the trial's thread and what it returned
  loaded,     \* task_by_id
  exhausted,  \* budget_exhausted
  planned,    \* history: the trials this invocation announced it would run
  started,    \* history: the trials it did submit
  burned,     \* history: cost recorded by all invocations
  stops       \* history: stops and failing saves so far

loopVars == <<pc, ctx, cur>>
memVars == <<run, todo, fut, loaded, exhausted>>
diskVars == <<file, bundle>>
historyVars == <<planned, started, burned, stops>>
vars == <<now, queueVars, budgetVars, loopVars, memVars, diskVars, historyVars>>

RS == INSTANCE RunState WITH Trials <- Attempts

Absent == [status |-> "absent"]  \* no run_state.json
Torn == [status |-> "torn"]      \* one json.load cannot parse

Outcomes == {"verdict",    \* graded, or over with no infrastructure error
             "fault",      \* not retryable, but an infrastructure error:
                           \* provisioning, credentials
             "transient"}  \* retryable: rate limit, API error, time-out

Orchestrator == CHOOSE w \in Workers : TRUE

Loadable == file \notin {Absent, Torn}       \* load_state does not give None
Active == {a \in Attempts : fut[a] # "none"}
Unfinished == {a \in Attempts : status[a] \in {"pending"} \cup InFlight}

(* _trial_total_spend_usd: a trial that never got its environment is free. *)
TrialCost(o) == IF o \in {"verdict", "transient"} THEN 1 ELSE 0

(* _collect_existing_cost: one bundle per trial, the latest. *)
CostOnDisk == Cardinality({a \in Attempts : TrialCost(bundle[a]) = 1})

LoopTypeOK ==
  /\ pc \in {"down", "save", "enqueue", "fill", "leased", "submit", "wait",
             "raised", "poll"}
  /\ ctx \in {"none", "init", "start", "unrunnable", "result", "handler",
              "retry", "end"}
  /\ run \in RS!Ledgers
  /\ todo \subseteq Attempts
  /\ fut \in [Attempts -> Outcomes \cup {"none", "executing", "raised"}]
  /\ loaded \subseteq Attempts
  /\ exhausted \in BOOLEAN

DiskTypeOK ==
  /\ file \in RS!Ledgers \cup {Absent, Torn}
  /\ bundle \in [Attempts -> Outcomes \cup {"none"}]

HistoryTypeOK ==
  /\ planned \subseteq Attempts
  /\ started \subseteq Attempts
  /\ burned \in Nat
  /\ stops \in 0..MaxStops

(* Where the code goes on to use the lease, there is one. *)
LeaseInHand ==
  /\ cur \in Attempts \cup {0}
  /\ \/ pc \in {"leased", "submit", "raised"}
     \/ pc = "save" /\ ctx \in {"start", "result"}
     => cur \in Attempts

TypeOK ==
  QueueTypeOK /\ BudgetTypeOK /\ LoopTypeOK /\ DiskTypeOK /\ HistoryTypeOK /\ LeaseInHand

Init ==
  /\ QueueInit
  /\ cost = 0 /\ samples = 0 /\ clockStart = NotStarted
  /\ file = Absent
  /\ bundle = [a \in Attempts |-> "none"]
  /\ pc = "down" /\ ctx = "none" /\ cur = 0
  /\ run = RS!initialize_run
  /\ todo = {}
  /\ fut = [a \in Attempts |-> "none"]
  /\ loaded = {}
  /\ exhausted = FALSE
  /\ planned = {} /\ started = {} /\ burned = 0 /\ stops = 0

-----------------------------------------------------------------------------
(* The process is gone: its threads, its memory. *)
ProcessEnds ==
  /\ pc' = "down" /\ ctx' = "none" /\ cur' = 0
  /\ run' = RS!initialize_run
  /\ todo' = {}
  /\ fut' = [a \in Attempts |-> "none"]
  /\ loaded' = {}
  /\ exhausted' = FALSE
  /\ NewBudget(0)
  /\ planned' = {} /\ started' = {}

Goto(p, c) == pc' = p /\ ctx' = c

(* A run in a directory of its own: initialize_run, up to its save. *)
BeginFresh ==
  /\ pc = "down" /\ file = Absent
  /\ run' = RS!initialize_run
  /\ todo' = Attempts
  /\ loaded' = Attempts
  /\ planned' = Attempts
  /\ Goto("save", "init")
  /\ UNCHANGED <<now, queueVars, budgetVars, cur, fut, exhausted, diskVars,
                 started, burned, stops>>

(* run --resume: refused without a ledger it can read, done when nothing is to
   be retried, and aborted when a trial it skips has no bundle to report. *)
Resume ==
  /\ pc = "down" /\ Loadable
  /\ RS!to_retry(file, bundle) # {}
  /\ \A a \in Attempts \ RS!to_retry(file, bundle) : bundle[a] # "none"
  /\ "early_resume" \in Faults \/ \A a \in Attempts : status[a] \in InFlight => Stale(a)
  /\ run' = file
  /\ todo' = RS!to_retry(file, bundle) \ Dropped
  /\ loaded' = Attempts \ Dropped
  /\ planned' = RS!to_retry(file, bundle)
  /\ Goto("enqueue", "none")
  /\ UNCHANGED <<now, queueVars, budgetVars, cur, fut, exhausted, diskVars,
                 started, burned, stops>>

(* One row of enqueue_many. *)
EnqueueRow(a) ==
  /\ pc = "enqueue" /\ a \in todo /\ \A b \in todo : a <= b
  /\ enqueue(a)
  /\ todo' = todo \ {a}
  /\ UNCHANGED <<now, budgetVars, loopVars, run, fut, loaded, exhausted,
                 diskVars, historyVars>>

(* A slip: what is on disk is taken off the counter. *)
SeedAsCredit == -CostOnDisk

(* _resolve_budget: an injected budget is taken as it is. *)
Seed == IF InjectedBudget THEN 0 ELSE CostOnDisk

(* recover_inflight, the budget, and its first poll. *)
Recover ==
  /\ pc = "enqueue" /\ todo = {}
  /\ recover_inflight
  /\ NewBudget(Seed)
  /\ exhausted' = Hit(Seed, 0, NotStarted, now)
  /\ Goto("fill", "none")
  /\ UNCHANGED <<now, cur, run, todo, fut, loaded, diskVars, historyVars>>

-----------------------------------------------------------------------------
(* submit_one, from the lease to the future. *)

(* A slip: the budget is not asked. *)
LeaseNextRegardless(a) ==
  /\ pc = "fill" /\ Cardinality(Active) < PoolSize
  /\ lease_next(Orchestrator, a)
  /\ cur' = a
  /\ Goto("leased", "none")
  /\ UNCHANGED <<now, budgetVars, memVars, diskVars, historyVars>>

LeaseNext(a) ==
  /\ pc = "fill" /\ Cardinality(Active) < PoolSize
  /\ ~exhausted
  /\ lease_next(Orchestrator, a)
  /\ cur' = a
  /\ Goto("leased", "none")
  /\ UNCHANGED <<now, budgetVars, memVars, diskVars, historyVars>>

(* A slip: an empty queue does not end the filling. *)
FillDoneWhenFull ==
  /\ pc = "fill"
  /\ exhausted \/ Cardinality(Active) >= PoolSize
  /\ Goto("wait", "none")
  /\ UNCHANGED <<now, queueVars, budgetVars, cur, memVars, diskVars, historyVars>>

(* The pool is full, the queue has nothing pending, or the budget is hit. *)
FillDone ==
  /\ pc = "fill"
  /\ exhausted \/ Cardinality(Active) >= PoolSize \/ Pending = {}
  /\ Goto("wait", "none")
  /\ UNCHANGED <<now, queueVars, budgetVars, cur, memVars, diskVars, historyVars>>

(* The attempt cannot be run: its task is not loaded, or its spec cannot be
   built.  No record_trial_terminated on these two paths. *)
CannotRun ==
  /\ mark_failed(cur, FALSE)
  /\ run' = RS!mark_failed(run, cur)
  /\ Goto("save", "unrunnable")
  /\ UNCHANGED <<now, budgetVars, cur, todo, fut, loaded, exhausted, diskVars,
                 historyVars>>

UnknownTask == pc = "leased" /\ cur \notin loaded /\ CannotRun

SpecFails == pc = "submit" /\ "spec_error" \in Faults /\ CannotRun

MarkRunning ==
  /\ pc = "leased" /\ cur \in loaded
  /\ mark_running(cur, Orchestrator)
  /\ run' = RS!mark_running(run, cur)
  /\ Goto("save", "start")
  /\ UNCHANGED <<now, budgetVars, cur, todo, fut, loaded, exhausted, diskVars,
                 historyVars>>

Submit ==
  /\ pc = "submit"
  /\ fut' = [fut EXCEPT ![cur] = "executing"]
  /\ started' = started \cup {cur}
  /\ cur' = 0
  /\ Goto("fill", "none")
  /\ UNCHANGED <<now, queueVars, budgetVars, run, todo, loaded, exhausted,
                 diskVars, planned, burned, stops>>

-----------------------------------------------------------------------------
(* A pool thread ends its trial.  The bundle is on disk before the future is
   done, over the one of an earlier attempt. *)
TrialEnds(a, o) ==
  /\ fut[a] = "executing"
  /\ fut' = [fut EXCEPT ![a] = o]
  /\ bundle' = [bundle EXCEPT ![a] = o]
  /\ UNCHANGED <<now, queueVars, budgetVars, loopVars, run, todo, loaded,
                 exhausted, file, historyVars>>

TrialRaises(a) ==
  /\ fut[a] = "executing"
  /\ fut' = [fut EXCEPT ![a] = "raised"]
  /\ UNCHANGED <<now, queueVars, budgetVars, loopVars, run, todo, loaded,
                 exhausted, diskVars, historyVars>>

-----------------------------------------------------------------------------
(* Recording one finished future. *)
Take(a) ==
  /\ pc = "wait"
  /\ fut' = [fut EXCEPT ![a] = "none"]
  /\ cur' = a

Spend(c) ==
  /\ record_generation_cost(c, now)
  /\ burned' = burned + c

(* A slip: the queue hears of it only when the future raised. *)
RecordFinalLedgerOnly(a) ==
  /\ fut[a] \in {"verdict", "fault"}
  /\ Take(a)
  /\ Spend(TrialCost(fut[a]))
  /\ run' = RS!mark_completed(run, a)
  /\ Goto("save", "result")
  /\ UNCHANGED <<now, queueVars, todo, loaded, exhausted, diskVars, planned, started, stops>>

(* Not retryable: the attempt is over, with a grade or without. *)
RecordFinal(a) ==
  /\ fut[a] \in {"verdict", "fault"}
  /\ Take(a)
  /\ Spend(TrialCost(fut[a]))
  /\ mark_completed(a)
  /\ run' = RS!mark_completed(run, a)
  /\ Goto("save", "result")
  /\ UNCHANGED <<now, todo, loaded, exhausted, diskVars, planned, started, stops>>

(* Both paths of a retryable failure: the row goes back to the queue, or, its
   retries used up, is failed and recorded. *)
Requeue(a, c) ==
  /\ mark_failed(a, ShouldRetry(a))
  /\ IF ShouldRetry(a)
     THEN Goto("poll", "retry") /\ UNCHANGED run
     ELSE Goto("save", c) /\ run' = RS!mark_failed(run, a)

(* A slip: a transient failure is taken for a verdict. *)
RecordTransientAsFinal(a) ==
  /\ fut[a] = "transient"
  /\ Take(a)
  /\ Spend(TrialCost(fut[a]))
  /\ mark_completed(a)
  /\ run' = RS!mark_completed(run, a)
  /\ Goto("save", "result")
  /\ UNCHANGED <<now, todo, loaded, exhausted, diskVars, planned, started, stops>>

RecordTransient(a) ==
  /\ fut[a] = "transient"
  /\ Take(a)
  /\ Spend(TrialCost(fut[a]))
  /\ Requeue(a, "result")
  /\ UNCHANGED <<now, todo, loaded, exhausted, diskVars, planned, started, stops>>

(* The except clause, for a future that raised ... *)
HandleRaised(a) ==
  /\ fut[a] = "raised"
  /\ Take(a)
  /\ Requeue(a, "handler")
  /\ UNCHANGED <<now, budgetVars, todo, loaded, exhausted, diskVars, historyVars>>

(* ... and for a save that did, after the row was already recorded. *)
HandleSaveError ==
  /\ pc = "raised"
  /\ Requeue(cur, "handler")
  /\ UNCHANGED <<now, budgetVars, cur, todo, fut, loaded, exhausted, diskVars, historyVars>>

(* record_trial_terminated where the attempt is over, then budget.poll. *)
Poll ==
  /\ pc = "poll"
  /\ IF ctx = "retry" THEN UNCHANGED budgetVars ELSE record_trial_terminated(now)
  /\ exhausted' = (exhausted \/ Hit(cost', samples', clockStart', now))
  /\ cur' = 0
  /\ Goto("fill", "none")
  /\ UNCHANGED <<now, queueVars, run, todo, fut, loaded, diskVars, historyVars>>

(* A slip: the queue is not asked whether anything remains. *)
FinishCompleted ==
  /\ pc = "wait" /\ Active = {} /\ Loadable
  /\ run' = RS!mark_run(file, "completed")
  /\ Goto("save", "end")
  /\ UNCHANGED <<now, queueVars, budgetVars, cur, todo, fut, loaded, exhausted,
                 diskVars, historyVars>>

(* No future is left.  The ledger is read again from disk, stamped, and saved. *)
Finish ==
  /\ pc = "wait" /\ Active = {}
  /\ IF Loadable
     THEN /\ run' = RS!mark_run(file, IF exhausted /\ Unfinished # {}
                                      THEN "paused" ELSE "completed")
          /\ Goto("save", "end")
          /\ UNCHANGED <<budgetVars, cur, todo, fut, loaded, exhausted, historyVars>>
     ELSE ProcessEnds /\ UNCHANGED <<burned, stops>>
  /\ UNCHANGED <<now, queueVars, diskVars>>

-----------------------------------------------------------------------------
AfterSave == CASE ctx = "init" -> "enqueue"
               [] ctx = "start" -> "submit"
               [] ctx = "unrunnable" -> "fill"
               [] OTHER -> "poll"

(* save_state *)
Save ==
  /\ pc = "save"
  /\ file' = run
  /\ IF ctx = "end"
     THEN ProcessEnds /\ UNCHANGED <<burned, stops>>
     ELSE /\ pc' = AfterSave
          /\ UNCHANGED <<ctx, cur, memVars, budgetVars, historyVars>>
  /\ UNCHANGED <<now, queueVars, bundle>>

(* Faults that end the process are explored while the leases it leaves behind
   can still expire before the bound on the clock. *)
LeasesCanExpire ==
  \A a \in Attempts : status[a] \in InFlight => leaseExpires[a] < MaxNow

(* open(..., "w") truncates the file before anything is written. *)
CutShort == IF "torn" \in Faults THEN {file, Torn} ELSE {file}

(* save_state raises.  Within the try of the wait loop the handler catches it;
   anywhere else it ends the run. *)
SaveRaises ==
  /\ pc = "save" /\ "save_error" \in Faults /\ stops < MaxStops /\ LeasesCanExpire
  /\ stops' = stops + 1
  /\ file' \in CutShort
  /\ IF ctx = "result"
     THEN Goto("raised", "none") /\ UNCHANGED <<cur, memVars, budgetVars, planned, started>>
     ELSE ProcessEnds
  /\ UNCHANGED <<now, queueVars, bundle, burned>>

(* The process is stopped.  Trials it waits for on the way out are trials that
   ended before. *)
Stop ==
  /\ pc # "down" /\ "stop" \in Faults /\ stops < MaxStops /\ LeasesCanExpire
  /\ stops' = stops + 1
  /\ IF pc = "save" THEN file' \in CutShort ELSE UNCHANGED file
  /\ ProcessEnds
  /\ UNCHANGED <<now, queueVars, bundle, burned>>

Tick ==
  /\ now < MaxNow
  /\ now' = now + 1
  /\ UNCHANGED <<queueVars, budgetVars, loopVars, memVars, diskVars, historyVars>>

-----------------------------------------------------------------------------
MainThread ==
  \/ \E a \in Attempts : EnqueueRow(a) \/ LeaseNext(a)
  \/ Recover \/ FillDone \/ UnknownTask \/ SpecFails \/ MarkRunning \/ Submit
  \/ \E a \in Attempts : RecordFinal(a) \/ RecordTransient(a) \/ HandleRaised(a)
  \/ HandleSaveError \/ Poll \/ Finish \/ Save

PoolThread(a) == TrialRaises(a) \/ \E o \in Outcomes : TrialEnds(a, o)

Next ==
  \/ BeginFresh \/ Resume
  \/ MainThread
  \/ \E a \in Attempts : PoolThread(a)
  \/ SaveRaises \/ Stop
  \/ Tick

Spec == Init /\ [][Next]_vars

(* The threads run, a trial ends, time passes, and the operator resumes a run
   as long as something is to be retried.  Nothing makes a fault happen. *)
FairSpec ==
  /\ Spec
  /\ WF_vars(MainThread)
  /\ \A a \in Attempts : WF_vars(PoolThread(a))
  /\ WF_vars(BeginFresh) /\ WF_vars(Resume) /\ WF_vars(Tick)

-----------------------------------------------------------------------------
(* The ledger on disk never runs ahead of the queue: a trial it calls
   completed or failed is so in the queue, whenever the process died and
   however often the run was resumed.  (mark_completed and mark_failed come
   before save_state in every branch of the wait loop.) *)
FileBehindQueue ==
  Loadable => \A a \in Attempts :
                file.trials[a] \in Terminal => status[a] = file.trials[a]

(* completed_trials and failed_trials count the entries, although they are
   incremented trial by trial, in memory, over several invocations. *)
CountsMatch ==
  Loadable =>
    /\ file.completed = Cardinality({a \in Attempts : file.trials[a] = "completed"})
    /\ file.failed = Cardinality({a \in Attempts : file.trials[a] = "failed"})

(* A trial the ledger calls completed has its own bundle on disk, not that of
   an attempt that was retried: resume reads it for the report and aborts when
   it cannot. *)
BundleBacksRecord ==
  Loadable => \A a \in Attempts :
                file.trials[a] = "completed" => bundle[a] \in {"verdict", "fault"}

(* A run stamped completed has no attempt left in the queue, whatever stops
   and resumes led to the stamp.  (mark_run_completed looks at no row; budget
   and counts decide before it.)  Holds if no run is resumed while the leases
   of a dead one are valid. *)
StampedRan ==
  Loadable /\ file.status = "completed"
    => \A a \in Attempts \ Dropped : status[a] \in Terminal

(* A limit is overshot by no more than what the other pool threads had in
   flight when it was reached; a run that starts over its limit starts
   nothing. *)
OvershootBounded ==
  /\ SampleLimit # NoLimit => samples <= SampleLimit + PoolSize - 1 \/ started = {}
  /\ CostLimit # NoLimit => cost <= CostLimit + PoolSize - 1 \/ started = {}

(* docs/CLI.md on --resume: all dollars already burned still count.  Once the
   budget is set up it knows at least what was recorded before. *)
BurnedStillCounts ==
  pc \in {"fill", "leased", "submit", "wait"} => cost >= burned

(* docs/CLI.md on --resume: what is announced as "to retry" is re-run.  When
   the run ends, with no budget hit, every trial it announced was submitted. *)
PlannedIsRun ==
  ctx = "end" /\ ~exhausted => planned \subseteq started

(* Every invocation comes to an end: no fill, wait or save loop turns for
   ever, retries and raised futures included. *)
InvocationEnds == pc # "down" ~> pc = "down"

(* With an operator who keeps resuming, every attempt is finished in the end,
   wherever the earlier processes died. *)
AllFinish == <>[](\A a \in Attempts \ Dropped : status[a] \in Terminal)
=============================================================================
