# TolokaForge in TLA+

TolokaForge runs benchmark trials of LLM agents: a run is a list of (task,
repeat) trials, each of which provisions an environment, lets an agent work in
it, grades the outcome and records the result. The interesting part is not the
single trial but everything around it: a durable queue shared by processes that
may die, retries, a Runner service that keeps state per trial id, pools of
threads with futures and time-outs, nodes that are leased and killed, budgets
that stop a run in the middle and a run directory a later process resumes from.
This directory models that part, from the source, and checks and proves what
has to hold of it.

## 1. Inventory

| Part | State | Operations | Talks to | What makes it hard |
|---|---|---|---|---|
| Durable run queue (`core/run_queue.py`) | a table of attempts: status, retry count, lease owner and expiry, last update | enqueue, recover in-flight, lease next, mark running / completed / failed, clear | orchestrator, workers (SQLite file or Postgres) | several processes, autocommitted statements, leases judged by the clock |
| prepare and worker commands (`core/orchestrator.py`: `prepare_run`, `run_worker`) | engine run state file; per worker: the lease in hand | seed the queue; recover, lease, execute, report, clean up, stop | queue, Runner | crashes, restarts, two workers on one trial, order of report and cleanup |
| Single-process run loop (`core/orchestrator.py`: `run`) | thread pool, active futures, run state, budget | fill, wait, record, refill, pause, finalise | queue, run state, budgets, dispatch | stop in the middle, resume, budget racing completions |
| Run state and resume (`core/resume.py`) | `run_state.json` | load, save, mark, decide what to retry | run loop | a crash in the middle of a save |
| Budgets (`core/budgets.py`) | cost, clock, trial count; the first limit hit | record, poll | run loop | what survives a resume |
| Node registry (`core/node_registry.py`) | nodes, leases per trial, spawned processes | register, lease with time-out, release, terminate, close | dispatch adapters | condition variable, kill of a node that changed hands |
| Dispatch adapters (`core/dispatch/`) | job table, active leases | run, cancel, status, fetch, close | registry, trial nodes | cancel racing completion |
| Trial node (`trial_node/`) | one lock | RunTrial, HealthCheck | trial executor | busy nodes, version skew, error classes |
| Trial executor and conductor (`core/trial_executor.py`, `core/conductor.py`) | handle of the provisioned environment | provision, register, run, grade, tear down | runtime backend, Runner, grader | every exit path must tear down |
| Agent loop (`core/loop.py`, `core/runner.py`, `core/actors/`) | transcript, turn, counters | turns, tool calls, termination | LLM, Runner | which termination reason wins |
| Runner service (`runner/service.py`) | context per trial id | RegisterTrial, ExecuteTool, GradeTrial, ResetTrial, CleanupTrial | DB service | concurrent calls for one id |
| DB service (`env/json_db_service/app.py`) | state, version, snapshots per trial | init, read, write, snapshot, reset, delete | Runner | versions and snapshots |
| Queue-backed grader (`grader/queue.py`, `core/trial_grader.py`) | job queue, dictionary of futures, closed flag, worker threads | publish, next, publish result, cancel, close | trial threads, grader service | time-out racing the result, close racing everything |
| Rate limiter, metrics, grading rules | small or none | pure computations | all | boundaries |

Parts that are I/O, formatting, user interface or declarative configuration
(docker, tools, LLM client, output writers, command line, adapters,
observability) are listed in `PROJECT.json` with the reason they are left out.

Correctness, part by part. *Queue and workers*: an attempt is in the hands of
one live worker, is retried a bounded number of times, is recovered when its
worker died and only then, and is never reopened once finished; nothing is left
behind when the workers leave. *Runner state*: the retry of a trial finds no
trace of the attempt before it, and its own state is not taken away. *Grader
queue*: every caller gets an answer, exactly one, and the pool survives its
callers and ends on close. *Run loop and resume*: what is stamped completed was
run; money spent counts once. *Nodes*: a node serves one trial, and only the
trial it serves can have it killed. *A trial in the Runner*: what is read and graded
as its final state is what the agent's calls made, whatever failed on the way,
and grading leaves no trace of the golden world it made.

## 2. Modules

| Module | What it is |
|---|---|
| `RunQueue` | the table and its operations, one definition per statement |
| `QueueWorkers` | extends `RunQueue`: prepare, the workers, the Runner's registrations, crashes and the clock; the properties |
| `AttemptLedger` | what the queue promises, abstractly; `QueueWorkers` instantiates it with a refinement mapping |
| `QueueWorkersProofs` | theorems about `QueueWorkers`: types, leases, finished rows |
| `LedgerProofs` | extends it: what the operator of a run may count on, and the refinement of `AttemptLedger` |
| `RunQueueProofs` | lemmas about the queue's operations |
| `MCQueueWorkers` | TLC instances |
| `RunState` | the ledger `run_state.json`: operators on it |
| `Budgets` | the limits that stop a run |
| `RunLoop` | extends `RunQueue` and `Budgets`, instantiates `RunState`: `run` and `run --resume`; the properties |
| `RunLoopProofs` | theorems about `RunLoop`: types, the ledger on disk, what is final, the completed stamp, the limits |
| `MCRunLoop` | TLC instances |
| `GradeBroker` | the broker, the callers, the worker threads and `close`; the properties |
| `GradeBrokerProofs` | theorems about `GradeBroker` |
| `MCGradeBroker` | TLC instances |
| `NodeRegistry` | nodes, leases and the condition variable of `lease` |
| `NodeDispatch` | extends `NodeRegistry`: pool threads, adapters, trial nodes, worker processes, the orchestrator's stop and close |
| `ThreadJobs` | the local adapter's job table and thread pool |
| `Dispatch` | extends `NodeDispatch` and `ThreadJobs`: a run in one of the three modes; the properties |
| `DispatchProofs` | theorems about `Dispatch` |
| `MCDispatch` | TLC instance |
| `TrialWorld` | where one trial's state lives: the db-service's row, the state holder and its queue; the faults |
| `HashGrading` | extends `TrialWorld`: GetState and hash grading, await by await |
| `TrialRegistry` | extends `TrialWorld`: RegisterTrial, CleanupTrial, the Runner's stop and restart |
| `RunnerTrial` | extends both: the engine that drives a trial through its attempts; the properties |
| `RunnerTrialProofs` | theorems about `RunnerTrial`: types, registrations and cleanups |
| `TrialTruthProofs` | extends it: captures and verdicts are about the agent's world, and grading hands it back |
| `MCRunnerTrial` | TLC instance |

Beside some definitions stand variants introduced as slips ("A slip: ..."): the
definition as a plausible mistake would have it. No specification uses them.
`PROJECT.json` ("mutants") pairs each with the definition it replaces and the
property that must then fail, so that every property is known to notice
something.

### RunQueue and QueueWorkers

A row is named by its id, the position of its (task, trial index) in the list
`prepare` enqueues. Each column that decides something is a variable, a
function of the id. Status `absent` is a row not inserted yet. The SQLite and
the Postgres class run the same statements in autocommit mode, so a statement
is a step. `lease_next` is a transaction and one step. `mark_failed` is a
SELECT (`MarkFailedSelect`, remembering `should_retry`) and an UPDATE
(`MarkFailedUpdate`), with everything else free to happen in between.
`enqueue_many` inserts row by row, as it does on SQLite.

A worker's `pc` names the queue or Runner call it makes next; the module header
draws the flow. `Decide` and `FailRetryably` are the two ways a trial may end as
`_is_retryable_trajectory` sees it; which one happens is left open. The Runner
is one cell per trial id: registering an id that is taken is refused, as the DB
service does for a trial with database state, and the worker then reports the
attempt completed, since `provision_error` is not retryable. Cleanup empties
the cell whoever filled it. `runs` and `crashes` are history variables: the
code has neither, properties need them.

Time is a counter of ticks. The lease and the recovery age are both
`max(300, 2 * episode_s)`, one constant. `Faults` says what the environment may
do: crash prepare or a worker, restart a worker that exited, stop one for a
limit (`max_attempts`, `max_budget_usd`), fail `mark_completed` unserved
(`queue_error`) or after it was committed (`mark_lost`: the connection breaks
before the answer), fail the Runner's cleanup, and `overrun`: let a trial outlive
its lease. The documentation says that this last one can happen (docs/CONFIG.md:
tool execution, grading and a runaway stream are not bounded). Properties that
need a fault excluded say so.

Not modelled here: `prepare --reset-queue` on a queue workers already drain
(row ids are never reused, so old holders would then update nothing), tasks
without database state (the Runner silently replaces their registration), and
the arithmetic of the worker's budget (a nondeterministic stop).

### RunLoop, RunState and Budgets

The orchestrator's thread is at `pc`; the module header draws its way. Each
`save_state` is a step of its own, because the process may stop before it, in
it or after it, and because it may raise: inside the `try` of the wait loop the
handler catches that, anywhere else the run ends. `file` is `run_state.json`
(absent, torn, or a ledger), `run` the ledger in memory, `bundle` what the
trial directory shows of the latest attempt. Pool threads end their trials at
any moment, with one of four outcomes: a verdict, a fault (an infrastructure
error that is not retryable: provisioning, credentials), a transient failure,
or an exception. A trial that ran costs one unit.

A stop, whether Ctrl-C, kill or an exception, loses memory and threads; trials
the pool still joins on the way out are trials that ended just before. `Resume`
is the command's check and the beginning of `Orchestrator.run`: it needs a
ledger it can load and something to retry. `early_resume` lets it happen while
the dead process's leases are valid, `Dropped` lets it load fewer tasks.
`InjectedBudget` is the budget the command line builds, as opposed to the one
`_resolve_budget` builds from the configuration. `planned`, `started`, `burned`
and `stops` are history variables.

Not modelled here: LIMIT_HIT.json, reports and events; the Runner's
registrations (see `QueueWorkers`: with one process the cleanup before a retry
is in time); a failure bundle whose best-effort write fails, after which the
trial's directory is missing or stale; `shuffle_trials`.

### GradeBroker

A step is what happens under `_futures_lock`, or one operation of `queue.Queue`
or `Future`. Each job has its caller thread, in `QueueTrialGrader.grade`:
publish under the lock, put outside it, wait, and on any exception cancel. A
worker thread takes a job or the close sentinel (put back in a step of its own),
grades, pops the future, and sets it in a further step. `publish_result` without
an entry is a no-op on a closed broker and a `KeyError` otherwise; nothing in
the loop catches it, so the thread is `dead`. `close` sets the flag and takes
the futures, posts the sentinel, fails the futures one by one and joins with a
time-out. Grading itself is an arbitrary outcome, or none: `client.grade` calls
the grader service without a deadline, and a service that hangs keeps its worker
thread in `GradeJob` (`Hung`). The branch for a payload that is not a `GradeJob`
is left out: the in-memory broker carries nothing else.

### NodeRegistry, NodeDispatch, ThreadJobs and Dispatch

A run's dispatch configuration chooses one of three modes; `mode` is drawn in
`Init`. In `grpc_node` mode the nodes are configured and up; in `subprocess`
mode the local adapter spawns them one after the other and the run begins when
the last one listens; in `thread` mode there are no nodes and `ThreadJobs` has
the steps. Nodes are numbered in the order of the registry's dictionary, which
is the order `lease` looks for a free one.

A trial's thread is at `thread[t]`. Each method of the registry is a step, since
it runs under the condition's lock; between two of them anything may happen. A
thread that waits is in `waiters` until it is notified; `expired` says that its
deadline went by, after which it takes the lock by itself, and looks for a node
before it gives up. `PopLease` and `Unlease` are the two halves of `_release`:
the adapter's table under the adapter's lock, then the registry. The node's
`_trial_lock` is `serving`. A call may be cut while the node goes on (`cut`
remembers whose), a process may die, a worker may never listen. Outcomes are
abstracted to what the orchestrator tells apart: an exception, which is retried,
and anything else.

The orchestrator's loop is reduced to dispatching and collecting; its queue and
ledger are `RunLoop`'s. On a stop in `subprocess` mode it cancels trial by
trial: the look-up under the lock and the kill outside it are two steps.
`close` empties the adapter's table, releases what was in it, terminates the
processes and resets the registry.

In `ThreadJobs` a job is one attempt. The pool marks the future as running
(`PickUp`) before the body sets the table (`RunOne`), and the body ends before
its caller has recorded it (`CollectJob`), so a cancel may come between any of
them. `shutdown` drains what was submitted.

### TrialWorld, HashGrading, TrialRegistry and RunnerTrial

One trial id and its attempts. The tables are abstracted to which actions made
them: the initial world, the agent's call repeated, the golden path's, a mixture
(`mess`), or a sync that stopped between two tables (`half`). The agent's calls
are drawn from the same two actions, so the agent may do exactly the golden path
(and must get a match), something else, or both. `truth` is the world the
agent's calls made, kept beside the places where the code keeps it.

There are three kinds of trial. `hasHolder` separates those whose state lives in
a holder and is mirrored to the db-service from those whose tools write there
directly; `app` separates the two kinds of holder, an MCP server's process and an
app world. A holder has one worker thread: `fifo` is its queue, `busy` says that
the first call was sent. Everything an MCP server is asked goes through it: tool
calls, the golden replay, state reads and resets. Of an app world only reads and
resets do. The agent's and the golden `http_request` calls to it run synchronously
on the Runner's event loop, with the client's own time-out (`CallApp`,
`ReplayApp`), so no budget can cut one in the middle and nothing in the queue
orders them. A coroutine that stops waiting takes back a call that was not sent
(`Abandon`), except for the shielded ones (`StopWaiting`).

One rule is assumed of HTTP, for the db-service and for app worlds: a request that
failed or was given up has been served by that time, or it never is. Each may
fail unserved or be served and its answer lost, but a server does not apply a
request after its client's time-out. `VerdictTrue`, `CaptureTrue` and
`WorldHandedBack` hold under this rule; a world that applied a request later would
be a further exception to them. The rule is about requests, not about tools: a
tool whose await was cancelled runs on and may make its write at any later time,
the agent's (`late`, `LateWrite`) and the golden path's (`stray`, `StrayWrite`)
alike.

`g` is the coroutine of GetState or of hash grading: its step is the request or
the holder call it makes next. `Protected` are the steps inside the `try` whose
failure leads to the undo; `BudgetElapses` is `_run_async` giving up, which
cancels the coroutine at its await, wherever that is, and leaves a golden action
on the db-service running. `res.ended` says in what
way a grading ended: `graded`, `undone` (the undo ran and was not cut itself) or
`loose`.

`TrialRegistry` has the three places a registration lives in (row, context,
artifacts), the tools, and the cleanups that may meet: one per retry, the one a
failing registration does itself, and the Runner's stop. `cleanup_lock` belongs
to a context, so a cleanup that found none locks nothing. A Runner that died
loses everything but the row.

`RunnerTrial` adds the engine: conductor phases in order, retry of a retryable
attempt, no retry of a refused registration. A distributed worker may lease the
requeued trial before the cleanup has answered (`overlap`). `upset` remembers
what befell an attempt, or an attempt before it, that a property has to make an
exception for. Two of its members stay for good, because what they stand for may
be under way through any number of attempts: an overtaken cleanup (`hurried`)
and the Runner's own (`stopped`). Either may have found an earlier context and,
with its last step, `del self.trials[id]`, forget a newer one. The retry's own
cleanup of the newer one, waiting for its lock, then finds it gone, answers
success and has deleted no row, so that the registration after it is refused.
`RetryNotRefused` excepts both.

## 3. Runs

Bounds: two workers are what every race needs (one that acts, one that
interferes); two attempts make order and "someone else's row" visible; one
retry makes 0, the limit and beyond distinct; a lease of one tick and a clock of
three let a lease expire, be recovered and be granted again. Two jobs on two
grader threads let a late result, a wait and a close meet; which job is behind
which makes no difference, since a thread takes one at a time. With as many
threads as jobs no job waits behind hung threads only, so that part of the
exception in `CallersReturn` is not met in the run; with one thread it is, and the
same properties hold there. Three trials on
one node make two threads wait for one wake-up, two trials on two nodes let a
trial return to another node than the one that still runs it; three jobs on a
pool of two leave one to be cancelled. In the Runner, two faults are what it
takes to break something and then its repair, two calls put one behind the
other in the holder's queue, and two attempts make a retry; the three kinds of
trial together have 840 thousand states. A third attempt, which shows what an
overtaken cleanup does to the attempt after the next, is too large for the run;
the safety properties are proved for any number. Two trials on two pool threads let
one finish while the other runs, and limits of one or two are reached with work
in flight. Workers, jobs and threads are
symmetric except where liveness is checked.

| Run | Expect | Shows |
|---|---|---|
| `workers_within_lease` | pass | all faults but overrun and lost marks, one crash: exclusion, truthful rows, retry bound, every execution paid for, finished rows final, and the ledger implemented |
| `workers_drain` | pass | no crash, no limits, but overruns and lost marks: workers that leave on an empty queue leave nothing behind; the last row's task is unknown to the workers |
| `workers_live` | pass | with a crash at any step, only whole queues are announced and every attempt finishes |
| `broker` | pass | time-outs and close at any moment: one resolver per future, no orphan, no leak, no lost job; a thread dies of a late result only; unless the grader service hangs, callers return and threads end on close; a close frees callers even then |
| `run_safety` | pass | all three budgets, two stops, saves cut short, spec errors, and a resume that lacks a task: ledger, queue and bundles agree, the completed stamp is true, limits are overshot by the pool at most |
| `run_ends` | pass | stops, raising saves, early resumes: every invocation ends, every attempt finishes |
| `dispatch` | pass | the three modes, one cut call or dead node, a worker that never listens, a stop at any moment: no wake-up lost, nodes not shared, leases given back, processes ended, job states true |
| `runner` | pass | an MCP, app-world or db-service trial and any two of thirteen faults: captures and hash verdicts are about the agent's world, the golden world is taken out, registrations belong to their attempt, retries are not refused after a cleanup that answered, and everything comes to an end |
| `workers_retry_refused` | violation | two workers, no fault at all: a retry is refused because the first attempt's cleanup comes after the requeue |
| `broker_late_result` | violation | a result that comes after its caller gave up kills the worker thread |
| `resume_spend` | violation | the command line's budget: a resumed run counts its spend from zero |
| `resume_plan` | violation | no fault at all: a trial announced as "to retry" is not executed, and the run is stamped completed |

The violations are the `findings` of `PROJECT.json`, each with the sentence of
the documentation or comment it contradicts. Other properties are known to fail
once the assumption they are checked under is dropped; they have no run of
their own:

- `QueueWorkers` with `overrun`: `TerminalIsFinal` (the worker that took a row
  over overwrites a completed one) and `RetryBound` (two holders pass the SELECT
  of `mark_failed` before either UPDATE).
- `QueueWorkers` with `mark_lost`: `TerminalIsFinal` and `HolderOwnsRow` (the
  handler of the exception takes the completed row back to pending, and the
  trial runs again). The other properties of `workers_within_lease` survive it on
  that run's instance.
- `QueueWorkers` with `crash`: the recovered attempt of a dead worker is refused
  by the Runner, where the dead attempt is still registered, and is marked
  completed without having run.
- `QueueWorkers` with `prepare_crash`: `PreparedIsFull` (a second prepare takes a
  partial queue for a full one).
- `QueueWorkers` with two workers: the late cleanup removes the registration of
  the retry under way.
- `RunLoop` with `save_error`: `FileBehindQueue` and `CountsMatch` (a row that is
  completed is requeued, and its trial counted twice).
- `RunLoop` with `early_resume`: `StampedRan` (rows under the old leases remain).
- `RunLoop` with `torn`: `AllFinish` (the directory cannot be resumed).

What the properties of the other modules leave room for, and the code does:

- `core/orchestrator.py` says at the final `close` that "there is nothing left
  for teardown to stop". In `subprocess` mode a trial still waiting for a node
  has none when it is cancelled, so the cancel does nothing; it may lease a node
  that another cancelled trial gives back and be running at teardown.
- The kill of `terminate_worker_for_trial` may hit a trial other than the one
  whose lease was looked up, when the node changed hands in between. Every
  trial in flight is being cancelled at that moment.
- A thread that starts to wait after `_reset_nodes` waits out its deadline.
- A node whose call was cut is leased again while it still runs the trial: the
  next one is refused as `NODE_BUSY` (`HolderFindsItIdle` excepts it), and the
  retry of the cut one may run beside it (`OneExecution` excepts it).
- The docstring of `_execute_hash_grading` promises that a grading that fails
  after step 2 still restores, "so neither the database nor the state holder is
  left holding the golden world". Steps 3-6 do, unless the undo itself fails or
  is cancelled; a failure of step 7 or of the restores of step 9 is followed by
  no undo. `WorldHandedBack` is about `graded` and `undone`, not `loose`.
- Nor is the promise kept for a golden action that writes to the db-service and
  was running when the budget cut the replay: the tool is not stopped, and if its
  write comes after the undo's restore the database keeps it, although the undo
  ran through. `WorldHandedBack` states exactly that: the row is then the agent's
  world with this one write on top (`stray_gold`), and the agent's world
  otherwise.
- A grader service that hangs holds its worker thread, and a caller without a
  time-out of its own, until the broker is closed; the thread is left running by
  `close`, which joins for five seconds.
- When the budget of GradeTrial elapses the caller is answered before the undo
  has run.
- A timed-out tool call whose tool writes to the db-service may write into a
  grading or the next attempt (`late_write`).
- A cleanup that found an earlier attempt's context can, between its served
  deletion and its last step, drop the artifacts and the context of a
  registration that overlaps it; one that found no context, after a restart, can
  delete the row of a newer attempt. `OwnRegistration` says which cleanups
  cannot.
- After a restart GetState answers from the mirror as the last sync left it, as
  `_refresh_db_mirror` says itself; `CaptureTrue` is about trials the Runner
  holds.

Deadlock is checked except where exited workers are not started again and the
system may therefore stop (`workers_drain`, and `workers_retry_refused`), and
for `RunLoop`, whose run is over when nothing is left to retry. `Dispatch` and
`RunnerTrial` name the states in which they may stop (`Over`, `Quiet`), so that a
thread or coroutine stuck anywhere else is a deadlock.

Fairness. `QueueWorkers!FairSpec`: processes take the steps they can, time
passes, and whoever operates the workers starts again one that died or exited,
as docs/RUNNER.md tells them to; no fairness on crashes, and none on either
outcome of a trial, whose retries the count bounds. The clock is bounded, so a
crash is explored only while its lease can still expire. `GradeBroker!FairSpec`:
threads run, and a `close` once begun is carried through. Nothing makes
`client.grade` return, since its call has no deadline and its channel no
keepalive, and nothing makes a wait time out or the broker close.
`CallersReturn` and `WorkersStop` say what is left: a caller is kept for good
only on an open broker by a hang with its own job, or of every worker that is
left, and a thread outlives a close only inside a `client.grade` that hangs for
good. Without these exceptions TLC finds both violated. `RunLoop!FairSpec`: the
orchestrator's thread runs, a trial under way ends one way or another, time
passes, and the operator resumes as long as `--resume` finds something to retry;
none on stops and failing saves, which `MaxStops` bounds, and which are explored
while the leases they leave can still expire before the clock's bound.

`RunnerTrial!Spec`: something happens as long as something can. Weak fairness of
all steps together is enough, because calls, attempts and faults are bounded and
no step goes back, and it asks for nothing but that the processes run, the
db-service answers or fails its requests, and a holder that is up answers in the
end (one that does not is stopped by a cleanup, and then fails what it is asked).

## 4. Proofs

TLC checks the instances above; TLAPS proves the following for any number of
rows, workers, retries, crashes, jobs, threads, trials, nodes, attempts, tool
calls and faults, from the assumptions on the constants in the component modules
(`RunQueue`, `QueueWorkers`, `RunLoop`, `Budgets`, `GradeBroker`,
`NodeRegistry`, `NodeDispatch`, `ThreadJobs`, `TrialWorld`, `TrialRegistry`,
`RunnerTrial`) alone. Those assumptions say that counts are numbers, that pools
and attempts are not empty, that the sets of trials are finite, and that the
values standing for "nothing" differ from real ones. A theorem that excludes a
fault says so in its statement (`ASSUME Faults \cap {"overrun", ...} = {}`);
section 3 lists what happens with the fault.

### The queue and its users

- `TypeCorrect`: the type invariant of `QueueWorkers`, with all faults.
- `LeaseSafety`: without `overrun` and `mark_lost`, `LeaseExclusive`,
  `HolderOwnsRow`, `SelectStillTrue` and `RetryBound` always hold. Exclusion is not inductive: no
  operation but `lease_next` looks at the row, so that nobody takes the row of
  a live worker has to come from the row itself. The invariant `LeaseInv` says
  that the row in a live worker's hands is in flight, names it, and carries a
  lease that has not run out and is no longer than the row's age allows; then
  `recover_inflight` passes it over by either of its tests, `lease_next` because
  it is not pending, and every `mark_*` is done by its owner. Exclusion follows
  since a row names one owner. The retry bound needs that what the SELECT of
  `mark_failed` saw is still so at its UPDATE, which exclusion gives.
- `FinishedIsFinal`: without `overrun` and `mark_lost`, `TerminalIsFinal`, from the same
  invariant and one more fact, `NoEarlyRow`: as long as `prepare` has not
  announced the queue nothing in it is finished, so that its inserts and
  `clear_all` cannot undo a result.
- `AnnouncedIsFull`: without `prepare_crash`, `PreparedIsFull`. `PrepareInv` says
  which rows the cursor has passed, and that before the first insert there is no
  row: then a queue that `prepare` finds filled was filled by a `prepare` that
  came to its end.
- `NothingIsStranded`: without `crash` and `limits`, and if there is a worker at
  all, `NothingStranded`, although leases are overrun and taken over and marks lose
  their answers. The
  invariant (`NoneForgotten`) is that a row in flight is in some live worker's
  hands and that while a row is pending some worker has not left. It is
  inductive because a worker leaves only on seeing no pending row, and each
  worker that makes a row pending is itself still there to come back.
- `RunsArePaidFor`: without `overrun` and `mark_lost`, `EveryRunPaidFor`. The bound alone is not
  inductive: a row about to be leased must have room for one more execution. The
  account `Paid` says that the executions but the last are covered by retries
  and crashes, and that the last one is uncovered only while a live worker has it
  under way or the row is finished. A retry pays by its count, a crash by its
  own, and a recovered row needs nothing since recovery meets only dead workers'
  rows.
- `QueueImplementsLedger`: without `overrun`, `mark_lost` and `prepare_crash`, every
  behaviour of `QueueWorkers` is one of `AttemptLedger`, under the mapping of statuses to
  phases and of hands to holders. Init maps to init; each action maps to one
  action of the ledger or to a stutter, one step of the proof per action. It
  uses `LeaseInv` (the holder is unique, and a reclaimed attempt has none),
  `PrepareInv` and `NoEarlyRetry` (an attempt is listed untouched). With
  `overrun` a row is reclaimed from a live worker, and with `mark_lost` a finished
  attempt is reopened, which the ledger forbids;
  with `prepare_crash` rows are listed after the list was announced.

### The run loop

- `RunLoopTypeCorrect`: the type invariant of `RunLoop`, with all faults.
- `LedgerSafety`: without `save_error`, `FileBehindQueue`, `CountsMatch` and
  `BundleBacksRecord`. None of them is inductive. The invariant `LedgerInv` says
  the same of the ledger in memory as of the one on disk, and adds
  `RowsInStep`: the row of a trial under way is running and its done future has
  its bundle, the row between lease and submit is the orchestrator's, and nobody
  waits for a trial while the queue is set up. From `RowsInStep` follows that a
  finished row and its bundle never change (`RowFinal`), since every operation
  that writes a row without looking at it is called for a row in flight, and
  `recover_inflight` only before there is any. So a ledger stays true, a mark
  goes to an entry that was open, and the counters rise with the sets they
  count.
- `RecordsAreFinal`: without `save_error`, as an action property, no step changes a
  finished row or its bundle (`RowFinal` again), and no step takes back what the
  ledger on disk says of a trial that is over. Every save writes the copy in
  memory over the file, and `Finish` reads the file into memory again, so the
  second part needs that nothing recorded on disk is open in memory while a
  process runs (`KeptOnDisk`); a mark goes to an entry that is open in memory,
  hence open on disk.
- `StampIsTrue`: without `save_error` and `early_resume`, `StampedRan`. The code
  stamps the run without looking at a row, so the rows have to be accounted for:
  `QueueInHand` says that while the queue is set up every missing row is still to
  be inserted and everything in flight is stale, hence recovered, and that from
  then on a row in flight is in this process' hands. `WhyWait` says why the
  loop waits: budget hit, pool full or nothing pending. When it ends with an
  empty pool and no limit hit, no row can be pending or in flight. `StampTrue`
  carries that over to the ledger in memory and on disk, through stops and
  resumes.
- `OvershootIsBounded`: with all faults, `OvershootBounded`. The invariant counts
  what is committed: the threads, the trial about to get one and the result not
  yet recorded are together at most `PoolSize` (`PoolBound`); spent and committed
  together are at most the limit and the rest of the pool (`Within`); and once
  the budget was asked after the last record it knows a limit that was reached
  (`HitKnown`), which is why nothing is taken past it.

### The grader's broker

- `BrokerTypeCorrect` and `BrokerSafety`: the type invariant of `GradeBroker`,
  and `OneResolver`, `NoOrphan`, `NoLeak` and `NoLostJob`, with time-outs and
  close at any moment. The inductive invariant adds what ties the dictionary of
  futures to the threads: a closed broker has an empty dictionary
  (`ClosedIsEmpty`), an entry belongs to a caller who is still in `grade` and
  whose future is unresolved (`EntryIsOpen`), and the job in a worker's hand was
  published (`HandWasPublished`).
- `OnlyLateResults`: `OnlyLateResultKills`. That no other `KeyError` is possible
  rests on there being one copy of a job, in the queue or in one hand
  (`QueuedOnce`, `CarriedOnce`): a second copy would be answered into nothing.
  `Expected` then says that on an open broker the job on its way has its entry,
  or a caller who gave up.

### Nodes and jobs

- `DispatchTypeCorrect`: the type invariant of `Dispatch`, in all three modes.
- `JobsTellTruth`: `JobTellsTruth`, for any number of jobs and pool threads. The
  invariant is a table of what the caller of a job, its future, the pool thread
  and the entry in the job table can be at the same time (`NotSubmitted`,
  `Underway`, `Collected`). It is needed because `cancel` looks at the future
  and writes the entry, while the pool thread writes the future and the caller
  the entry; that a job can be cancelled only before its body began is a row of
  the table.
- `NodeSafety`: `HolderFindsItIdle`, `OneExecution` and `NothingLeft`. None of
  them mentions the threads that make them true. `NodeInv` adds that an entry of
  the adapter's table belongs to a thread in its call (`EntryInCall`), that every
  lease has somebody who will release it (`LeaseBacked`: its thread, the adapter's
  table, or a `close` under way), that until `close` a thread in its call has the
  lease of the node it talks to (`LeaseOwned`), that no node is leased twice
  (`LeaseInjective`) and that the trial in a node's hands is the one whose thread
  waits for that node, unless its call was cut (`ServesCaller`). Then two trials
  at one node would have one lease, and a thread outside its call can have none.
- `NoLostWakeup`: `WakeupsCover`. It compares the number of free nodes with the
  number of awakened threads, so each step is a lemma on cardinalities: a release
  adds at most one node and moves one thread from the waiters, a thread that goes
  on takes a node or found none free. It needs that whoever is among the waiters
  is waiting (`WaitersWait`), since the notified thread must be one that will
  look, and that there are finitely many trials.

### A trial in the Runner

- `TypesHold`: the type invariant of `RunnerTrial`, with all faults. Here it is
  not a formality: it says that no error answer of the holder is written into the
  row, no snapshot is restored that was not taken, and no call is handed to the
  holder without its argument. `TypeInv` adds where the engine is while a handler
  of the Runner runs (`HandlerInv`), that only the last call in the holder's queue
  is awaited, by a coroutine that can use its kind of answer, which is not there
  yet (`QueueInv`), and that grading past its first or second snapshot has them in
  the row (`SnapInv`). `LockInv` says that a cleanup at a lock found a context.
- `ToolsAreAccountedFor`, `RegistrationIsOwn` and `RetryIsNotRefused`:
  `ToolsAccountedFor`, `OwnRegistration` and `RetryNotRefused`, with all faults,
  from one invariant, `RegInv`. Contexts, tools, releases and what cleanups found
  are of past attempts (`TracesInv`), so no old cleanup can take an attempt's
  context for its own. Each cleaner has its turn, and those before the attempt are
  through unless it hurried (`TurnsInv`). A context's lock has one holder
  (`OneHolder`). Where nothing is overtaken, tools that are up are those of the
  context and not released, and gone once a cleanup has passed them (`ToolsInv`);
  a registration collects its row, artifacts, context and tools in order
  (`OwnInv`); and a row is left to the next attempt only by a cleanup that failed
  (`RetryInv`). `OverlapInv` is for the other case: as long as no cleanup failed
  or found nothing, a cleanup that is about to delete a row deletes the row of
  the context it found, because it looked again under the lock. The proof
  separates the steps that leave the registry alone (`Aside`), one lemma for all
  of them, from those that touch it, one lemma each.
- `VerdictIsTrue`, `CaptureIsTrue` and `WorldIsHandedBack`: `VerdictTrue`,
  `CaptureTrue` and `WorldHandedBack`, with all faults, from one invariant,
  `TruthInv /\ StrayInv`. The properties compare a result with `truth` when it is there; the
  invariant says what every place that holds a world holds on the way, step by
  step of GetState and hash grading: the row and its snapshots, the holder, the
  calls in its queue, and what the coroutine has read.
  - `KindInv`: a trial without a holder has nothing in its queue, one with a holder
    has no late write, and there are results only after the reads that make them.
  - `QShape`: while a trial runs or is read, at most the first call in the queue is
    nobody's, and that one has been sent. This is what makes the queue safe: a call that a timed-out
    coroutine left behind is either served before the next read is answered or
    was taken out.
  - `LiveInv`: until grading takes the world away, the holder (or else the row) is
    what the agent's calls made and the queue has calls of the agent only; once
    the mirror is synced the row is it too, and the queue is empty.
  - `KeptInv`: from the first snapshot on, that snapshot and the hash taken before
    it are the agent's world, and the queue has calls of grading only, none of which
    is a tool call: `truth` stands still.
  - `GoldInv`: a replay that did not fail left the golden world in the holder, hence
    in the row after the second sync, hence in the second hash. This is what a
    `match` rests on.
  - `BackInv`: after the restore the row is the agent's world, and every awaited
    reset of the holder on the way back carries it.
  - `EndInv`: the three properties, and that the last call still in the queue
    after an ended grading resets the holder to the agent's world. Without it
    "as soon as the holder has served what it was handed" is not inductive. What
    it says of the row it says as long as no golden action wrote behind the
    grading (`Unstrayed`).
  - `StrayInv`: for the rest. A golden action is left running only by a trial
    without a holder that is being undone or over; there is one at most; and once
    it has written nothing but a cleanup touches the row, which is the agent's
    world with that write on top.

  The steps that report nothing and change no world but by taking it away
  (`Frame`: registering, cleanups, most of the engine) are one lemma. The steps of
  the coroutine are grouped by what they do: hand a call over, use an answer,
  give up, make a request of the db-service; the last has a lemma for each part
  of the invariant.

The proofs changed the model in places. `WorldHandedBack` excepted a Runner that
died; the proof does not need that, and the exception is gone: a death after the
end of a grading takes the holder away and changes nothing. `WorldAssumption`
names more of the words that `None` differs from. `upset` forgot too early that
a cleanup had been overtaken and did not know of a Runner that was told to stop;
`RetryNotRefused` does not hold as it was first stated when there is a third
attempt, and TLC, with two, could not tell. CASE expressions with overlapping
guards (TLC takes the first that is true, TLA+ any) got disjoint ones. The set
of trials is assumed finite.

### Only model-checked

- Liveness (`EventuallyFinished`, `InvocationEnds`, `AllFinish`, `CallersReturn`,
  `WorkersStop`, `EverythingSettles`): fairness and ENABLED are out of the
  prover's reach.
- The properties of the runs that expect a violation.

Every other property of a run, each type invariant, safety invariant and action
property and the refinement, is stated by a theorem.

## 5. Not modelled

- ResetTrial of the Runner: nothing in the engine calls it. HealthCheck changes
  nothing.
- The parts of GradeTrial that compute over what was read (judge, transcript
  rules, custom checks, comparison view): they make no request that changes the
  trial's state, and what they compute is data. A second GradeTrial for one
  registration, which the engine does not make, fails on the snapshot that
  exists.
- The db-service beyond one trial's row: SQL, queries, the ETag store. A
  mutation is one step; a batch whose later operation is malformed is applied in
  part, which the Runner's own batches never are.
- Turns of the agent loop, simulation budget, stuck detection, termination
  reasons: which reason wins is a function of the transcript, and the model
  needs only whether the attempt is retried.
- The in-process trial executor, runtime backends, docker, tools, LLM client:
  they drive containers and remote services; what their failures look like to
  the run is in the outcomes above.
- Configuration, adapters, output, metrics, reports, command line, live display,
  observability, secrets and the sibling packages (model presets, exporters,
  harness images): declarations, formatting and presentation, most of the
  repository's lines and none of its protocol.
- The rate limiter: one lock around a sleep.

## 6. What could come next

1. Two trials in one Runner: they share the event loop and the db-service, and the
   model has one trial id.
2. `Dispatch` and `RunLoop` under one stop: each models the stop of its own part.
3. ResetTrial, should the engine come to call it.
