------------------------------ MODULE RunState ------------------------------
(***************************************************************************)
(* The per-run ledger of tolokaforge/core/resume.py: what run_state.json   *)
(* holds, how a trial's entry changes, and which trials a later invocation *)
(* takes for done.  Operators on a ledger r; who saves it, and when, is in *)
(* RunLoop.                                                                *)
(***************************************************************************)
EXTENDS FiniteSets, Integers

CONSTANT Trials   \* the keys "{task_id}:{trial_index}"

RunStatuses == {"running", "paused", "completed"}
TrialStatuses == {"pending", "running", "completed", "failed"}

Ledgers == [status : RunStatuses, trials : [Trials -> TrialStatuses],
            completed : Nat, failed : Nat]

initialize_run ==
  [status |-> "running", trials |-> [a \in Trials |-> "pending"],
   completed |-> 0, failed |-> 0]

SetTrial(r, a, s) == [r EXCEPT !.trials[a] = s]

mark_running(r, a) == SetTrial(r, a, "running")

mark_completed(r, a) == [SetTrial(r, a, "completed") EXCEPT !.completed = @ + 1]

(* A slip: the counter is forgotten. *)
mark_failed_uncounted(r, a) == SetTrial(r, a, "failed")

mark_failed(r, a) == [SetTrial(r, a, "failed") EXCEPT !.failed = @ + 1]

mark_run(r, s) == [r EXCEPT !.status = s]

(* _has_infrastructure_error looks at the bundle in the trial's directory,
   whichever attempt wrote it last. *)
HasInfrastructureError(bundle, a) == bundle[a] \in {"fault", "transient"}

(* A verdict that passed is done, and so is one that did not but shows no
   infrastructure error: both are "verdict" here. *)
is_completed(r, bundle, a) ==
  r.trials[a] = "completed" /\ ~HasInfrastructureError(bundle, a)

(* describe_resume_plan: the trials it counts in to_retry. *)
to_retry(r, bundle) == {a \in Trials : ~is_completed(r, bundle, a)}
=============================================================================
