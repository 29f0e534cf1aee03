------------------------------ MODULE Budgets -------------------------------
(***************************************************************************)
(* The limits of tolokaforge/core/budgets.py that stop a run in the        *)
(* middle: spend, time since the first record, and terminated trials,      *)
(* composed so that the first to be reached counts.  The trackers freeze   *)
(* their hit; the caller latches it (RunLoop's exhausted), and the values  *)
(* only grow, so the frozen hit is not kept here.                          *)
(***************************************************************************)
EXTENDS Integers

CONSTANTS
  CostLimit,    \* --cost-limit / compute.max_budget_usd, in units of a trial
  TimeLimit,    \* --time-limit, in ticks
  SampleLimit   \* sample_limit

NoLimit == -1     \* Python's None

ASSUME BudgetAssumption ==
  /\ CostLimit \in Nat \cup {NoLimit}
  /\ TimeLimit \in Nat \cup {NoLimit}
  /\ SampleLimit \in Nat \cup {NoLimit}

VARIABLES
  cost,        \* CostBudget._value
  samples,     \* SampleBudget._count
  clockStart   \* TimeBudget._start, NotStarted before the first record

budgetVars == <<cost, samples, clockStart>>

NotStarted == -1

BudgetTypeOK ==
  /\ cost \in Nat
  /\ samples \in Nat
  /\ clockStart \in Nat \cup {NotStarted}

(* make_budget / _resolve_budget with what was spent before. *)
NewBudget(initialCost) ==
  /\ cost' = initialCost
  /\ samples' = 0
  /\ clockStart' = NotStarted

StartClockIfNeeded(t) ==
  clockStart' = IF clockStart = NotStarted THEN t ELSE clockStart

record_generation_cost(c, t) ==
  /\ cost' = cost + c
  /\ StartClockIfNeeded(t)
  /\ UNCHANGED samples

record_trial_terminated(t) ==
  /\ samples' = samples + 1
  /\ StartClockIfNeeded(t)
  /\ UNCHANGED cost

(* CompositeBudget.poll over the values c, n and s at time t. *)
Hit(c, n, s, t) ==
  \/ CostLimit # NoLimit /\ c >= CostLimit
  \/ TimeLimit # NoLimit /\ s # NotStarted /\ t - s >= TimeLimit
  \/ SampleLimit # NoLimit /\ n >= SampleLimit
=============================================================================
