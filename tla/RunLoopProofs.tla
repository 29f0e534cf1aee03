--------------------------- MODULE RunLoopProofs ----------------------------
(***************************************************************************)
(* Theorems about RunLoop, for any number of rows, pool threads, stops and *)
(* resumes and any budget: types, the ledger on disk, what is final, and   *)
(* how an invocation may end.                                              *)
(***************************************************************************)
EXTENDS RunLoop, RunQueueProofs, FiniteSetTheorems, TLAPS

(* The process that runs is one that may hold a lease. *)
LEMMA OrchestratorType == Orchestrator \in Workers
  BY RunLoopAssumption DEF Orchestrator

(* What the operations of the ledger return. *)
LEMMA SetTrialRecord ==
  ASSUME NEW r \in RS!Ledgers, NEW a \in Attempts, NEW s \in RS!TrialStatuses
  PROVE  /\ RS!SetTrial(r, a, s) = [status |-> r.status,
                                    trials |-> [r.trials EXCEPT ![a] = s],
                                    completed |-> r.completed, failed |-> r.failed]
         /\ r.trials \in [Attempts -> RS!TrialStatuses]
         /\ r.completed \in Nat /\ r.failed \in Nat /\ r.status \in RS!RunStatuses
         /\ RS!SetTrial(r, a, s) \in RS!Ledgers
<1>1. /\ r.trials \in [Attempts -> RS!TrialStatuses]
      /\ r.completed \in Nat /\ r.failed \in Nat /\ r.status \in RS!RunStatuses
      /\ r = [status |-> r.status, trials |-> r.trials,
              completed |-> r.completed, failed |-> r.failed]
  BY DEF RS!Ledgers
<1>2. RS!SetTrial(r, a, s) = [status |-> r.status,
                              trials |-> [r.trials EXCEPT ![a] = s],
                              completed |-> r.completed, failed |-> r.failed]
  BY <1>1 DEF RS!SetTrial
<1>3. [r.trials EXCEPT ![a] = s] \in [Attempts -> RS!TrialStatuses]
  BY <1>1
<1> QED
  BY <1>1, <1>2, <1>3 DEF RS!Ledgers

(* The three marks, as records. *)
LEMMA LedgerOps ==
  ASSUME NEW r \in RS!Ledgers, NEW a \in Attempts
  PROVE  /\ RS!mark_running(r, a) =
              [status |-> r.status, trials |-> [r.trials EXCEPT ![a] = "running"],
               completed |-> r.completed, failed |-> r.failed]
         /\ RS!mark_completed(r, a) =
              [status |-> r.status, trials |-> [r.trials EXCEPT ![a] = "completed"],
               completed |-> r.completed + 1, failed |-> r.failed]
         /\ RS!mark_failed(r, a) =
              [status |-> r.status, trials |-> [r.trials EXCEPT ![a] = "failed"],
               completed |-> r.completed, failed |-> r.failed + 1]
<1>1. {"running", "completed", "failed"} \subseteq RS!TrialStatuses
  BY DEF RS!TrialStatuses
<1>2. ASSUME NEW s \in RS!TrialStatuses
      PROVE  RS!SetTrial(r, a, s) =
               [status |-> r.status, trials |-> [r.trials EXCEPT ![a] = s],
                completed |-> r.completed, failed |-> r.failed]
  BY SetTrialRecord
<1>3. RS!SetTrial(r, a, "running") =
        [status |-> r.status, trials |-> [r.trials EXCEPT ![a] = "running"],
         completed |-> r.completed, failed |-> r.failed]
  BY <1>1, <1>2
<1>4. RS!SetTrial(r, a, "completed") =
        [status |-> r.status, trials |-> [r.trials EXCEPT ![a] = "completed"],
         completed |-> r.completed, failed |-> r.failed]
  BY <1>1, <1>2
<1>5. RS!SetTrial(r, a, "failed") =
        [status |-> r.status, trials |-> [r.trials EXCEPT ![a] = "failed"],
         completed |-> r.completed, failed |-> r.failed]
  BY <1>1, <1>2
<1> QED
  BY <1>3, <1>4, <1>5 DEF RS!mark_running, RS!mark_completed, RS!mark_failed

(* A record of the right fields is a ledger. *)
LEMMA LedgerRecord ==
  ASSUME NEW s \in RS!RunStatuses, NEW t \in [Attempts -> RS!TrialStatuses],
         NEW c \in Nat, NEW f \in Nat
  PROVE  [status |-> s, trials |-> t, completed |-> c, failed |-> f] \in RS!Ledgers
  BY DEF RS!Ledgers

(* A mark makes a ledger of a ledger. *)
LEMMA LedgerTypes ==
  ASSUME NEW r \in RS!Ledgers, NEW a \in Attempts
  PROVE  /\ RS!mark_running(r, a) \in RS!Ledgers
         /\ RS!mark_completed(r, a) \in RS!Ledgers
         /\ RS!mark_failed(r, a) \in RS!Ledgers
         /\ r.trials \in [Attempts -> RS!TrialStatuses]
         /\ r.completed \in Nat /\ r.failed \in Nat
<1>1. {"running", "completed", "failed"} \subseteq RS!TrialStatuses
  BY DEF RS!TrialStatuses
<1>2. /\ r.trials \in [Attempts -> RS!TrialStatuses]
      /\ r.completed \in Nat /\ r.failed \in Nat /\ r.status \in RS!RunStatuses
  BY DEF RS!Ledgers
<1>3. \A s \in RS!TrialStatuses : [r.trials EXCEPT ![a] = s] \in [Attempts -> RS!TrialStatuses]
  BY <1>2
<1>4. /\ [r.trials EXCEPT ![a] = "running"] \in [Attempts -> RS!TrialStatuses]
      /\ [r.trials EXCEPT ![a] = "completed"] \in [Attempts -> RS!TrialStatuses]
      /\ [r.trials EXCEPT ![a] = "failed"] \in [Attempts -> RS!TrialStatuses]
  BY <1>1, <1>3
<1>5. /\ r.completed + 1 \in Nat /\ r.failed + 1 \in Nat
  BY <1>2
<1>6. RS!mark_running(r, a) \in RS!Ledgers
  <2>1. [status |-> r.status, trials |-> [r.trials EXCEPT ![a] = "running"],
         completed |-> r.completed, failed |-> r.failed] \in RS!Ledgers
    BY <1>2, <1>4, LedgerRecord
  <2> QED BY <2>1, LedgerOps, Zenon
<1>7. RS!mark_completed(r, a) \in RS!Ledgers
  <2>1. [status |-> r.status, trials |-> [r.trials EXCEPT ![a] = "completed"],
         completed |-> r.completed + 1, failed |-> r.failed] \in RS!Ledgers
    BY <1>2, <1>4, <1>5, LedgerRecord
  <2> QED BY <2>1, LedgerOps, Zenon
<1>8. RS!mark_failed(r, a) \in RS!Ledgers
  <2>1. [status |-> r.status, trials |-> [r.trials EXCEPT ![a] = "failed"],
         completed |-> r.completed, failed |-> r.failed + 1] \in RS!Ledgers
    BY <1>2, <1>4, <1>5, LedgerRecord
  <2> QED BY <2>1, LedgerOps, Zenon
<1> QED
  BY <1>2, <1>6, <1>7, <1>8

(* The stamp changes the status of the run alone. *)
LEMMA StampOp ==
  ASSUME NEW r \in RS!Ledgers, NEW s \in RS!RunStatuses
  PROVE  /\ RS!mark_run(r, s) = [status |-> s, trials |-> r.trials,
                                 completed |-> r.completed, failed |-> r.failed]
         /\ RS!mark_run(r, s) \in RS!Ledgers
  BY DEF RS!Ledgers, RS!mark_run

(* What initialize_run writes. *)
LEMMA FreshLedger ==
  /\ RS!initialize_run \in RS!Ledgers
  /\ RS!initialize_run.trials = [a \in Attempts |-> "pending"]
  /\ RS!initialize_run.completed = 0
  /\ RS!initialize_run.failed = 0
  BY DEF RS!Ledgers, RS!initialize_run, RS!TrialStatuses, RS!RunStatuses

(* The spend found on disk is a number. *)
LEMMA DiskCost == CostOnDisk \in Nat
<1>1. IsFiniteSet(Attempts)
  BY QueueAssumption, FS_Interval DEF Attempts
<1>2. IsFiniteSet({a \in Attempts : TrialCost(bundle[a]) = 1})
  BY <1>1, FS_Subset
<1> QED
  BY <1>2, FS_CardinalityType DEF CostOnDisk

-----------------------------------------------------------------------------
(* A process that ends leaves everything in its type. *)
LEMMA EndType ==
  ASSUME ProcessEnds
  PROVE  /\ BudgetTypeOK' /\ LoopTypeOK' /\ LeaseInHand'
         /\ planned' = {} /\ started' = {}
<1>1. BudgetTypeOK'
  BY DEF ProcessEnds, NewBudget, BudgetTypeOK, NotStarted
<1>2. LoopTypeOK'
  BY FreshLedger DEF ProcessEnds, LoopTypeOK
<1> QED
  BY <1>1, <1>2 DEF ProcessEnds, LeaseInHand

(* Recording a cost keeps the budget in its type. *)
LEMMA SpendType ==
  ASSUME BudgetTypeOK, now \in Nat, burned \in Nat, NEW o, Spend(TrialCost(o))
  PROVE  BudgetTypeOK' /\ burned' \in Nat
<1>1. TrialCost(o) \in Nat
  BY DEF TrialCost
<1>2. clockStart' \in Nat \cup {NotStarted}
  BY DEF BudgetTypeOK, Spend, record_generation_cost, StartClockIfNeeded
<1> QED
  BY <1>1, <1>2 DEF BudgetTypeOK, Spend, record_generation_cost

(* A retryable failure, requeued or given up. *)
LEMMA RequeueType ==
  ASSUME QueueTypeOK, LoopTypeOK, now' = now, NEW a \in Attempts,
         NEW c \in {"result", "handler"}, Requeue(a, c)
  PROVE  /\ QueueTypeOK'
         /\ run' \in RS!Ledgers
         /\ \/ pc' = "poll" /\ ctx' = "retry"
            \/ pc' = "save" /\ ctx' = c
<1>1. ShouldRetry(a) \in BOOLEAN
  BY DEF ShouldRetry
<1>2. QueueTypeOK'
  BY <1>1, MarkFailedType DEF Requeue
<1>3. CASE ShouldRetry(a)
  BY <1>2, <1>3 DEF Requeue, Goto, LoopTypeOK
<1>4. CASE ~ShouldRetry(a)
  BY <1>2, <1>4, LedgerTypes DEF Requeue, Goto, LoopTypeOK
<1> QED
  BY <1>3, <1>4

(* The initial state is of the right type. *)
LEMMA LoopTypeInit == Init => TypeOK
<1> SUFFICES ASSUME Init PROVE TypeOK
  OBVIOUS
<1>1. QueueTypeOK
  BY QueueAssumption DEF Init, QueueInit, QueueTypeOK, Statuses, NoExpiry
<1>2. LoopTypeOK
  BY FreshLedger DEF Init, LoopTypeOK
<1>3. DiskTypeOK /\ HistoryTypeOK
  BY RunLoopAssumption DEF Init, DiskTypeOK, HistoryTypeOK
<1>4. BudgetTypeOK /\ LeaseInHand
  BY DEF Init, BudgetTypeOK, LeaseInHand
<1> QED
  BY <1>1, <1>2, <1>3, <1>4 DEF TypeOK

(* Every action preserves the type invariant. *)
LEMMA LoopTypeStep ==
  ASSUME TypeOK, [Next]_vars PROVE TypeOK'
<1> USE QueueAssumption, RunLoopAssumption
<1>0. QueueTypeOK /\ BudgetTypeOK /\ LoopTypeOK /\ DiskTypeOK /\ HistoryTypeOK /\ LeaseInHand
  BY DEF TypeOK
<1>1. CASE BeginFresh
  <2> USE <1>1
  <2>1. QueueTypeOK'
    BY <1>0, QueueFrame DEF BeginFresh, queueVars
  <2> QED
    BY <1>0, <2>1, FreshLedger
    DEF BeginFresh, Goto, TypeOK, LoopTypeOK, DiskTypeOK, HistoryTypeOK,
        LeaseInHand, BudgetTypeOK, loopVars,
        loopVars, memVars, diskVars, historyVars, budgetVars, queueVars
<1>2. CASE Resume
  <2> USE <1>2
  <2>1. QueueTypeOK'
    BY <1>0, QueueFrame DEF Resume, queueVars
  <2> QED
    BY <1>0, <2>1
    DEF Resume, Goto, TypeOK, LoopTypeOK, DiskTypeOK, HistoryTypeOK, LeaseInHand,
        BudgetTypeOK, Loadable, RS!to_retry,
        loopVars, memVars, diskVars, historyVars, budgetVars, queueVars
<1>3. ASSUME NEW a \in Attempts, EnqueueRow(a) PROVE TypeOK'
  <2> USE <1>3
  <2>1. QueueTypeOK'
    BY <1>0, EnqueueType DEF EnqueueRow
  <2> QED
    BY <1>0, <2>1
    DEF EnqueueRow, Goto, TypeOK, LoopTypeOK, DiskTypeOK, HistoryTypeOK,
        LeaseInHand, BudgetTypeOK, loopVars,
        loopVars, memVars, diskVars, historyVars, budgetVars, queueVars
<1>4. CASE Recover
  <2> USE <1>4
  <2>1. QueueTypeOK'
    BY <1>0, RecoverType DEF Recover
  <2> QED
    BY <1>0, <2>1, DiskCost
    DEF Recover, Goto, TypeOK, LoopTypeOK, DiskTypeOK, HistoryTypeOK, LeaseInHand,
        BudgetTypeOK, Seed, NewBudget, NotStarted, Hit,
        loopVars, memVars, diskVars, historyVars, budgetVars, queueVars
<1>5. ASSUME NEW a \in Attempts, LeaseNext(a) PROVE TypeOK'
  <2> USE <1>5
  <2>1. QueueTypeOK'
    BY <1>0, LeaseType, OrchestratorType DEF LeaseNext
  <2> QED
    BY <1>0, <2>1
    DEF LeaseNext, Goto, TypeOK, LoopTypeOK, DiskTypeOK, HistoryTypeOK, LeaseInHand,
        BudgetTypeOK, loopVars,
        loopVars, memVars, diskVars, historyVars, budgetVars, queueVars
<1>6. CASE FillDone
  <2> USE <1>6
  <2>1. QueueTypeOK'
    BY <1>0, QueueFrame DEF FillDone, queueVars
  <2> QED
    BY <1>0, <2>1
    DEF FillDone, Goto, TypeOK, LoopTypeOK, DiskTypeOK, HistoryTypeOK, LeaseInHand,
        BudgetTypeOK, loopVars,
        loopVars, memVars, diskVars, historyVars, budgetVars, queueVars
<1>7. CASE UnknownTask
  <2> USE <1>7
  <2>1. QueueTypeOK'
    BY <1>0, MarkFailedType DEF UnknownTask, CannotRun, LeaseInHand
  <2> QED
    BY <1>0, <2>1, LedgerTypes
    DEF UnknownTask, Goto, TypeOK, LoopTypeOK, DiskTypeOK, HistoryTypeOK,
        LeaseInHand, BudgetTypeOK, CannotRun,
        loopVars, memVars, diskVars, historyVars, budgetVars, queueVars
<1>8. CASE SpecFails
  <2> USE <1>8
  <2>1. QueueTypeOK'
    BY <1>0, MarkFailedType DEF SpecFails, CannotRun, LeaseInHand
  <2> QED
    BY <1>0, <2>1, LedgerTypes
    DEF SpecFails, Goto, TypeOK, LoopTypeOK, DiskTypeOK, HistoryTypeOK, LeaseInHand,
        BudgetTypeOK, CannotRun,
        loopVars, memVars, diskVars, historyVars, budgetVars, queueVars
<1>9. CASE MarkRunning
  <2> USE <1>9
  <2>1. QueueTypeOK'
    BY <1>0, MarkRunningType, OrchestratorType DEF MarkRunning, LeaseInHand
  <2> QED
    BY <1>0, <2>1, LedgerTypes
    DEF MarkRunning, Goto, TypeOK, LoopTypeOK, DiskTypeOK, HistoryTypeOK,
        LeaseInHand, BudgetTypeOK, loopVars,
        loopVars, memVars, diskVars, historyVars, budgetVars, queueVars
<1>10. CASE Submit
  <2> USE <1>10
  <2>1. QueueTypeOK'
    BY <1>0, QueueFrame DEF Submit, queueVars
  <2> QED
    BY <1>0, <2>1
    DEF Submit, Goto, TypeOK, LoopTypeOK, DiskTypeOK, HistoryTypeOK, LeaseInHand,
        BudgetTypeOK, loopVars,
        loopVars, memVars, diskVars, historyVars, budgetVars, queueVars
<1>11. ASSUME NEW a \in Attempts, NEW o \in Outcomes, TrialEnds(a, o) PROVE TypeOK'
  <2> USE <1>11
  <2>1. QueueTypeOK'
    BY <1>0, QueueFrame DEF TrialEnds, queueVars
  <2> QED
    BY <1>0, <2>1
    DEF TrialEnds, Goto, TypeOK, LoopTypeOK, DiskTypeOK, HistoryTypeOK, LeaseInHand,
        BudgetTypeOK, Outcomes,
        loopVars, memVars, diskVars, historyVars, budgetVars, queueVars
<1>12. ASSUME NEW a \in Attempts, TrialRaises(a) PROVE TypeOK'
  <2> USE <1>12
  <2>1. QueueTypeOK'
    BY <1>0, QueueFrame DEF TrialRaises, queueVars
  <2> QED
    BY <1>0, <2>1
    DEF TrialRaises, Goto, TypeOK, LoopTypeOK, DiskTypeOK, HistoryTypeOK,
        LeaseInHand, BudgetTypeOK, loopVars,
        loopVars, memVars, diskVars, historyVars, budgetVars, queueVars
<1>13. ASSUME NEW a \in Attempts, RecordFinal(a) PROVE TypeOK'
  <2> USE <1>13
  <2>1. QueueTypeOK'
    BY <1>0, MarkCompletedType DEF RecordFinal
  <2>2. BudgetTypeOK' /\ burned' \in Nat
    BY <1>0, SpendType DEF RecordFinal, QueueTypeOK, HistoryTypeOK
  <2>3. fut' \in [Attempts -> Outcomes \cup {"none", "executing", "raised"}]
    BY <1>0 DEF Take, LoopTypeOK, RecordFinal
  <2>4. LoopTypeOK'
    BY <1>0, <2>3, LedgerTypes DEF RecordFinal, Goto, LoopTypeOK
  <2> QED
    BY <1>0, <2>1, <2>2, <2>4
    DEF RecordFinal, Take, Goto, TypeOK, DiskTypeOK, HistoryTypeOK, LeaseInHand,
        diskVars
<1>14. ASSUME NEW a \in Attempts, RecordTransient(a) PROVE TypeOK'
  <2> USE <1>14
  <2>1. /\ QueueTypeOK'
        /\ run' \in RS!Ledgers
        /\ \/ pc' = "poll" /\ ctx' = "retry"
           \/ pc' = "save" /\ ctx' = "result"
    BY <1>0, RequeueType DEF RecordTransient
  <2>2. BudgetTypeOK' /\ burned' \in Nat
    BY <1>0, SpendType DEF RecordTransient, QueueTypeOK, HistoryTypeOK
  <2>3. fut' \in [Attempts -> Outcomes \cup {"none", "executing", "raised"}]
    BY <1>0 DEF Take, LoopTypeOK, RecordTransient
  <2>4. LoopTypeOK'
    BY <1>0, <2>1, <2>3 DEF RecordTransient, LoopTypeOK
  <2> QED
    BY <1>0, <2>1, <2>2, <2>4
    DEF RecordTransient, Take, TypeOK, DiskTypeOK, HistoryTypeOK, LeaseInHand, diskVars
<1>15. ASSUME NEW a \in Attempts, HandleRaised(a) PROVE TypeOK'
  <2> USE <1>15
  <2>1. /\ QueueTypeOK'
        /\ run' \in RS!Ledgers
        /\ \/ pc' = "poll" /\ ctx' = "retry"
           \/ pc' = "save" /\ ctx' = "handler"
    BY <1>0, RequeueType DEF HandleRaised
  <2>2. fut' \in [Attempts -> Outcomes \cup {"none", "executing", "raised"}]
    BY <1>0 DEF Take, LoopTypeOK, HandleRaised
  <2>3. LoopTypeOK'
    BY <1>0, <2>1, <2>2 DEF HandleRaised, LoopTypeOK
  <2> QED
    BY <1>0, <2>1, <2>3
    DEF HandleRaised, Take, TypeOK, BudgetTypeOK, DiskTypeOK, HistoryTypeOK,
        LeaseInHand,
        budgetVars, diskVars, historyVars
<1>16. CASE HandleSaveError
  <2> USE <1>16
  <2>1. /\ QueueTypeOK'
        /\ run' \in RS!Ledgers
        /\ \/ pc' = "poll" /\ ctx' = "retry"
           \/ pc' = "save" /\ ctx' = "handler"
    BY <1>0, RequeueType DEF HandleSaveError, LeaseInHand
  <2>2. LoopTypeOK'
    BY <1>0, <2>1 DEF HandleSaveError, LoopTypeOK
  <2> QED
    BY <1>0, <2>1, <2>2
    DEF HandleSaveError, TypeOK, BudgetTypeOK, DiskTypeOK, HistoryTypeOK, LeaseInHand,
        budgetVars, diskVars, historyVars
<1>17. CASE Poll
  <2> USE <1>17
  <2>1. QueueTypeOK'
    BY <1>0, QueueFrame DEF Poll, queueVars
  <2>2. BudgetTypeOK'
    <3>1. CASE ctx = "retry"
      BY <1>0, <3>1 DEF Poll, budgetVars, BudgetTypeOK
    <3>2. CASE ctx # "retry"
      <4>1. clockStart' \in Nat \cup {NotStarted}
        BY <1>0, <3>2 DEF Poll, record_trial_terminated, StartClockIfNeeded,
            BudgetTypeOK, QueueTypeOK
      <4> QED
        BY <1>0, <3>2, <4>1 DEF Poll, record_trial_terminated, BudgetTypeOK
    <3> QED BY <3>1, <3>2
  <2>3. exhausted' \in BOOLEAN
    BY <1>0, Zenon DEF Poll, LoopTypeOK, Hit
  <2>4. LoopTypeOK'
    BY <1>0, <2>3 DEF Poll, Goto, LoopTypeOK
  <2> QED
    BY <1>0, <2>1, <2>2, <2>4
    DEF Poll, Goto, TypeOK, DiskTypeOK, HistoryTypeOK, LeaseInHand, diskVars,
        historyVars
<1>18. CASE Finish
  <2> USE <1>18
  <2>1. QueueTypeOK'
    BY <1>0, QueueFrame DEF Finish, queueVars
  <2>2. CASE Loadable
    <3>1. run' \in RS!Ledgers
      <4>1. file \in RS!Ledgers
        BY <1>0, <2>2 DEF DiskTypeOK, Loadable
      <4>2. \A s \in RS!RunStatuses : RS!mark_run(file, s) \in RS!Ledgers
        BY <4>1, StampOp
      <4> QED BY <2>2, <4>2 DEF Finish, RS!RunStatuses
    <3>2. LoopTypeOK'
      BY <1>0, <2>2, <3>1 DEF Finish, Goto, LoopTypeOK
    <3> QED
      BY <1>0, <2>1, <2>2, <3>2
      DEF Finish, Goto, TypeOK, BudgetTypeOK, DiskTypeOK, HistoryTypeOK, LeaseInHand,
          budgetVars, diskVars, historyVars
  <2>3. CASE ~Loadable
    BY <1>0, <2>1, <2>3, EndType
    DEF Finish, TypeOK, DiskTypeOK, HistoryTypeOK, diskVars
  <2> QED BY <2>2, <2>3
<1>19. CASE Save
  <2> USE <1>19
  <2>1. QueueTypeOK'
    BY <1>0, QueueFrame DEF Save, queueVars
  <2>2. DiskTypeOK'
    BY <1>0 DEF Save, DiskTypeOK, LoopTypeOK
  <2>3. CASE ctx = "end"
    BY <1>0, <2>1, <2>2, <2>3, EndType DEF Save, TypeOK, HistoryTypeOK
  <2>4. CASE ctx # "end"
    <3>1. /\ pc' \in {"enqueue", "submit", "fill", "poll"}
          /\ pc' = "submit" => ctx = "start"
      BY <2>4 DEF Save, AfterSave
    <3>2. LoopTypeOK'
      BY <1>0, <2>4, <3>1 DEF Save, memVars, LoopTypeOK
    <3> QED
      BY <1>0, <2>1, <2>2, <2>4, <3>1, <3>2
      DEF Save, TypeOK, BudgetTypeOK, HistoryTypeOK, LeaseInHand, budgetVars,
          historyVars
  <2> QED BY <2>3, <2>4
<1>20. CASE SaveRaises
  <2> USE <1>20
  <2>1. QueueTypeOK'
    BY <1>0, QueueFrame DEF SaveRaises, queueVars
  <2>2. DiskTypeOK' /\ stops' \in 0..MaxStops
    BY <1>0 DEF SaveRaises, CutShort, DiskTypeOK, HistoryTypeOK
  <2>3. CASE ctx = "result"
    <3>1. LoopTypeOK'
      BY <1>0, <2>3 DEF SaveRaises, Goto, memVars, LoopTypeOK
    <3> QED
      BY <1>0, <2>1, <2>2, <2>3, <3>1
      DEF SaveRaises, Goto, TypeOK, BudgetTypeOK, HistoryTypeOK, LeaseInHand, budgetVars
  <2>4. CASE ctx # "result"
    BY <1>0, <2>1, <2>2, <2>4, EndType DEF SaveRaises, TypeOK, HistoryTypeOK
  <2> QED BY <2>3, <2>4
<1>21. CASE Stop
  <2> USE <1>21
  <2>1. QueueTypeOK'
    BY <1>0, QueueFrame DEF Stop, queueVars
  <2>2. DiskTypeOK' /\ stops' \in 0..MaxStops
    BY <1>0 DEF Stop, CutShort, DiskTypeOK, HistoryTypeOK
  <2> QED
    BY <1>0, <2>1, <2>2, EndType DEF Stop, TypeOK, HistoryTypeOK
<1>22. CASE Tick
  <2> USE <1>22
  <2>1. QueueTypeOK'
    BY <1>0, SMT DEF Tick, QueueTypeOK, queueVars
  <2> QED
    BY <1>0, <2>1
    DEF Tick, Goto, TypeOK, LoopTypeOK, DiskTypeOK, HistoryTypeOK, LeaseInHand,
        BudgetTypeOK, loopVars,
        loopVars, memVars, diskVars, historyVars, budgetVars, queueVars
<1>23. CASE UNCHANGED vars
  <2>1. QueueTypeOK'
    BY <1>0, <1>23, QueueFrame DEF vars
  <2> QED
    BY <1>0, <1>23, <2>1 DEF vars, TypeOK, LoopTypeOK, DiskTypeOK, HistoryTypeOK,
        LeaseInHand, BudgetTypeOK, loopVars, memVars, diskVars, historyVars,
        budgetVars
<1> QED
  BY <1>1, <1>2, <1>3, <1>4, <1>5, <1>6, <1>7, <1>8, <1>9, <1>10, <1>11, <1>12,
      <1>13, <1>14, <1>15, <1>16, <1>17, <1>18, <1>19, <1>20, <1>21, <1>22, <1>23
  DEF Next, MainThread, PoolThread

(* The type invariant of the run loop, whatever faults are allowed. *)
THEOREM RunLoopTypeCorrect == Spec => []TypeOK
BY LoopTypeInit, LoopTypeStep, PTL DEF Spec

-----------------------------------------------------------------------------
(* The row of a trial under way is running, its future is not done before its
   bundle is written, and between lease and submit the row in hand is the
   orchestrator's.  Nobody waits for a trial while the queue is set up: this
   is what makes the recovery at the start harmless. *)
RowsInStep ==
  /\ pc # "raised"
  /\ pc = "leased" => status[cur] = "leased"
  /\ pc = "submit" \/ (pc = "save" /\ ctx = "start")
       => status[cur] = "running" /\ fut[cur] = "none"
  /\ pc \in {"down", "enqueue"} \/ (pc = "save" /\ ctx = "init")
       => \A b \in Attempts : fut[b] = "none"
  /\ \A b \in Attempts : fut[b] # "none" => status[b] = "running"
  /\ \A b \in Attempts : fut[b] \in Outcomes => bundle[b] = fut[b]

(* Every action keeps rows, futures and bundles in step. *)
LEMMA RowsStep ==
  ASSUME "save_error" \notin Faults, TypeOK, RowsInStep, [Next]_vars
  PROVE  RowsInStep'
<1> USE DEF RowsInStep, Outcomes
<1>0. /\ cur \in Attempts \cup {0}
      /\ pc \in {"leased", "submit"} \/ (pc = "save" /\ ctx = "start") => cur \in Attempts
      /\ fut \in [Attempts -> Outcomes \cup {"none", "executing", "raised"}]
      /\ status \in [Attempts -> Statuses]
      /\ bundle \in [Attempts -> Outcomes \cup {"none"}]
  BY DEF TypeOK, LeaseInHand, LoopTypeOK, QueueTypeOK, DiskTypeOK
<1>1. CASE BeginFresh
  BY <1>0, <1>1 DEF BeginFresh, Goto,
     loopVars, memVars, diskVars, historyVars, queueVars
<1>2. CASE Resume
  BY <1>0, <1>2 DEF Resume, Goto,
     loopVars, memVars, diskVars, historyVars, queueVars
<1>3. ASSUME NEW a \in Attempts, EnqueueRow(a) PROVE RowsInStep'
  BY <1>0, <1>3 DEF EnqueueRow, Goto, enqueue,
     loopVars, memVars, diskVars, historyVars, queueVars
<1>4. CASE Recover
  BY <1>0, <1>4 DEF Recover, Goto, recover_inflight, Stale,
     loopVars, memVars, diskVars, historyVars, queueVars
<1>5. ASSUME NEW a \in Attempts, LeaseNext(a) PROVE RowsInStep'
  BY <1>0, <1>5 DEF LeaseNext, Goto, lease_next, Oldest, Pending,
     loopVars, memVars, diskVars, historyVars, queueVars
<1>6. CASE FillDone
  BY <1>0, <1>6 DEF FillDone, Goto,
     loopVars, memVars, diskVars, historyVars, queueVars
<1>7. CASE UnknownTask
  BY <1>0, <1>7 DEF UnknownTask, Goto, CannotRun, mark_failed, Unlease,
     loopVars, memVars, diskVars, historyVars, queueVars
<1>8. CASE SpecFails
  BY <1>0, <1>8 DEF SpecFails, Goto, CannotRun, mark_failed, Unlease,
     loopVars, memVars, diskVars, historyVars, queueVars
<1>9. CASE MarkRunning
  BY <1>0, <1>9 DEF MarkRunning, Goto, mark_running,
     loopVars, memVars, diskVars, historyVars, queueVars
<1>10. CASE Submit
  BY <1>0, <1>10 DEF Submit, Goto,
     loopVars, memVars, diskVars, historyVars, queueVars
<1>11. ASSUME NEW a \in Attempts, NEW o \in Outcomes, TrialEnds(a, o) PROVE RowsInStep'
  BY <1>0, <1>11 DEF TrialEnds, Goto,
     loopVars, memVars, diskVars, historyVars, queueVars
<1>12. ASSUME NEW a \in Attempts, TrialRaises(a) PROVE RowsInStep'
  BY <1>0, <1>12 DEF TrialRaises, Goto,
     loopVars, memVars, diskVars, historyVars, queueVars
<1>13. ASSUME NEW a \in Attempts, RecordFinal(a) PROVE RowsInStep'
  BY <1>0, <1>13 DEF RecordFinal, Goto, mark_completed, Unlease, Take,
     loopVars, memVars, diskVars, historyVars, queueVars
<1>14. ASSUME NEW a \in Attempts, RecordTransient(a) PROVE RowsInStep'
  BY <1>0, <1>14 DEF RecordTransient, Goto, Requeue, mark_failed, Unlease, Take,
     loopVars, memVars, diskVars, historyVars, queueVars
<1>15. ASSUME NEW a \in Attempts, HandleRaised(a) PROVE RowsInStep'
  BY <1>0, <1>15 DEF HandleRaised, Goto, Requeue, mark_failed, Unlease, Take,
     loopVars, memVars, diskVars, historyVars, queueVars
<1>16. CASE HandleSaveError
  BY <1>0, <1>16 DEF HandleSaveError, Goto,
     loopVars, memVars, diskVars, historyVars, queueVars
<1>17. CASE Poll
  BY <1>0, <1>17 DEF Poll, Goto,
     loopVars, memVars, diskVars, historyVars, queueVars
<1>18. CASE Finish
  BY <1>0, <1>18 DEF Finish, Goto, ProcessEnds,
     loopVars, memVars, diskVars, historyVars, queueVars
<1>19. CASE Save
  BY <1>0, <1>19 DEF Save, Goto, AfterSave, ProcessEnds,
     loopVars, memVars, diskVars, historyVars, queueVars
<1>20. CASE SaveRaises
  BY <1>0, <1>20 DEF SaveRaises, Goto,
     loopVars, memVars, diskVars, historyVars, queueVars
<1>21. CASE Stop
  BY <1>0, <1>21 DEF Stop, Goto, ProcessEnds,
     loopVars, memVars, diskVars, historyVars, queueVars
<1>22. CASE Tick
  BY <1>0, <1>22 DEF Tick, Goto,
     loopVars, memVars, diskVars, historyVars, queueVars
<1>23. CASE UNCHANGED vars
  BY <1>23 DEF vars, loopVars, memVars, diskVars, historyVars, queueVars
<1> QED
  BY <1>1, <1>2, <1>3, <1>4, <1>5, <1>6, <1>7, <1>8, <1>9, <1>10, <1>11, <1>12,
      <1>13, <1>14, <1>15, <1>16, <1>17, <1>18, <1>19, <1>20, <1>21, <1>22, <1>23
  DEF Next, MainThread, PoolThread

(* A finished row, and the bundle that goes with it, never change again. *)
LEMMA RowFinal ==
  ASSUME "save_error" \notin Faults, TypeOK, RowsInStep, [Next]_vars,
         NEW b \in Attempts, status[b] \in Terminal
  PROVE  status'[b] = status[b] /\ bundle'[b] = bundle[b]
<1> USE DEF RowsInStep, Terminal
<1>0. /\ cur \in Attempts \cup {0}
      /\ pc \in {"leased", "submit"} \/ (pc = "save" /\ ctx = "start") => cur \in Attempts
      /\ fut \in [Attempts -> Outcomes \cup {"none", "executing", "raised"}]
      /\ status \in [Attempts -> Statuses]
      /\ bundle \in [Attempts -> Outcomes \cup {"none"}]
  BY DEF TypeOK, LeaseInHand, LoopTypeOK, QueueTypeOK, DiskTypeOK
<1>1. CASE BeginFresh
  BY <1>0, <1>1 DEF BeginFresh, Goto, InFlight,
     loopVars, memVars, diskVars, historyVars, queueVars
<1>2. CASE Resume
  BY <1>0, <1>2 DEF Resume, Goto, InFlight,
     loopVars, memVars, diskVars, historyVars, queueVars
<1>3. ASSUME NEW a \in Attempts, EnqueueRow(a)
      PROVE  status'[b] = status[b] /\ bundle'[b] = bundle[b]
  BY <1>0, <1>3 DEF EnqueueRow, Goto, enqueue, InFlight,
     loopVars, memVars, diskVars, historyVars, queueVars
<1>4. CASE Recover
  BY <1>0, <1>4 DEF Recover, Goto, recover_inflight, Stale, InFlight,
     loopVars, memVars, diskVars, historyVars, queueVars
<1>5. ASSUME NEW a \in Attempts, LeaseNext(a)
      PROVE  status'[b] = status[b] /\ bundle'[b] = bundle[b]
  BY <1>0, <1>5 DEF LeaseNext, Goto, lease_next, Oldest, Pending, InFlight,
     loopVars, memVars, diskVars, historyVars, queueVars
<1>6. CASE FillDone
  BY <1>0, <1>6 DEF FillDone, Goto, InFlight,
     loopVars, memVars, diskVars, historyVars, queueVars
<1>7. CASE UnknownTask
  BY <1>0, <1>7 DEF UnknownTask, Goto, CannotRun, mark_failed, Unlease, InFlight,
     loopVars, memVars, diskVars, historyVars, queueVars
<1>8. CASE SpecFails
  BY <1>0, <1>8 DEF SpecFails, Goto, CannotRun, mark_failed, Unlease, InFlight,
     loopVars, memVars, diskVars, historyVars, queueVars
<1>9. CASE MarkRunning
  BY <1>0, <1>9 DEF MarkRunning, Goto, mark_running, InFlight,
     loopVars, memVars, diskVars, historyVars, queueVars
<1>10. CASE Submit
  BY <1>0, <1>10 DEF Submit, Goto, InFlight,
     loopVars, memVars, diskVars, historyVars, queueVars
<1>11. ASSUME NEW a \in Attempts, NEW o \in Outcomes, TrialEnds(a, o)
      PROVE  status'[b] = status[b] /\ bundle'[b] = bundle[b]
  BY <1>0, <1>11 DEF TrialEnds, Goto, InFlight,
     loopVars, memVars, diskVars, historyVars, queueVars
<1>12. ASSUME NEW a \in Attempts, TrialRaises(a)
      PROVE  status'[b] = status[b] /\ bundle'[b] = bundle[b]
  BY <1>0, <1>12 DEF TrialRaises, Goto, InFlight,
     loopVars, memVars, diskVars, historyVars, queueVars
<1>13. ASSUME NEW a \in Attempts, RecordFinal(a)
      PROVE  status'[b] = status[b] /\ bundle'[b] = bundle[b]
  BY <1>0, <1>13 DEF RecordFinal, Goto, mark_completed, Unlease, Take, InFlight,
     loopVars, memVars, diskVars, historyVars, queueVars
<1>14. ASSUME NEW a \in Attempts, RecordTransient(a)
      PROVE  status'[b] = status[b] /\ bundle'[b] = bundle[b]
  BY <1>0, <1>14 DEF RecordTransient, Goto, Requeue, mark_failed, Unlease, Take,
      InFlight,
     loopVars, memVars, diskVars, historyVars, queueVars
<1>15. ASSUME NEW a \in Attempts, HandleRaised(a)
      PROVE  status'[b] = status[b] /\ bundle'[b] = bundle[b]
  BY <1>0, <1>15 DEF HandleRaised, Goto, Requeue, mark_failed, Unlease, Take, InFlight,
     loopVars, memVars, diskVars, historyVars, queueVars
<1>16. CASE HandleSaveError
  BY <1>0, <1>16 DEF HandleSaveError, Goto, InFlight,
     loopVars, memVars, diskVars, historyVars, queueVars
<1>17. CASE Poll
  BY <1>0, <1>17 DEF Poll, Goto, InFlight,
     loopVars, memVars, diskVars, historyVars, queueVars
<1>18. CASE Finish
  BY <1>0, <1>18 DEF Finish, Goto, ProcessEnds, InFlight,
     loopVars, memVars, diskVars, historyVars, queueVars
<1>19. CASE Save
  BY <1>0, <1>19 DEF Save, Goto, AfterSave, ProcessEnds, InFlight,
     loopVars, memVars, diskVars, historyVars, queueVars
<1>20. CASE SaveRaises
  BY <1>0, <1>20 DEF SaveRaises, Goto, InFlight,
     loopVars, memVars, diskVars, historyVars, queueVars
<1>21. CASE Stop
  BY <1>0, <1>21 DEF Stop, Goto, ProcessEnds, InFlight,
     loopVars, memVars, diskVars, historyVars, queueVars
<1>22. CASE Tick
  BY <1>0, <1>22 DEF Tick, Goto, InFlight,
     loopVars, memVars, diskVars, historyVars, queueVars
<1>23. CASE UNCHANGED vars
  BY <1>23 DEF vars, loopVars, memVars, diskVars, historyVars, queueVars
<1> QED
  BY <1>1, <1>2, <1>3, <1>4, <1>5, <1>6, <1>7, <1>8, <1>9, <1>10, <1>11, <1>12,
      <1>13, <1>14, <1>15, <1>16, <1>17, <1>18, <1>19, <1>20, <1>21, <1>22, <1>23
  DEF Next, MainThread, PoolThread

-----------------------------------------------------------------------------
(* What makes a ledger r true of the rows st and the bundles b, and its counts
   true of its entries. *)
Backed(r, st, b) ==
  \A a \in Attempts :
    /\ r.trials[a] \in Terminal => st[a] = r.trials[a]
    /\ r.trials[a] = "completed" => b[a] \in {"verdict", "fault"}

Entries(r, s) == {a \in Attempts : r.trials[a] = s}

Counted(r) ==
  /\ r.completed = Cardinality(Entries(r, "completed"))
  /\ r.failed = Cardinality(Entries(r, "failed"))

(* The ledger in memory and the one on disk are true of queue and bundles. *)
LedgerInv ==
  /\ RowsInStep
  /\ Backed(run, status, bundle) /\ Counted(run)
  /\ Loadable => Backed(file, status, bundle) /\ Counted(file)

(* A ledger stays true when finished rows and their bundles do not change. *)
LEMMA BackedFrame ==
  ASSUME NEW r, NEW st, NEW st2, NEW b, NEW b2, Backed(r, st, b),
         \A a \in Attempts : st[a] \in Terminal => st2[a] = st[a] /\ b2[a] = b[a]
  PROVE  Backed(r, st2, b2)
BY DEF Backed, Terminal

(* A new ledger claims nothing. *)
LEMMA FreshBacked ==
  ASSUME NEW st, NEW b
  PROVE  Backed(RS!initialize_run, st, b) /\ Counted(RS!initialize_run)
<1>1. \A a \in Attempts : RS!initialize_run.trials[a] = "pending"
  BY FreshLedger
<1>2. Backed(RS!initialize_run, st, b)
  BY <1>1 DEF Backed, Terminal
<1>3. Entries(RS!initialize_run, "completed") = {} /\ Entries(RS!initialize_run, "failed") = {}
  BY <1>1 DEF Entries
<1> QED
  BY <1>2, <1>3, FreshLedger, FS_EmptySet DEF Counted

(* Marking an entry that was open: its row and its bundle say the same. *)
LEMMA MarkBacked ==
  ASSUME NEW r \in RS!Ledgers, NEW a \in Attempts, NEW st, NEW b, Backed(r, st, b)
  PROVE  /\ Backed(RS!mark_running(r, a), st, b)
         /\ st[a] = "completed" /\ b[a] \in {"verdict", "fault"}
              => Backed(RS!mark_completed(r, a), st, b)
         /\ st[a] = "failed" => Backed(RS!mark_failed(r, a), st, b)
<1>1. r.trials \in [Attempts -> RS!TrialStatuses]
  BY LedgerTypes
<1>2. /\ RS!mark_running(r, a).trials = [r.trials EXCEPT ![a] = "running"]
      /\ RS!mark_completed(r, a).trials = [r.trials EXCEPT ![a] = "completed"]
      /\ RS!mark_failed(r, a).trials = [r.trials EXCEPT ![a] = "failed"]
  BY LedgerOps
<1> QED
  BY <1>1, <1>2 DEF Backed, Terminal

(* Marking an entry that was open keeps the counts. *)
LEMMA MarkCounted ==
  ASSUME NEW r \in RS!Ledgers, NEW a \in Attempts, Counted(r), r.trials[a] \notin Terminal
  PROVE  /\ Counted(RS!mark_running(r, a))
         /\ Counted(RS!mark_completed(r, a))
         /\ Counted(RS!mark_failed(r, a))
<1>0. r.trials \in [Attempts -> RS!TrialStatuses]
  BY LedgerTypes
<1>1. IsFiniteSet(Entries(r, "completed")) /\ IsFiniteSet(Entries(r, "failed"))
  <2>1. IsFiniteSet(Attempts)
    BY QueueAssumption, FS_Interval DEF Attempts
  <2> QED BY <2>1, FS_Subset DEF Entries
<1>2. a \notin Entries(r, "completed") /\ a \notin Entries(r, "failed")
  BY DEF Entries, Terminal
<1>3. /\ Cardinality(Entries(r, "completed") \cup {a}) = Cardinality(Entries(r, "completed")) + 1
      /\ Cardinality(Entries(r, "failed") \cup {a}) = Cardinality(Entries(r, "failed")) + 1
  BY <1>1, <1>2, FS_AddElement
<1>4. Counted(RS!mark_running(r, a))
  <2>1. /\ RS!mark_running(r, a).trials = [r.trials EXCEPT ![a] = "running"]
        /\ RS!mark_running(r, a).completed = r.completed
        /\ RS!mark_running(r, a).failed = r.failed
    BY LedgerOps
  <2>2. /\ Entries(RS!mark_running(r, a), "completed") = Entries(r, "completed")
        /\ Entries(RS!mark_running(r, a), "failed") = Entries(r, "failed")
    BY <1>0, <1>2, <2>1 DEF Entries
  <2> QED BY <2>1, <2>2 DEF Counted
<1>5. Counted(RS!mark_completed(r, a))
  <2>1. /\ RS!mark_completed(r, a).trials = [r.trials EXCEPT ![a] = "completed"]
        /\ RS!mark_completed(r, a).completed = r.completed + 1
        /\ RS!mark_completed(r, a).failed = r.failed
    BY LedgerOps
  <2>2. /\ Entries(RS!mark_completed(r, a), "completed") = Entries(r, "completed") \cup {a}
        /\ Entries(RS!mark_completed(r, a), "failed") = Entries(r, "failed")
    BY <1>0, <1>2, <2>1 DEF Entries
  <2> QED BY <1>3, <2>1, <2>2 DEF Counted
<1>6. Counted(RS!mark_failed(r, a))
  <2>1. /\ RS!mark_failed(r, a).trials = [r.trials EXCEPT ![a] = "failed"]
        /\ RS!mark_failed(r, a).completed = r.completed
        /\ RS!mark_failed(r, a).failed = r.failed + 1
    BY LedgerOps
  <2>2. /\ Entries(RS!mark_failed(r, a), "completed") = Entries(r, "completed")
        /\ Entries(RS!mark_failed(r, a), "failed") = Entries(r, "failed") \cup {a}
    BY <1>0, <1>2, <2>1 DEF Entries
  <2> QED BY <1>3, <2>1, <2>2 DEF Counted
<1> QED BY <1>4, <1>5, <1>6

(* So does the stamp, which touches no entry. *)
LEMMA StampKept ==
  ASSUME NEW r \in RS!Ledgers, NEW s \in RS!RunStatuses, NEW st, NEW b,
         Backed(r, st, b), Counted(r)
  PROVE  Backed(RS!mark_run(r, s), st, b) /\ Counted(RS!mark_run(r, s))
<1>1. /\ RS!mark_run(r, s).trials = r.trials
      /\ RS!mark_run(r, s).completed = r.completed
      /\ RS!mark_run(r, s).failed = r.failed
  BY StampOp
<1> QED BY <1>1 DEF Backed, Counted, Entries

(* The ways a step may change the ledger in memory: not at all, from the
   start, from the file, by the stamp of Finish, or at the entry of a row that
   was open. *)
Marks(a) ==
  /\ run.trials[a] \notin Terminal
  /\ \/ run' = RS!mark_running(run, a)
     \/ /\ run' = RS!mark_completed(run, a)
        /\ status'[a] = "completed" /\ bundle'[a] \in {"verdict", "fault"}
     \/ run' = RS!mark_failed(run, a) /\ status'[a] = "failed"

LedgerMoves ==
  \/ run' = run
  \/ run' = RS!initialize_run /\ (pc' = "down" \/ file' = Absent)
  \/ Loadable /\ run' = file
  \/ Finish /\ Loadable /\ \E s \in RS!RunStatuses : run' = RS!mark_run(file, s)
  \/ \E a \in Attempts : Marks(a)

(* Every action changes the ledger in memory in one of these ways. *)
LEMMA LedgerMove ==
  ASSUME "save_error" \notin Faults, TypeOK, LedgerInv, [Next]_vars
  PROVE  LedgerMoves
<1>0. /\ pc \in {"leased", "submit"} => cur \in Attempts
      /\ fut \in [Attempts -> Outcomes \cup {"none", "executing", "raised"}]
      /\ status \in [Attempts -> Statuses]
      /\ \A a \in Attempts : status[a] \in InFlight => run.trials[a] \notin Terminal
  BY DEF TypeOK, LeaseInHand, LoopTypeOK, QueueTypeOK, LedgerInv, Backed, Terminal,
      InFlight
<1>r. RowsInStep
  BY DEF LedgerInv
<1>1. CASE BeginFresh
  BY <1>1 DEF BeginFresh, LedgerMoves, diskVars
<1>2. CASE Resume
  BY <1>2 DEF Resume, LedgerMoves
<1>3. ASSUME NEW a \in Attempts, EnqueueRow(a) PROVE LedgerMoves
  BY <1>3 DEF EnqueueRow, memVars, LedgerMoves
<1>4. CASE Recover
  BY <1>4 DEF Recover, memVars, LedgerMoves
<1>5. ASSUME NEW a \in Attempts, LeaseNext(a) PROVE LedgerMoves
  BY <1>5 DEF LeaseNext, memVars, LedgerMoves
<1>6. CASE FillDone
  BY <1>6 DEF FillDone, memVars, LedgerMoves
<1>7. CASE UnknownTask
  <2>1. cur \in Attempts /\ status[cur] = "leased"
    BY <1>0, <1>r, <1>7 DEF UnknownTask, RowsInStep
  <2>2. run' = RS!mark_failed(run, cur) /\ status'[cur] = "failed"
    BY <1>0, <1>7, <2>1 DEF UnknownTask, CannotRun, mark_failed, Unlease
  <2> QED BY <1>0, <2>1, <2>2 DEF LedgerMoves, Marks, InFlight
<1>8. CASE SpecFails
  <2>1. cur \in Attempts /\ status[cur] = "running"
    BY <1>0, <1>r, <1>8 DEF SpecFails, RowsInStep
  <2>2. run' = RS!mark_failed(run, cur) /\ status'[cur] = "failed"
    BY <1>0, <1>8, <2>1 DEF SpecFails, CannotRun, mark_failed, Unlease
  <2> QED BY <1>0, <2>1, <2>2 DEF LedgerMoves, Marks, InFlight
<1>9. CASE MarkRunning
  <2>1. cur \in Attempts /\ status[cur] = "leased"
    BY <1>0, <1>r, <1>9 DEF MarkRunning, RowsInStep
  <2>2. run' = RS!mark_running(run, cur)
    BY <1>9 DEF MarkRunning
  <2> QED BY <1>0, <2>1, <2>2 DEF LedgerMoves, Marks, InFlight
<1>10. CASE Submit
  BY <1>10 DEF Submit, memVars, LedgerMoves
<1>11. ASSUME NEW a \in Attempts, NEW o \in Outcomes, TrialEnds(a, o) PROVE LedgerMoves
  BY <1>11 DEF TrialEnds, memVars, LedgerMoves
<1>12. ASSUME NEW a \in Attempts, TrialRaises(a) PROVE LedgerMoves
  BY <1>12 DEF TrialRaises, memVars, LedgerMoves
<1>13. ASSUME NEW a \in Attempts, RecordFinal(a) PROVE LedgerMoves
  <2>1. status[a] = "running" /\ bundle[a] \in {"verdict", "fault"}
    BY <1>r, <1>13 DEF RecordFinal, RowsInStep, Outcomes
  <2>2. /\ run' = RS!mark_completed(run, a) /\ status'[a] = "completed"
        /\ bundle' = bundle
    BY <1>0, <1>13 DEF RecordFinal, mark_completed, Unlease, diskVars
  <2> QED BY <1>0, <2>1, <2>2 DEF LedgerMoves, Marks, InFlight
<1>14. ASSUME NEW a \in Attempts, RecordTransient(a) PROVE LedgerMoves
  <2>1. status[a] = "running"
    BY <1>r, <1>14 DEF RecordTransient, RowsInStep
  <2>2. CASE ShouldRetry(a)
    BY <1>14, <2>2 DEF RecordTransient, Requeue, LedgerMoves
  <2>3. CASE ~ShouldRetry(a)
    <3>1. run' = RS!mark_failed(run, a) /\ status'[a] = "failed"
      BY <1>0, <1>14, <2>3 DEF RecordTransient, Requeue, mark_failed, Unlease
    <3> QED BY <1>0, <2>1, <3>1 DEF LedgerMoves, Marks, InFlight
  <2> QED BY <2>2, <2>3
<1>15. ASSUME NEW a \in Attempts, HandleRaised(a) PROVE LedgerMoves
  <2>1. status[a] = "running"
    BY <1>r, <1>15 DEF HandleRaised, RowsInStep
  <2>2. CASE ShouldRetry(a)
    BY <1>15, <2>2 DEF HandleRaised, Requeue, LedgerMoves
  <2>3. CASE ~ShouldRetry(a)
    <3>1. run' = RS!mark_failed(run, a) /\ status'[a] = "failed"
      BY <1>0, <1>15, <2>3 DEF HandleRaised, Requeue, mark_failed, Unlease
    <3> QED BY <1>0, <2>1, <3>1 DEF LedgerMoves, Marks, InFlight
  <2> QED BY <2>2, <2>3
<1>16. CASE HandleSaveError
  BY <1>r, <1>16 DEF HandleSaveError, RowsInStep
<1>17. CASE Poll
  BY <1>17 DEF Poll, memVars, LedgerMoves
<1>18. CASE Finish
  <2>1. CASE Loadable
    BY <1>18, <2>1 DEF Finish, LedgerMoves, RS!RunStatuses
  <2>2. CASE ~Loadable
    BY <1>18, <2>2 DEF Finish, ProcessEnds, LedgerMoves
  <2> QED BY <2>1, <2>2
<1>19. CASE Save
  BY <1>19 DEF Save, ProcessEnds, memVars, LedgerMoves
<1>20. CASE SaveRaises
  BY <1>20 DEF SaveRaises
<1>21. CASE Stop
  BY <1>21 DEF Stop, ProcessEnds, LedgerMoves
<1>22. CASE Tick
  BY <1>22 DEF Tick, memVars, LedgerMoves
<1>23. CASE UNCHANGED vars
  BY <1>23 DEF vars, memVars, LedgerMoves
<1> QED
  BY <1>1, <1>2, <1>3, <1>4, <1>5, <1>6, <1>7, <1>8, <1>9, <1>10, <1>11, <1>12,
      <1>13, <1>14, <1>15, <1>16, <1>17, <1>18, <1>19, <1>20, <1>21, <1>22, <1>23
  DEF Next, MainThread, PoolThread

(* The file is left alone, replaced by what is in memory, or torn. *)
LEMMA FileMove ==
  ASSUME "save_error" \notin Faults, [Next]_vars
  PROVE  \/ file' = file
         \/ file' = run /\ pc # "down" /\ (run' = run \/ pc' = "down")
         \/ file' = Torn
<1>1. CASE Save
  BY <1>1 DEF Save, ProcessEnds, memVars
<1>2. CASE Stop
  BY <1>2 DEF Stop, CutShort
<1>3. CASE UNCHANGED vars
  BY <1>3 DEF vars, diskVars
<1>4. CASE ~(Save \/ Stop \/ UNCHANGED vars)
  BY <1>4 DEF Next, MainThread, PoolThread, BeginFresh, Resume, EnqueueRow, Recover,
     LeaseNext, FillDone, UnknownTask, SpecFails, CannotRun, MarkRunning, Submit,
     TrialEnds, TrialRaises, RecordFinal, RecordTransient, HandleRaised,
     HandleSaveError, Poll, Finish, SaveRaises, Tick, diskVars
<1> QED BY <1>1, <1>2, <1>3, <1>4

(* Every action preserves the invariant. *)
LEMMA LedgerStep ==
  ASSUME "save_error" \notin Faults, TypeOK, LedgerInv, [Next]_vars
  PROVE  LedgerInv'
<1>0. /\ run \in RS!Ledgers
      /\ Loadable => file \in RS!Ledgers
      /\ RowsInStep
  BY DEF TypeOK, LoopTypeOK, DiskTypeOK, Loadable, LedgerInv
<1>1. RowsInStep'
  BY <1>0, RowsStep
<1>2. \A a \in Attempts : status[a] \in Terminal => status'[a] = status[a] /\ bundle'[a] = bundle[a]
  BY <1>0, RowFinal
<1>3. Backed(run, status', bundle')
  BY <1>2, BackedFrame DEF LedgerInv
<1>4. Loadable => Backed(file, status', bundle')
  BY <1>2, BackedFrame DEF LedgerInv
<1>5. Counted(run) /\ (Loadable => Counted(file))
  BY DEF LedgerInv
<1>6. Backed(run', status', bundle') /\ Counted(run')
  <2>1. CASE run' = run
    BY <1>3, <1>5, <2>1
  <2>2. CASE run' = RS!initialize_run
    BY <2>2, FreshBacked
  <2>3. CASE Loadable /\ run' = file
    BY <1>4, <1>5, <2>3
  <2>4. CASE Finish /\ Loadable /\ \E s \in RS!RunStatuses : run' = RS!mark_run(file, s)
    <3>1. PICK s \in RS!RunStatuses : run' = RS!mark_run(file, s)
      BY <2>4
    <3> QED BY <1>0, <1>4, <1>5, <2>4, <3>1, StampKept
  <2>5. ASSUME NEW a \in Attempts, Marks(a)
        PROVE  Backed(run', status', bundle') /\ Counted(run')
    <3>1. Counted(run')
      BY <1>0, <1>5, <2>5, MarkCounted DEF Marks
    <3>2. Backed(run', status', bundle')
      BY <1>0, <1>3, <2>5, MarkBacked DEF Marks
    <3> QED BY <3>1, <3>2
  <2> QED
    BY <2>1, <2>2, <2>3, <2>4, <2>5, LedgerMove DEF LedgerMoves
<1>7. Loadable' => Backed(file', status', bundle') /\ Counted(file')
  <2>1. CASE file' = file
    BY <1>4, <1>5, <2>1 DEF Loadable
  <2>2. CASE file' = run
    BY <1>3, <1>5, <2>2
  <2>3. CASE file' = Torn
    BY <2>3 DEF Loadable, Torn
  <2> QED BY <2>1, <2>2, <2>3, FileMove
<1> QED
  BY <1>1, <1>6, <1>7 DEF LedgerInv

(* The initial state satisfies it. *)
LEMMA LedgerInit == Init => LedgerInv
<1> SUFFICES ASSUME Init PROVE LedgerInv
  OBVIOUS
<1>1. RowsInStep
  BY DEF Init, RowsInStep, Outcomes
<1>2. Backed(run, status, bundle) /\ Counted(run)
  BY FreshBacked DEF Init
<1>3. ~Loadable
  BY DEF Init, Loadable
<1> QED
  BY <1>1, <1>2, <1>3 DEF LedgerInv

(* The ledger on disk is never ahead of the queue, its counters count its
   entries, and what it calls completed has its own bundle, whenever the
   process is stopped, however a save is cut short and however often the run
   is resumed, as long as no save_state raises. *)
THEOREM LedgerSafety ==
  ASSUME "save_error" \notin Faults
  PROVE  Spec => [](FileBehindQueue /\ CountsMatch /\ BundleBacksRecord)
<1>1. TypeOK /\ LedgerInv /\ [Next]_vars => TypeOK' /\ LedgerInv'
  BY LoopTypeStep, LedgerStep
<1>2. LedgerInv => FileBehindQueue /\ CountsMatch /\ BundleBacksRecord
  BY DEF LedgerInv, Backed, Counted, Entries, FileBehindQueue, CountsMatch,
      BundleBacksRecord
<1> QED
  BY LoopTypeInit, LedgerInit, <1>1, <1>2, PTL DEF Spec

-----------------------------------------------------------------------------
(* What is on disk is in memory too, as long as a process runs. *)
KeptOnDisk ==
  pc # "down" /\ Loadable => \A a \in Attempts : file.trials[a] \in Terminal =>
                                              run.trials[a] = file.trials[a]

(* A process begins with no ledger, or with the one on disk. *)
LEMMA UpMove ==
  ASSUME [Next]_vars, pc = "down", pc' # "down"
  PROVE  file' = file /\ (file = Absent \/ run' = file)
<1>1. CASE BeginFresh
  BY <1>1 DEF BeginFresh, diskVars
<1>2. CASE Resume
  BY <1>2 DEF Resume, diskVars
<1>3. ~MainThread /\ ~SaveRaises /\ ~Stop
  BY DEF MainThread, EnqueueRow, Recover, LeaseNext, FillDone, UnknownTask, SpecFails,
     MarkRunning, Submit, RecordFinal, RecordTransient, HandleRaised, HandleSaveError,
     Take, Poll, Finish, Save, SaveRaises, Stop
<1>4. (\E a \in Attempts : PoolThread(a)) \/ Tick \/ UNCHANGED vars => pc' = pc
  BY DEF PoolThread, TrialEnds, TrialRaises, Tick, loopVars, vars
<1> QED
  BY <1>1, <1>2, <1>3, <1>4 DEF Next

(* Every action keeps what is on disk in memory: a mark goes to an entry that is
   open in memory, hence open on disk. *)
LEMMA KeptOnDiskStep ==
  ASSUME "save_error" \notin Faults, TypeOK, LedgerInv, KeptOnDisk, [Next]_vars
  PROVE  KeptOnDisk'
<1> SUFFICES ASSUME pc' # "down", Loadable', NEW a \in Attempts,
                    file'.trials[a] \in Terminal
             PROVE  run'.trials[a] = file'.trials[a]
  BY DEF KeptOnDisk
<1>0. run \in RS!Ledgers /\ (Loadable => file \in RS!Ledgers)
  BY DEF TypeOK, LoopTypeOK, DiskTypeOK, Loadable
<1>1. CASE pc = "down"
  BY <1>1, UpMove DEF Loadable
<1>2. CASE pc # "down" /\ file' = file
  <2>0. Loadable /\ run.trials[a] = file.trials[a] /\ run.trials[a] \in Terminal
    BY <1>2 DEF KeptOnDisk, Loadable
  <2>1. CASE run' = run \/ run' = file
    BY <1>2, <2>0, <2>1
  <2>2. ASSUME NEW s \in RS!RunStatuses, run' = RS!mark_run(file, s)
        PROVE  run'.trials[a] = file'.trials[a]
    BY <1>0, <1>2, <2>0, <2>2, StampOp
  <2>3. ASSUME NEW b \in Attempts, Marks(b)
        PROVE  run'.trials[a] = file'.trials[a]
    <3>1. b # a
      BY <2>0, <2>3 DEF Marks
    <3>2. run.trials \in [Attempts -> RS!TrialStatuses]
      BY <1>0 DEF RS!Ledgers
    <3>3. /\ RS!mark_running(run, b).trials = [run.trials EXCEPT ![b] = "running"]
          /\ RS!mark_completed(run, b).trials = [run.trials EXCEPT ![b] = "completed"]
          /\ RS!mark_failed(run, b).trials = [run.trials EXCEPT ![b] = "failed"]
      BY <1>0, LedgerOps
    <3>4. run'.trials[a] = run.trials[a]
      BY <2>3, <3>1, <3>2, <3>3 DEF Marks
    <3> QED
      BY <1>2, <2>0, <3>4
  <2> QED
    BY <1>2, <2>1, <2>2, <2>3, LedgerMove DEF LedgerMoves, Loadable
<1>3. CASE pc # "down" /\ file' # file
  BY <1>3, FileMove DEF Loadable
<1> QED
  BY <1>1, <1>2, <1>3

(* What is recorded is final, for any number of rows, stops and resumes and as
   long as no save_state raises: a row that completed or failed keeps its status
   and its bundle, although every mark_* and recover_inflight writes without
   looking, and a trial the ledger on disk calls completed or failed is called so
   by every later one that can be read, although each process saves its own
   copy.  (A run --resume reads both and skips what they say is done.) *)
THEOREM RecordsAreFinal ==
  ASSUME "save_error" \notin Faults
  PROVE  Spec => [][\A a \in Attempts :
                      /\ status[a] \in Terminal =>
                           status'[a] = status[a] /\ bundle'[a] = bundle[a]
                      /\ Loadable /\ Loadable' /\ file.trials[a] \in Terminal =>
                           file'.trials[a] = file.trials[a]]_vars
<1> DEFINE Kept(a) == /\ status[a] \in Terminal =>
                           status'[a] = status[a] /\ bundle'[a] = bundle[a]
                      /\ Loadable /\ Loadable' /\ file.trials[a] \in Terminal =>
                           file'.trials[a] = file.trials[a]
<1>1. Init => KeptOnDisk
  BY DEF Init, KeptOnDisk
<1>2. TypeOK /\ LedgerInv /\ KeptOnDisk /\ [Next]_vars =>
        TypeOK' /\ LedgerInv' /\ KeptOnDisk'
  BY LoopTypeStep, LedgerStep, KeptOnDiskStep
<1>3. TypeOK /\ LedgerInv /\ KeptOnDisk /\ [Next]_vars => [\A a \in Attempts : Kept(a)]_vars
  <2> SUFFICES ASSUME TypeOK, LedgerInv, KeptOnDisk, [Next]_vars, NEW a \in Attempts
               PROVE  Kept(a)
    OBVIOUS
  <2>1. status[a] \in Terminal => status'[a] = status[a] /\ bundle'[a] = bundle[a]
    BY RowFinal DEF LedgerInv
  <2>2. Loadable /\ Loadable' /\ file.trials[a] \in Terminal =>
          file'.trials[a] = file.trials[a]
    BY FileMove DEF Loadable, KeptOnDisk
  <2> QED
    BY <2>1, <2>2
<1> QED
  BY LoopTypeInit, LedgerInit, <1>1, <1>2, <1>3, PTL DEF Spec

-----------------------------------------------------------------------------
(***************************************************************************)
(* How an invocation may end: what the stamp "completed" says of the queue,*)
(* and how far past its limits a run can get.                              *)
(***************************************************************************)

(* The stages of an invocation: the queue is being set up, a lease is in hand
   that is not submitted yet, a result is in hand that the budget has not been
   asked about yet. *)
FirstSave == pc = "save" /\ ctx = "init"
Starting == pc \in {"leased", "submit"} \/ (pc = "save" /\ ctx = "start")
Recording == pc \in {"poll", "raised"} \/ (pc = "save" /\ ctx \in {"result", "handler"})
Working == pc \notin {"down", "enqueue"} /\ ~FirstSave

-----------------------------------------------------------------------------
(* Without a ledger on disk there is no row. *)
FirstRun ==
  /\ file = Absent => (pc = "down" \/ FirstSave) /\ \A a \in Attempts : status[a] = "absent"
  /\ FirstSave => file = Absent /\ todo = Attempts

(* While the queue is set up: the rows that are still missing will be inserted,
   and what a dead process left in flight will be recovered. *)
SetUp ==
  pc = "enqueue" => \A a \in Attempts :
                      /\ status[a] \in InFlight => Stale(a)
                      /\ a \notin Dropped /\ status[a] = "absent" => a \in todo

(* Once it is: no row is missing, and what is in flight is in this process'
   hands. *)
Placed ==
  Working => \A a \in Attempts :
               /\ a \notin Dropped => status[a] # "absent"
               /\ status[a] \in InFlight => fut[a] # "none" \/ (Starting /\ a = cur)

QueueInHand == FirstRun /\ SetUp /\ Placed

(* Every action keeps the rows in hand, if no run is resumed early. *)
LEMMA QueueInHandStep ==
  ASSUME "save_error" \notin Faults, "early_resume" \notin Faults,
         TypeOK, LedgerInv, QueueInHand, [Next]_vars
  PROVE  QueueInHand'
<1> USE DEF QueueInHand, FirstRun, SetUp, Placed, FirstSave, Starting, Working
<1>0. /\ cur \in Attempts \cup {0}
      /\ Starting => cur \in Attempts
      /\ fut \in [Attempts -> Outcomes \cup {"none", "executing", "raised"}]
      /\ status \in [Attempts -> Statuses]
      /\ updatedAt \in [Attempts -> Nat] /\ leaseExpires \in [Attempts -> Nat \cup {NoExpiry}]
      /\ now \in Nat /\ LeaseTicks \in Nat
      /\ run \in RS!Ledgers
  BY QueueAssumption DEF TypeOK, LeaseInHand, LoopTypeOK, QueueTypeOK
<1>r. RowsInStep /\ (Loadable => Backed(file, status, bundle))
  BY DEF LedgerInv
<1>l. \A r \in RS!Ledgers : r # Absent
  BY DEF RS!Ledgers, Absent
<1>1. CASE BeginFresh
  BY <1>0, <1>1 DEF BeginFresh, Goto, diskVars, queueVars
<1>2. CASE Resume
  <2>1. \A a \in Attempts : a \notin RS!to_retry(file, bundle) => status[a] = "completed"
    BY <1>r, <1>2 DEF Resume, RS!to_retry, RS!is_completed, Backed, Terminal
  <2>2. \A a \in Attempts : status[a] \in InFlight => Stale(a)
    BY <1>2 DEF Resume
  <2>3. /\ pc' = "enqueue" /\ ctx' = "none" /\ todo' = RS!to_retry(file, bundle) \ Dropped
        /\ UNCHANGED <<now, status, updatedAt, leaseExpires, file>> /\ file # Absent
    BY <1>2 DEF Resume, Goto, queueVars, diskVars, Loadable
  <2>4. \A a \in Attempts : Stale(a)' = Stale(a)
    BY <2>3 DEF Stale
  <2> QED BY <2>1, <2>2, <2>3, <2>4
<1>3. ASSUME NEW a \in Attempts, EnqueueRow(a) PROVE QueueInHand'
  <2>1. /\ pc' = pc /\ ctx' = ctx /\ pc = "enqueue" /\ UNCHANGED <<now, file>>
        /\ todo' = todo \ {a} /\ enqueue(a)
    BY <1>3 DEF EnqueueRow, loopVars, diskVars
  <2>2. \A b \in Attempts : /\ status'[b] # "absent" \/ (b # a /\ status[b] = "absent")
                            /\ status'[b] \in InFlight => status[b] \in InFlight
                            /\ status[b] \in InFlight => Stale(b)' = Stale(b)
    BY <1>0, <2>1 DEF enqueue, Stale, queueVars, InFlight
  <2> QED BY <2>1, <2>2
<1>4. CASE Recover
  <2>1. /\ pc = "enqueue" /\ todo = {} /\ pc' = "fill" /\ ctx' = "none" /\ file' = file
        /\ status' = [a \in Attempts |-> IF Stale(a) THEN "pending" ELSE status[a]]
    BY <1>4 DEF Recover, recover_inflight, Goto, diskVars
  <2>2. \A a \in Attempts : status'[a] \notin InFlight
                            /\ (a \notin Dropped => status'[a] # "absent")
    BY <1>0, <2>1 DEF InFlight
  <2> QED BY <2>1, <2>2
<1>5. ASSUME NEW a \in Attempts, LeaseNext(a) PROVE QueueInHand'
  BY <1>0, <1>5 DEF LeaseNext, Goto, lease_next, memVars, diskVars, InFlight
<1>6. CASE FillDone
  BY <1>0, <1>6 DEF FillDone, Goto, memVars, diskVars, queueVars
<1>7. CASE UnknownTask
  BY <1>0, <1>7 DEF UnknownTask, Goto, CannotRun, mark_failed, Unlease, diskVars, InFlight
<1>8. CASE SpecFails
  BY <1>0, <1>8 DEF SpecFails, Goto, CannotRun, mark_failed, Unlease, diskVars, InFlight
<1>9. CASE MarkRunning
  BY <1>0, <1>9 DEF MarkRunning, Goto, mark_running, diskVars
<1>10. CASE Submit
  BY <1>0, <1>10 DEF Submit, Goto, diskVars, queueVars
<1>11. ASSUME NEW a \in Attempts, NEW o \in Outcomes, TrialEnds(a, o) PROVE QueueInHand'
  BY <1>0, <1>r, <1>11 DEF TrialEnds, Outcomes, loopVars, queueVars, RowsInStep
<1>12. ASSUME NEW a \in Attempts, TrialRaises(a) PROVE QueueInHand'
  BY <1>0, <1>r, <1>12 DEF TrialRaises, loopVars, queueVars, diskVars, RowsInStep
<1>13. ASSUME NEW a \in Attempts, RecordFinal(a) PROVE QueueInHand'
  BY <1>0, <1>13 DEF RecordFinal, Goto, mark_completed, Unlease, Take, diskVars, InFlight
<1>14. ASSUME NEW a \in Attempts, RecordTransient(a) PROVE QueueInHand'
  BY <1>0, <1>14 DEF RecordTransient, Goto, Requeue, mark_failed, Unlease, Take, diskVars,
     InFlight
<1>15. ASSUME NEW a \in Attempts, HandleRaised(a) PROVE QueueInHand'
  BY <1>0, <1>15 DEF HandleRaised, Goto, Requeue, mark_failed, Unlease, Take, diskVars,
     InFlight
<1>16. CASE HandleSaveError
  BY <1>r, <1>16 DEF HandleSaveError, RowsInStep
<1>17. CASE Poll
  BY <1>0, <1>17 DEF Poll, Goto, diskVars, queueVars
<1>18. CASE Finish
  BY <1>0, <1>18 DEF Finish, Goto, ProcessEnds, diskVars, queueVars
<1>19. CASE Save
  <2>1. CASE ctx = "end"
    BY <1>0, <1>l, <1>19, <2>1 DEF Save, ProcessEnds, queueVars
  <2>2. CASE ctx # "end"
    <3>1. /\ pc = "save" /\ file' = run /\ pc' = AfterSave
          /\ UNCHANGED <<ctx, cur, status, fut, todo>>
      BY <1>19, <2>2 DEF Save, memVars, queueVars
    <3>2. /\ ctx = "init" => pc' = "enqueue"
          /\ ctx = "start" => pc' = "submit"
          /\ ctx \notin {"init", "start"} => pc' \in {"fill", "poll"}
      BY <3>1 DEF AfterSave
    <3>3. file' # Absent
      BY <1>0, <1>l, <3>1
    <3> QED BY <1>0, <3>1, <3>2, <3>3 DEF InFlight
  <2> QED BY <2>1, <2>2
<1>20. CASE SaveRaises
  BY <1>20 DEF SaveRaises
<1>21. CASE Stop
  <2>1. pc' = "down" /\ status' = status /\ (file' = file \/ (pc = "save" /\ file' = Torn))
    BY <1>21 DEF Stop, ProcessEnds, queueVars, CutShort
  <2> QED BY <2>1 DEF Torn, Absent
<1>22. CASE Tick
  <2>1. now' = now + 1 /\ UNCHANGED <<pc, ctx, cur, todo, fut, file, status, updatedAt, leaseExpires>>
    BY <1>22 DEF Tick, loopVars, memVars, diskVars, queueVars
  <2>2. \A a \in Attempts : Stale(a) => Stale(a)'
    BY <1>0, <2>1 DEF Stale
  <2> QED BY <2>1, <2>2
<1>23. CASE UNCHANGED vars
  BY <1>23 DEF vars, loopVars, memVars, diskVars, queueVars, Stale
<1> QED
  BY <1>1, <1>2, <1>3, <1>4, <1>5, <1>6, <1>7, <1>8, <1>9, <1>10, <1>11, <1>12,
      <1>13, <1>14, <1>15, <1>16, <1>17, <1>18, <1>19, <1>20, <1>21, <1>22, <1>23
  DEF Next, MainThread, PoolThread

-----------------------------------------------------------------------------
(* The loop waits because the budget is hit, the pool is full or the queue has
   nothing to give. *)
WhyWait == pc = "wait" => exhausted \/ Cardinality(Active) >= PoolSize \/ Pending = {}

(* It is so when the wait begins, and nothing changes it before the wait ends. *)
LEMMA WhyWaitStep ==
  ASSUME TypeOK, WhyWait, [Next]_vars
  PROVE  WhyWait'
<1> SUFFICES ASSUME pc' = "wait"
             PROVE  exhausted' \/ Cardinality(Active') >= PoolSize \/ Pending' = {}
  BY DEF WhyWait
<1>0. fut \in [Attempts -> Outcomes \cup {"none", "executing", "raised"}]
  BY DEF TypeOK, LoopTypeOK
<1>1. CASE FillDone
  <2>1. UNCHANGED <<exhausted, fut, status>>
    BY <1>1 DEF FillDone, memVars, queueVars
  <2> QED BY <1>1, <2>1 DEF FillDone, Active, Pending
<1>2. ASSUME NEW a \in Attempts, PoolThread(a)
      PROVE  exhausted' \/ Cardinality(Active') >= PoolSize \/ Pending' = {}
  <2>1. pc' = pc /\ exhausted' = exhausted /\ status' = status
    BY <1>2 DEF PoolThread, TrialRaises, TrialEnds, loopVars, queueVars
  <2>2. Active' = Active
    BY <1>0, <1>2 DEF PoolThread, TrialRaises, TrialEnds, Active, Outcomes
  <2>3. Pending' = Pending
    BY <2>1 DEF Pending
  <2> QED BY <2>1, <2>2, <2>3 DEF WhyWait
<1>3. CASE Tick \/ UNCHANGED vars
  <2>1. UNCHANGED <<pc, exhausted, fut, status>>
    BY <1>3 DEF Tick, vars, loopVars, memVars, queueVars
  <2> QED BY <2>1 DEF WhyWait, Active, Pending
<1>4. CASE BeginFresh \/ Resume \/ Recover \/ UnknownTask \/ SpecFails \/ MarkRunning
           \/ Submit \/ HandleSaveError \/ Poll \/ Finish \/ SaveRaises \/ Stop
  BY <1>4 DEF BeginFresh, Resume, Recover, UnknownTask, SpecFails, CannotRun, MarkRunning,
     Submit, HandleSaveError, Requeue, Poll, Finish, SaveRaises, Stop, ProcessEnds, Goto
<1>5. CASE Save
  <2>1. pc' = "down" \/ pc' = AfterSave
    BY <1>5 DEF Save, ProcessEnds
  <2>2. AfterSave # "wait"
    BY DEF AfterSave
  <2> QED BY <2>1, <2>2
<1>6. ASSUME NEW a \in Attempts,
             EnqueueRow(a) \/ LeaseNext(a) \/ RecordFinal(a) \/ RecordTransient(a)
               \/ HandleRaised(a)
      PROVE  FALSE
  BY <1>6 DEF EnqueueRow, LeaseNext, RecordFinal, RecordTransient, HandleRaised, Requeue,
     Goto, loopVars
<1> QED
  BY <1>1, <1>2, <1>3, <1>4, <1>5, <1>6 DEF Next, MainThread

-----------------------------------------------------------------------------
AllOver == \A a \in Attempts \ Dropped : status[a] \in Terminal

(* The stamp is true of the queue, in memory and on disk. *)
StampTrue ==
  /\ run.status = "completed" => AllOver
  /\ Loadable /\ file.status = "completed" => AllOver

StampInv == QueueInHand /\ WhyWait /\ StampTrue

(* A run that ends without the budget being hit has nothing left; one that ends
   with it is stamped completed only if the queue has nothing left. *)
LEMMA EndsWhenOver ==
  ASSUME TypeOK, RowsInStep, QueueInHand, WhyWait, pc = "wait", Active = {},
         ~exhausted \/ Unfinished = {}
  PROVE  AllOver
<1>0. status \in [Attempts -> Statuses] /\ exhausted \in BOOLEAN
  BY DEF TypeOK, QueueTypeOK, LoopTypeOK
<1>1. \A a \in Attempts : (a \notin Dropped => status[a] # "absent") /\ status[a] \notin InFlight
  BY DEF QueueInHand, Placed, Working, FirstSave, Starting, Active
<1>2. \A a \in Attempts : status[a] # "pending"
  <2>1. CASE Unfinished = {}
    BY <2>1 DEF Unfinished
  <2>2. CASE ~exhausted
    <3>1. Cardinality(Active) = 0
      BY FS_EmptySet
    <3>2. Pending = {}
      BY <2>2, <3>1, RunLoopAssumption DEF WhyWait
    <3> QED BY <3>2 DEF Pending
  <2> QED BY <2>1, <2>2
<1> QED BY <1>0, <1>1, <1>2 DEF AllOver, Statuses, Terminal, InFlight

(* Every action keeps the stamp true. *)
LEMMA StampStep ==
  ASSUME "save_error" \notin Faults, "early_resume" \notin Faults,
         TypeOK, LedgerInv, StampInv, [Next]_vars
  PROVE  StampInv'
<1>0. /\ RowsInStep /\ QueueInHand /\ WhyWait /\ StampTrue
      /\ run \in RS!Ledgers /\ (Loadable => file \in RS!Ledgers)
  BY DEF LedgerInv, StampInv, TypeOK, LoopTypeOK, DiskTypeOK, Loadable
<1>1. AllOver => AllOver'
  BY <1>0, RowFinal DEF AllOver
<1>2. run'.status = "completed" => AllOver'
  <2> SUFFICES ASSUME run'.status = "completed" PROVE AllOver'
    OBVIOUS
  <2>1. CASE run' = run
    BY <1>0, <1>1, <2>1 DEF StampTrue
  <2>2. CASE run' = RS!initialize_run
    BY <2>2 DEF RS!initialize_run
  <2>3. CASE Loadable /\ run' = file
    BY <1>0, <1>1, <2>3 DEF StampTrue
  <2>4. CASE Finish /\ Loadable
    <3>1. run' = RS!mark_run(file, IF exhausted /\ Unfinished # {} THEN "paused" ELSE "completed")
      BY <2>4 DEF Finish
    <3>2. ~(exhausted /\ Unfinished # {})
      <4>1. RS!mark_run(file, "paused").status = "paused"
        BY <1>0, <2>4, StampOp DEF RS!RunStatuses
      <4> QED BY <3>1, <4>1
    <3>3. pc = "wait" /\ Active = {}
      BY <2>4 DEF Finish
    <3>4. AllOver
      BY <1>0, <3>2, <3>3, EndsWhenOver
    <3> QED BY <1>1, <3>4
  <2>5. ASSUME NEW a \in Attempts, Marks(a) PROVE AllOver'
    <3>1. run'.status = run.status
      BY <1>0, <2>5, LedgerOps DEF Marks
    <3> QED BY <1>0, <1>1, <3>1 DEF StampTrue
  <2> QED BY <2>1, <2>2, <2>3, <2>4, <2>5, LedgerMove DEF LedgerMoves
<1>3. Loadable' /\ file'.status = "completed" => AllOver'
  <2>1. CASE file' = file
    BY <1>0, <1>1, <2>1 DEF StampTrue, Loadable
  <2>2. CASE file' = run
    BY <1>0, <1>1, <2>2 DEF StampTrue
  <2>3. CASE file' = Torn
    BY <2>3 DEF Loadable, Torn
  <2> QED BY <2>1, <2>2, <2>3, FileMove
<1> QED
  BY <1>0, <1>2, <1>3, QueueInHandStep, WhyWaitStep DEF StampInv, StampTrue

(* A run stamped completed has no attempt left in the queue, whenever processes
   were stopped, saves cut short and runs resumed with fewer tasks, as long as
   no save_state raises and none is resumed while the leases of a dead process
   are valid. *)
THEOREM StampIsTrue ==
  ASSUME "save_error" \notin Faults, "early_resume" \notin Faults
  PROVE  Spec => []StampedRan
<1>1. Init => StampInv
  <2> SUFFICES ASSUME Init PROVE StampInv
    OBVIOUS
  <2>1. run.status = "running"
    BY DEF Init, RS!initialize_run
  <2> QED
    BY <2>1 DEF Init, QueueInit, StampInv, QueueInHand, FirstRun, SetUp, Placed, Working,
       FirstSave, Starting, WhyWait, StampTrue, Loadable
<1>2. TypeOK /\ LedgerInv /\ StampInv /\ [Next]_vars => TypeOK' /\ LedgerInv' /\ StampInv'
  BY LoopTypeStep, LedgerStep, StampStep
<1>3. StampInv => StampedRan
  BY DEF StampInv, StampTrue, AllOver, StampedRan
<1> QED
  BY LoopTypeInit, LedgerInit, <1>1, <1>2, <1>3, PTL DEF Spec

-----------------------------------------------------------------------------
(* Every save is one of the loop's. *)
SaveKnown ==
  pc = "save" => ctx \in {"init", "start", "unrunnable", "result", "handler", "end"}

(* Trials with a thread, trials about to get one, results the budget has not
   been asked about. *)
Threads == Cardinality(Active)
Taken == IF Starting THEN 1 ELSE 0
Held == IF Recording THEN 1 ELSE 0

(* The pool is never overcommitted, and nothing runs while the queue is set up. *)
PoolBound == Threads + Taken + Held <= PoolSize
IdleBefore == ~Working => Active = {} /\ started = {}

NothingRuns == started = {} /\ exhausted /\ Active = {} /\ ~Starting /\ ~Recording

(* What is spent and what the trials under way may still add stays below the
   limit and the rest of the pool, or the run was over its limit from the start. *)
Within ==
  Working =>
    \/ NothingRuns
    \/ /\ SampleLimit # NoLimit => samples + Threads + Taken + Held <= SampleLimit + PoolSize - 1
       /\ CostLimit # NoLimit => cost + Threads + Taken <= CostLimit + PoolSize - 1

(* Where the budget was asked since the last record, a limit that is reached is
   known to be. *)
HitKnown ==
  Working /\ ~Recording /\ ~exhausted =>
    /\ SampleLimit # NoLimit => samples < SampleLimit
    /\ CostLimit # NoLimit => cost < CostLimit

SpendInv == SaveKnown /\ PoolBound /\ IdleBefore /\ Within /\ HitKnown

(* The futures are finitely many, and the counts are numbers. *)
LEMMA SpendTypes ==
  ASSUME TypeOK
  PROVE  /\ IsFiniteSet(Active) /\ Threads \in Nat /\ Taken \in 0..1 /\ Held \in 0..1
         /\ samples \in Nat /\ cost \in Nat /\ exhausted \in BOOLEAN
         /\ SampleLimit \in Int /\ CostLimit \in Int /\ PoolSize \in Nat \ {0}
<1>1. IsFiniteSet(Attempts)
  BY QueueAssumption, FS_Interval DEF Attempts
<1>2. IsFiniteSet(Active)
  BY <1>1, FS_Subset DEF Active
<1>3. Threads \in Nat
  BY <1>2, FS_CardinalityType DEF Threads
<1>4. SampleLimit \in Int /\ CostLimit \in Int
  BY BudgetAssumption DEF NoLimit
<1>5. samples \in Nat /\ cost \in Nat /\ exhausted \in BOOLEAN
  BY DEF TypeOK, BudgetTypeOK, LoopTypeOK
<1> QED
  BY <1>2, <1>3, <1>4, <1>5, RunLoopAssumption DEF Taken, Held

(* A step that starts, ends and records nothing. *)
LEMMA SpendFrame ==
  ASSUME TypeOK, SpendInv, SaveKnown', Active' = Active,
         UNCHANGED <<samples, cost, exhausted, started>>,
         Working' <=> Working, Recording' <=> Recording, Starting' => Starting
  PROVE  SpendInv'
<1>1. Threads' = Threads /\ Held' = Held /\ Taken' <= Taken /\ Taken' \in 0..1
  BY DEF Threads, Held, Taken
<1> QED
  BY <1>1, SpendTypes DEF SpendInv, PoolBound, IdleBefore, NothingRuns, Within, HitKnown

(* The process is gone. *)
LEMMA SpendEnds ==
  ASSUME ProcessEnds PROVE SpendInv'
<1>1. pc' = "down" /\ started' = {} /\ fut' = [a \in Attempts |-> "none"]
  BY DEF ProcessEnds
<1>2. Active' = {}
  BY <1>1 DEF Active
<1>3. ~Working' /\ ~Recording' /\ ~Starting'
  BY <1>1 DEF Working, Recording, Starting
<1>4. Threads' = 0 /\ Held' = 0 /\ Taken' = 0
  BY <1>2, <1>3, FS_EmptySet DEF Threads, Held, Taken
<1> QED
  BY <1>1, <1>2, <1>3, <1>4, RunLoopAssumption
  DEF SpendInv, SaveKnown, PoolBound, IdleBefore, Within, HitKnown

(* A finished future is taken: its thread is free, its result in hand. *)
LEMMA SpendTake ==
  ASSUME TypeOK, SpendInv, NEW a \in Attempts, fut[a] # "none", Take(a), SaveKnown',
         UNCHANGED <<samples, exhausted, started>>, cost' \in {cost, cost + 1},
         Working', Recording', ~Starting'
  PROVE  SpendInv'
<1>1. a \in Active /\ Active' = Active \ {a}
  BY DEF Active, Take, TypeOK, LoopTypeOK
<1>2. Cardinality(Active \ {a}) = Cardinality(Active) - 1
  BY <1>1, SpendTypes, FS_RemoveElement
<1>3. Threads' = Threads - 1 /\ Held' = 1 /\ Taken' = 0
  BY <1>1, <1>2 DEF Threads, Held, Taken
<1>4. Working /\ ~Recording /\ ~Starting /\ Held = 0 /\ Taken = 0
  BY DEF Take, Working, FirstSave, Recording, Starting, Held, Taken
<1>5. Active # {}
  BY <1>1
<1> QED
  BY <1>3, <1>4, <1>5, SpendTypes
  DEF SpendInv, PoolBound, IdleBefore, NothingRuns, Within, HitKnown

(* Every action keeps the spend within its bound. *)
LEMMA SpendStep ==
  ASSUME TypeOK, SpendInv, [Next]_vars
  PROVE  SpendInv'
<1> USE DEF SaveKnown, Working, FirstSave, Starting, Recording
<1>0. /\ SaveKnown
      /\ fut \in [Attempts -> Outcomes \cup {"none", "executing", "raised"}]
      /\ cost \in Nat /\ samples \in Nat /\ exhausted \in BOOLEAN
      /\ Starting => cur \in Attempts
  BY DEF SpendInv, TypeOK, LoopTypeOK, BudgetTypeOK, LeaseInHand
<1>1. CASE BeginFresh
  BY <1>1, SpendFrame DEF BeginFresh, Goto, budgetVars, Active
<1>2. CASE Resume
  BY <1>2, SpendFrame DEF Resume, Goto, budgetVars, Active
<1>3. ASSUME NEW a \in Attempts, EnqueueRow(a) PROVE SpendInv'
  BY <1>0, <1>3, SpendFrame DEF EnqueueRow, loopVars, budgetVars, historyVars, Active
<1>4. CASE Recover
  <2>1. /\ ~Working /\ Working' /\ ~Recording' /\ ~Starting' /\ SaveKnown'
        /\ Active' = Active /\ started' = started
        /\ samples' = 0 /\ cost' = Seed /\ exhausted' = Hit(Seed, 0, NotStarted, now)
    BY <1>4 DEF Recover, NewBudget, Goto, historyVars, Active
  <2>2. Active' = {} /\ started' = {}
    BY <2>1 DEF SpendInv, IdleBefore
  <2>3. Threads' = 0 /\ Held' = 0 /\ Taken' = 0
    BY <2>1, <2>2, FS_EmptySet DEF Threads, Held, Taken
  <2>4. Seed \in Nat
    BY DiskCost DEF Seed
  <2>5. ~exhausted' => /\ SampleLimit # NoLimit => 0 < SampleLimit
                       /\ CostLimit # NoLimit => Seed < CostLimit
    BY <2>1, <2>4, BudgetAssumption DEF Hit, NoLimit
  <2> QED
    BY <2>1, <2>2, <2>3, <2>4, <2>5, SpendTypes, BudgetAssumption
    DEF SpendInv, PoolBound, IdleBefore, NothingRuns, Within, HitKnown
<1>5. ASSUME NEW a \in Attempts, LeaseNext(a) PROVE SpendInv'
  <2>1. /\ Working /\ ~Recording /\ ~Starting /\ ~exhausted /\ Cardinality(Active) < PoolSize
        /\ Working' /\ ~Recording' /\ Starting' /\ SaveKnown'
        /\ Active' = Active /\ UNCHANGED <<samples, cost, exhausted, started>>
    BY <1>5 DEF LeaseNext, Goto, budgetVars, memVars, historyVars, Active
  <2>2. Threads' = Threads /\ Held' = 0 /\ Taken' = 1 /\ Threads < PoolSize
    BY <2>1 DEF Threads, Held, Taken
  <2> QED
    BY <2>1, <2>2, SpendTypes
    DEF SpendInv, PoolBound, IdleBefore, NothingRuns, Within, HitKnown
<1>6. CASE FillDone
  BY <1>6, SpendFrame DEF FillDone, Goto, budgetVars, memVars, historyVars, Active
<1>7. CASE UnknownTask
  BY <1>7, SpendFrame DEF UnknownTask, CannotRun, Goto, budgetVars, historyVars, Active
<1>8. CASE SpecFails
  BY <1>8, SpendFrame DEF SpecFails, CannotRun, Goto, budgetVars, historyVars, Active
<1>9. CASE MarkRunning
  BY <1>9, SpendFrame DEF MarkRunning, Goto, budgetVars, historyVars, Active
<1>10. CASE Submit
  <2>1. /\ Working /\ ~Recording /\ Starting /\ cur \in Attempts
        /\ Working' /\ ~Recording' /\ ~Starting' /\ SaveKnown'
        /\ fut' = [fut EXCEPT ![cur] = "executing"]
        /\ UNCHANGED <<samples, cost, exhausted>>
    BY <1>0, <1>10 DEF Submit, Goto, budgetVars
  <2>2. Active' = Active \cup {cur}
    BY <1>0, <2>1 DEF Active
  <2>3. Cardinality(Active \cup {cur}) =
          IF cur \in Active THEN Cardinality(Active) ELSE Cardinality(Active) + 1
    BY SpendTypes, FS_AddElement
  <2>4. Threads' <= Threads + 1 /\ Threads' \in Nat
    BY <2>2, <2>3, SpendTypes DEF Threads
  <2>5. Held = 0 /\ Taken = 1 /\ Held' = 0 /\ Taken' = 0
    BY <2>1 DEF Held, Taken
  <2> QED
    BY <2>1, <2>4, <2>5, SpendTypes
    DEF SpendInv, PoolBound, IdleBefore, NothingRuns, Within, HitKnown
<1>11. ASSUME NEW a \in Attempts, NEW o \in Outcomes, TrialEnds(a, o) PROVE SpendInv'
  <2>1. Active' = Active
    BY <1>0, <1>11 DEF TrialEnds, Active, Outcomes
  <2> QED
    BY <1>0, <1>11, <2>1, SpendFrame DEF TrialEnds, loopVars, budgetVars, historyVars
<1>12. ASSUME NEW a \in Attempts, TrialRaises(a) PROVE SpendInv'
  <2>1. Active' = Active
    BY <1>0, <1>12 DEF TrialRaises, Active
  <2> QED
    BY <1>0, <1>12, <2>1, SpendFrame DEF TrialRaises, loopVars, budgetVars, historyVars
<1>13. ASSUME NEW a \in Attempts, RecordFinal(a) PROVE SpendInv'
  <2>1. cost' \in {cost, cost + 1} /\ samples' = samples
    BY <1>0, <1>13 DEF RecordFinal, Spend, record_generation_cost, TrialCost
  <2> QED BY <1>13, <2>1, SpendTake DEF RecordFinal, Goto
<1>14. ASSUME NEW a \in Attempts, RecordTransient(a) PROVE SpendInv'
  <2>1. cost' \in {cost, cost + 1} /\ samples' = samples
    BY <1>0, <1>14 DEF RecordTransient, Spend, record_generation_cost, TrialCost
  <2>2. Working' /\ Recording' /\ ~Starting' /\ SaveKnown'
    BY <1>14 DEF RecordTransient, Requeue, Goto
  <2> QED BY <1>14, <2>1, <2>2, SpendTake DEF RecordTransient
<1>15. ASSUME NEW a \in Attempts, HandleRaised(a) PROVE SpendInv'
  <2>1. Working' /\ Recording' /\ ~Starting' /\ SaveKnown'
    BY <1>15 DEF HandleRaised, Requeue, Goto
  <2> QED BY <1>15, <2>1, SpendTake DEF HandleRaised, budgetVars, historyVars
<1>16. CASE HandleSaveError
  <2>1. Working' /\ Recording' /\ ~Starting' /\ SaveKnown'
    BY <1>16 DEF HandleSaveError, Requeue, Goto
  <2> QED BY <1>16, <2>1, SpendFrame DEF HandleSaveError, budgetVars, historyVars, Active
<1>17. CASE Poll
  <2>1. /\ Working /\ Recording /\ ~Starting
        /\ Working' /\ ~Recording' /\ ~Starting' /\ SaveKnown'
        /\ Active' = Active /\ started' = started /\ cost' = cost
        /\ samples' \in {samples, samples + 1}
        /\ exhausted' = (exhausted \/ Hit(cost', samples', clockStart', now))
    BY <1>17 DEF Poll, Goto, budgetVars, record_trial_terminated, historyVars, Active
  <2>2. Threads' = Threads /\ Held = 1 /\ Taken = 0 /\ Held' = 0 /\ Taken' = 0
    BY <2>1 DEF Threads, Held, Taken
  <2>3. ~exhausted' => ~Hit(cost', samples', clockStart', now)
    BY <2>1
  <2>4. ~exhausted' => /\ SampleLimit # NoLimit => samples' < SampleLimit
                       /\ CostLimit # NoLimit => cost' < CostLimit
    BY <1>0, <2>1, <2>3, SpendTypes DEF Hit
  <2> QED
    BY <2>1, <2>2, <2>4, SpendTypes
    DEF SpendInv, PoolBound, IdleBefore, NothingRuns, Within, HitKnown
<1>18. CASE Finish
  <2>1. CASE Loadable
    BY <1>18, <2>1, SpendFrame DEF Finish, Goto, budgetVars, historyVars, Active
  <2>2. CASE ~Loadable
    BY <1>18, <2>2, SpendEnds DEF Finish
  <2> QED BY <2>1, <2>2
<1>19. CASE Save
  <2>1. CASE ctx = "end"
    BY <1>19, <2>1, SpendEnds DEF Save
  <2>2. CASE ctx # "end"
    <3>1. /\ pc = "save" /\ pc' = AfterSave /\ ctx' = ctx
          /\ UNCHANGED <<fut, samples, cost, exhausted, started>>
      BY <1>19, <2>2 DEF Save, memVars, budgetVars, historyVars
    <3>2. /\ ctx = "init" => pc' = "enqueue"
          /\ ctx = "start" => pc' = "submit"
          /\ ctx = "unrunnable" => pc' = "fill"
          /\ ctx \in {"result", "handler"} => pc' = "poll"
      BY <3>1 DEF AfterSave
    <3> QED BY <1>0, <2>2, <3>1, <3>2, SpendFrame DEF Active
  <2> QED BY <2>1, <2>2
<1>20. CASE SaveRaises
  <2>1. CASE ctx = "result"
    BY <1>20, <2>1, SpendFrame DEF SaveRaises, Goto, memVars, budgetVars, Active
  <2>2. CASE ctx # "result"
    BY <1>20, <2>2, SpendEnds DEF SaveRaises
  <2> QED BY <2>1, <2>2
<1>21. CASE Stop
  BY <1>21, SpendEnds DEF Stop
<1>22. CASE Tick
  BY <1>0, <1>22, SpendFrame DEF Tick, loopVars, memVars, budgetVars, historyVars, Active
<1>23. CASE UNCHANGED vars
  BY <1>0, <1>23, SpendFrame DEF vars, loopVars, memVars, budgetVars, historyVars, Active
<1> QED
  BY <1>1, <1>2, <1>3, <1>4, <1>5, <1>6, <1>7, <1>8, <1>9, <1>10, <1>11, <1>12,
      <1>13, <1>14, <1>15, <1>16, <1>17, <1>18, <1>19, <1>20, <1>21, <1>22, <1>23
  DEF Next, MainThread, PoolThread

(* A limit on spend or on trials is overshot by no more than the other threads
   of the pool had under way when it was reached, for every pool size, limit
   and fault; a run that starts over its limit starts nothing. *)
THEOREM OvershootIsBounded == Spec => []OvershootBounded
<1>1. Init => SpendInv
  <2> SUFFICES ASSUME Init PROVE SpendInv
    OBVIOUS
  <2>1. Active = {} /\ started = {} /\ pc = "down"
    BY DEF Init, Active
  <2>2. ~Working /\ Threads = 0 /\ Held = 0 /\ Taken = 0
    BY <2>1, FS_EmptySet DEF Working, Threads, Held, Taken, Recording, Starting
  <2> QED
    BY <2>1, <2>2, RunLoopAssumption
    DEF SpendInv, SaveKnown, PoolBound, IdleBefore, Within, HitKnown
<1>2. TypeOK /\ SpendInv /\ [Next]_vars => TypeOK' /\ SpendInv'
  BY LoopTypeStep, SpendStep
<1>3. TypeOK /\ SpendInv => OvershootBounded
  BY SpendTypes DEF SpendInv, IdleBefore, NothingRuns, Within, OvershootBounded
<1> QED
  BY LoopTypeInit, <1>1, <1>2, <1>3, PTL DEF Spec
=============================================================================
