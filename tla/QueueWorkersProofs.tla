------------------------- MODULE QueueWorkersProofs -------------------------
(***************************************************************************)
(* Theorems about QueueWorkers, for any number of attempts, workers,       *)
(* retries and crashes and any clock bound.                                *)
(***************************************************************************)
EXTENDS QueueWorkers, RunQueueProofs, TLAPS

-----------------------------------------------------------------------------
(* A worker that owes a call has a row of the queue in hand. *)
LEMMA LeaseIsAttempt ==
  ASSUME TypeOK, NEW w \in Workers, Holding(w) \/ pc[w] = "cleanup"
  PROVE  lease[w] \in Attempts
BY QueueAssumption DEF TypeOK, RunTypeOK, LeaseInHand, Attempts

-----------------------------------------------------------------------------
(* The initial state is of the right type. *)
LEMMA TypeInit == Init => TypeOK
<1> SUFFICES ASSUME Init PROVE TypeOK
  OBVIOUS
<1> USE QueueAssumption, WorkersAssumption DEF Init
<1>1. QueueTypeOK
  BY DEF QueueInit, QueueTypeOK, Statuses, NoExpiry
<1>2. RunTypeOK
  <2>1. cursor \in 0..NumAttempts + 1 /\ crashes \in 0..MaxCrashes
    OBVIOUS
  <2>2. /\ lease \in [Workers -> 0..NumAttempts]
        /\ runs \in [Attempts -> Nat]
    OBVIOUS
  <2>3. shouldRetry \in [Workers -> BOOLEAN]
    BY Zenon
  <2> QED
    BY <2>1, <2>2, <2>3 DEF RunTypeOK, Labels
<1>3. LeaseInHand
  BY DEF LeaseInHand, Holding
<1> QED
  BY <1>1, <1>2, <1>3 DEF TypeOK

(* Every action keeps the types. *)
LEMMA TypeStep == TypeOK /\ [Next]_vars => TypeOK'
<1> SUFFICES ASSUME TypeOK, [Next]_vars PROVE TypeOK'
  OBVIOUS
<1> USE QueueAssumption, WorkersAssumption
<1>0. QueueTypeOK /\ RunTypeOK /\ LeaseInHand
  BY DEF TypeOK
<1>1. CASE PrepareBegin
  <2>1. QueueTypeOK'
    BY <1>0, <1>1, QueueFrame, ClearType DEF PrepareBegin
  <2>2. RunTypeOK'
    BY <1>0, <1>1 DEF PrepareBegin, RunTypeOK, Labels, Goto, prepareVars, workerVars, historyVars, Attempts
  <2>3. LeaseInHand'
    BY <1>0, <1>1 DEF PrepareBegin, RunTypeOK, Labels, LeaseInHand, Holding, Goto, workerVars
  <2> QED
    BY <2>1, <2>2, <2>3 DEF TypeOK
<1>2. CASE PrepareInsert
  <2>1. QueueTypeOK'
    BY <1>0, <1>2, EnqueueType DEF PrepareInsert
  <2>2. RunTypeOK'
    BY <1>0, <1>2 DEF PrepareInsert, RunTypeOK, Labels, Goto, prepareVars, workerVars, historyVars, Attempts
  <2>3. LeaseInHand'
    BY <1>0, <1>2 DEF PrepareInsert, RunTypeOK, Labels, LeaseInHand, Holding, Goto, workerVars
  <2> QED
    BY <2>1, <2>2, <2>3 DEF TypeOK
<1>3. CASE PrepareFinish
  <2>1. QueueTypeOK'
    BY <1>0, <1>3, QueueFrame DEF PrepareFinish
  <2>2. RunTypeOK'
    BY <1>0, <1>3 DEF PrepareFinish, RunTypeOK, Labels, Goto, prepareVars, workerVars, historyVars
  <2>3. LeaseInHand'
    BY <1>0, <1>3 DEF PrepareFinish, RunTypeOK, Labels, LeaseInHand, Holding, Goto, workerVars
  <2> QED
    BY <2>1, <2>2, <2>3 DEF TypeOK
<1>4. CASE PrepareCrash
  <2>1. QueueTypeOK'
    BY <1>0, <1>4, QueueFrame DEF PrepareCrash
  <2>2. RunTypeOK'
    BY <1>0, <1>4 DEF PrepareCrash, RunTypeOK, Labels, Goto, prepareVars, workerVars, historyVars
  <2>3. LeaseInHand'
    BY <1>0, <1>4 DEF PrepareCrash, RunTypeOK, Labels, LeaseInHand, Holding, Goto, workerVars
  <2> QED
    BY <2>1, <2>2, <2>3 DEF TypeOK
<1>5. ASSUME NEW w \in Workers, Start(w) PROVE TypeOK'
  <2>1. QueueTypeOK'
    BY <1>0, <1>5, RecoverType DEF Start
  <2>2. RunTypeOK'
    BY <1>0, <1>5 DEF Start, RunTypeOK, Labels, Goto, prepareVars, workerVars, historyVars
  <2>3. LeaseInHand'
    BY <1>0, <1>5 DEF Start, RunTypeOK, Labels, LeaseInHand, Holding, Goto, workerVars
  <2> QED
    BY <2>1, <2>2, <2>3 DEF TypeOK
<1>6. ASSUME NEW w \in Workers, Lease(w) PROVE TypeOK'
  <2>1. QueueTypeOK'
    BY <1>0, <1>6, LeaseType DEF Lease
  <2>2. RunTypeOK'
    BY <1>0, <1>6 DEF Lease, RunTypeOK, Labels, Goto, prepareVars, workerVars, historyVars, Attempts
  <2>3. LeaseInHand'
    BY <1>0, <1>6 DEF Lease, RunTypeOK, Labels, LeaseInHand, Holding, Goto, workerVars, Attempts
  <2> QED
    BY <2>1, <2>2, <2>3 DEF TypeOK
<1>7. ASSUME NEW w \in Workers, ExitOnEmpty(w) PROVE TypeOK'
  <2>1. QueueTypeOK'
    BY <1>0, <1>7, QueueFrame DEF ExitOnEmpty
  <2>2. RunTypeOK'
    BY <1>0, <1>7 DEF ExitOnEmpty, RunTypeOK, Labels, Goto, prepareVars, workerVars, historyVars
  <2>3. LeaseInHand'
    BY <1>0, <1>7 DEF ExitOnEmpty, RunTypeOK, Labels, LeaseInHand, Holding, Goto, workerVars
  <2> QED
    BY <2>1, <2>2, <2>3 DEF TypeOK
<1>8. ASSUME NEW w \in Workers, ExitOnLimit(w) PROVE TypeOK'
  <2>1. QueueTypeOK'
    BY <1>0, <1>8, QueueFrame DEF ExitOnLimit
  <2>2. RunTypeOK'
    BY <1>0, <1>8 DEF ExitOnLimit, RunTypeOK, Labels, Goto, prepareVars, workerVars, historyVars
  <2>3. LeaseInHand'
    BY <1>0, <1>8 DEF ExitOnLimit, RunTypeOK, Labels, LeaseInHand, Holding, Goto, workerVars
  <2> QED
    BY <2>1, <2>2, <2>3 DEF TypeOK
<1>9. ASSUME NEW w \in Workers, UnknownTask(w) PROVE TypeOK'
  <2>1. QueueTypeOK'
    BY <1>0, <1>9, QueueFrame DEF UnknownTask
  <2>2. RunTypeOK'
    BY <1>0, <1>9 DEF UnknownTask, RunTypeOK, Labels, Goto, prepareVars, workerVars, historyVars
  <2>3. LeaseInHand'
    BY <1>0, <1>9 DEF UnknownTask, RunTypeOK, Labels, LeaseInHand, Holding, Goto, workerVars
  <2> QED
    BY <2>1, <2>2, <2>3 DEF TypeOK
<1>10. ASSUME NEW w \in Workers, MarkRunning(w) PROVE TypeOK'
  <2>0. lease[w] \in Attempts
    BY <1>10, LeaseIsAttempt DEF MarkRunning, Holding
  <2>1. QueueTypeOK'
    BY <1>0, <2>0, <1>10, MarkRunningType DEF MarkRunning
  <2>2. RunTypeOK'
    BY <1>0, <2>0, <1>10 DEF MarkRunning, RunTypeOK, Labels, Goto, prepareVars, workerVars, historyVars
  <2>3. LeaseInHand'
    BY <1>0, <2>0, <1>10 DEF MarkRunning, RunTypeOK, Labels, LeaseInHand, Holding, Goto, workerVars
  <2> QED
    BY <2>1, <2>2, <2>3 DEF TypeOK
<1>11. ASSUME NEW w \in Workers, Register(w) PROVE TypeOK'
  <2>0. lease[w] \in Attempts
    BY <1>11, LeaseIsAttempt DEF Register, Holding
  <2>1. QueueTypeOK'
    BY <1>0, <2>0, <1>11, QueueFrame DEF Register
  <2>2. RunTypeOK'
    BY <1>0, <2>0, <1>11 DEF Register, RunTypeOK, Labels, Goto, prepareVars, workerVars, historyVars
  <2>3. LeaseInHand'
    BY <1>0, <2>0, <1>11 DEF Register, RunTypeOK, Labels, LeaseInHand, Holding, Goto, workerVars
  <2> QED
    BY <2>1, <2>2, <2>3 DEF TypeOK
<1>12. ASSUME NEW w \in Workers, Decide(w) PROVE TypeOK'
  <2>0. lease[w] \in Attempts
    BY <1>12, LeaseIsAttempt DEF Decide, Holding
  <2>1. QueueTypeOK'
    BY <1>0, <2>0, <1>12, QueueFrame DEF Decide
  <2>2. RunTypeOK'
    BY <1>0, <2>0, <1>12 DEF Decide, RunTypeOK, Labels, Goto, prepareVars, workerVars, historyVars
  <2>3. LeaseInHand'
    BY <1>0, <2>0, <1>12 DEF Decide, RunTypeOK, Labels, LeaseInHand, Holding, Goto, workerVars
  <2> QED
    BY <2>1, <2>2, <2>3 DEF TypeOK
<1>13. ASSUME NEW w \in Workers, FailRetryably(w) PROVE TypeOK'
  <2>1. QueueTypeOK'
    BY <1>0, <1>13, QueueFrame DEF FailRetryably
  <2>2. RunTypeOK'
    BY <1>0, <1>13 DEF FailRetryably, RunTypeOK, Labels, Goto, prepareVars, workerVars, historyVars
  <2>3. LeaseInHand'
    BY <1>0, <1>13 DEF FailRetryably, RunTypeOK, Labels, LeaseInHand, Holding, Goto, workerVars
  <2> QED
    BY <2>1, <2>2, <2>3 DEF TypeOK
<1>14. ASSUME NEW w \in Workers, MarkCompleted(w) PROVE TypeOK'
  <2>0. lease[w] \in Attempts
    BY <1>14, LeaseIsAttempt DEF MarkCompleted, Holding
  <2>1. QueueTypeOK'
    BY <1>0, <2>0, <1>14, MarkCompletedType DEF MarkCompleted
  <2>2. RunTypeOK'
    BY <1>0, <2>0, <1>14 DEF MarkCompleted, RunTypeOK, Labels, Goto, prepareVars, workerVars, historyVars
  <2>3. LeaseInHand'
    BY <1>0, <2>0, <1>14 DEF MarkCompleted, RunTypeOK, Labels, LeaseInHand, Holding, Goto, workerVars
  <2> QED
    BY <2>1, <2>2, <2>3 DEF TypeOK
<1>15. ASSUME NEW w \in Workers, MarkCompletedRaises(w) PROVE TypeOK'
  <2>1. QueueTypeOK'
    BY <1>0, <1>15, QueueFrame DEF MarkCompletedRaises
  <2>2. RunTypeOK'
    BY <1>0, <1>15 DEF MarkCompletedRaises, RunTypeOK, Labels, Goto, prepareVars, workerVars, historyVars
  <2>3. LeaseInHand'
    BY <1>0, <1>15 DEF MarkCompletedRaises, RunTypeOK, Labels, LeaseInHand, Holding, Goto, workerVars
  <2> QED
    BY <2>1, <2>2, <2>3 DEF TypeOK
<1>22. ASSUME NEW w \in Workers, MarkCompletedLost(w) PROVE TypeOK'
  <2>0. lease[w] \in Attempts
    BY <1>22, LeaseIsAttempt DEF MarkCompletedLost, Holding
  <2>1. QueueTypeOK'
    BY <1>0, <2>0, <1>22, MarkCompletedType DEF MarkCompletedLost
  <2>2. RunTypeOK'
    BY <1>0, <2>0, <1>22 DEF MarkCompletedLost, RunTypeOK, Labels, Goto, prepareVars, workerVars, historyVars
  <2>3. LeaseInHand'
    BY <1>0, <2>0, <1>22 DEF MarkCompletedLost, RunTypeOK, Labels, LeaseInHand, Holding, Goto, workerVars
  <2> QED
    BY <2>1, <2>2, <2>3 DEF TypeOK
<1>16. ASSUME NEW w \in Workers, MarkFailedSelect(w) PROVE TypeOK'
  <2>0. lease[w] \in Attempts
    BY <1>16, LeaseIsAttempt DEF MarkFailedSelect, Holding
  <2>1. QueueTypeOK'
    BY <1>0, <2>0, <1>16, QueueFrame DEF MarkFailedSelect
  <2>2. RunTypeOK'
    BY <1>0, <2>0, <1>16 DEF MarkFailedSelect, RunTypeOK, Labels, Goto, prepareVars, workerVars, historyVars, ShouldRetry
  <2>3. LeaseInHand'
    BY <1>0, <2>0, <1>16 DEF MarkFailedSelect, RunTypeOK, Labels, LeaseInHand, Holding, Goto, workerVars
  <2> QED
    BY <2>1, <2>2, <2>3 DEF TypeOK
<1>17. ASSUME NEW w \in Workers, MarkFailedUpdate(w) PROVE TypeOK'
  <2>0. lease[w] \in Attempts
    BY <1>17, LeaseIsAttempt DEF MarkFailedUpdate, Holding
  <2>1. QueueTypeOK'
    BY <1>0, <2>0, <1>17, MarkFailedType DEF MarkFailedUpdate, RunTypeOK
  <2>2. RunTypeOK'
    BY <1>0, <2>0, <1>17 DEF MarkFailedUpdate, RunTypeOK, Labels, Goto, prepareVars, workerVars, historyVars
  <2>3. LeaseInHand'
    BY <1>0, <2>0, <1>17 DEF MarkFailedUpdate, RunTypeOK, Labels, LeaseInHand, Holding, Goto, workerVars
  <2> QED
    BY <2>1, <2>2, <2>3 DEF TypeOK
<1>18. ASSUME NEW w \in Workers, CleanupForRetry(w) PROVE TypeOK'
  <2>0. lease[w] \in Attempts
    BY <1>18, LeaseIsAttempt DEF CleanupForRetry, Holding
  <2>1. QueueTypeOK'
    BY <1>0, <2>0, <1>18, QueueFrame DEF CleanupForRetry
  <2>2. RunTypeOK'
    BY <1>0, <2>0, <1>18 DEF CleanupForRetry, RunTypeOK, Labels, Goto, prepareVars, workerVars, historyVars
  <2>3. LeaseInHand'
    BY <1>0, <2>0, <1>18 DEF CleanupForRetry, RunTypeOK, Labels, LeaseInHand, Holding, Goto, workerVars
  <2> QED
    BY <2>1, <2>2, <2>3 DEF TypeOK
<1>19. ASSUME NEW w \in Workers, Crash(w) PROVE TypeOK'
  <2>1. QueueTypeOK'
    BY <1>0, <1>19, QueueFrame DEF Crash
  <2>2. RunTypeOK'
    BY <1>0, <1>19 DEF Crash, RunTypeOK, Labels, Goto, prepareVars, workerVars, historyVars
  <2>3. LeaseInHand'
    BY <1>0, <1>19 DEF Crash, RunTypeOK, Labels, LeaseInHand, Holding, Goto, workerVars
  <2> QED
    BY <2>1, <2>2, <2>3 DEF TypeOK
<1>20. CASE Tick
  BY <1>0, <1>20 DEF Tick, TypeOK, QueueTypeOK, RunTypeOK, LeaseInHand, Holding,
     queueVars, prepareVars, workerVars, historyVars
<1>21. CASE UNCHANGED vars
  BY <1>0, <1>21 DEF vars, TypeOK, QueueTypeOK, RunTypeOK, LeaseInHand, Holding,
     queueVars, prepareVars, workerVars, historyVars
<1> QED
  BY <1>1, <1>2, <1>3, <1>4, <1>5, <1>6, <1>7, <1>8, <1>9, <1>10, <1>11,
     <1>12, <1>13, <1>14, <1>15, <1>16, <1>17, <1>18, <1>19, <1>20, <1>21, <1>22
     DEF Next, Prepare, WorkerStep

(* Every action of run_worker, prepare_run and the environment keeps the
   variables in their types, whatever faults there are: in particular a worker
   has a lease in hand exactly while it owes the queue or the Runner a call
   for it. *)
THEOREM TypeCorrect == Spec => []TypeOK
BY TypeInit, TypeStep, PTL DEF Spec

-----------------------------------------------------------------------------
(* No worker gets past read_persisted_run_id before prepare has ended. *)
NoEarlyWorker == ~prepared => \A w \in Workers : pc[w] = "down"

(* Every action keeps it, as only Start leaves "down". *)
LEMMA EarlyStep ==
  ASSUME TypeOK, NoEarlyWorker, [Next]_vars
  PROVE  NoEarlyWorker'
<1> SUFFICES ASSUME ~prepared' PROVE \A w \in Workers : pc'[w] = "down"
  BY DEF NoEarlyWorker
<1>1. PrepareFinish => prepared'
  BY DEF PrepareFinish
<1>2. PrepareBegin \/ PrepareInsert \/ PrepareCrash \/ Tick \/ UNCHANGED vars =>
        UNCHANGED <<prepared, pc>>
  BY DEF PrepareBegin, PrepareInsert, PrepareCrash, Tick, vars, prepareVars, workerVars
<1>3. ASSUME NEW w \in Workers, Start(w) \/ WorkerStep(w) \/ Crash(w)
      PROVE  prepared' = prepared /\ (prepared \/ pc[w] # "down")
  BY <1>3 DEF Start, WorkerStep, Crash, Lease, ExitOnEmpty, ExitOnLimit, UnknownTask,
       MarkRunning, Register, Decide, FailRetryably, MarkCompleted,
       MarkCompletedRaises, MarkCompletedLost, MarkFailedSelect, MarkFailedUpdate,
       CleanupForRetry, prepareVars
<1> QED
  BY <1>1, <1>2, <1>3 DEF Next, Prepare, NoEarlyWorker

(* The inductive invariant of lease safety.  Exclusion alone is not inductive:
   that no one else takes the row of a live worker rests on what the row
   says, and the retry bound on the SELECT of mark_failed not being stale. *)
LeaseInv == TypeOK /\ HolderOwnsRow /\ SelectStillTrue /\ RetryBound /\ NoEarlyWorker

(* A row names one owner, so it is in the hands of one worker. *)
LEMMA OwnerExcludes == HolderOwnsRow => LeaseExclusive
BY DEF HolderOwnsRow, HeldRow, LeaseExclusive

(* recover_inflight does not take a row in the hands of a live worker: its
   lease has not run out, and then it is not too old either. *)
LEMMA HeldNotStale ==
  ASSUME TypeOK, NEW a \in Attempts, NEW w \in Workers, HeldRow(w, a)
  PROVE  ~Stale(a)
BY QueueAssumption DEF TypeOK, QueueTypeOK, HeldRow, Stale, NoExpiry

(* A step that leaves the queue and the clock alone and puts no row into
   anybody's hands keeps every row in order. *)
LEMMA HolderFrame ==
  ASSUME HolderOwnsRow, UNCHANGED <<now, queueVars>>,
         \A v \in Workers : Holding(v)' => Holding(v) /\ lease'[v] = lease[v]
  PROVE  HolderOwnsRow'
BY DEF HolderOwnsRow, HeldRow, queueVars

(* A step that leaves the queue alone and starts no UPDATE of mark_failed
   keeps the retry facts. *)
LEMMA RetryFrame ==
  ASSUME SelectStillTrue, RetryBound, UNCHANGED retryCount,
         \A v \in Workers : (pc[v] = "update" /\ shouldRetry[v])' =>
           pc[v] = "update" /\ shouldRetry[v] /\ lease'[v] = lease[v]
  PROVE  SelectStillTrue' /\ RetryBound'
BY DEF SelectStillTrue, RetryBound, ShouldRetry

(* The initial state satisfies the invariant. *)
LEMMA LeaseInit == Init => LeaseInv
BY TypeInit, QueueAssumption
   DEF Init, QueueInit, LeaseInv, HolderOwnsRow, SelectStillTrue, RetryBound, Holding,
       NoEarlyWorker

(* No step of a worker, of prepare or of the environment breaks the invariant
   as long as the clock waits for live workers and a mark that was served is
   known to be. *)
LEMMA LeaseStep ==
  ASSUME Faults \cap {"overrun", "mark_lost"} = {}, LeaseInv, [Next]_vars
  PROVE  LeaseInv'
<1> USE QueueAssumption
<1>0. /\ TypeOK /\ HolderOwnsRow /\ SelectStillTrue /\ RetryBound /\ NoEarlyWorker
      /\ TypeOK' /\ NoEarlyWorker'
  BY TypeStep, EarlyStep DEF LeaseInv
<1>t. /\ pc \in [Workers -> Labels] /\ lease \in [Workers -> Nat]
      /\ shouldRetry \in [Workers -> BOOLEAN]
  BY <1>0 DEF TypeOK, RunTypeOK
<1>x. LeaseExclusive
  BY <1>0, OwnerExcludes
<1>h. \A v \in Workers : Holding(v) => lease[v] \in Attempts
  BY <1>0, LeaseIsAttempt
<1> USE DEF Goto
<1>b. CASE PrepareBegin
  <2> USE <1>0, <1>b DEF PrepareBegin, workerVars
  <2>1. \A v \in Workers : pc'[v] = "down"
    BY DEF NoEarlyWorker
  <2>2. HolderOwnsRow'
    BY <2>1 DEF HolderOwnsRow, Holding
  <2>3. SelectStillTrue'
    BY <2>1 DEF SelectStillTrue
  <2>4. RetryBound'
    BY DEF RetryBound, clear_all, queueVars
  <2> QED
    BY <2>2, <2>3, <2>4 DEF LeaseInv
<1>1. CASE PrepareFinish \/ PrepareCrash
  <2> USE <1>0, <1>1 DEF PrepareFinish, PrepareCrash, workerVars
  <2>1. HolderOwnsRow'
    BY HolderFrame DEF Holding
  <2>2. SelectStillTrue' /\ RetryBound'
    BY RetryFrame DEF queueVars
  <2> QED
    BY <2>1, <2>2 DEF LeaseInv
<1>2. CASE PrepareInsert
  <2> USE <1>0, <1>2 DEF PrepareInsert, workerVars
  <2>1. HolderOwnsRow'
    <3> SUFFICES ASSUME NEW v \in Workers, Holding(v)'
                 PROVE  HeldRow(v, lease[v])'
      BY DEF HolderOwnsRow
    <3>1. Holding(v) /\ HeldRow(v, lease[v]) /\ lease'[v] = lease[v]
      BY DEF Holding, HolderOwnsRow
    <3>2. status[cursor] = "absent" => cursor # lease[v]
      BY <3>1 DEF HeldRow, InFlight
    <3>3. CASE status[cursor] = "absent"
      BY <1>h, <3>1, <3>2, <3>3 DEF enqueue, HeldRow, TypeOK, QueueTypeOK
    <3>4. CASE status[cursor] # "absent"
      BY <3>1, <3>4 DEF enqueue, HeldRow, queueVars
    <3> QED
      BY <3>3, <3>4
  <2>2. SelectStillTrue' /\ RetryBound'
    <3>1. UNCHANGED retryCount
      BY DEF enqueue, queueVars
    <3> QED
      BY <3>1, RetryFrame
  <2> QED
    BY <2>1, <2>2 DEF LeaseInv
<1>3. ASSUME NEW w \in Workers, Start(w) PROVE LeaseInv'
  <2> USE <1>0, <1>t, <1>3 DEF Start
  <2>1. HolderOwnsRow'
    <3> SUFFICES ASSUME NEW v \in Workers, Holding(v)'
                 PROVE  HeldRow(v, lease[v])'
      BY DEF HolderOwnsRow
    <3>1. Holding(v) /\ HeldRow(v, lease[v]) /\ lease'[v] = lease[v]
      BY DEF Holding, HolderOwnsRow
    <3>2. lease[v] \in Attempts /\ ~Stale(lease[v])
      BY <1>h, <3>1, HeldNotStale
    <3> QED
      BY <3>1, <3>2 DEF recover_inflight, HeldRow
  <2>2. SelectStillTrue' /\ RetryBound'
    BY RetryFrame DEF recover_inflight
  <2> QED
    BY <2>1, <2>2 DEF LeaseInv
<1>4. ASSUME NEW w \in Workers, Lease(w) PROVE LeaseInv'
  <2> USE <1>0, <1>t, <1>4 DEF Lease
  <2> PICK a \in Attempts : lease_next(w, a) /\ lease' = [lease EXCEPT ![w] = a]
    OBVIOUS
  <2>1. HolderOwnsRow'
    <3> SUFFICES ASSUME NEW v \in Workers, Holding(v)'
                 PROVE  HeldRow(v, lease[v])'
      BY DEF HolderOwnsRow
    <3>1. CASE v = w
      BY <3>1 DEF lease_next, HeldRow, InFlight, TypeOK, QueueTypeOK
    <3>2. CASE v # w
      <4>1. Holding(v) /\ HeldRow(v, lease[v]) /\ lease'[v] = lease[v]
        BY <3>2 DEF Holding, HolderOwnsRow
      <4>2. lease[v] # a
        BY <4>1 DEF lease_next, Oldest, Pending, HeldRow, InFlight
      <4> QED
        BY <1>h, <4>1, <4>2 DEF lease_next, HeldRow, TypeOK, QueueTypeOK
    <3> QED
      BY <3>1, <3>2
  <2>2. SelectStillTrue' /\ RetryBound'
    BY RetryFrame DEF lease_next
  <2> QED
    BY <2>1, <2>2 DEF LeaseInv
<1>5. ASSUME NEW w \in Workers, ExitOnEmpty(w) \/ ExitOnLimit(w) PROVE LeaseInv'
  <2> USE <1>0, <1>t, <1>5 DEF ExitOnEmpty, ExitOnLimit
  <2>1. HolderOwnsRow'
    BY HolderFrame DEF Holding
  <2>2. SelectStillTrue' /\ RetryBound'
    BY RetryFrame DEF queueVars
  <2> QED
    BY <2>1, <2>2 DEF LeaseInv
<1>6. ASSUME NEW w \in Workers, UnknownTask(w) PROVE LeaseInv'
  <2> USE <1>0, <1>t, <1>6 DEF UnknownTask
  <2>1. HolderOwnsRow'
    BY HolderFrame DEF Holding
  <2>2. SelectStillTrue' /\ RetryBound'
    BY RetryFrame DEF queueVars
  <2> QED
    BY <2>1, <2>2 DEF LeaseInv
<1>7. ASSUME NEW w \in Workers, MarkRunning(w) PROVE LeaseInv'
  <2> USE <1>0, <1>t, <1>7 DEF MarkRunning
  <2>0. Holding(w) /\ lease[w] \in Attempts /\ HeldRow(w, lease[w])
    BY <1>h DEF Holding, HolderOwnsRow
  <2>1. HolderOwnsRow'
    <3> SUFFICES ASSUME NEW v \in Workers, Holding(v)'
                 PROVE  HeldRow(v, lease[v])'
      BY DEF HolderOwnsRow
    <3>1. Holding(v) /\ HeldRow(v, lease[v]) /\ lease'[v] = lease[v]
      BY <2>0 DEF Holding, HolderOwnsRow
    <3>2. CASE v = w
      BY <2>0, <3>1, <3>2 DEF mark_running, HeldRow, InFlight, TypeOK, QueueTypeOK, NoExpiry
    <3>3. CASE v # w
      <4>1. lease[v] # lease[w]
        BY <1>x, <2>0, <3>1, <3>3 DEF LeaseExclusive
      <4> QED
        BY <1>h, <3>1, <4>1 DEF mark_running, HeldRow, TypeOK, QueueTypeOK
    <3> QED
      BY <3>2, <3>3
  <2>2. SelectStillTrue' /\ RetryBound'
    BY RetryFrame DEF mark_running
  <2> QED
    BY <2>1, <2>2 DEF LeaseInv
<1>8. ASSUME NEW w \in Workers,
             Register(w) \/ Decide(w) \/ FailRetryably(w) \/ MarkCompletedRaises(w)
      PROVE  LeaseInv'
  <2>0. /\ Holding(w) /\ UNCHANGED <<now, queueVars, lease, shouldRetry>>
        /\ \E l \in {"executing", "refused", "finished", "select"} : Goto(w, l)
    BY <1>8 DEF Register, Decide, FailRetryably, MarkCompletedRaises, Holding
  <2> USE <1>0, <1>t, <2>0
  <2>1. HolderOwnsRow'
    BY HolderFrame DEF Holding
  <2>2. SelectStillTrue' /\ RetryBound'
    BY RetryFrame DEF queueVars
  <2> QED
    BY <2>1, <2>2 DEF LeaseInv
<1>9. ASSUME NEW w \in Workers, MarkCompleted(w) PROVE LeaseInv'
  <2> USE <1>0, <1>t, <1>9 DEF MarkCompleted, mark_completed
  <2>0. Holding(w) /\ lease[w] \in Attempts
    BY <1>h DEF Holding
  <2>1. HolderOwnsRow'
    <3> SUFFICES ASSUME NEW v \in Workers, Holding(v)'
                 PROVE  HeldRow(v, lease[v])'
      BY DEF HolderOwnsRow
    <3>1. v # w /\ Holding(v) /\ HeldRow(v, lease[v]) /\ lease'[v] = lease[v]
      BY DEF Holding, HolderOwnsRow
    <3>2. lease[v] # lease[w]
      BY <1>x, <2>0, <3>1 DEF LeaseExclusive
    <3> QED
      BY <1>h, <2>0, <3>1, <3>2 DEF Unlease, HeldRow, TypeOK, QueueTypeOK
  <2>2. SelectStillTrue' /\ RetryBound'
    BY RetryFrame
  <2> QED
    BY <2>1, <2>2 DEF LeaseInv
<1>10. ASSUME NEW w \in Workers, MarkFailedSelect(w) PROVE LeaseInv'
  <2> USE <1>0, <1>t, <1>10 DEF MarkFailedSelect
  <2>1. HolderOwnsRow'
    BY HolderFrame DEF Holding
  <2>2. SelectStillTrue'
    BY DEF SelectStillTrue, ShouldRetry, queueVars
  <2>3. RetryBound'
    BY DEF RetryBound, queueVars
  <2> QED
    BY <2>1, <2>2, <2>3 DEF LeaseInv
<1>11. ASSUME NEW w \in Workers, MarkFailedUpdate(w) PROVE LeaseInv'
  <2> USE <1>0, <1>t, <1>11 DEF MarkFailedUpdate
  <2>0. Holding(w) /\ lease[w] \in Attempts
    BY <1>h DEF Holding
  <2>u. \E s \in {"pending", "failed"} : Unlease(lease[w], s)
    BY DEF mark_failed
  <2>o. \A v \in Workers \ {w} : pc'[v] = pc[v] /\ lease'[v] = lease[v]
                                  /\ shouldRetry'[v] = shouldRetry[v]
    BY DEF Goto
  <2>p. pc'[w] \in {"cleanup", "idle"}
    BY DEF Goto
  <2>1. HolderOwnsRow'
    <3> SUFFICES ASSUME NEW v \in Workers, Holding(v)'
                 PROVE  HeldRow(v, lease[v])'
      BY DEF HolderOwnsRow
    <3>1. v # w /\ Holding(v) /\ HeldRow(v, lease[v]) /\ lease'[v] = lease[v]
      BY <2>o, <2>p DEF Holding, HolderOwnsRow
    <3>2. lease[v] # lease[w]
      BY <1>x, <2>0, <3>1 DEF LeaseExclusive
    <3> QED
      BY <1>h, <2>0, <2>u, <3>1, <3>2 DEF Unlease, HeldRow, TypeOK, QueueTypeOK
  <2>2. SelectStillTrue'
    <3> SUFFICES ASSUME NEW v \in Workers, (pc[v] = "update" /\ shouldRetry[v])'
                 PROVE  ShouldRetry(lease[v])'
      BY DEF SelectStillTrue
    <3>1. v # w /\ Holding(v) /\ ShouldRetry(lease[v]) /\ lease'[v] = lease[v]
      BY <2>o, <2>p DEF Holding, SelectStillTrue
    <3>2. lease[v] # lease[w]
      BY <1>x, <2>0, <3>1 DEF LeaseExclusive
    <3>3. retryCount'[lease[v]] = retryCount[lease[v]]
      BY <1>h, <2>0, <3>1, <3>2 DEF mark_failed, TypeOK, QueueTypeOK
    <3> QED
      BY <3>1, <3>3 DEF ShouldRetry
  <2>3. RetryBound'
    <3>1. CASE shouldRetry[w]
      BY <2>0, <3>1 DEF SelectStillTrue, ShouldRetry, RetryBound, mark_failed, TypeOK,
                        QueueTypeOK
    <3>2. CASE ~shouldRetry[w]
      BY <3>2 DEF RetryBound, mark_failed
    <3> QED
      BY <3>1, <3>2
  <2> QED
    BY <2>1, <2>2, <2>3 DEF LeaseInv
<1>12. ASSUME NEW w \in Workers, CleanupForRetry(w) \/ Crash(w) PROVE LeaseInv'
  <2> USE <1>0, <1>t, <1>12 DEF CleanupForRetry, Crash
  <2>1. HolderOwnsRow'
    BY HolderFrame DEF Holding
  <2>2. SelectStillTrue' /\ RetryBound'
    BY RetryFrame DEF queueVars
  <2> QED
    BY <2>1, <2>2 DEF LeaseInv
<1>13. CASE Tick
  <2> USE <1>0, <1>t, <1>13 DEF Tick, workerVars, queueVars
  <2>1. HolderOwnsRow'
    <3> SUFFICES ASSUME NEW v \in Workers, Holding(v)'
                 PROVE  HeldRow(v, lease[v])'
      BY DEF HolderOwnsRow
    <3>1. Holding(v) /\ HeldRow(v, lease[v]) /\ lease'[v] = lease[v]
      BY DEF Holding, HolderOwnsRow
    <3>2. now < leaseExpires[lease[v]]
      BY <3>1
    <3> QED
      BY <1>h, <3>1, <3>2 DEF HeldRow, TypeOK, QueueTypeOK, NoExpiry
  <2>2. SelectStillTrue' /\ RetryBound'
    BY RetryFrame
  <2> QED
    BY <2>1, <2>2 DEF LeaseInv
<1>14. CASE UNCHANGED vars
  <2> USE <1>0, <1>14 DEF vars, workerVars, queueVars
  <2>1. HolderOwnsRow'
    BY HolderFrame DEF Holding
  <2>2. SelectStillTrue' /\ RetryBound'
    BY RetryFrame
  <2> QED
    BY <2>1, <2>2 DEF LeaseInv
<1> QED
  BY <1>b, <1>1, <1>2, <1>3, <1>4, <1>5, <1>6, <1>7, <1>8, <1>9, <1>10, <1>11,
     <1>12, <1>13, <1>14
     DEF Next, Prepare, WorkerStep, MarkCompletedLost

(* As long as no trial outlives its lease and no served mark_completed loses its
   answer, the durable queue is safe to share:
   an attempt is never in the hands of two live workers and is requeued at
   most MaxRetries times, through any crashes, restarts and recoveries,
   although no operation but lease_next looks at the status or the owner of
   the row it changes. *)
THEOREM LeaseSafety ==
  ASSUME Faults \cap {"overrun", "mark_lost"} = {}
  PROVE  Spec => [](LeaseExclusive /\ HolderOwnsRow /\ SelectStillTrue /\ RetryBound)
<1>1. LeaseInv /\ [Next]_vars => LeaseInv'
  BY LeaseStep
<1>2. LeaseInv => LeaseExclusive /\ HolderOwnsRow /\ SelectStillTrue /\ RetryBound
  BY OwnerExcludes DEF LeaseInv
<1> QED
  BY LeaseInit, <1>1, <1>2, PTL DEF Spec
-----------------------------------------------------------------------------
(* No row is leased, let alone finished, before prepare has ended. *)
NoEarlyRow == ~prepared => \A a \in Attempts : status[a] \in {"absent", "pending"}

(* Every action keeps it: until prepare has ended only prepare acts. *)
LEMMA EarlyRowStep ==
  ASSUME TypeOK, NoEarlyWorker, NoEarlyRow, [Next]_vars
  PROVE  NoEarlyRow'
<1> SUFFICES ASSUME ~prepared', NEW a \in Attempts
             PROVE  status'[a] \in {"absent", "pending"}
  BY DEF NoEarlyRow
<1>1. CASE PrepareBegin
  BY <1>1 DEF NoEarlyRow, PrepareBegin, clear_all, queueVars
<1>2. CASE PrepareInsert
  <2>1. status[a] \in {"absent", "pending"} /\ status \in [Attempts -> Statuses]
    BY <1>2 DEF NoEarlyRow, PrepareInsert, TypeOK, QueueTypeOK
  <2>2. CASE status[cursor] = "absent"
    BY <1>2, <2>1, <2>2 DEF PrepareInsert, enqueue
  <2>3. CASE status[cursor] # "absent"
    BY <1>2, <2>1, <2>3 DEF PrepareInsert, enqueue, queueVars
  <2> QED
    BY <2>2, <2>3
<1>3. CASE PrepareFinish
  BY <1>3 DEF PrepareFinish
<1>4. CASE PrepareCrash \/ Tick \/ UNCHANGED vars
  BY <1>4 DEF NoEarlyRow, PrepareCrash, Tick, vars, queueVars, prepareVars
<1>5. ASSUME NEW w \in Workers, Start(w) \/ WorkerStep(w) \/ Crash(w)
      PROVE  FALSE
  <2>1. prepared' = prepared /\ (prepared \/ pc[w] # "down")
    BY <1>5 DEF Start, WorkerStep, Crash, Lease, ExitOnEmpty, ExitOnLimit,
         UnknownTask, MarkRunning, Register, Decide, FailRetryably, MarkCompleted,
         MarkCompletedRaises, MarkCompletedLost, MarkFailedSelect, MarkFailedUpdate,
         CleanupForRetry, prepareVars
  <2> QED
    BY <2>1 DEF NoEarlyWorker
<1> QED
  BY <1>1, <1>2, <1>3, <1>4, <1>5 DEF Next, Prepare

(* A finished row is out of reach of every step: prepare's inserts ignore it,
   recovery and lease pass it over, and a worker updates only the row in its
   hands, which is in flight. *)
LEMMA FinalStep ==
  ASSUME LeaseInv, NoEarlyRow, [Next]_vars,
         NEW a \in Attempts, status[a] \in Terminal
  PROVE  status'[a] = status[a]
<1>0. /\ TypeOK /\ HolderOwnsRow /\ NoEarlyRow
      /\ status \in [Attempts -> Statuses]
      /\ status[a] \notin {"absent", "pending", "leased", "running"}
  BY DEF LeaseInv, TypeOK, QueueTypeOK, Terminal
<1>h. \A w \in Workers : Holding(w) => lease[w] \in Attempts /\ lease[w] # a
  BY <1>0, LeaseIsAttempt DEF HolderOwnsRow, HeldRow, InFlight
<1>1. CASE PrepareBegin
  BY <1>0, <1>1 DEF PrepareBegin, NoEarlyRow
<1>2. CASE PrepareInsert
  <2>1. CASE status[cursor] = "absent"
    BY <1>0, <1>2, <2>1 DEF PrepareInsert, enqueue
  <2>2. CASE status[cursor] # "absent"
    BY <1>2, <2>2 DEF PrepareInsert, enqueue, queueVars
  <2> QED
    BY <2>1, <2>2
<1>3. CASE PrepareFinish \/ PrepareCrash \/ Tick \/ UNCHANGED vars
  BY <1>3 DEF PrepareFinish, PrepareCrash, Tick, vars, queueVars
<1>4. ASSUME NEW w \in Workers, Start(w) PROVE status'[a] = status[a]
  BY <1>0, <1>4 DEF Start, recover_inflight, Stale, InFlight
<1>5. ASSUME NEW w \in Workers, Lease(w) PROVE status'[a] = status[a]
  BY <1>0, <1>5 DEF Lease, lease_next, Oldest, Pending
<1>6. ASSUME NEW w \in Workers, MarkRunning(w) PROVE status'[a] = status[a]
  BY <1>0, <1>6, <1>h DEF MarkRunning, mark_running, Holding
<1>7. ASSUME NEW w \in Workers, MarkCompleted(w) \/ MarkCompletedLost(w)
      PROVE  status'[a] = status[a]
  BY <1>0, <1>7, <1>h DEF MarkCompleted, MarkCompletedLost, mark_completed, Unlease, Holding
<1>8. ASSUME NEW w \in Workers, MarkFailedUpdate(w) PROVE status'[a] = status[a]
  <2>1. lease[w] \in Attempts /\ lease[w] # a
    BY <1>8, <1>h DEF MarkFailedUpdate, Holding
  <2>2. \E s \in {"pending", "failed"} : Unlease(lease[w], s)
    BY <1>8 DEF MarkFailedUpdate, mark_failed
  <2> QED
    BY <1>0, <2>1, <2>2 DEF Unlease
<1>9. ASSUME NEW w \in Workers,
             \/ ExitOnEmpty(w) \/ ExitOnLimit(w) \/ UnknownTask(w)
             \/ Register(w) \/ Decide(w) \/ FailRetryably(w)
             \/ MarkCompletedRaises(w) \/ MarkFailedSelect(w)
             \/ CleanupForRetry(w) \/ Crash(w)
      PROVE  status'[a] = status[a]
  BY <1>9 DEF ExitOnEmpty, ExitOnLimit, UnknownTask, Register, Decide,
       FailRetryably, MarkCompletedRaises, MarkFailedSelect, CleanupForRetry, Crash,
       queueVars
<1> QED
  BY <1>1, <1>2, <1>3, <1>4, <1>5, <1>6, <1>7, <1>8, <1>9
     DEF Next, Prepare, WorkerStep

(* As long as no trial outlives its lease and no served mark_completed loses its
   answer, a row that completed or failed keeps
   that status for good, whatever the retries, crashes, recoveries and further
   runs of prepare. *)
THEOREM FinishedIsFinal ==
  ASSUME Faults \cap {"overrun", "mark_lost"} = {}
  PROVE  Spec => TerminalIsFinal
<1>1. Init => LeaseInv /\ NoEarlyRow
  BY LeaseInit DEF Init, QueueInit, NoEarlyRow
<1>2. LeaseInv /\ NoEarlyRow /\ [Next]_vars => LeaseInv' /\ NoEarlyRow'
  BY LeaseStep, EarlyRowStep DEF LeaseInv
<1>3. LeaseInv /\ NoEarlyRow /\ [Next]_vars =>
        [\A a \in Attempts : status[a] \in Terminal => status'[a] = status[a]]_vars
  BY FinalStep
<1> QED
  BY <1>1, <1>2, <1>3, PTL DEF Spec, TerminalIsFinal
=============================================================================
