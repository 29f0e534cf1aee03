---------------------------- MODULE LedgerProofs ----------------------------
(***************************************************************************)
(* More theorems about QueueWorkers: what the operator of a run may count  *)
(* on (every trial has its row, nothing is stranded, every execution is    *)
(* paid for), and that the queue and its users implement AttemptLedger.    *)
(***************************************************************************)
EXTENDS QueueWorkersProofs

-----------------------------------------------------------------------------
(* Steps that leave the table alone, or change one status of one row. *)

(* The steps of a worker that make no call to the queue that changes it. *)
Elsewhere(w) ==
  \/ ExitOnEmpty(w) \/ ExitOnLimit(w) \/ UnknownTask(w)
  \/ Register(w) \/ Decide(w) \/ FailRetryably(w)
  \/ MarkCompletedRaises(w) \/ MarkFailedSelect(w)
  \/ CleanupForRetry(w)

(* They leave the queue, the clock, prepare and the history alone. *)
LEMMA ElsewhereFrame ==
  ASSUME NEW w \in Workers, Elsewhere(w)
  PROVE  UNCHANGED <<now, queueVars, cursor, prepared, runs, crashes>>
BY DEF Elsewhere, ExitOnEmpty, ExitOnLimit, UnknownTask, Register, Decide,
       FailRetryably, MarkCompletedRaises, MarkFailedSelect, CleanupForRetry,
       prepareVars, historyVars

(* The UPDATE of mark_failed changes one row's status, to pending if the
   attempt is to be retried and to failed otherwise. *)
LEMMA MarkFailedStatus ==
  ASSUME NEW a, NEW retry, mark_failed(a, retry)
  PROVE  /\ retry => Unlease(a, "pending")
         /\ ~retry => Unlease(a, "failed") /\ UNCHANGED retryCount
BY DEF mark_failed

-----------------------------------------------------------------------------
(* prepare has inserted the rows before its cursor, and unless it dies on the
   way a queue it finds is empty. *)
PrepareInv ==
  /\ prepared => cursor = 0 /\ \A a \in Attempts : status[a] # "absent"
  /\ ~prepared /\ cursor = 0 => \A a \in Attempts : status[a] = "absent"
  /\ ~prepared => \A a \in Attempts : a < cursor => status[a] # "absent"

(* Every action keeps it: rows leave "absent" one by one, and nothing but
   clear_all, before the run is announced, takes them back. *)
LEMMA PrepareStep ==
  ASSUME "prepare_crash" \notin Faults, TypeOK, NoEarlyWorker, PrepareInv, [Next]_vars
  PROVE  PrepareInv'
<1> USE QueueAssumption
<1>0. /\ cursor \in 0..NumAttempts + 1 /\ prepared \in BOOLEAN
      /\ status \in [Attempts -> Statuses]
  BY DEF TypeOK, QueueTypeOK, RunTypeOK
<1>1. CASE PrepareBegin
  BY <1>0, <1>1 DEF PrepareBegin, PrepareInv, clear_all, queueVars, Attempts
<1>2. CASE PrepareInsert
  <2>1. ~prepared /\ prepared' = prepared /\ cursor' = cursor + 1 /\ cursor \in Attempts
    BY <1>0, <1>2 DEF PrepareInsert, PrepareInv, Attempts
  <2>2. \A a \in Attempts : a <= cursor => status'[a] # "absent"
    <3>1. CASE status[cursor] = "absent"
      BY <1>0, <1>2, <2>1, <3>1 DEF PrepareInsert, enqueue, PrepareInv, Attempts
    <3>2. CASE status[cursor] # "absent"
      BY <1>0, <1>2, <2>1, <3>2 DEF PrepareInsert, enqueue, PrepareInv, Attempts, queueVars
    <3> QED
      BY <3>1, <3>2
  <2> QED
    BY <1>0, <2>1, <2>2 DEF PrepareInv, Attempts
<1>3. CASE PrepareFinish
  BY <1>0, <1>3 DEF PrepareFinish, PrepareInv, Attempts, queueVars
<1>4. CASE PrepareCrash
  BY <1>4 DEF PrepareCrash
<1>5. CASE Tick \/ UNCHANGED vars
  BY <1>5 DEF Tick, PrepareInv, vars, queueVars, prepareVars
<1>6. ASSUME NEW w \in Workers, Start(w) \/ WorkerStep(w) \/ Crash(w)
      PROVE  PrepareInv'
  <2>1. prepared /\ UNCHANGED <<prepared, cursor>>
    BY <1>6 DEF Start, WorkerStep, Crash, Lease, ExitOnEmpty, ExitOnLimit,
         UnknownTask, MarkRunning, Register, Decide, FailRetryably, MarkCompleted,
         MarkCompletedRaises, MarkCompletedLost, MarkFailedSelect, MarkFailedUpdate,
         CleanupForRetry,
         prepareVars, NoEarlyWorker
  <2>2. \A a \in Attempts : status'[a] # "absent"
    <3> SUFFICES ASSUME NEW a \in Attempts PROVE status'[a] # "absent"
      OBVIOUS
    <3>0. status[a] # "absent"
      BY <2>1 DEF PrepareInv
    <3>1. CASE Start(w)
      BY <3>0, <3>1 DEF Start, recover_inflight
    <3>2. CASE Lease(w)
      BY <1>0, <3>0, <3>2 DEF Lease, lease_next
    <3>3. CASE MarkRunning(w)
      BY <1>0, <3>0, <3>3 DEF MarkRunning, mark_running
    <3>4. CASE MarkCompleted(w) \/ MarkCompletedLost(w)
      BY <1>0, <3>0, <3>4 DEF MarkCompleted, MarkCompletedLost, mark_completed, Unlease
    <3>5. CASE MarkFailedUpdate(w)
      <4>1. Unlease(lease[w], "pending") \/ Unlease(lease[w], "failed")
        BY <3>5, MarkFailedStatus DEF MarkFailedUpdate
      <4> QED
        BY <1>0, <3>0, <4>1 DEF Unlease
    <3>6. CASE Elsewhere(w)
      BY <3>0, <3>6, ElsewhereFrame DEF queueVars
    <3>7. CASE Crash(w)
      BY <3>0, <3>7 DEF Crash, queueVars
    <3> QED
      BY <1>6, <3>1, <3>2, <3>3, <3>4, <3>5, <3>6, <3>7 DEF WorkerStep, Elsewhere
  <2> QED
    BY <2>1, <2>2 DEF PrepareInv
<1> QED
  BY <1>1, <1>2, <1>3, <1>4, <1>5, <1>6 DEF Next, Prepare

(* Unless prepare dies among its inserts, a run that workers can find has the
   rows of all its trials, although enqueue_many inserts them one by one and
   prepare takes a queue that holds any row for a full one. *)
THEOREM AnnouncedIsFull ==
  ASSUME "prepare_crash" \notin Faults
  PROVE  Spec => []PreparedIsFull
<1> DEFINE Inv == TypeOK /\ NoEarlyWorker /\ PrepareInv
<1>1. Init => Inv
  BY TypeInit DEF Init, QueueInit, NoEarlyWorker, PrepareInv, Attempts
<1>2. Inv /\ [Next]_vars => Inv'
  BY TypeStep, EarlyStep, PrepareStep
<1>3. Inv => PreparedIsFull
  BY DEF PrepareInv, PreparedIsFull
<1> QED
  BY <1>1, <1>2, <1>3, PTL DEF Spec
-----------------------------------------------------------------------------
(* While workers neither die nor stop for a limit, a row in flight is in the
   hands of one of them, and while a row is pending one of them has not left. *)
NoneForgotten ==
  /\ \A a \in Attempts : status[a] \in InFlight =>
       \E w \in Workers : Holding(w) /\ lease[w] = a
  /\ (\E a \in Attempts : status[a] = "pending") =>
       \E w \in Workers : pc[w] # "exited"

(* prepare is not under way any more once the run is announced. *)
PreparedOnce == prepared => cursor = 0

(* Every action keeps it: only prepare moves the cursor, and it begins only
   for a run that is not announced. *)
LEMMA OnceStep == PreparedOnce /\ [Next]_vars => PreparedOnce'
<1> SUFFICES ASSUME PreparedOnce, [Next]_vars PROVE PreparedOnce'
  OBVIOUS
<1>1. CASE PrepareBegin \/ PrepareInsert
  <2>1. ~prepared /\ prepared' = prepared
    BY <1>1, QueueAssumption DEF PrepareBegin, PrepareInsert, PreparedOnce, Attempts
  <2> QED
    BY <2>1 DEF PreparedOnce
<1>3. CASE PrepareFinish \/ PrepareCrash
  BY <1>3 DEF PrepareFinish, PrepareCrash, PreparedOnce
<1>4. CASE Tick \/ UNCHANGED vars
  BY <1>4 DEF Tick, vars, prepareVars, PreparedOnce
<1>2. ASSUME NEW w \in Workers, Start(w) \/ WorkerStep(w) \/ Crash(w)
      PROVE  UNCHANGED prepareVars
  BY <1>2, ElsewhereFrame
     DEF Start, WorkerStep, Crash, Elsewhere, Lease, MarkRunning, MarkCompleted,
         MarkCompletedLost, MarkFailedUpdate, prepareVars
<1> QED
  BY <1>1, <1>2, <1>3, <1>4 DEF Next, Prepare, PreparedOnce, prepareVars

(* A step after which no more rows are in flight, the other rows' holders still
   hold them, and the worker that took it has not left. *)
LEMMA ForgottenFrame ==
  ASSUME TypeOK, NoneForgotten, NEW w \in Workers, NEW l \in Labels \ {"exited"},
         pc' = [pc EXCEPT ![w] = l],
         \A a \in Attempts : status'[a] \in InFlight =>
           \/ status[a] \in InFlight /\ (Holding(w) /\ lease[w] = a => Holding(w)' /\ lease'[w] = a)
           \/ Holding(w)' /\ lease'[w] = a,
         \A v \in Workers \ {w} : lease'[v] = lease[v]
  PROVE  NoneForgotten'
<1>0. pc \in [Workers -> Labels]
  BY DEF TypeOK, RunTypeOK
<1>1. ASSUME NEW a \in Attempts, status'[a] \in InFlight
      PROVE  \E v \in Workers : Holding(v)' /\ lease'[v] = a
  <2>1. CASE Holding(w)' /\ lease'[w] = a
    BY <2>1
  <2>2. CASE ~(Holding(w)' /\ lease'[w] = a)
    <3>1. PICK v \in Workers : Holding(v) /\ lease[v] = a
      BY <1>1, <2>2 DEF NoneForgotten
    <3>2. v # w
      BY <1>1, <2>2, <3>1
    <3> QED
      BY <1>0, <3>1, <3>2 DEF Holding
  <2> QED
    BY <2>1, <2>2
<1>2. pc'[w] # "exited"
  BY <1>0
<1> QED
  BY <1>1, <1>2 DEF NoneForgotten

(* Every action keeps it: a worker lets go of a row only by taking it out of
   flight, and leaves only when nothing is pending. *)
LEMMA ForgottenStep ==
  ASSUME Faults \cap {"crash", "limits"} = {}, Workers # {},
         TypeOK, NoEarlyWorker, PreparedOnce, NoneForgotten, [Next]_vars
  PROVE  NoneForgotten'
<1>0. /\ pc \in [Workers -> Labels] /\ lease \in [Workers -> 0..NumAttempts]
      /\ status \in [Attempts -> Statuses]
  BY DEF TypeOK, QueueTypeOK, RunTypeOK
<1> USE DEF Goto
<1>1. CASE PrepareBegin \/ PrepareInsert
  <2>1. \A w \in Workers : pc[w] = "down"
    BY <1>1, QueueAssumption DEF PrepareBegin, PrepareInsert, Attempts, PreparedOnce,
                                 NoEarlyWorker
  <2>2. \A a \in Attempts : status'[a] \in InFlight => status[a] \in InFlight
    <3>1. CASE PrepareBegin
      BY <3>1 DEF PrepareBegin, clear_all, queueVars, InFlight
    <3>2. CASE PrepareInsert /\ status[cursor] = "absent"
      BY <1>0, <3>2 DEF PrepareInsert, enqueue, InFlight
    <3>3. CASE PrepareInsert /\ status[cursor] # "absent"
      BY <3>3 DEF PrepareInsert, enqueue, queueVars
    <3> QED
      BY <1>1, <3>1, <3>2, <3>3
  <2>3. UNCHANGED <<pc, lease>>
    BY <1>1 DEF PrepareBegin, PrepareInsert, workerVars
  <2> QED
    BY <2>1, <2>2, <2>3 DEF NoneForgotten, Holding
<1>2. CASE PrepareFinish \/ PrepareCrash \/ Tick \/ UNCHANGED vars
  BY <1>2 DEF PrepareFinish, PrepareCrash, Tick, vars, queueVars, workerVars,
              NoneForgotten, Holding
<1>3. ASSUME NEW w \in Workers, Start(w) PROVE NoneForgotten'
  <2>1. \A a \in Attempts : status'[a] \in InFlight => status[a] \in InFlight
    BY <1>3 DEF Start, recover_inflight, InFlight
  <2>2. ~Holding(w) /\ pc' = [pc EXCEPT ![w] = "idle"] /\ lease' = lease
    BY <1>3 DEF Start, Holding
  <2> QED
    BY <2>1, <2>2, ForgottenFrame DEF Labels
<1>4. ASSUME NEW w \in Workers, Lease(w) PROVE NoneForgotten'
  <2>1. PICK a \in Attempts : lease_next(w, a) /\ lease' = [lease EXCEPT ![w] = a]
    BY <1>4 DEF Lease
  <2>2. pc' = [pc EXCEPT ![w] = "leased"] /\ ~Holding(w)
    BY <1>4 DEF Lease, Holding
  <2>3. Holding(w)' /\ lease'[w] = a
    BY <1>0, <2>1, <2>2 DEF Holding
  <2>4. \A b \in Attempts : b # a => status'[b] = status[b]
    BY <1>0, <2>1 DEF lease_next
  <2> QED
    BY <1>0, <2>1, <2>2, <2>3, <2>4, ForgottenFrame DEF Labels
<1>5. ASSUME NEW w \in Workers, ExitOnEmpty(w) PROVE NoneForgotten'
  BY <1>0, <1>5 DEF ExitOnEmpty, Pending, NoneForgotten, Holding, queueVars
<1>6. ASSUME NEW w \in Workers, MarkRunning(w) PROVE NoneForgotten'
  <2>1. pc' = [pc EXCEPT ![w] = "starting"] /\ lease' = lease
    BY <1>6 DEF MarkRunning
  <2>2. Holding(w)'
    BY <1>0, <2>1 DEF Holding
  <2>3. \A b \in Attempts : b # lease[w] => status'[b] = status[b]
    BY <1>0, <1>6 DEF MarkRunning, mark_running
  <2> QED
    BY <2>1, <2>2, <2>3, ForgottenFrame DEF Labels
<1>7. ASSUME NEW w \in Workers, MarkCompleted(w) PROVE NoneForgotten'
  <2>1. pc' = [pc EXCEPT ![w] = "idle"] /\ lease' = [lease EXCEPT ![w] = 0]
    BY <1>7 DEF MarkCompleted
  <2>2. \A a \in Attempts : status'[a] \in InFlight => status[a] \in InFlight /\ a # lease[w]
    BY <1>0, <1>7 DEF MarkCompleted, mark_completed, Unlease, InFlight
  <2> QED
    BY <1>0, <2>1, <2>2, ForgottenFrame DEF Labels
<1>12. ASSUME NEW w \in Workers, MarkCompletedLost(w) PROVE NoneForgotten'
  <2>1. pc' = [pc EXCEPT ![w] = "select"] /\ lease' = lease
    BY <1>12 DEF MarkCompletedLost
  <2>2. \A a \in Attempts : status'[a] \in InFlight => status[a] \in InFlight /\ a # lease[w]
    BY <1>0, <1>12 DEF MarkCompletedLost, mark_completed, Unlease, InFlight
  <2> QED
    BY <1>0, <2>1, <2>2, ForgottenFrame DEF Labels
<1>8. ASSUME NEW w \in Workers, MarkFailedUpdate(w) PROVE NoneForgotten'
  <2>1. \E l \in {"cleanup", "idle"} : pc' = [pc EXCEPT ![w] = l]
    BY <1>8 DEF MarkFailedUpdate
  <2>2. \A v \in Workers \ {w} : lease'[v] = lease[v]
    BY <1>0, <1>8 DEF MarkFailedUpdate
  <2>3. Unlease(lease[w], "pending") \/ Unlease(lease[w], "failed")
    BY <1>8, MarkFailedStatus DEF MarkFailedUpdate
  <2>4. \A a \in Attempts : status'[a] \in InFlight => status[a] \in InFlight /\ a # lease[w]
    BY <1>0, <2>3 DEF Unlease, InFlight
  <2> QED
    BY <1>0, <2>1, <2>2, <2>4, ForgottenFrame DEF Labels
<1>9. ASSUME NEW w \in Workers,
             \/ UnknownTask(w) \/ Register(w) \/ Decide(w) \/ FailRetryably(w)
             \/ MarkCompletedRaises(w) \/ MarkFailedSelect(w)
      PROVE  NoneForgotten'
  <2>1. \E l \in {"update", "executing", "refused", "finished", "select"} :
          pc' = [pc EXCEPT ![w] = l]
    BY <1>9 DEF UnknownTask, Register, Decide, FailRetryably, MarkCompletedRaises,
                MarkFailedSelect
  <2>2. lease' = lease /\ status' = status
    BY <1>9 DEF UnknownTask, Register, Decide, FailRetryably, MarkCompletedRaises,
                MarkFailedSelect, queueVars
  <2>3. Holding(w)'
    BY <1>0, <2>1 DEF Holding
  <2> QED
    BY <2>1, <2>2, <2>3, ForgottenFrame DEF Labels
<1>10. ASSUME NEW w \in Workers, CleanupForRetry(w) PROVE NoneForgotten'
  <2>1. pc' = [pc EXCEPT ![w] = "idle"] /\ ~Holding(w) /\ status' = status
        /\ lease' = [lease EXCEPT ![w] = 0]
    BY <1>10 DEF CleanupForRetry, Holding, queueVars
  <2> QED
    BY <1>0, <2>1, ForgottenFrame DEF Labels
<1>11. ASSUME NEW w \in Workers, ExitOnLimit(w) \/ Crash(w) PROVE FALSE
  BY <1>11 DEF ExitOnLimit, Crash
<1> QED
  BY <1>1, <1>2, <1>3, <1>4, <1>5, <1>6, <1>7, <1>8, <1>9, <1>10, <1>11, <1>12
     DEF Next, Prepare, WorkerStep

(* Workers that neither die nor stop for a limit leave the queue only when
   nothing in it is unfinished, even when trials outlive their leases and are
   taken over, when an attempt is requeued after its mark was served, and when prepare died among its inserts: run_worker exits when
   lease_next finds no pending row, and a row that another worker has in flight
   at that moment is that worker's to finish or to come back for. *)
THEOREM NothingIsStranded ==
  ASSUME Faults \cap {"crash", "limits"} = {}, Workers # {}
  PROVE  Spec => []NothingStranded
<1> DEFINE Inv == TypeOK /\ NoEarlyWorker /\ PreparedOnce /\ NoneForgotten
<1>1. Init => Inv
  BY TypeInit DEF Init, QueueInit, NoEarlyWorker, PreparedOnce, NoneForgotten,
                  InFlight
<1>2. Inv /\ [Next]_vars => Inv'
  BY TypeStep, EarlyStep, OnceStep, ForgottenStep
<1>3. Inv => NothingStranded
  BY DEF NoneForgotten, NothingStranded, Holding, TypeOK, QueueTypeOK, Statuses
<1> QED
  BY <1>1, <1>2, <1>3, PTL DEF Spec
-----------------------------------------------------------------------------
(* The last execution of the attempt is still to be paid for: it finished, or
   it is the one a live worker has under way. *)
LastRunOpen(a) ==
  \/ status[a] \in Terminal
  \/ \E w \in Workers : Holding(w) /\ lease[w] = a /\ pc[w] # "leased"

Paid(a) ==
  \/ runs[a] <= retryCount[a] + crashes
  \/ LastRunOpen(a) /\ runs[a] <= 1 + retryCount[a] + crashes

(* Every execution but that one was paid for by a retry or a crash, and there
   is none before the run is announced. *)
RunsInv ==
  /\ \A a \in Attempts : Paid(a)
  /\ ~prepared => \A a \in Attempts : runs[a] = 0

(* A step that does not touch the attempt's counts keeps its account. *)
LEMMA PaidFrame ==
  ASSUME TypeOK, NEW a \in Attempts, Paid(a),
         runs'[a] = runs[a], retryCount'[a] = retryCount[a],
         crashes' = crashes, LastRunOpen(a) => LastRunOpen(a)'
  PROVE  Paid(a)'
BY DEF Paid

(* A worker's way from one label to another leaves open what was open, if the
   row stays as it is. *)
LEMMA OpenFrame ==
  ASSUME TypeOK, NEW a \in Attempts, NEW w \in Workers, NEW l \in Labels,
         pc' = [pc EXCEPT ![w] = l],
         status[a] \in Terminal => status'[a] \in Terminal,
         \A v \in Workers \ {w} : lease'[v] = lease[v],
         Holding(w) /\ lease[w] = a /\ pc[w] # "leased" =>
           Holding(w)' /\ lease'[w] = a /\ pc'[w] # "leased"
  PROVE  LastRunOpen(a) => LastRunOpen(a)'
<1>0. pc \in [Workers -> Labels]
  BY DEF TypeOK, RunTypeOK
<1>1. ASSUME NEW v \in Workers, Holding(v) /\ lease[v] = a /\ pc[v] # "leased"
      PROVE  Holding(v)' /\ lease'[v] = a /\ pc'[v] # "leased"
  <2>1. CASE v = w
    BY <1>1, <2>1
  <2>2. CASE v # w
    BY <1>0, <1>1, <2>2 DEF Holding
  <2> QED
    BY <2>1, <2>2
<1> QED
  BY <1>1 DEF LastRunOpen

(* Every action keeps the account, as long as a row is in one worker's hands. *)
LEMMA RunsStep ==
  ASSUME "mark_lost" \notin Faults, LeaseInv, RunsInv, [Next]_vars
  PROVE  RunsInv'
<1> USE QueueAssumption, WorkersAssumption
<1>0. /\ TypeOK /\ HolderOwnsRow /\ NoEarlyWorker /\ LeaseExclusive
      /\ TypeOK'
  BY TypeStep, OwnerExcludes DEF LeaseInv
<1>t. /\ pc \in [Workers -> Labels] /\ lease \in [Workers -> 0..NumAttempts]
      /\ status \in [Attempts -> Statuses]
      /\ retryCount \in [Attempts -> Nat] /\ runs \in [Attempts -> Nat]
      /\ crashes \in Nat
  BY <1>0 DEF TypeOK, QueueTypeOK, RunTypeOK
<1>n. retryCount' \in [Attempts -> Nat] /\ runs' \in [Attempts -> Nat] /\ crashes' \in Nat
  BY <1>0 DEF TypeOK, QueueTypeOK, RunTypeOK
<1>h. \A v \in Workers : Holding(v) => lease[v] \in Attempts
  BY <1>0, LeaseIsAttempt
<1> USE DEF Goto
<1>1. CASE PrepareBegin \/ PrepareInsert \/ PrepareCrash
  <2>1. UNCHANGED <<prepared, runs, crashes, pc, lease>>
    BY <1>1 DEF PrepareBegin, PrepareInsert, PrepareCrash, workerVars, historyVars
  <2>2. CASE ~prepared
    BY <1>t, <1>n, <2>1, <2>2 DEF RunsInv, Paid
  <2>3. CASE prepared
    <3>1. retryCount' = retryCount /\ \A a \in Attempts : status[a] \in Terminal => status'[a] = status[a]
      <4>1. CASE PrepareBegin
        BY <2>3, <4>1 DEF PrepareBegin
      <4>2. CASE PrepareInsert /\ status[cursor] = "absent"
        BY <1>t, <4>2 DEF PrepareInsert, enqueue, Terminal
      <4>3. CASE PrepareInsert /\ status[cursor] # "absent"
        BY <4>3 DEF PrepareInsert, enqueue, queueVars
      <4>4. CASE PrepareCrash
        BY <4>4 DEF PrepareCrash, queueVars
      <4> QED
        BY <1>1, <4>1, <4>2, <4>3, <4>4
    <3>2. \A a \in Attempts : LastRunOpen(a) => LastRunOpen(a)'
      BY <2>1, <3>1 DEF LastRunOpen, Holding
    <3> QED
      BY <1>0, <2>1, <2>3, <3>1, <3>2, PaidFrame DEF RunsInv
  <2> QED
    BY <2>2, <2>3
<1>2. CASE PrepareFinish \/ Tick \/ UNCHANGED vars
  BY <1>2 DEF PrepareFinish, Tick, vars, queueVars, prepareVars, workerVars, historyVars,
              RunsInv, Paid, LastRunOpen, Holding
<1>3. ASSUME NEW w \in Workers, Start(w) \/ WorkerStep(w) \/ Crash(w),
             \A a \in Attempts : Paid(a)'
      PROVE  RunsInv'
  <2>1. prepared /\ prepared' = prepared
    BY <1>0, <1>3, ElsewhereFrame
       DEF Start, WorkerStep, Crash, Elsewhere, Lease, MarkRunning, MarkCompleted,
           MarkCompletedLost, MarkFailedUpdate, prepareVars, NoEarlyWorker, ExitOnEmpty,
           ExitOnLimit,
           UnknownTask, Register, Decide, FailRetryably, MarkCompletedRaises,
           MarkFailedSelect, CleanupForRetry
  <2> QED
    BY <1>3, <2>1 DEF RunsInv
<1>4. ASSUME NEW w \in Workers, Start(w), NEW a \in Attempts PROVE Paid(a)'
  <2>1. /\ pc' = [pc EXCEPT ![w] = "idle"] /\ ~Holding(w)
        /\ UNCHANGED <<lease, runs, crashes, retryCount>>
    BY <1>4 DEF Start, Holding, recover_inflight, historyVars
  <2>2. status[a] \in Terminal => status'[a] \in Terminal
    BY <1>4 DEF Start, recover_inflight, Stale, InFlight, Terminal
  <2> QED
    BY <1>0, <2>1, <2>2, OpenFrame, PaidFrame DEF RunsInv, Labels
<1>5. ASSUME NEW w \in Workers, Lease(w), NEW a \in Attempts PROVE Paid(a)'
  <2>1. PICK b \in Attempts : lease_next(w, b) /\ lease' = [lease EXCEPT ![w] = b]
    BY <1>5 DEF Lease
  <2>2. /\ pc' = [pc EXCEPT ![w] = "leased"] /\ ~Holding(w)
        /\ UNCHANGED <<runs, crashes, retryCount>>
    BY <1>5, <2>1 DEF Lease, Holding, lease_next, historyVars
  <2>3. status[a] \in Terminal => status'[a] \in Terminal
    BY <1>t, <2>1 DEF lease_next, Oldest, Pending, Terminal
  <2> QED
    BY <1>0, <1>t, <2>1, <2>2, <2>3, OpenFrame, PaidFrame DEF RunsInv, Labels
<1>6. ASSUME NEW w \in Workers, MarkRunning(w), NEW a \in Attempts PROVE Paid(a)'
  <2>1. /\ pc' = [pc EXCEPT ![w] = "starting"] /\ pc[w] = "leased" /\ Holding(w)
        /\ UNCHANGED <<lease, crashes, retryCount>>
        /\ runs' = [runs EXCEPT ![lease[w]] = @ + 1]
    BY <1>6 DEF MarkRunning, Holding, mark_running
  <2>2. Holding(w)' /\ pc'[w] = "starting"
    BY <1>t, <2>1 DEF Holding
  <2>3. CASE a = lease[w]
    <3>1. ~LastRunOpen(a)
      <4>1. status[a] \in InFlight
        BY <1>0, <2>1, <2>3 DEF HolderOwnsRow, HeldRow
      <4>2. \A v \in Workers : Holding(v) /\ lease[v] = a => v = w
        BY <1>0, <2>1, <2>3 DEF LeaseExclusive
      <4> QED
        BY <2>1, <4>1, <4>2 DEF LastRunOpen, InFlight, Terminal
    <3>2. runs[a] <= retryCount[a] + crashes
      BY <3>1 DEF RunsInv, Paid
    <3>3. runs'[a] = runs[a] + 1
      BY <1>t, <2>1, <2>3
    <3>4. LastRunOpen(a)'
      BY <2>1, <2>2, <2>3 DEF LastRunOpen
    <3> QED
      BY <1>t, <2>1, <3>2, <3>3, <3>4 DEF Paid
  <2>4. CASE a # lease[w]
    <3>1. runs'[a] = runs[a]
      BY <1>t, <2>1, <2>4
    <3>2. status'[a] = status[a]
      BY <1>t, <1>6, <2>4 DEF MarkRunning, mark_running
    <3> QED
      BY <1>0, <2>1, <2>4, <3>1, <3>2, OpenFrame, PaidFrame DEF RunsInv, Labels
  <2> QED
    BY <2>3, <2>4
<1>7. ASSUME NEW w \in Workers, MarkCompleted(w), NEW a \in Attempts PROVE Paid(a)'
  <2>1. /\ pc' = [pc EXCEPT ![w] = "idle"] /\ lease' = [lease EXCEPT ![w] = 0]
        /\ UNCHANGED <<runs, crashes, retryCount>>
        /\ status' = [status EXCEPT ![lease[w]] = "completed"]
    BY <1>7 DEF MarkCompleted, mark_completed, Unlease, historyVars
  <2>2. CASE a = lease[w]
    <3>1. LastRunOpen(a)'
      BY <1>t, <2>1, <2>2 DEF LastRunOpen, Terminal
    <3> QED
      BY <1>0, <2>1, <3>1, PaidFrame DEF RunsInv
  <2>3. CASE a # lease[w]
    BY <1>0, <1>t, <2>1, <2>3, OpenFrame, PaidFrame DEF RunsInv, Labels
  <2> QED
    BY <2>2, <2>3
<1>8. ASSUME NEW w \in Workers, MarkFailedUpdate(w), NEW a \in Attempts PROVE Paid(a)'
  <2>1. /\ \E l \in {"cleanup", "idle"} : pc' = [pc EXCEPT ![w] = l]
        /\ UNCHANGED <<runs, crashes>>
        /\ \A v \in Workers \ {w} : lease'[v] = lease[v]
    BY <1>t, <1>8 DEF MarkFailedUpdate, historyVars
  <2>2. lease[w] \in Attempts
    BY <1>8, <1>h DEF MarkFailedUpdate, Holding
  <2>3. CASE a # lease[w]
    <3>1. status'[a] = status[a] /\ retryCount'[a] = retryCount[a]
      BY <1>t, <1>8, <2>2, <2>3 DEF MarkFailedUpdate, mark_failed, Unlease
    <3> QED
      BY <1>0, <2>1, <2>3, <3>1, OpenFrame, PaidFrame DEF RunsInv, Labels
  <2>4. CASE a = lease[w] /\ shouldRetry[w]
    <3>1. retryCount'[a] = retryCount[a] + 1
      BY <1>t, <1>8, <2>4 DEF MarkFailedUpdate, mark_failed
    <3>2. runs[a] <= 1 + retryCount[a] + crashes
      BY <1>t DEF RunsInv, Paid
    <3> QED
      BY <1>t, <2>1, <3>1, <3>2 DEF Paid
  <2>5. CASE a = lease[w] /\ ~shouldRetry[w]
    <3>1. LastRunOpen(a)' /\ retryCount' = retryCount
      BY <1>t, <1>8, <2>5 DEF MarkFailedUpdate, mark_failed, Unlease, LastRunOpen, Terminal
    <3> QED
      BY <1>0, <2>1, <3>1, PaidFrame DEF RunsInv
  <2> QED
    BY <2>3, <2>4, <2>5
<1>9. ASSUME NEW w \in Workers, Elsewhere(w), NEW a \in Attempts PROVE Paid(a)'
  <2>1. UNCHANGED <<status, retryCount, runs, crashes>>
    BY <1>9, ElsewhereFrame DEF queueVars
  <2>2. CASE ExitOnEmpty(w) \/ ExitOnLimit(w) \/ CleanupForRetry(w)
    <3>1. /\ ~Holding(w) /\ \E l \in {"exited", "idle"} : pc' = [pc EXCEPT ![w] = l]
          /\ \A v \in Workers \ {w} : lease'[v] = lease[v]
      BY <1>t, <2>2 DEF ExitOnEmpty, ExitOnLimit, CleanupForRetry, Holding
    <3> QED
      BY <1>0, <2>1, <3>1, OpenFrame, PaidFrame DEF RunsInv, Labels
  <2>3. CASE \/ UnknownTask(w) \/ Register(w) \/ Decide(w) \/ FailRetryably(w)
             \/ MarkCompletedRaises(w) \/ MarkFailedSelect(w)
    <3>1. /\ \E l \in {"update", "executing", "refused", "finished", "select"} :
               pc' = [pc EXCEPT ![w] = l]
          /\ lease' = lease
      BY <2>3 DEF UnknownTask, Register, Decide, FailRetryably, MarkCompletedRaises,
                  MarkFailedSelect
    <3>2. Holding(w)' /\ pc'[w] # "leased"
      BY <1>t, <3>1 DEF Holding
    <3> QED
      BY <1>0, <2>1, <3>1, <3>2, OpenFrame, PaidFrame DEF RunsInv, Labels
  <2> QED
    BY <1>9, <2>2, <2>3 DEF Elsewhere
<1>10. ASSUME NEW w \in Workers, Crash(w), NEW a \in Attempts PROVE Paid(a)'
  <2>1. crashes' = crashes + 1 /\ UNCHANGED <<runs, retryCount>>
    BY <1>10 DEF Crash, queueVars
  <2>2. runs[a] <= 1 + retryCount[a] + crashes
    BY <1>t DEF RunsInv, Paid
  <2> QED
    BY <1>t, <2>1, <2>2 DEF Paid
<1> QED
  BY <1>1, <1>2, <1>3, <1>4, <1>5, <1>6, <1>7, <1>8, <1>9, <1>10
     DEF Next, Prepare, WorkerStep, Elsewhere, MarkCompletedLost

(* As long as no trial outlives its lease and no served mark_completed loses its
   answer, a trial is executed once, and once
   more for each of its retries and for each crash: recover_inflight,
   lease_next and mark_failed never hand out an attempt for nothing. *)
THEOREM RunsArePaidFor ==
  ASSUME Faults \cap {"overrun", "mark_lost"} = {}
  PROVE  Spec => []EveryRunPaidFor
<1> DEFINE Inv == LeaseInv /\ RunsInv
<1>1. Init => Inv
  BY LeaseInit DEF Init, QueueInit, RunsInv, Paid
<1>2. Inv /\ [Next]_vars => Inv'
  BY LeaseStep, RunsStep
<1>3. Inv => EveryRunPaidFor
  BY DEF RunsInv, Paid, EveryRunPaidFor, LeaseInv, TypeOK, QueueTypeOK, RunTypeOK
<1> QED
  BY <1>1, <1>2, <1>3, PTL DEF Spec
-----------------------------------------------------------------------------
(* The refinement of AttemptLedger.  The steps of QueueWorkers are steps of the
   ledger because of what LeaseInv says of rows in a live worker's hands, and
   because prepare finds the queue empty. *)

(* Nothing was retried before the run is announced. *)
NoEarlyRetry == ~prepared => \A a \in Attempts : retryCount[a] = 0

(* Every action keeps it. *)
LEMMA EarlyRetryStep ==
  ASSUME TypeOK, NoEarlyWorker, NoEarlyRetry, [Next]_vars
  PROVE  NoEarlyRetry'
<1>1. CASE PrepareBegin
  BY <1>1 DEF PrepareBegin, NoEarlyRetry, clear_all, queueVars
<1>2. CASE PrepareInsert
  <2>1. retryCount' = retryCount /\ prepared' = prepared
    BY <1>2 DEF PrepareInsert, enqueue, queueVars
  <2> QED
    BY <2>1 DEF NoEarlyRetry
<1>3. CASE PrepareFinish
  BY <1>3 DEF PrepareFinish, NoEarlyRetry
<1>4. CASE PrepareCrash \/ Tick \/ UNCHANGED vars
  BY <1>4 DEF PrepareCrash, Tick, vars, queueVars, prepareVars, NoEarlyRetry
<1>5. ASSUME NEW w \in Workers, Start(w) \/ WorkerStep(w) \/ Crash(w)
      PROVE  prepared'
  BY <1>5 DEF Start, WorkerStep, Crash, Lease, ExitOnEmpty, ExitOnLimit,
       UnknownTask, MarkRunning, Register, Decide, FailRetryably, MarkCompleted,
       MarkCompletedRaises, MarkCompletedLost, MarkFailedSelect, MarkFailedUpdate,
       CleanupForRetry, prepareVars, NoEarlyWorker
<1> QED
  BY <1>1, <1>2, <1>3, <1>4, <1>5 DEF Next, Prepare, NoEarlyRetry

(* The phase that stands for each status. *)
LEMMA PhaseTable ==
  ASSUME NEW a
  PROVE  /\ status[a] = "absent" => PhaseOf(a) = "unlisted"
         /\ status[a] = "pending" => PhaseOf(a) = "open"
         /\ status[a] \in InFlight => PhaseOf(a) = "taken"
         /\ status[a] \in Terminal => PhaseOf(a) = "over"
         /\ status'[a] = "absent" => PhaseOf(a)' = "unlisted"
         /\ status'[a] = "pending" => PhaseOf(a)' = "open"
         /\ status'[a] \in InFlight => PhaseOf(a)' = "taken"
         /\ status'[a] \in Terminal => PhaseOf(a)' = "over"
BY DEF PhaseOf, InFlight, Terminal

(* Who holds a row, once rows name their holders: exactly the live worker that
   has it in hand. *)
LEMMA HolderIs ==
  ASSUME HolderOwnsRow, NEW w \in Workers, NEW a \in Attempts, Holds(w, a)
  PROVE  HolderOf(a) = w
BY DEF HolderOwnsRow, HeldRow, Holds, HolderOf

(* And nobody, if no live worker has it in hand. *)
LEMMA HolderIsNone ==
  ASSUME NEW a \in Attempts, \A w \in Workers : ~Holds(w, a)
  PROVE  HolderOf(a) = None
BY DEF HolderOf

(* A row's holder stays the same when the workers that have it stay the same. *)
LEMMA HolderStays ==
  ASSUME HolderOwnsRow, HolderOwnsRow', NEW a \in Attempts,
         \A w \in Workers : Holds(w, a)' <=> Holds(w, a)
  PROVE  HolderOf(a)' = HolderOf(a)
BY DEF HolderOwnsRow, HeldRow, Holds, HolderOf

(* The invariant under which every step maps to a step of the ledger. *)
LedgerInv == LeaseInv /\ PrepareInv /\ NoEarlyRetry

(* A step that changes no row's phase, holder or count is a stutter of the
   ledger. *)
LEMMA LedgerStutter ==
  ASSUME \A a \in Attempts : /\ PhaseOf(a)' = PhaseOf(a)
                             /\ HolderOf(a)' = HolderOf(a)
                             /\ retryCount'[a] = retryCount[a]
  PROVE  UNCHANGED Ledger!vars
BY DEF Ledger!vars

(* Every step of prepare, the workers and the environment is a step of the
   ledger or changes nothing of it. *)
LEMMA LedgerStep ==
  ASSUME Faults \cap {"overrun", "mark_lost", "prepare_crash"} = {},
         LedgerInv, LedgerInv', [Next]_vars
  PROVE  [Ledger!Next]_(Ledger!vars)
<1> USE QueueAssumption
<1>0. /\ TypeOK /\ HolderOwnsRow /\ NoEarlyWorker /\ LeaseExclusive
      /\ PrepareInv /\ NoEarlyRetry
      /\ HolderOwnsRow' /\ RetryBound /\ SelectStillTrue
  BY OwnerExcludes DEF LeaseInv, LedgerInv
<1>t. /\ pc \in [Workers -> Labels] /\ lease \in [Workers -> 0..NumAttempts]
      /\ status \in [Attempts -> Statuses]
      /\ retryCount \in [Attempts -> Nat]
  BY <1>0 DEF TypeOK, QueueTypeOK, RunTypeOK
<1>h. \A v \in Workers : Holding(v) => lease[v] \in Attempts
  BY <1>0, LeaseIsAttempt
<1> USE DEF Goto
<1>1. CASE PrepareBegin
  <2>1. \A a \in Attempts : status[a] = "absent" /\ retryCount[a] = 0
    BY <1>0, <1>1 DEF PrepareBegin, PrepareInv, NoEarlyRetry
  <2>2. \A a \in Attempts : status'[a] = "absent" /\ retryCount'[a] = 0
    BY <1>1, <2>1 DEF PrepareBegin, clear_all, queueVars
  <2>3. \A a \in Attempts : HolderOf(a)' = HolderOf(a)
    BY <1>0, <1>1, HolderStays DEF PrepareBegin, workerVars, Holds, Holding
  <2> QED
    BY <2>1, <2>2, <2>3, LedgerStutter DEF PhaseOf
<1>2. CASE PrepareInsert
  <2>1. \A a \in Attempts : HolderOf(a)' = HolderOf(a)
    BY <1>0, <1>2, HolderStays DEF PrepareInsert, workerVars, Holds, Holding
  <2>2. CASE status[cursor] # "absent"
    BY <1>2, <2>1, <2>2, LedgerStutter DEF PrepareInsert, enqueue, queueVars, PhaseOf
  <2>3. CASE status[cursor] = "absent"
    <3>1. PICK c \in Attempts : c = cursor
      BY <1>2 DEF PrepareInsert
    <3>2. retryCount' = retryCount /\ status' = [status EXCEPT ![c] = "pending"]
      BY <1>2, <2>3, <3>1 DEF PrepareInsert, enqueue
    <3>3. PhaseOf(c) = "unlisted" /\ PhaseOf(c)' = "open"
      BY <1>t, <2>3, <3>1, <3>2, PhaseTable
    <3>4. \A a \in Attempts \ {c} : PhaseOf(a)' = PhaseOf(a)
      BY <1>t, <3>2 DEF PhaseOf
    <3>5. Ledger!List(c)
      BY <2>1, <3>2, <3>3, <3>4 DEF Ledger!List
    <3> QED
      BY <3>5 DEF Ledger!Next
  <2> QED
    BY <2>2, <2>3
<1>3. CASE PrepareFinish \/ Tick \/ UNCHANGED vars
  <2>1. UNCHANGED <<status, retryCount, pc, lease>>
    BY <1>3 DEF PrepareFinish, Tick, vars, queueVars, workerVars
  <2>2. \A a \in Attempts : HolderOf(a)' = HolderOf(a)
    BY <1>0, <2>1, HolderStays DEF Holds, Holding
  <2> QED
    BY <2>1, <2>2, LedgerStutter DEF PhaseOf
<1>4. CASE PrepareCrash
  BY <1>4 DEF PrepareCrash
<1>5. ASSUME NEW w \in Workers, Start(w) PROVE [Ledger!Next]_(Ledger!vars)
  <2> DEFINE Lost == {a \in Attempts : Stale(a)}
  <2>1. UNCHANGED <<retryCount, lease>> /\ ~Holding(w) /\ pc' = [pc EXCEPT ![w] = "idle"]
    BY <1>5 DEF Start, recover_inflight, Holding
  <2>2. \A a \in Attempts : HolderOf(a)' = HolderOf(a)
    <3>1. \A v \in Workers : Holding(v)' <=> Holding(v)
      BY <1>t, <2>1 DEF Holding
    <3> QED
      BY <1>0, <2>1, <3>1, HolderStays DEF Holds
  <2>3. \A a \in Lost : HolderOf(a) = None
    <3> SUFFICES ASSUME NEW a \in Attempts, Stale(a), NEW v \in Workers, Holds(v, a)
                 PROVE  FALSE
      BY HolderIsNone
    <3> QED
      BY <1>0, HeldNotStale DEF Holds, HolderOwnsRow
  <2>4. \A a \in Lost : PhaseOf(a) = "taken"
    BY PhaseTable DEF Stale
  <2>5. \A a \in Attempts : PhaseOf(a)' = IF a \in Lost THEN "open" ELSE PhaseOf(a)
    <3> SUFFICES ASSUME NEW a \in Attempts
                 PROVE  PhaseOf(a)' = IF a \in Lost THEN "open" ELSE PhaseOf(a)
      OBVIOUS
    <3>1. CASE Stale(a)
      BY <1>5, <3>1, PhaseTable DEF Start, recover_inflight
    <3>2. CASE ~Stale(a)
      <4>1. status'[a] = status[a]
        BY <1>5, <3>2 DEF Start, recover_inflight
      <4>2. PhaseOf(a)' = PhaseOf(a)
        BY <4>1 DEF PhaseOf
      <4> QED
        BY <3>2, <4>2
    <3> QED
      BY <3>1, <3>2
  <2>6. Ledger!Reclaim(Lost)
    BY <2>1, <2>2, <2>3, <2>4, <2>5 DEF Ledger!Reclaim
  <2> QED
    BY <2>6 DEF Ledger!Next
<1>6. ASSUME NEW w \in Workers, Lease(w) PROVE [Ledger!Next]_(Ledger!vars)
  <2>1. PICK b \in Attempts : lease_next(w, b) /\ lease' = [lease EXCEPT ![w] = b]
    BY <1>6 DEF Lease
  <2>2. /\ pc' = [pc EXCEPT ![w] = "leased"] /\ ~Holding(w)
        /\ retryCount' = retryCount /\ status[b] = "pending"
        /\ status' = [status EXCEPT ![b] = "leased"]
    BY <1>6, <2>1 DEF Lease, Holding, lease_next, Oldest, Pending
  <2>3. Holds(w, b)'
    BY <1>t, <2>1, <2>2 DEF Holds, Holding
  <2>4. HolderOf(b)' = w
    BY <1>0, <2>3 DEF HolderOwnsRow, HeldRow, Holds, HolderOf
  <2>5. \A a \in Attempts \ {b} : HolderOf(a)' = HolderOf(a)
    <3>1. ASSUME NEW a \in Attempts \ {b}, NEW v \in Workers
          PROVE  Holds(v, a)' <=> Holds(v, a)
      <4>1. CASE v = w
        BY <1>t, <2>1, <2>2, <4>1 DEF Holds
      <4>2. CASE v # w
        BY <1>t, <2>1, <2>2, <4>2 DEF Holds, Holding
      <4> QED
        BY <4>1, <4>2
    <3> QED
      BY <1>0, <3>1, HolderStays
  <2>6. PhaseOf(b) = "open" /\ PhaseOf(b)' = "taken"
    BY <1>t, <2>2, PhaseTable DEF InFlight
  <2>7. \A a \in Attempts \ {b} : PhaseOf(a)' = PhaseOf(a)
    BY <1>t, <2>2 DEF PhaseOf
  <2>8. Ledger!Take(b, w)
    BY <2>2, <2>4, <2>5, <2>6, <2>7 DEF Ledger!Take
  <2> QED
    BY <2>8 DEF Ledger!Next
<1>7. ASSUME NEW w \in Workers, MarkRunning(w) PROVE [Ledger!Next]_(Ledger!vars)
  <2>1. /\ pc' = [pc EXCEPT ![w] = "starting"] /\ Holding(w)
        /\ UNCHANGED <<lease, retryCount>>
        /\ status' = [status EXCEPT ![lease[w]] = "running"]
    BY <1>7 DEF MarkRunning, Holding, mark_running
  <2>2. \A v \in Workers : Holding(v)' <=> Holding(v)
    BY <1>t, <2>1 DEF Holding
  <2>3. \A a \in Attempts : HolderOf(a)' = HolderOf(a)
    BY <1>0, <2>1, <2>2, HolderStays DEF Holds
  <2>4. status[lease[w]] \in InFlight
    BY <1>0, <2>1 DEF HolderOwnsRow, HeldRow
  <2>5. \A a \in Attempts : PhaseOf(a)' = PhaseOf(a)
    <3> SUFFICES ASSUME NEW a \in Attempts PROVE PhaseOf(a)' = PhaseOf(a)
      OBVIOUS
    <3>1. CASE a = lease[w]
      BY <1>t, <2>1, <2>4, <3>1, PhaseTable DEF InFlight
    <3>2. CASE a # lease[w]
      BY <1>t, <2>1, <3>2 DEF PhaseOf
    <3> QED
      BY <3>1, <3>2
  <2> QED
    BY <2>1, <2>3, <2>5, LedgerStutter
<1>8. ASSUME NEW w \in Workers, NEW b \in Attempts, NEW s \in {"pending", "completed", "failed"},
             Holds(w, b), ~Holding(w)',
             \A v \in Workers \ {w} : pc'[v] = pc[v] /\ lease'[v] = lease[v],
             status' = [status EXCEPT ![b] = s]
      PROVE  /\ PhaseOf(b) = "taken" /\ HolderOf(b) # None
             /\ s = "pending" => PhaseOf(b)' = "open"
             /\ s # "pending" => PhaseOf(b)' = "over"
             /\ HolderOf(b)' = None
             /\ \A a \in Attempts \ {b} : PhaseOf(a)' = PhaseOf(a) /\ HolderOf(a)' = HolderOf(a)
  <2>1. status[b] \in InFlight /\ HolderOf(b) = w
    BY <1>0, <1>8, HolderIs DEF HolderOwnsRow, HeldRow, Holds
  <2>2. /\ PhaseOf(b) = "taken"
        /\ s = "pending" => PhaseOf(b)' = "open"
        /\ s # "pending" => PhaseOf(b)' = "over"
    BY <1>t, <1>8, <2>1, PhaseTable DEF Terminal
  <2>3. \A a \in Attempts \ {b} : PhaseOf(a)' = PhaseOf(a)
    BY <1>t, <1>8 DEF PhaseOf
  <2>4. \A v \in Workers : ~Holds(v, b)'
    <3> SUFFICES ASSUME NEW v \in Workers, Holds(v, b)' PROVE FALSE
      OBVIOUS
    <3>1. v # w
      BY <1>8 DEF Holds
    <3>2. Holds(v, b)
      BY <1>8, <3>1 DEF Holds, Holding
    <3> QED
      BY <1>0, <1>8, <3>1, <3>2 DEF LeaseExclusive, Holds
  <2>5. HolderOf(b)' = None
    BY <2>4 DEF HolderOf
  <2>6. \A a \in Attempts \ {b} : HolderOf(a)' = HolderOf(a)
    <3>1. ASSUME NEW a \in Attempts \ {b}, NEW v \in Workers
          PROVE  Holds(v, a)' <=> Holds(v, a)
      <4>1. CASE v = w
        BY <1>8, <4>1 DEF Holds
      <4>2. CASE v # w
        BY <1>8, <4>2 DEF Holds, Holding
      <4> QED
        BY <4>1, <4>2
    <3> QED
      BY <1>0, <3>1, HolderStays
  <2> QED
    BY <2>1, <2>2, <2>3, <2>5, <2>6
<1>9. ASSUME NEW w \in Workers, MarkCompleted(w) PROVE [Ledger!Next]_(Ledger!vars)
  <2>1. Holding(w) /\ lease[w] \in Attempts
    BY <1>9, <1>h DEF MarkCompleted, Holding
  <2>2. PICK b \in Attempts : b = lease[w] /\ Holds(w, b)
    BY <2>1 DEF Holds
  <2>3. /\ pc' = [pc EXCEPT ![w] = "idle"] /\ lease' = [lease EXCEPT ![w] = 0]
        /\ retryCount' = retryCount /\ status' = [status EXCEPT ![b] = "completed"]
    BY <1>9, <2>2 DEF MarkCompleted, mark_completed, Unlease
  <2>4. /\ ~Holding(w)' /\ \A v \in Workers \ {w} : pc'[v] = pc[v] /\ lease'[v] = lease[v]
    BY <1>t, <2>3 DEF Holding
  <2>5. /\ PhaseOf(b) = "taken" /\ HolderOf(b) # None
        /\ PhaseOf(b)' = "over" /\ HolderOf(b)' = None
        /\ \A a \in Attempts \ {b} : PhaseOf(a)' = PhaseOf(a) /\ HolderOf(a)' = HolderOf(a)
    BY <1>8, <2>2, <2>3, <2>4
  <2>6. Ledger!Close(b)
    BY <2>3, <2>5 DEF Ledger!Close
  <2> QED
    BY <2>6 DEF Ledger!Next
<1>10. ASSUME NEW w \in Workers, MarkFailedUpdate(w) PROVE [Ledger!Next]_(Ledger!vars)
  <2>1. Holding(w) /\ lease[w] \in Attempts
    BY <1>10, <1>h DEF MarkFailedUpdate, Holding
  <2>2. PICK b \in Attempts : b = lease[w] /\ Holds(w, b)
    BY <2>1 DEF Holds
  <2>3. /\ ~Holding(w)' /\ \A v \in Workers \ {w} : pc'[v] = pc[v] /\ lease'[v] = lease[v]
    <3>1. /\ \E l \in {"cleanup", "idle"} : pc' = [pc EXCEPT ![w] = l]
          /\ \A v \in Workers \ {w} : lease'[v] = lease[v]
      BY <1>t, <1>10 DEF MarkFailedUpdate
    <3> QED
      BY <1>t, <3>1 DEF Holding
  <2>4. CASE shouldRetry[w]
    <3>1. /\ status' = [status EXCEPT ![b] = "pending"]
          /\ retryCount' = [retryCount EXCEPT ![b] = @ + 1]
      BY <1>10, <2>2, <2>4 DEF MarkFailedUpdate, mark_failed, Unlease
    <3>2. /\ PhaseOf(b) = "taken" /\ HolderOf(b) # None
          /\ PhaseOf(b)' = "open" /\ HolderOf(b)' = None
          /\ \A a \in Attempts \ {b} : PhaseOf(a)' = PhaseOf(a) /\ HolderOf(a)' = HolderOf(a)
      BY <1>8, <2>2, <2>3, <3>1
    <3>3. retryCount[b] < MaxRetries
      BY <1>0, <1>10, <2>2, <2>4 DEF MarkFailedUpdate, SelectStillTrue, ShouldRetry
    <3>4. \A a \in Attempts : MaxRetries - retryCount'[a] =
            IF a = b THEN (MaxRetries - retryCount[a]) - 1 ELSE MaxRetries - retryCount[a]
      BY <1>t, <3>1
    <3>5. MaxRetries - retryCount[b] > 0
      BY <1>t, <3>3
    <3>6. Ledger!GiveBack(b)
      BY <3>2, <3>4, <3>5 DEF Ledger!GiveBack
    <3> QED
      BY <3>6 DEF Ledger!Next
  <2>5. CASE ~shouldRetry[w]
    <3>1. /\ status' = [status EXCEPT ![b] = "failed"]
          /\ retryCount' = retryCount
      BY <1>10, <2>2, <2>5 DEF MarkFailedUpdate, mark_failed, Unlease
    <3>2. /\ PhaseOf(b) = "taken" /\ HolderOf(b) # None
          /\ PhaseOf(b)' = "over" /\ HolderOf(b)' = None
          /\ \A a \in Attempts \ {b} : PhaseOf(a)' = PhaseOf(a) /\ HolderOf(a)' = HolderOf(a)
      BY <1>8, <2>2, <2>3, <3>1
    <3>3. Ledger!Close(b)
      BY <3>1, <3>2 DEF Ledger!Close
    <3> QED
      BY <3>3 DEF Ledger!Next
  <2> QED
    BY <2>4, <2>5
<1>11. ASSUME NEW w \in Workers, Elsewhere(w) PROVE [Ledger!Next]_(Ledger!vars)
  <2>1. UNCHANGED <<status, retryCount>>
    BY <1>11, ElsewhereFrame DEF queueVars
  <2>2. \A v \in Workers, a \in Attempts : Holds(v, a)' <=> Holds(v, a)
    <3>1. CASE ExitOnEmpty(w) \/ ExitOnLimit(w) \/ CleanupForRetry(w)
      <4>1. /\ ~Holding(w) /\ \E l \in {"exited", "idle"} : pc' = [pc EXCEPT ![w] = l]
            /\ \A v \in Workers \ {w} : lease'[v] = lease[v]
        BY <1>t, <3>1 DEF ExitOnEmpty, ExitOnLimit, CleanupForRetry, Holding
      <4> QED
        BY <1>t, <4>1 DEF Holds, Holding
    <3>2. CASE \/ UnknownTask(w) \/ Register(w) \/ Decide(w) \/ FailRetryably(w)
               \/ MarkCompletedRaises(w) \/ MarkFailedSelect(w)
      <4>1. /\ \E l \in {"update", "executing", "refused", "finished", "select"} :
                 pc' = [pc EXCEPT ![w] = l]
            /\ lease' = lease /\ Holding(w)
        BY <3>2 DEF UnknownTask, Register, Decide, FailRetryably, MarkCompletedRaises,
                    MarkFailedSelect, Holding
      <4> QED
        BY <1>t, <4>1 DEF Holds, Holding
    <3> QED
      BY <1>11, <3>1, <3>2 DEF Elsewhere
  <2>3. \A a \in Attempts : HolderOf(a)' = HolderOf(a)
    BY <1>0, <2>2, HolderStays
  <2> QED
    BY <2>1, <2>3, LedgerStutter DEF PhaseOf
<1>12. ASSUME NEW w \in Workers, Crash(w) PROVE [Ledger!Next]_(Ledger!vars)
  <2>c. retryCount' = retryCount
    BY <1>12 DEF Crash, queueVars
  <2>1. /\ status' = status /\ pc' = [pc EXCEPT ![w] = "down"]
        /\ \A v \in Workers \ {w} : lease'[v] = lease[v]
    BY <1>t, <1>12 DEF Crash, queueVars
  <2>2. \A a \in Attempts : PhaseOf(a)' = PhaseOf(a)
    BY <2>1 DEF PhaseOf
  <2>3. \A v \in Workers, a \in Attempts : Holds(v, a)' <=> v # w /\ Holds(v, a)
    BY <1>t, <2>1 DEF Holds, Holding
  <2>4. \A a \in Attempts : ~Holds(w, a) => HolderOf(a)' = HolderOf(a)
    BY <1>0, <2>3, HolderStays
  <2>5. CASE \A a \in Attempts : ~Holds(w, a)
    BY <2>c, <2>2, <2>4, <2>5, LedgerStutter
  <2>6. CASE \E a \in Attempts : Holds(w, a)
    <3>1. PICK b \in Attempts : Holds(w, b)
      BY <2>6
    <3>2. \A a \in Attempts \ {b} : HolderOf(a)' = HolderOf(a)
      BY <2>4, <3>1 DEF Holds
    <3>3. HolderOf(b) # None /\ PhaseOf(b) = "taken"
      BY <1>0, <3>1, HolderIs, PhaseTable DEF HolderOwnsRow, HeldRow, Holds
    <3>4. HolderOf(b)' = None
      <4>1. \A v \in Workers : ~Holds(v, b)'
        BY <1>0, <2>3, <3>1 DEF LeaseExclusive, Holds
      <4> QED
        BY <4>1 DEF HolderOf
    <3>5. /\ [a \in Attempts |-> PhaseOf(a)]' = [a \in Attempts |-> PhaseOf(a)]
          /\ [a \in Attempts |-> MaxRetries - retryCount[a]]' =
               [a \in Attempts |-> MaxRetries - retryCount[a]]
      BY <2>c, <2>2
    <3>6. [a \in Attempts |-> HolderOf(a)]' =
            [[a \in Attempts |-> HolderOf(a)] EXCEPT ![b] = None]
      BY <3>2, <3>4
    <3>7. Ledger!Lose(b)
      BY <3>3, <3>5, <3>6 DEF Ledger!Lose
    <3> QED
      BY <3>7 DEF Ledger!Next
  <2> QED
    BY <2>5, <2>6
<1> QED
  BY <1>1, <1>2, <1>3, <1>4, <1>5, <1>6, <1>7, <1>9, <1>10, <1>11, <1>12
     DEF Next, Prepare, WorkerStep, Elsewhere, MarkCompletedLost

(* As long as no trial outlives its lease, no served mark_completed loses its
   answer and prepare does not die among its inserts, the table, the statements on it, prepare and the workers together
   implement AttemptLedger: one live worker per attempt, at most MaxRetries
   give-backs, a trial reclaimed only when the worker that had it is gone, and
   nothing after the end. *)
THEOREM QueueImplementsLedger ==
  ASSUME Faults \cap {"overrun", "mark_lost", "prepare_crash"} = {}
  PROVE  Spec => ImplementsLedger
<1>1. Init => LedgerInv
  BY LeaseInit DEF Init, QueueInit, LedgerInv, PrepareInv, NoEarlyRetry, Attempts
<1>2. LedgerInv /\ [Next]_vars => LedgerInv'
  BY LeaseStep, PrepareStep, EarlyRetryStep DEF LedgerInv, LeaseInv
<1>3. Init => Ledger!Init
  <2> SUFFICES ASSUME Init PROVE Ledger!Init
    OBVIOUS
  <2>1. \A a \in Attempts : /\ PhaseOf(a) = "unlisted" /\ HolderOf(a) = None
                            /\ MaxRetries - retryCount[a] = MaxRetries
    BY QueueAssumption, PhaseTable DEF Init, QueueInit, HolderOf
  <2> QED
    BY <2>1 DEF Ledger!Init
<1>4. LedgerInv /\ LedgerInv' /\ [Next]_vars => [Ledger!Next]_(Ledger!vars)
  BY LedgerStep
<1> QED
  BY <1>1, <1>2, <1>3, <1>4, PTL DEF Spec, ImplementsLedger, Ledger!Spec
=============================================================================
