------------------------------ MODULE RunQueue ------------------------------
(***************************************************************************)
(* The durable attempt queue of tolokaforge/core/run_queue.py.             *)
(*                                                                         *)
(* One row per (task_id, trial_index); the row's id is its position in the *)
(* list enqueue_many was given.  Every column that decides something is a  *)
(* function of the row id.  SqliteRunQueue and PostgresRunQueue run the    *)
(* same statements in autocommit mode, so each statement is one step;      *)
(* lease_next alone wraps its SELECT and UPDATE in a transaction.          *)
(*                                                                         *)
(* This module has the operations.  Who calls them, and in which order, is *)
(* in the modules that extend it (QueueWorkers).                           *)
(***************************************************************************)
EXTENDS Integers

CONSTANTS
  NumAttempts,   \* rows: |tasks| * repeats
  Workers,       \* processes that may hold a lease
  MaxRetries,    \* orchestrator.max_attempt_retries, the row's max_retries
  LeaseTicks,    \* max(300, 2 * episode_s): lease_seconds and max_lease_age_s
  MaxNow,        \* bound on the clock
  None           \* SQL NULL in lease_owner

ASSUME QueueAssumption ==
  /\ NumAttempts \in Nat
  /\ MaxRetries \in Nat
  /\ LeaseTicks \in Nat \ {0}
  /\ MaxNow \in Nat
  /\ None \notin Workers

VARIABLES
  now,           \* time.time(), in ticks
  status,        \* column status; "absent" for a row not inserted yet
  retryCount,    \* column retry_count
  leaseOwner,    \* column lease_owner
  leaseExpires,  \* column lease_expires_at
  updatedAt      \* column updated_at

queueVars == <<status, retryCount, leaseOwner, leaseExpires, updatedAt>>

Attempts == 1..NumAttempts
NoExpiry == -1                    \* SQL NULL in lease_expires_at
InFlight == {"leased", "running"}
Terminal == {"completed", "failed"}
Statuses == {"absent", "pending"} \cup InFlight \cup Terminal

QueueTypeOK ==
  /\ now \in 0..MaxNow
  /\ status \in [Attempts -> Statuses]
  /\ retryCount \in [Attempts -> Nat]
  /\ leaseOwner \in [Attempts -> Workers \cup {None}]
  /\ leaseExpires \in [Attempts -> Nat \cup {NoExpiry}]
  /\ updatedAt \in [Attempts -> Nat]

QueueInit ==
  /\ now = 0
  /\ status = [a \in Attempts |-> "absent"]
  /\ retryCount = [a \in Attempts |-> 0]
  /\ leaseOwner = [a \in Attempts |-> None]
  /\ leaseExpires = [a \in Attempts |-> NoExpiry]
  /\ updatedAt = [a \in Attempts |-> 0]

-----------------------------------------------------------------------------
(* enqueue, and one row of enqueue_many: INSERT OR IGNORE / ON CONFLICT DO
   NOTHING, so a row that is there keeps its state. *)
enqueue(a) ==
  IF status[a] = "absent"
  THEN /\ status' = [status EXCEPT ![a] = "pending"]
       /\ updatedAt' = [updatedAt EXCEPT ![a] = now]
       /\ UNCHANGED <<retryCount, leaseOwner, leaseExpires>>
  ELSE UNCHANGED queueVars

(* DELETE FROM attempts *)
clear_all ==
  /\ status' = [a \in Attempts |-> "absent"]
  /\ retryCount' = [a \in Attempts |-> 0]
  /\ leaseOwner' = [a \in Attempts |-> None]
  /\ leaseExpires' = [a \in Attempts |-> NoExpiry]
  /\ updatedAt' = [a \in Attempts |-> 0]

(* Slips in the WHERE clause: no test on the lease, none on the status, and
   NULL leases only. *)
StaleAnyLease(a) == status[a] \in InFlight

StaleAnyStatus(a) ==
  \/ leaseExpires[a] = NoExpiry
  \/ leaseExpires[a] < now
  \/ updatedAt[a] < now - LeaseTicks

StaleUnleased(a) == status[a] \in InFlight /\ leaseExpires[a] = NoExpiry

(* The WHERE clause of recover_inflight. *)
Stale(a) ==
  /\ status[a] \in InFlight
  /\ \/ leaseExpires[a] = NoExpiry
     \/ leaseExpires[a] < now
     \/ updatedAt[a] < now - LeaseTicks

recover_inflight ==
  /\ status' = [a \in Attempts |-> IF Stale(a) THEN "pending" ELSE status[a]]
  /\ leaseOwner' = [a \in Attempts |-> IF Stale(a) THEN None ELSE leaseOwner[a]]
  /\ leaseExpires' = [a \in Attempts |->
                        IF Stale(a) THEN NoExpiry ELSE leaseExpires[a]]
  /\ updatedAt' = [a \in Attempts |-> IF Stale(a) THEN now ELSE updatedAt[a]]
  /\ UNCHANGED retryCount

Pending == {a \in Attempts : status[a] = "pending"}

(* ORDER BY updated_at ASC, id ASC *)
Precedes(a, b) ==
  updatedAt[a] < updatedAt[b] \/ (updatedAt[a] = updatedAt[b] /\ a <= b)

(* A slip: rows already leased are candidates too. *)
OldestLeasable(a) ==
  LET leasable == {b \in Attempts : status[b] \in {"pending", "leased"}}
  IN a \in leasable /\ \A b \in leasable : Precedes(a, b)

(* The row the SELECT of lease_next returns. *)
Oldest(a) == a \in Pending /\ \A b \in Pending : Precedes(a, b)

lease_next(w, a) ==
  /\ Oldest(a)
  /\ status' = [status EXCEPT ![a] = "leased"]
  /\ leaseOwner' = [leaseOwner EXCEPT ![a] = w]
  /\ leaseExpires' = [leaseExpires EXCEPT ![a] = now + LeaseTicks]
  /\ updatedAt' = [updatedAt EXCEPT ![a] = now]
  /\ UNCHANGED retryCount

(* mark_running and the two operations below name the row by id alone: neither
   its status nor its owner is looked at. *)
mark_running(a, w) ==
  /\ status' = [status EXCEPT ![a] = "running"]
  /\ leaseOwner' = [leaseOwner EXCEPT ![a] = w]
  /\ updatedAt' = [updatedAt EXCEPT ![a] = now]
  /\ UNCHANGED <<retryCount, leaseExpires>>

Unlease(a, s) ==
  /\ status' = [status EXCEPT ![a] = s]
  /\ leaseOwner' = [leaseOwner EXCEPT ![a] = None]
  /\ leaseExpires' = [leaseExpires EXCEPT ![a] = NoExpiry]
  /\ updatedAt' = [updatedAt EXCEPT ![a] = now]

mark_completed(a) ==
  /\ Unlease(a, "completed")
  /\ UNCHANGED retryCount

(* A slip: one retry too many. *)
ShouldRetryOnceMore(a) == retryCount[a] <= MaxRetries

(* mark_failed is two autocommitted statements.  This is what its SELECT tells
   the caller for retryable = TRUE ... *)
ShouldRetry(a) == retryCount[a] < MaxRetries

(* Slips: the requeue that is not counted, and the one that keeps the status. *)
mark_failed_uncounted(a, shouldRetry) ==
  /\ Unlease(a, IF shouldRetry THEN "pending" ELSE "failed")
  /\ UNCHANGED retryCount

mark_failed_in_place(a, shouldRetry) ==
  IF shouldRetry
  THEN /\ Unlease(a, status[a])
       /\ retryCount' = [retryCount EXCEPT ![a] = @ + 1]
  ELSE /\ Unlease(a, "failed")
       /\ UNCHANGED retryCount

(* ... and this is the UPDATE, with the should_retry computed before it. *)
mark_failed(a, shouldRetry) ==
  IF shouldRetry
  THEN /\ Unlease(a, "pending")
       /\ retryCount' = [retryCount EXCEPT ![a] = @ + 1]
  ELSE /\ Unlease(a, "failed")
       /\ UNCHANGED retryCount
=============================================================================
