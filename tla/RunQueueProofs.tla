--------------------------- MODULE RunQueueProofs ---------------------------
(***************************************************************************)
(* Lemmas about the operations of RunQueue, for the proofs of the modules  *)
(* that call them.                                                         *)
(***************************************************************************)
EXTENDS RunQueue, TLAPS

-----------------------------------------------------------------------------
(* The operations of the queue keep its columns in their types. *)

(* An insert, or an ignored one. *)
LEMMA EnqueueType ==
  ASSUME QueueTypeOK, now' = now, NEW a \in Attempts, enqueue(a)
  PROVE  QueueTypeOK'
<1>1. CASE status[a] = "absent"
  BY <1>1, QueueAssumption DEF QueueTypeOK, enqueue, Statuses
<1>2. CASE status[a] # "absent"
  BY <1>2 DEF QueueTypeOK, enqueue, queueVars
<1> QED
  BY <1>1, <1>2

(* The deletion of every row. *)
LEMMA ClearType ==
  ASSUME QueueTypeOK, now' = now, clear_all
  PROVE  QueueTypeOK'
BY DEF QueueTypeOK, clear_all, Statuses, NoExpiry

(* The recovery of any set of rows. *)
LEMMA RecoverType ==
  ASSUME QueueTypeOK, now' = now, recover_inflight
  PROVE  QueueTypeOK'
BY QueueAssumption DEF QueueTypeOK, recover_inflight, Statuses

(* A lease, of whichever row. *)
LEMMA LeaseType ==
  ASSUME QueueTypeOK, now' = now,
         NEW w \in Workers, NEW a \in Attempts, lease_next(w, a)
  PROVE  QueueTypeOK'
BY QueueAssumption DEF QueueTypeOK, lease_next, Statuses, InFlight

(* mark_running, whatever the row's state. *)
LEMMA MarkRunningType ==
  ASSUME QueueTypeOK, now' = now,
         NEW w \in Workers, NEW a \in Attempts, mark_running(a, w)
  PROVE  QueueTypeOK'
BY QueueAssumption DEF QueueTypeOK, mark_running, Statuses, InFlight

(* mark_completed, whatever the row's state. *)
LEMMA MarkCompletedType ==
  ASSUME QueueTypeOK, now' = now, NEW a \in Attempts, mark_completed(a)
  PROVE  QueueTypeOK'
BY QueueAssumption DEF QueueTypeOK, mark_completed, Unlease, Statuses, Terminal

(* The UPDATE of mark_failed, for either decision. *)
LEMMA MarkFailedType ==
  ASSUME QueueTypeOK, now' = now, NEW a \in Attempts,
         NEW retry \in BOOLEAN, mark_failed(a, retry)
  PROVE  QueueTypeOK'
<1>1. CASE retry
  BY <1>1, QueueAssumption DEF QueueTypeOK, mark_failed, Unlease, Statuses
<1>2. CASE ~retry
  BY <1>2, QueueAssumption DEF QueueTypeOK, mark_failed, Unlease, Statuses, Terminal
<1> QED
  BY <1>1, <1>2

(* A step that leaves the table and the clock alone. *)
LEMMA QueueFrame ==
  ASSUME QueueTypeOK, UNCHANGED <<now, queueVars>>
  PROVE  QueueTypeOK'
BY DEF QueueTypeOK, queueVars
=============================================================================
