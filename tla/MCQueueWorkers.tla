--------------------------- MODULE MCQueueWorkers ---------------------------
(* Instances of QueueWorkers for TLC. *)
EXTENDS QueueWorkers, TLC

CONSTANTS w1, w2

TwoWorkers == {w1, w2}
Symmetry == Permutations(Workers)

NoFaults == {}
FaultsWithinLease == {"crash", "restart", "limits", "queue_error", "cleanup_error"}
FaultsNoExit == {"prepare_crash", "overrun", "queue_error", "mark_lost", "cleanup_error"}
CrashAndRestart == {"crash", "restart"}
LastUnknown == {NumAttempts}
=============================================================================
