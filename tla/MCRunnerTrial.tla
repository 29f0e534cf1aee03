--------------------------- MODULE MCRunnerTrial ---------------------------
(* A small instance of RunnerTrial: every fault, two of them in a run. *)
EXTENDS RunnerTrial
=============================================================================
