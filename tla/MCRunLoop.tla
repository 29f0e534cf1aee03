----------------------------- MODULE MCRunLoop ------------------------------
(* Instances of RunLoop for TLC. *)
EXTENDS RunLoop

CONSTANT orchestrator

OneProcess == {orchestrator}
NoFaults == {}
StopsAndTears == {"stop", "torn", "spec_error"}
AllButTorn == {"stop", "save_error", "spec_error", "early_resume"}
StopOnly == {"stop"}
LastDropped == {NumAttempts}
=============================================================================
