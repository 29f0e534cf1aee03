--------------------------- MODULE MCGradeBroker ----------------------------
(* Instances of GradeBroker for TLC. *)
EXTENDS GradeBroker, TLC

CONSTANTS j1, j2, g1, g2

TwoJobs == {j1, j2}
TwoGraders == {g1, g2}
=============================================================================
