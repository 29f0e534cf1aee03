----------------------------- MODULE MCDispatch -----------------------------
(* Instances of Dispatch for TLC. *)
EXTENDS Dispatch, TLC

CONSTANTS t1, t2, t3, j1, j2, j3

ThreeTrials == {t1, t2, t3}
ThreeJobs == {j1, j2, j3}
Sizes32 == {<<3, 1>>, <<2, 2>>}
Symmetry == Permutations(Trials) \cup Permutations(Jobs)
AllFaults == {"cut", "node_dies", "no_listen", "stop"}
=============================================================================
