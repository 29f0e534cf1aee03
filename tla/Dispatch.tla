------------------------------ MODULE Dispatch ------------------------------
(***************************************************************************)
(* A run whose trials are dispatched as a whole: on remote nodes, on       *)
(* spawned worker processes (NodeDispatch), or on a thread pool            *)
(* (ThreadJobs), as the run's dispatch configuration says.                 *)
(***************************************************************************)
EXTENDS NodeDispatch, ThreadJobs

vars == <<dispatchVars, jobVars>>

TypeOK == DispatchTypeOK /\ JobTypeOK

Init ==
  /\ mode \in Modes
  /\ DispatchInit
  /\ JobInit

\* The run is over and every pool thread has come back.
Over ==
  /\ IF mode = "thread"
     THEN pool = "closed" /\ \A j \in Jobs : caller[j] \in {"idle", "returned", "refused"}
     ELSE /\ orch = "ended"
          /\ InFlight = {}
          /\ \A n \in Nodes : serving[n] = NoTrial
  /\ UNCHANGED vars

Next ==
  \/ mode # "thread" /\ DispatchNext /\ UNCHANGED jobVars
  \/ mode = "thread" /\ JobNext /\ UNCHANGED dispatchVars
  \/ Over

Spec == Init /\ [][Next]_vars

(***************************************************************************)
(* Properties                                                              *)
(***************************************************************************)

\* No wake-up is lost: while threads sleep in lease(), at least as many threads
\* are on their way to the lock as there are free nodes, although release()
\* notifies only one and a thread may time out in the moment it is notified.
WakeupsCover ==
  waiters # {} =>
    Cardinality(Free) <= Cardinality({t \in Trials : thread[t] = "waiting" /\ t \notin waiters})

\* A trial that holds a node finds it idle (never NodeBusy), except for a trial
\* whose call was cut and which the node still runs, or leases given back by a
\* close() that did not wait for their trials.
HolderFindsItIdle ==
  \A t \in Trials, n \in Nodes :
    /\ lease[t] = n
    /\ serving[n] \notin {NoTrial, t}
    => serving[n] \in cut \/ orch \in {"releasing", "terminate", "ended"}

\* A trial runs on one node at a time, retries included, unless a call was cut.
OneExecution ==
  \A t \in Trials, m, n \in Nodes :
    serving[m] = t /\ serving[n] = t => m = n \/ t \in cut

\* Nothing is left behind.  A thread that has left run_trial_node left no lease,
\* whatever way it left, and also when close() took its entry: then close() gives
\* it back.  When the run is over so is each of its worker processes, the one
\* whose start failed and the one a late trial was using included.
NothingLeft ==
  /\ \A t \in Trials :
       thread[t] \in {"idle", "returned", "done"} =>
         lease[t] = NoNode \/ (orch = "releasing" /\ t \in todo)
  /\ mode = "subprocess" /\ orch = "ended" => Alive = {}
=============================================================================
