---------------------------- MODULE NodeDispatch ----------------------------
(***************************************************************************)
(* Whole trials shipped to trial nodes: GrpcNodeDispatchAdapter on a       *)
(* registry of configured nodes (mode "grpc_node"), or LocalDispatchAdapter*)
(* with worker processes it spawns itself (mode "subprocess"); the trial   *)
(* node's RunTrial; and the orchestrator that connects, dispatches, stops  *)
(* and closes.                                                             *)
(*                                                                         *)
(* A pool thread per trial:  idle -> lease (-> waiting) -> record ->       *)
(* connect -> call -> running -> release -> unlease -> returned -> done.   *)
(* The orchestrator:  spawn -> running (-> cancel <-> kill) -> close ->    *)
(* releasing -> terminate -> ended.                                        *)
(***************************************************************************)
EXTENDS NodeRegistry

CONSTANTS
  NoTrial,
  Sizes,        \* what a run may have: <<trials to run, nodes>>
  MaxRetries,   \* retries of a trial whose dispatch raised
  Faults,       \* among "cut", "node_dies", "no_listen", "stop"
  MaxFaults     \* bound on calls cut and nodes dying

ASSUME DispatchAssumption ==
  /\ NoTrial \notin Trials
  /\ Sizes \subseteq Nat \X Nodes
  /\ MaxRetries \in Nat
  /\ Faults \subseteq {"cut", "node_dies", "no_listen", "stop"}
  /\ MaxFaults \in Nat

VARIABLES
  mode,            \* which adapter the run has
  workers,         \* how many nodes are configured, or spawned
  thread,          \* where the thread of each trial is
  node,            \* the node the thread's client talks to
  expired,         \* whether the deadline of its lease() has passed
  outcome,         \* of a dispatch that ended: "verdict" (a result, or a failure
                   \* that is not retried) or "transient" (raises)
  retries,         \* how often the trial was dispatched again
  adapterLeases,   \* keys of GrpcNodeDispatchAdapter._leases
  proc,            \* of each node's process: absent, spawned, up or dead
  serving,         \* the trial that holds the node's _trial_lock
  orch,            \* where the orchestrator is
  todo,            \* trials its present loop still has to go through
  target,          \* the node of the worker it is about to terminate
  cut,             \* history: trials that lost a call to a node that went on
  faults           \* history: calls cut and nodes dead so far

threadVars == <<thread, node, expired, outcome, retries>>
nodeVars == <<proc, serving>>
orchVars == <<orch, todo, target>>
config == <<mode, workers>>
hist == <<cut, faults>>
dispatchVars == <<registryVars, config, threadVars, adapterLeases, nodeVars, orchVars, hist>>

Modes == {"grpc_node", "subprocess", "thread"}
InFlight == {t \in Trials : thread[t] \notin {"idle", "returned", "done"}}
Alive == {n \in Nodes : proc[n] \in {"spawned", "up"}}

DispatchTypeOK ==
  /\ RegistryTypeOK
  /\ mode \in Modes
  /\ workers \in Nodes
  /\ thread \in [Trials -> {"idle", "lease", "waiting", "record", "connect", "call",
                            "running", "release", "unlease", "returned", "done"}]
  /\ node \in [Trials -> Nodes \cup {NoNode}]
  /\ \A t \in Trials : thread[t] \in {"record", "connect", "call", "running"} => node[t] \in Nodes
  /\ expired \in [Trials -> BOOLEAN]
  /\ outcome \in [Trials -> {"none", "verdict", "transient"}]
  /\ retries \in [Trials -> 0..MaxRetries]
  /\ adapterLeases \subseteq Trials
  /\ proc \in [Nodes -> {"absent", "spawned", "up", "dead"}]
  /\ serving \in [Nodes -> Trials \cup {NoTrial}]
  /\ orch \in {"spawn", "running", "cancel", "kill", "close", "releasing", "terminate", "ended"}
  /\ todo \subseteq Trials
  /\ target \in Nodes \cup {NoNode}
  /\ cut \subseteq Trials
  /\ faults \in 0..MaxFaults

\* connect() of "thread" mode starts a pool instead (ThreadJobs).
\* A resumed run has trials that are done.
DispatchInit ==
  /\ \E size \in Sizes, S \in SUBSET Trials :
       /\ Cardinality(S) = size[1]
       /\ thread = [t \in Trials |-> IF t \in S THEN "idle" ELSE "done"]
       /\ workers = size[2]
  /\ registered = IF mode = "grpc_node" THEN 1..workers ELSE {}
  /\ lease = [t \in Trials |-> NoNode]
  /\ waiters = {}
  /\ node = [t \in Trials |-> NoNode]
  /\ expired = [t \in Trials |-> FALSE]
  /\ outcome = [t \in Trials |-> "none"]
  /\ retries = [t \in Trials |-> 0]
  /\ adapterLeases = {}
  /\ proc = [n \in Nodes |-> IF mode = "grpc_node" /\ n <= workers THEN "up" ELSE "absent"]
  /\ serving = [n \in Nodes |-> NoTrial]
  /\ orch = IF mode = "grpc_node" THEN "running" ELSE "spawn"
  /\ todo = {}
  /\ target = NoNode
  /\ cut = {}
  /\ faults = 0

(***************************************************************************)
(* Pool threads: GrpcNodeDispatchAdapter.run_trial_node                    *)
(***************************************************************************)

Fault(f) ==
  /\ f \in Faults
  /\ faults < MaxFaults
  /\ faults' = faults + 1

Goto(t, pc) == thread' = [thread EXCEPT ![t] = pc]

\* The call is over with outcome o, and the finally clause is next.
Ends(t, o) ==
  /\ Goto(t, "release")
  /\ outcome' = [outcome EXCEPT ![t] = o]

\* run_trial_node is over; its locals are gone.
Back(t) ==
  /\ Goto(t, "returned")
  /\ node' = [node EXCEPT ![t] = NoNode]
  /\ expired' = [expired EXCEPT ![t] = FALSE]

\* A pool thread takes the trial up and enters registry.lease().
Dispatch(t) ==
  /\ orch = "running"
  /\ thread[t] = "idle"
  /\ Goto(t, "lease")
  /\ UNCHANGED <<registryVars, config, node, expired, outcome, retries, adapterLeases, nodeVars,
                 orchVars, hist>>

\* Whether t's thread can have the lock inside lease(): it arrives, it was
\* notified, or its wait() timed out.
AtLock(t) ==
  \/ thread[t] = "lease"
  \/ thread[t] = "waiting" /\ (t \notin waiters \/ expired[t])

Leased(t, n) ==
  /\ AtLock(t)
  /\ LeaseFound(t, n)
  /\ Goto(t, "record")
  /\ node' = [node EXCEPT ![t] = n]
  /\ expired' = [expired EXCEPT ![t] = FALSE]
  /\ UNCHANGED <<config, outcome, retries, adapterLeases, nodeVars, orchVars, hist>>

\* TimeoutError: raised before the try, so no release follows.
NoNodeInTime(t) ==
  /\ AtLock(t)
  /\ expired[t]
  /\ LeaseTimesOut(t)
  /\ Back(t)
  /\ outcome' = [outcome EXCEPT ![t] = "transient"]
  /\ UNCHANGED <<config, retries, adapterLeases, nodeVars, orchVars, hist>>

WaitForNode(t) ==
  /\ AtLock(t)
  /\ ~expired[t]
  /\ LeaseWaits(t)
  /\ Goto(t, "waiting")
  /\ UNCHANGED <<config, node, expired, outcome, retries, adapterLeases, nodeVars, orchVars, hist>>

\* lease_timeout_s goes by.
DeadlinePasses(t) ==
  /\ thread[t] \in {"lease", "waiting"}
  /\ ~expired[t]
  /\ expired' = [expired EXCEPT ![t] = TRUE]
  /\ UNCHANGED <<registryVars, config, thread, node, outcome, retries, adapterLeases, nodeVars,
                 orchVars, hist>>

RecordLease(t) ==
  /\ thread[t] = "record"
  /\ adapterLeases' = adapterLeases \cup {t}
  /\ Goto(t, "connect")
  /\ UNCHANGED <<registryVars, config, node, expired, outcome, retries, nodeVars, orchVars, hist>>

\* connect(): HealthCheck until it answers or the budget is gone, then the
\* protocol and message-size pre-flight, which may refuse the node.
Connect(t) ==
  /\ thread[t] = "connect"
  /\ \/ proc[node[t]] = "up" /\ Goto(t, "call") /\ UNCHANGED <<outcome, faults>>
     \/ proc[node[t]] = "up" /\ Ends(t, "verdict") /\ UNCHANGED faults
     \/ proc[node[t]] # "up" /\ Ends(t, "transient") /\ UNCHANGED faults
     \/ Fault("cut") /\ Ends(t, "transient")
  /\ UNCHANGED <<registryVars, config, node, expired, retries, adapterLeases, nodeVars, orchVars, cut>>

\* RunTrial arrives: refused for its protocol or schema, or because another
\* trial has the lock, or started.
RunTrial(t) ==
  LET n == node[t] IN
  /\ thread[t] = "call"
  /\ \/ proc[n] # "up" /\ Ends(t, "transient") /\ UNCHANGED serving
     \/ proc[n] = "up" /\ Ends(t, "verdict") /\ UNCHANGED serving
     \/ /\ proc[n] = "up"
        /\ serving[n] # NoTrial
        /\ Ends(t, "transient")
        /\ UNCHANGED serving
     \/ /\ proc[n] = "up"
        /\ serving[n] = NoTrial
        /\ serving' = [serving EXCEPT ![n] = t]
        /\ Goto(t, "running")
        /\ UNCHANGED outcome
  /\ UNCHANGED <<registryVars, config, node, expired, retries, adapterLeases, proc, orchVars, hist>>

\* The node is through with its trial, in any of the ways _run and
\* classify_trial_exception know, and replies if the caller still listens.
NodeFinishes(n, o) ==
  LET t == serving[n] IN
  /\ t # NoTrial
  /\ serving' = [serving EXCEPT ![n] = NoTrial]
  /\ IF thread[t] = "running" /\ node[t] = n
     THEN Ends(t, o)
     ELSE UNCHANGED <<thread, outcome>>
  /\ UNCHANGED <<registryVars, config, node, expired, retries, adapterLeases, proc, orchVars, hist>>

\* The call breaks: its process died, or the connection did while the node
\* goes on.
CallBreaks(t) ==
  /\ thread[t] = "running"
  /\ \/ proc[node[t]] = "dead" /\ UNCHANGED hist
     \/ proc[node[t]] = "up" /\ Fault("cut") /\ cut' = cut \cup {t}
  /\ Ends(t, "transient")
  /\ UNCHANGED <<registryVars, config, node, expired, retries, adapterLeases, nodeVars, orchVars>>

\* A slip: the release is left to close().
PopLeaseLater(t) ==
  /\ thread[t] = "release"
  /\ Back(t)
  /\ UNCHANGED <<registryVars, config, outcome, retries, adapterLeases, nodeVars, orchVars, hist>>

\* _release(): out of the adapter's table first ...
PopLease(t) ==
  /\ thread[t] = "release"
  /\ adapterLeases' = adapterLeases \ {t}
  /\ IF t \in adapterLeases
     THEN Goto(t, "unlease") /\ UNCHANGED <<node, expired>>
     ELSE Back(t)
  /\ UNCHANGED <<registryVars, config, outcome, retries, nodeVars, orchVars, hist>>

\* ... then out of the registry.
Unlease(t) ==
  /\ thread[t] = "unlease"
  /\ ReleaseLease(t)
  /\ Back(t)
  /\ UNCHANGED <<config, outcome, retries, adapterLeases, nodeVars, orchVars, hist>>

(***************************************************************************)
(* Orchestrator.run and the adapters' connect and close                    *)
(***************************************************************************)

\* A slip: the signal is sent and the trial goes on.
TerminatedLingers(n) ==
  /\ proc' = [proc EXCEPT ![n] = IF @ \in {"spawned", "up"} THEN "dead" ELSE @]
  /\ UNCHANGED serving

\* _terminate(): a worker that is gone already is left alone.
Terminated(n) ==
  /\ proc' = [proc EXCEPT ![n] = IF @ \in {"spawned", "up"} THEN "dead" ELSE @]
  /\ serving' = [serving EXCEPT ![n] = NoTrial]

\* start(): the next worker.
Spawn(n) ==
  /\ orch = "spawn"
  /\ n <= workers
  /\ proc[n] = "absent"
  /\ \A m \in 1..(n - 1) : m \in registered
  /\ proc' = [proc EXCEPT ![n] = "spawned"]
  /\ UNCHANGED <<registryVars, config, threadVars, adapterLeases, serving, orchVars, hist>>

\* ... listens and is registered; after the last one the run begins ...
Listens(n) ==
  /\ orch = "spawn"
  /\ proc[n] = "spawned"
  /\ proc' = [proc EXCEPT ![n] = "up"]
  /\ RegisterNode(n)
  /\ orch' = IF n = workers THEN "running" ELSE "spawn"
  /\ UNCHANGED <<config, threadVars, adapterLeases, serving, todo, target, hist>>

\* ... or exits early, or never listens: connect() raises and the finally
\* clauses of start() and run() both close.
ListenFails(n) ==
  /\ "no_listen" \in Faults
  /\ orch = "spawn"
  /\ proc[n] = "spawned"
  /\ proc' \in {proc, [proc EXCEPT ![n] = "dead"]}
  /\ orch' = "close"
  /\ UNCHANGED <<registryVars, config, threadVars, adapterLeases, serving, todo, target, hist>>

\* A slip: no bound on the retries.
CollectRetries(t) ==
  /\ orch = "running"
  /\ thread[t] = "returned"
  /\ IF outcome[t] = "transient"
     THEN Goto(t, "idle") /\ retries' = [retries EXCEPT ![t] = @ + 1]
     ELSE Goto(t, "done") /\ UNCHANGED retries
  /\ outcome' = [outcome EXCEPT ![t] = "none"]
  /\ UNCHANGED <<registryVars, config, node, expired, adapterLeases, nodeVars, orchVars, hist>>

\* The future of t is done: RemoteTrialExecutor.execute made a failure
\* bundle of a refusal, and an exception is retried.
Collect(t) ==
  /\ orch = "running"
  /\ thread[t] = "returned"
  /\ IF outcome[t] = "transient" /\ retries[t] < MaxRetries
     THEN /\ Goto(t, "idle")
          /\ retries' = [retries EXCEPT ![t] = @ + 1]
     ELSE Goto(t, "done") /\ UNCHANGED retries
  /\ outcome' = [outcome EXCEPT ![t] = "none"]
  /\ UNCHANGED <<registryVars, config, node, expired, adapterLeases, nodeVars, orchVars, hist>>

AllDone ==
  /\ orch = "running"
  /\ \A t \in Trials : thread[t] = "done"
  /\ orch' = "close"
  /\ UNCHANGED <<registryVars, config, threadVars, adapterLeases, nodeVars, todo, target, hist>>

\* An exception or Ctrl-C in the run loop: every active future is cancelled.
\* A remote node cannot be cancelled (DispatchUnsupported, logged).
Stop ==
  /\ "stop" \in Faults
  /\ orch = "running"
  /\ orch' = IF mode = "subprocess" THEN "cancel" ELSE "close"
  /\ todo' = IF mode = "subprocess"
             THEN {t \in Trials : thread[t] \notin {"idle", "done"}} ELSE {}
  /\ UNCHANGED <<registryVars, config, threadVars, adapterLeases, nodeVars, target, hist>>

\* terminate_worker_for_trial: the look-up, under the lock ...
CancelLookup(t) ==
  /\ orch = "cancel"
  /\ t \in todo
  /\ todo' = todo \ {t}
  /\ target' = lease[t]
  /\ orch' = IF lease[t] = NoNode THEN "cancel" ELSE "kill"
  /\ UNCHANGED <<registryVars, config, threadVars, adapterLeases, nodeVars, hist>>

\* ... and the kill, outside it.
CancelKill ==
  /\ orch = "kill"
  /\ Terminated(target)
  /\ target' = NoNode
  /\ orch' = "cancel"
  /\ UNCHANGED <<registryVars, config, threadVars, adapterLeases, todo, hist>>

CancelEnds ==
  /\ orch = "cancel"
  /\ todo = {}
  /\ orch' = "close"
  /\ UNCHANGED <<registryVars, config, threadVars, adapterLeases, nodeVars, todo, target, hist>>

\* GrpcNodeDispatchAdapter.close(): empties its table ...
CloseAdapter ==
  /\ orch = "close"
  /\ todo' = adapterLeases
  /\ adapterLeases' = {}
  /\ orch' = "releasing"
  /\ UNCHANGED <<registryVars, config, threadVars, nodeVars, target, hist>>

\* ... and releases what was in it, one by one.
CloseReleases(t) ==
  /\ orch = "releasing"
  /\ t \in todo
  /\ todo' = todo \ {t}
  /\ ReleaseLease(t)
  /\ UNCHANGED <<config, threadVars, adapterLeases, nodeVars, orch, target, hist>>

CloseReleased ==
  /\ orch = "releasing"
  /\ todo = {}
  /\ orch' = IF mode = "subprocess" THEN "terminate" ELSE "ended"
  /\ UNCHANGED <<registryVars, config, threadVars, adapterLeases, nodeVars, todo, target, hist>>

\* SpawningNodeRegistry.close(): every process of _procs ...
CloseTerminates(n) ==
  /\ orch = "terminate"
  /\ n \in Alive
  /\ Terminated(n)
  /\ UNCHANGED <<registryVars, config, threadVars, adapterLeases, orchVars, hist>>

\* ... then the tables.
CloseResets ==
  /\ orch = "terminate"
  /\ Alive = {}
  /\ ResetNodes
  /\ orch' = "ended"
  /\ UNCHANGED <<config, threadVars, adapterLeases, nodeVars, todo, target, hist>>

\* A node's process dies by itself.
NodeDies(n) ==
  /\ Fault("node_dies")
  /\ proc[n] = "up"
  /\ Terminated(n)
  /\ UNCHANGED <<registryVars, config, threadVars, adapterLeases, orchVars, cut>>

ThreadStep(t) ==
  \/ Dispatch(t)
  \/ \E n \in Nodes : Leased(t, n)
  \/ NoNodeInTime(t)
  \/ WaitForNode(t)
  \/ RecordLease(t)
  \/ Connect(t)
  \/ RunTrial(t)
  \/ CallBreaks(t)
  \/ PopLease(t)
  \/ Unlease(t)

OrchestratorStep ==
  \/ \E n \in Nodes : Spawn(n) \/ Listens(n) \/ ListenFails(n) \/ CloseTerminates(n)
  \/ \E t \in Trials : Collect(t) \/ CancelLookup(t) \/ CloseReleases(t)
  \/ AllDone
  \/ CancelKill
  \/ CancelEnds
  \/ CloseAdapter
  \/ CloseReleased
  \/ CloseResets

Replies == {"verdict", "transient"}

DispatchNext ==
  \/ \E t \in Trials : ThreadStep(t) \/ DeadlinePasses(t)
  \/ \E n \in Nodes : NodeDies(n) \/ \E o \in Replies : NodeFinishes(n, o)
  \/ OrchestratorStep
  \/ Stop
=============================================================================
