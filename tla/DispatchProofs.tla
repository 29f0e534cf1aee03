--------------------------- MODULE DispatchProofs ---------------------------
(***************************************************************************)
(* Theorems about Dispatch, for any number of jobs, pool threads, trials   *)
(* and nodes.                                                              *)
(***************************************************************************)
EXTENDS Dispatch, FiniteSetTheorems, TLAPS

(* What a job's caller, future, worker, table entry and history can be at the
   same time. *)
NotSubmitted(j) ==
  /\ caller[j] \in {"idle", "called", "refused"}
  /\ future[j] = "none" /\ worker[j] = "off" /\ state[j] = "unknown"
  /\ held[j] = FALSE /\ j \notin ran

Underway(j) ==
  /\ caller[j] = "waiting"
  /\ held[j] = TRUE
  /\ \/ future[j] = "queued" /\ worker[j] = "off" /\ state[j] = "pending" /\ j \notin ran
     \/ future[j] = "executing" /\ worker[j] = "picked" /\ state[j] = "pending" /\ j \notin ran
     \/ future[j] = "executing" /\ worker[j] = "body" /\ state[j] = "running"
     \/ future[j] \in {"result", "error"} /\ worker[j] = "off" /\ state[j] = "running"
     \/ future[j] = "cancelled" /\ worker[j] = "off" /\ state[j] = "cancelled" /\ j \notin ran

Collected(j) ==
  /\ caller[j] = "returned"
  /\ held[j] = FALSE /\ worker[j] = "off"
  /\ \/ future[j] = "result" /\ state[j] = "completed"
     \/ future[j] = "error" /\ state[j] = "failed"
     \/ future[j] = "cancelled" /\ state[j] = "cancelled" /\ j \notin ran

JobShape(j) == NotSubmitted(j) \/ Underway(j) \/ Collected(j)

JobInv == JobTypeOK /\ \A j \in Jobs : JobShape(j)

(* The table of shapes holds when no job has been handed in. *)
LEMMA JobInvInit ==
  JobInit => JobInv
BY DEF JobInit, JobInv, JobTypeOK, JobShape, NotSubmitted

(* An action that changes the entries of one job only keeps the shape of the
   others. *)
LEMMA OthersKeepShape ==
  ASSUME NEW j \in Jobs, JobInv, JobTypeOK', JobShape(j)',
         \A k \in Jobs \ {j} :
           /\ caller'[k] = caller[k] /\ future'[k] = future[k]
           /\ worker'[k] = worker[k] /\ state'[k] = state[k]
           /\ held'[k] = held[k] /\ (k \in ran' <=> k \in ran)
  PROVE  JobInv'
BY DEF JobInv, JobShape, NotSubmitted, Underway, Collected

(* Every step of a thread, of the pool, of the stop and of close keeps it. *)
LEMMA JobInvNext ==
  ASSUME JobInv, JobNext
  PROVE  JobInv'
<1>0. JobTypeOK /\ \A j \in Jobs : JobShape(j)
  BY DEF JobInv
<1>1. ASSUME NEW j \in Jobs, Call(j)
      PROVE  JobInv'
  <2>1. JobTypeOK'
    BY <1>0, <1>1 DEF Call, JobTypeOK
  <2>2. JobShape(j)'
    BY <1>0, <1>1 DEF Call, JobTypeOK, JobShape, NotSubmitted, Underway, Collected
  <2> QED
    BY <1>0, <1>1, <2>1, <2>2, OthersKeepShape DEF Call, JobTypeOK
<1>2. ASSUME NEW j \in Jobs, Submit(j)
      PROVE  JobInv'
  <2>1. JobTypeOK'
    BY <1>0, <1>2 DEF Submit, JobTypeOK
  <2>2. JobShape(j)'
    BY <1>0, <1>2 DEF Submit, JobTypeOK, JobShape, NotSubmitted, Underway, Collected
  <2> QED
    BY <1>0, <1>2, <2>1, <2>2, OthersKeepShape DEF Submit, JobTypeOK
<1>3. ASSUME NEW j \in Jobs, SubmitRefused(j)
      PROVE  JobInv'
  <2>1. JobTypeOK'
    BY <1>0, <1>3 DEF SubmitRefused, JobTypeOK
  <2>2. JobShape(j)'
    BY <1>0, <1>3 DEF SubmitRefused, JobTypeOK, JobShape, NotSubmitted, Underway, Collected
  <2> QED
    BY <1>0, <1>3, <2>1, <2>2, OthersKeepShape DEF SubmitRefused, JobTypeOK
<1>4. ASSUME NEW j \in Jobs, PickUp(j)
      PROVE  JobInv'
  <2>1. JobTypeOK'
    BY <1>0, <1>4 DEF PickUp, JobTypeOK
  <2>2. JobShape(j)'
    BY <1>0, <1>4 DEF PickUp, JobTypeOK, JobShape, NotSubmitted, Underway, Collected
  <2> QED
    BY <1>0, <1>4, <2>1, <2>2, OthersKeepShape DEF PickUp, JobTypeOK
<1>5. ASSUME NEW j \in Jobs, RunOne(j)
      PROVE  JobInv'
  <2>1. JobTypeOK'
    BY <1>0, <1>5 DEF RunOne, JobTypeOK, TerminalStates
  <2>2. JobShape(j)'
    BY <1>0, <1>5 DEF RunOne, JobTypeOK, JobShape, NotSubmitted, Underway, Collected
  <2> QED
    BY <1>0, <1>5, <2>1, <2>2, OthersKeepShape DEF RunOne, JobTypeOK
<1>6. ASSUME NEW j \in Jobs, BodyEnds(j, "result") \/ BodyEnds(j, "error")
      PROVE  JobInv'
  <2>1. JobTypeOK'
    BY <1>0, <1>6 DEF BodyEnds, JobTypeOK
  <2>2. JobShape(j)'
    BY <1>0, <1>6 DEF BodyEnds, JobTypeOK, JobShape, NotSubmitted, Underway, Collected
  <2> QED
    BY <1>0, <1>6, <2>1, <2>2, OthersKeepShape DEF BodyEnds, JobTypeOK
<1>7. ASSUME NEW j \in Jobs, CollectJob(j)
      PROVE  JobInv'
  <2>1. JobTypeOK'
    BY <1>0, <1>7 DEF CollectJob, JobTypeOK, TerminalStates
  <2>2. JobShape(j)'
    BY <1>0, <1>7 DEF CollectJob, JobTypeOK, JobShape, NotSubmitted, Underway, Collected
  <2> QED
    BY <1>0, <1>7, <2>1, <2>2, OthersKeepShape DEF CollectJob, JobTypeOK
<1>8. ASSUME NEW j \in Jobs, CancelThread(j)
      PROVE  JobInv'
  <2>1. JobTypeOK'
    BY <1>0, <1>8 DEF CancelThread, JobTypeOK, TerminalStates
  <2>2. JobShape(j)'
    BY <1>0, <1>8 DEF CancelThread, JobTypeOK, JobShape, NotSubmitted, Underway, Collected
  <2> QED
    BY <1>0, <1>8, <2>1, <2>2, OthersKeepShape DEF CancelThread, JobTypeOK
<1>9. CASE StopJobs \/ ShutdownPool \/ PoolDrained
  BY <1>0, <1>9 DEF StopJobs, ShutdownPool, PoolDrained, JobInv, JobTypeOK, JobShape,
                    NotSubmitted, Underway, Collected
<1> QED
  BY <1>1, <1>2, <1>3, <1>4, <1>5, <1>6, <1>7, <1>8, <1>9 DEF JobNext, JobStep

(* Every step of the whole system keeps the job table's invariant: a step of
   the local adapter's pool by the lemma above, and steps of nodes and trial
   threads do not touch the table. *)
LEMMA JobInvStep ==
  JobInv /\ [Next]_vars => JobInv'
<1> SUFFICES ASSUME JobInv, [Next]_vars PROVE JobInv'
  OBVIOUS
<1>1. CASE UNCHANGED jobVars
  BY <1>1 DEF jobVars, JobInv, JobTypeOK, JobShape, NotSubmitted, Underway, Collected
<1>2. CASE JobNext
  BY <1>2, JobInvNext
<1> QED
  BY <1>1, <1>2 DEF Next, Over, vars

(* JobTellsTruth follows: the table's answer for a finished job is what became
   of its future, and a job reported cancelled never started
   (LocalDispatchAdapter._run_on_thread, _run_one, _cancel_thread). *)
THEOREM JobsTellTruth ==
  Spec => []JobTellsTruth
<1>1. Init => JobInv
  BY JobInvInit DEF Init
<1>2. JobInv => JobTellsTruth
  BY DEF JobInv, JobTellsTruth, JobShape, NotSubmitted, Underway, Collected
<1> QED
  BY <1>1, <1>2, JobInvStep, PTL DEF Spec
(***************************************************************************)
(* Nodes, leases and threads                                               *)
(***************************************************************************)

InCall == {"connect", "call", "running", "release"}
Closing == {"releasing", "terminate", "ended"}

(* close() has taken t's entry out of the adapter's table and is about to
   release its lease. *)
Given(t) == orch = "releasing" /\ t \in todo

(* An entry of the adapter's table belongs to a thread in its call, and so did
   one that close() took, which is not there again. *)
EntryInCall ==
  \A t \in Trials :
    /\ t \in adapterLeases => thread[t] \in InCall
    /\ Given(t) => thread[t] \in InCall \cup {"returned"} /\ t \notin adapterLeases

(* For every lease there is somebody who will release it. *)
LeaseBacked ==
  \A t \in Trials : lease[t] # NoNode =>
    \/ thread[t] \in {"record", "unlease"}
    \/ t \in adapterLeases
    \/ Given(t)

(* Until close() a thread between lease and release has the lease of the node
   it talks to. *)
LeaseOwned ==
  \A t \in Trials :
    thread[t] \in InCall \cup {"record", "unlease"} /\ orch \notin Closing => lease[t] = node[t]

(* No node is leased to two trials. *)
LeaseInjective ==
  \A t, u \in Trials : lease[t] = lease[u] /\ lease[t] # NoNode => t = u

(* The trial in a node's hands is the one whose thread waits for that node,
   unless its call was cut; a node that is not up has none. *)
ServesCaller ==
  \A n \in Nodes : serving[n] # NoTrial =>
    /\ proc[n] = "up"
    /\ serving[n] \in cut \/ (thread[serving[n]] = "running" /\ node[serving[n]] = n)

(* When the orchestrator has ended no worker process is alive. *)
WorkersEnded == mode = "subprocess" /\ orch = "ended" => Alive = {}

NodeInv ==
  /\ DispatchTypeOK
  /\ EntryInCall
  /\ LeaseBacked
  /\ LeaseOwned
  /\ LeaseInjective
  /\ ServesCaller
  /\ WorkersEnded

(* A run begins with nodes that are idle and leases that are not given. *)
LEMMA NodeInvInit ==
  ASSUME mode \in Modes, DispatchInit
  PROVE  NodeInv
<1>1. workers \in Nodes
  BY DispatchAssumption DEF DispatchInit
<1>2. DispatchTypeOK
  BY <1>1, RegistryAssumption, DispatchAssumption
  DEF DispatchInit, DispatchTypeOK, RegistryTypeOK, Nodes
<1>3. EntryInCall /\ LeaseBacked /\ LeaseOwned /\ LeaseInjective
  BY DEF DispatchInit, EntryInCall, Given, LeaseBacked, LeaseOwned, InCall, LeaseInjective
<1>4. ServesCaller /\ WorkersEnded
  BY DEF DispatchInit, ServesCaller, WorkersEnded
<1> QED
  BY <1>2, <1>3, <1>4 DEF NodeInv

(* Every step of a pool thread, of a node and of the orchestrator keeps it. *)
LEMMA NodeInvNext ==
  ASSUME NodeInv, DispatchNext
  PROVE  NodeInv'
<1> USE DEF Goto, registryVars, config, threadVars, nodeVars, orchVars, hist
<1>0. DispatchTypeOK /\ EntryInCall /\ LeaseBacked /\ LeaseOwned /\ LeaseInjective /\ ServesCaller /\ WorkersEnded
  BY DEF NodeInv
<1>1. ASSUME NEW t \in Trials, Dispatch(t)
      PROVE  NodeInv'
  <2>1. DispatchTypeOK'
    BY <1>0, <1>1
    DEF Dispatch, DispatchTypeOK, RegistryTypeOK
  <2>2. EntryInCall' /\ LeaseBacked' /\ LeaseOwned'
    BY <1>0, <1>1
    DEF Dispatch, EntryInCall, LeaseBacked, LeaseOwned, Given, InCall, Closing, DispatchTypeOK, RegistryTypeOK
  <2>3. LeaseInjective' /\ ServesCaller' /\ WorkersEnded'
    BY <1>0, <1>1
    DEF Dispatch, LeaseInjective, ServesCaller, WorkersEnded, Alive, DispatchTypeOK, RegistryTypeOK
  <2> QED
    BY <2>1, <2>2, <2>3 DEF NodeInv
<1>2. ASSUME NEW t \in Trials, NEW n \in Nodes, Leased(t, n)
      PROVE  NodeInv'
  <2>1. DispatchTypeOK'
    BY <1>0, <1>2
    DEF Leased, AtLock, LeaseFound, Free, DispatchTypeOK, RegistryTypeOK
  <2>2. EntryInCall' /\ LeaseBacked' /\ LeaseOwned'
    BY <1>0, <1>2
    DEF Leased, AtLock, LeaseFound, Free, EntryInCall, LeaseBacked, LeaseOwned, Given, InCall, Closing, DispatchTypeOK, RegistryTypeOK
  <2>3. LeaseInjective' /\ ServesCaller' /\ WorkersEnded'
    BY <1>0, <1>2
    DEF Leased, AtLock, LeaseFound, Free, LeaseInjective, ServesCaller, WorkersEnded, Alive, DispatchTypeOK, RegistryTypeOK
  <2> QED
    BY <2>1, <2>2, <2>3 DEF NodeInv
<1>3. ASSUME NEW t \in Trials, NoNodeInTime(t)
      PROVE  NodeInv'
  <2>1. DispatchTypeOK'
    BY <1>0, <1>3
    DEF NoNodeInTime, AtLock, LeaseTimesOut, NoneFound, Back, DispatchTypeOK, RegistryTypeOK
  <2>2. EntryInCall' /\ LeaseBacked' /\ LeaseOwned'
    BY <1>0, <1>3
    DEF NoNodeInTime, AtLock, LeaseTimesOut, NoneFound, Back, EntryInCall, LeaseBacked, LeaseOwned, Given, InCall, Closing, DispatchTypeOK, RegistryTypeOK
  <2>3. LeaseInjective' /\ ServesCaller' /\ WorkersEnded'
    BY <1>0, <1>3
    DEF NoNodeInTime, AtLock, LeaseTimesOut, NoneFound, Back, LeaseInjective, ServesCaller, WorkersEnded, Alive, DispatchTypeOK, RegistryTypeOK
  <2> QED
    BY <2>1, <2>2, <2>3 DEF NodeInv
<1>4. ASSUME NEW t \in Trials, WaitForNode(t)
      PROVE  NodeInv'
  <2>1. DispatchTypeOK'
    BY <1>0, <1>4
    DEF WaitForNode, AtLock, LeaseWaits, NoneFound, DispatchTypeOK, RegistryTypeOK
  <2>2. EntryInCall' /\ LeaseBacked' /\ LeaseOwned'
    BY <1>0, <1>4
    DEF WaitForNode, AtLock, LeaseWaits, NoneFound, EntryInCall, LeaseBacked, LeaseOwned, Given, InCall, Closing, DispatchTypeOK, RegistryTypeOK
  <2>3. LeaseInjective' /\ ServesCaller' /\ WorkersEnded'
    BY <1>0, <1>4
    DEF WaitForNode, AtLock, LeaseWaits, NoneFound, LeaseInjective, ServesCaller, WorkersEnded, Alive, DispatchTypeOK, RegistryTypeOK
  <2> QED
    BY <2>1, <2>2, <2>3 DEF NodeInv
<1>5. ASSUME NEW t \in Trials, RecordLease(t)
      PROVE  NodeInv'
  <2>1. DispatchTypeOK'
    BY <1>0, <1>5
    DEF RecordLease, DispatchTypeOK, RegistryTypeOK
  <2>2. EntryInCall' /\ LeaseBacked' /\ LeaseOwned'
    BY <1>0, <1>5
    DEF RecordLease, EntryInCall, LeaseBacked, LeaseOwned, Given, InCall, Closing, DispatchTypeOK, RegistryTypeOK
  <2>3. LeaseInjective' /\ ServesCaller' /\ WorkersEnded'
    BY <1>0, <1>5
    DEF RecordLease, LeaseInjective, ServesCaller, WorkersEnded, Alive, DispatchTypeOK, RegistryTypeOK
  <2> QED
    BY <2>1, <2>2, <2>3 DEF NodeInv
<1>6. ASSUME NEW t \in Trials, Connect(t)
      PROVE  NodeInv'
  <2>1. DispatchTypeOK'
    BY <1>0, <1>6, DispatchAssumption
    DEF Connect, Ends, Fault, DispatchTypeOK, RegistryTypeOK
  <2>2. EntryInCall' /\ LeaseBacked' /\ LeaseOwned'
    BY <1>0, <1>6
    DEF Connect, Ends, Fault, EntryInCall, LeaseBacked, LeaseOwned, Given, InCall, Closing, DispatchTypeOK, RegistryTypeOK
  <2>3. LeaseInjective' /\ ServesCaller' /\ WorkersEnded'
    BY <1>0, <1>6
    DEF Connect, Ends, Fault, LeaseInjective, ServesCaller, WorkersEnded, Alive, DispatchTypeOK, RegistryTypeOK
  <2> QED
    BY <2>1, <2>2, <2>3 DEF NodeInv
<1>7. ASSUME NEW t \in Trials, RunTrial(t)
      PROVE  NodeInv'
  <2>1. DispatchTypeOK'
    BY <1>0, <1>7
    DEF RunTrial, Ends, DispatchTypeOK, RegistryTypeOK
  <2>2. EntryInCall' /\ LeaseBacked' /\ LeaseOwned'
    BY <1>0, <1>7
    DEF RunTrial, Ends, EntryInCall, LeaseBacked, LeaseOwned, Given, InCall, Closing, DispatchTypeOK, RegistryTypeOK
  <2>3. LeaseInjective' /\ ServesCaller' /\ WorkersEnded'
    BY <1>0, <1>7
    DEF RunTrial, Ends, LeaseInjective, ServesCaller, WorkersEnded, Alive, DispatchTypeOK, RegistryTypeOK
  <2> QED
    BY <2>1, <2>2, <2>3 DEF NodeInv
<1>8. ASSUME NEW t \in Trials, CallBreaks(t)
      PROVE  NodeInv'
  <2>1. DispatchTypeOK'
    BY <1>0, <1>8, DispatchAssumption
    DEF CallBreaks, Ends, Fault, DispatchTypeOK, RegistryTypeOK
  <2>2. EntryInCall' /\ LeaseBacked' /\ LeaseOwned'
    BY <1>0, <1>8
    DEF CallBreaks, Ends, Fault, EntryInCall, LeaseBacked, LeaseOwned, Given, InCall, Closing, DispatchTypeOK, RegistryTypeOK
  <2>3. LeaseInjective' /\ ServesCaller' /\ WorkersEnded'
    BY <1>0, <1>8
    DEF CallBreaks, Ends, Fault, LeaseInjective, ServesCaller, WorkersEnded, Alive, DispatchTypeOK, RegistryTypeOK
  <2> QED
    BY <2>1, <2>2, <2>3 DEF NodeInv
<1>9. ASSUME NEW t \in Trials, PopLease(t)
      PROVE  NodeInv'
  <2>1. DispatchTypeOK'
    BY <1>0, <1>9
    DEF PopLease, Back, DispatchTypeOK, RegistryTypeOK
  <2>2. EntryInCall' /\ LeaseBacked' /\ LeaseOwned'
    BY <1>0, <1>9
    DEF PopLease, Back, EntryInCall, LeaseBacked, LeaseOwned, Given, InCall, Closing, DispatchTypeOK, RegistryTypeOK
  <2>3. LeaseInjective' /\ ServesCaller' /\ WorkersEnded'
    BY <1>0, <1>9
    DEF PopLease, Back, LeaseInjective, ServesCaller, WorkersEnded, Alive, DispatchTypeOK, RegistryTypeOK
  <2> QED
    BY <2>1, <2>2, <2>3 DEF NodeInv
<1>10. ASSUME NEW t \in Trials, Unlease(t)
      PROVE  NodeInv'
  <2>1. DispatchTypeOK'
    BY <1>0, <1>10
    DEF Unlease, ReleaseLease, Notify, Back, DispatchTypeOK, RegistryTypeOK
  <2>2. EntryInCall' /\ LeaseBacked' /\ LeaseOwned'
    BY <1>0, <1>10
    DEF Unlease, ReleaseLease, Notify, Back, EntryInCall, LeaseBacked, LeaseOwned, Given, InCall, Closing, DispatchTypeOK, RegistryTypeOK
  <2>3. LeaseInjective' /\ ServesCaller' /\ WorkersEnded'
    BY <1>0, <1>10
    DEF Unlease, ReleaseLease, Notify, Back, LeaseInjective, ServesCaller, WorkersEnded, Alive, DispatchTypeOK, RegistryTypeOK
  <2> QED
    BY <2>1, <2>2, <2>3 DEF NodeInv
<1>11. ASSUME NEW t \in Trials, DeadlinePasses(t)
      PROVE  NodeInv'
  <2>1. DispatchTypeOK'
    BY <1>0, <1>11
    DEF DeadlinePasses, DispatchTypeOK, RegistryTypeOK
  <2>2. EntryInCall' /\ LeaseBacked' /\ LeaseOwned'
    BY <1>0, <1>11
    DEF DeadlinePasses, EntryInCall, LeaseBacked, LeaseOwned, Given, InCall, Closing, DispatchTypeOK, RegistryTypeOK
  <2>3. LeaseInjective' /\ ServesCaller' /\ WorkersEnded'
    BY <1>0, <1>11
    DEF DeadlinePasses, LeaseInjective, ServesCaller, WorkersEnded, Alive, DispatchTypeOK, RegistryTypeOK
  <2> QED
    BY <2>1, <2>2, <2>3 DEF NodeInv
<1>12. ASSUME NEW t \in Trials, Collect(t)
      PROVE  NodeInv'
  <2>1. DispatchTypeOK'
    BY <1>0, <1>12, DispatchAssumption
    DEF Collect, DispatchTypeOK, RegistryTypeOK
  <2>2. EntryInCall' /\ LeaseBacked' /\ LeaseOwned'
    BY <1>0, <1>12
    DEF Collect, EntryInCall, LeaseBacked, LeaseOwned, Given, InCall, Closing, DispatchTypeOK, RegistryTypeOK
  <2>3. LeaseInjective' /\ ServesCaller' /\ WorkersEnded'
    BY <1>0, <1>12
    DEF Collect, LeaseInjective, ServesCaller, WorkersEnded, Alive, DispatchTypeOK, RegistryTypeOK
  <2> QED
    BY <2>1, <2>2, <2>3 DEF NodeInv
<1>13. ASSUME NEW t \in Trials, CancelLookup(t)
      PROVE  NodeInv'
  <2>1. DispatchTypeOK'
    BY <1>0, <1>13
    DEF CancelLookup, DispatchTypeOK, RegistryTypeOK
  <2>2. EntryInCall' /\ LeaseBacked' /\ LeaseOwned'
    BY <1>0, <1>13
    DEF CancelLookup, EntryInCall, LeaseBacked, LeaseOwned, Given, InCall, Closing, DispatchTypeOK, RegistryTypeOK
  <2>3. LeaseInjective' /\ ServesCaller' /\ WorkersEnded'
    BY <1>0, <1>13
    DEF CancelLookup, LeaseInjective, ServesCaller, WorkersEnded, Alive, DispatchTypeOK, RegistryTypeOK
  <2> QED
    BY <2>1, <2>2, <2>3 DEF NodeInv
<1>14. ASSUME NEW t \in Trials, CloseReleases(t)
      PROVE  NodeInv'
  <2>1. DispatchTypeOK'
    BY <1>0, <1>14
    DEF CloseReleases, ReleaseLease, Notify, DispatchTypeOK, RegistryTypeOK
  <2>2. EntryInCall' /\ LeaseBacked' /\ LeaseOwned'
    BY <1>0, <1>14
    DEF CloseReleases, ReleaseLease, Notify, EntryInCall, LeaseBacked, LeaseOwned, Given, InCall, Closing, DispatchTypeOK, RegistryTypeOK
  <2>3. LeaseInjective' /\ ServesCaller' /\ WorkersEnded'
    BY <1>0, <1>14
    DEF CloseReleases, ReleaseLease, Notify, LeaseInjective, ServesCaller, WorkersEnded, Alive, DispatchTypeOK, RegistryTypeOK
  <2> QED
    BY <2>1, <2>2, <2>3 DEF NodeInv
<1>15. ASSUME NEW n \in Nodes, Spawn(n)
      PROVE  NodeInv'
  <2>1. DispatchTypeOK'
    BY <1>0, <1>15
    DEF Spawn, DispatchTypeOK, RegistryTypeOK
  <2>2. EntryInCall' /\ LeaseBacked' /\ LeaseOwned'
    BY <1>0, <1>15
    DEF Spawn, EntryInCall, LeaseBacked, LeaseOwned, Given, InCall, Closing, DispatchTypeOK, RegistryTypeOK
  <2>3. LeaseInjective' /\ ServesCaller' /\ WorkersEnded'
    BY <1>0, <1>15
    DEF Spawn, LeaseInjective, ServesCaller, WorkersEnded, Alive, DispatchTypeOK, RegistryTypeOK
  <2> QED
    BY <2>1, <2>2, <2>3 DEF NodeInv
<1>16. ASSUME NEW n \in Nodes, Listens(n)
      PROVE  NodeInv'
  <2>1. DispatchTypeOK'
    BY <1>0, <1>16
    DEF Listens, RegisterNode, Notify, DispatchTypeOK, RegistryTypeOK
  <2>2. EntryInCall' /\ LeaseBacked' /\ LeaseOwned'
    BY <1>0, <1>16
    DEF Listens, RegisterNode, Notify, EntryInCall, LeaseBacked, LeaseOwned, Given, InCall, Closing, DispatchTypeOK, RegistryTypeOK
  <2>3. LeaseInjective' /\ ServesCaller' /\ WorkersEnded'
    BY <1>0, <1>16
    DEF Listens, RegisterNode, Notify, LeaseInjective, ServesCaller, WorkersEnded, Alive, DispatchTypeOK, RegistryTypeOK
  <2> QED
    BY <2>1, <2>2, <2>3 DEF NodeInv
<1>17. ASSUME NEW n \in Nodes, ListenFails(n)
      PROVE  NodeInv'
  <2>1. DispatchTypeOK'
    BY <1>0, <1>17
    DEF ListenFails, DispatchTypeOK, RegistryTypeOK
  <2>2. EntryInCall' /\ LeaseBacked' /\ LeaseOwned'
    BY <1>0, <1>17
    DEF ListenFails, EntryInCall, LeaseBacked, LeaseOwned, Given, InCall, Closing, DispatchTypeOK, RegistryTypeOK
  <2>3. LeaseInjective' /\ ServesCaller' /\ WorkersEnded'
    BY <1>0, <1>17
    DEF ListenFails, LeaseInjective, ServesCaller, WorkersEnded, Alive, DispatchTypeOK, RegistryTypeOK
  <2> QED
    BY <2>1, <2>2, <2>3 DEF NodeInv
<1>18. ASSUME NEW n \in Nodes, CloseTerminates(n)
      PROVE  NodeInv'
  <2>1. DispatchTypeOK'
    BY <1>0, <1>18
    DEF CloseTerminates, Terminated, DispatchTypeOK, RegistryTypeOK
  <2>2. EntryInCall' /\ LeaseBacked' /\ LeaseOwned'
    BY <1>0, <1>18
    DEF CloseTerminates, Terminated, EntryInCall, LeaseBacked, LeaseOwned, Given, InCall, Closing, DispatchTypeOK, RegistryTypeOK
  <2>3. LeaseInjective' /\ ServesCaller' /\ WorkersEnded'
    BY <1>0, <1>18
    DEF CloseTerminates, Terminated, LeaseInjective, ServesCaller, WorkersEnded, Alive, DispatchTypeOK, RegistryTypeOK
  <2> QED
    BY <2>1, <2>2, <2>3 DEF NodeInv
<1>19. ASSUME NEW n \in Nodes, NodeDies(n)
      PROVE  NodeInv'
  <2>1. DispatchTypeOK'
    BY <1>0, <1>19, DispatchAssumption
    DEF NodeDies, Terminated, Fault, DispatchTypeOK, RegistryTypeOK
  <2>2. EntryInCall' /\ LeaseBacked' /\ LeaseOwned'
    BY <1>0, <1>19
    DEF NodeDies, Terminated, Fault, EntryInCall, LeaseBacked, LeaseOwned, Given, InCall, Closing, DispatchTypeOK, RegistryTypeOK
  <2>3. LeaseInjective' /\ ServesCaller' /\ WorkersEnded'
    BY <1>0, <1>19
    DEF NodeDies, Terminated, Fault, LeaseInjective, ServesCaller, WorkersEnded, Alive, DispatchTypeOK, RegistryTypeOK
  <2> QED
    BY <2>1, <2>2, <2>3 DEF NodeInv
<1>20. ASSUME NEW n \in Nodes, NEW o \in Replies, NodeFinishes(n, o)
      PROVE  NodeInv'
  <2>1. DispatchTypeOK'
    BY <1>0, <1>20, DispatchAssumption
    DEF NodeFinishes, Replies, Ends, DispatchTypeOK, RegistryTypeOK
  <2>2. EntryInCall' /\ LeaseBacked' /\ LeaseOwned'
    BY <1>0, <1>20
    DEF NodeFinishes, Replies, Ends, EntryInCall, LeaseBacked, LeaseOwned, Given, InCall, Closing, DispatchTypeOK, RegistryTypeOK
  <2>3. LeaseInjective' /\ ServesCaller' /\ WorkersEnded'
    BY <1>0, <1>20
    DEF NodeFinishes, Replies, Ends, LeaseInjective, ServesCaller, WorkersEnded, Alive, DispatchTypeOK, RegistryTypeOK
  <2> QED
    BY <2>1, <2>2, <2>3 DEF NodeInv
<1>21. ASSUME AllDone
      PROVE  NodeInv'
  <2>1. DispatchTypeOK'
    BY <1>0, <1>21
    DEF AllDone, DispatchTypeOK, RegistryTypeOK
  <2>2. EntryInCall' /\ LeaseBacked' /\ LeaseOwned'
    BY <1>0, <1>21
    DEF AllDone, EntryInCall, LeaseBacked, LeaseOwned, Given, InCall, Closing, DispatchTypeOK, RegistryTypeOK
  <2>3. LeaseInjective' /\ ServesCaller' /\ WorkersEnded'
    BY <1>0, <1>21
    DEF AllDone, LeaseInjective, ServesCaller, WorkersEnded, Alive, DispatchTypeOK, RegistryTypeOK
  <2> QED
    BY <2>1, <2>2, <2>3 DEF NodeInv
<1>22. ASSUME CancelKill
      PROVE  NodeInv'
  <2>1. DispatchTypeOK'
    BY <1>0, <1>22
    DEF CancelKill, Terminated, DispatchTypeOK, RegistryTypeOK
  <2>2. EntryInCall' /\ LeaseBacked' /\ LeaseOwned'
    BY <1>0, <1>22
    DEF CancelKill, Terminated, EntryInCall, LeaseBacked, LeaseOwned, Given, InCall, Closing, DispatchTypeOK, RegistryTypeOK
  <2>3. LeaseInjective' /\ ServesCaller' /\ WorkersEnded'
    BY <1>0, <1>22
    DEF CancelKill, Terminated, LeaseInjective, ServesCaller, WorkersEnded, Alive, DispatchTypeOK, RegistryTypeOK
  <2> QED
    BY <2>1, <2>2, <2>3 DEF NodeInv
<1>23. ASSUME CancelEnds
      PROVE  NodeInv'
  <2>1. DispatchTypeOK'
    BY <1>0, <1>23
    DEF CancelEnds, DispatchTypeOK, RegistryTypeOK
  <2>2. EntryInCall' /\ LeaseBacked' /\ LeaseOwned'
    BY <1>0, <1>23
    DEF CancelEnds, EntryInCall, LeaseBacked, LeaseOwned, Given, InCall, Closing, DispatchTypeOK, RegistryTypeOK
  <2>3. LeaseInjective' /\ ServesCaller' /\ WorkersEnded'
    BY <1>0, <1>23
    DEF CancelEnds, LeaseInjective, ServesCaller, WorkersEnded, Alive, DispatchTypeOK, RegistryTypeOK
  <2> QED
    BY <2>1, <2>2, <2>3 DEF NodeInv
<1>24. ASSUME CloseAdapter
      PROVE  NodeInv'
  <2>1. DispatchTypeOK'
    BY <1>0, <1>24
    DEF CloseAdapter, DispatchTypeOK, RegistryTypeOK
  <2>2. EntryInCall' /\ LeaseBacked' /\ LeaseOwned'
    BY <1>0, <1>24
    DEF CloseAdapter, EntryInCall, LeaseBacked, LeaseOwned, Given, InCall, Closing, DispatchTypeOK, RegistryTypeOK
  <2>3. LeaseInjective' /\ ServesCaller' /\ WorkersEnded'
    BY <1>0, <1>24
    DEF CloseAdapter, LeaseInjective, ServesCaller, WorkersEnded, Alive, DispatchTypeOK, RegistryTypeOK
  <2> QED
    BY <2>1, <2>2, <2>3 DEF NodeInv
<1>25. ASSUME CloseReleased
      PROVE  NodeInv'
  <2>1. DispatchTypeOK'
    BY <1>0, <1>25
    DEF CloseReleased, DispatchTypeOK, RegistryTypeOK
  <2>2. EntryInCall' /\ LeaseBacked' /\ LeaseOwned'
    BY <1>0, <1>25
    DEF CloseReleased, EntryInCall, LeaseBacked, LeaseOwned, Given, InCall, Closing, DispatchTypeOK, RegistryTypeOK
  <2>3. LeaseInjective' /\ ServesCaller' /\ WorkersEnded'
    BY <1>0, <1>25
    DEF CloseReleased, LeaseInjective, ServesCaller, WorkersEnded, Alive, DispatchTypeOK, RegistryTypeOK
  <2> QED
    BY <2>1, <2>2, <2>3 DEF NodeInv
<1>26. ASSUME CloseResets
      PROVE  NodeInv'
  <2>1. DispatchTypeOK'
    BY <1>0, <1>26
    DEF CloseResets, ResetNodes, DispatchTypeOK, RegistryTypeOK
  <2>2. EntryInCall' /\ LeaseBacked' /\ LeaseOwned'
    BY <1>0, <1>26
    DEF CloseResets, ResetNodes, EntryInCall, LeaseBacked, LeaseOwned, Given, InCall, Closing, DispatchTypeOK, RegistryTypeOK
  <2>3. LeaseInjective' /\ ServesCaller' /\ WorkersEnded'
    BY <1>0, <1>26
    DEF CloseResets, ResetNodes, LeaseInjective, ServesCaller, WorkersEnded, Alive, DispatchTypeOK, RegistryTypeOK
  <2> QED
    BY <2>1, <2>2, <2>3 DEF NodeInv
<1>27. ASSUME Stop
      PROVE  NodeInv'
  <2>1. DispatchTypeOK'
    BY <1>0, <1>27
    DEF Stop, DispatchTypeOK, RegistryTypeOK
  <2>2. EntryInCall' /\ LeaseBacked' /\ LeaseOwned'
    BY <1>0, <1>27
    DEF Stop, EntryInCall, LeaseBacked, LeaseOwned, Given, InCall, Closing, DispatchTypeOK, RegistryTypeOK
  <2>3. LeaseInjective' /\ ServesCaller' /\ WorkersEnded'
    BY <1>0, <1>27
    DEF Stop, LeaseInjective, ServesCaller, WorkersEnded, Alive, DispatchTypeOK, RegistryTypeOK
  <2> QED
    BY <2>1, <2>2, <2>3 DEF NodeInv
<1> QED
  BY <1>1, <1>2, <1>3, <1>4, <1>5, <1>6, <1>7, <1>8, <1>9, <1>10, <1>11, <1>12, <1>13, <1>14, <1>15, <1>16, <1>17, <1>18, <1>19, <1>20, <1>21, <1>22, <1>23, <1>24, <1>25, <1>26, <1>27
  DEF DispatchNext, ThreadStep, OrchestratorStep

(* Every step of the whole system keeps the invariant of nodes and leases: a step
   of registry, node, adapter or orchestrator by the lemma above, and steps of
   the local adapter's pool touch neither. *)
LEMMA NodeInvStep ==
  NodeInv /\ [Next]_vars => NodeInv'
<1> SUFFICES ASSUME NodeInv, [Next]_vars PROVE NodeInv'
  OBVIOUS
<1>1. CASE UNCHANGED dispatchVars
  BY <1>1 DEF dispatchVars, registryVars, config, threadVars, nodeVars, orchVars, hist, NodeInv,
              DispatchTypeOK, RegistryTypeOK, EntryInCall, Given, LeaseBacked, LeaseOwned,
              LeaseInjective, ServesCaller, WorkersEnded, Alive
<1>2. CASE DispatchNext
  BY <1>2, NodeInvNext
<1> QED
  BY <1>1, <1>2 DEF Next, Over, vars

(* The type invariant: what the registry, the adapters, the nodes and the job
   table hold is what the code can put there. *)
THEOREM DispatchTypeCorrect ==
  Spec => []TypeOK
<1>1. Init => NodeInv /\ JobInv
  BY NodeInvInit, JobInvInit DEF Init
<1>2. NodeInv /\ JobInv => TypeOK
  BY DEF NodeInv, JobInv, TypeOK
<1> QED
  BY <1>1, <1>2, NodeInvStep, JobInvStep, PTL DEF Spec

(* Whatever is cut, dies or is stopped: a trial that holds a node finds it idle
   but for cut calls and after close(), a trial runs on one node at a time unless
   its call was cut, and no lease and no worker process is left behind
   (InMemoryNodeRegistry.lease, GrpcNodeDispatchAdapter._release and close,
   SpawningNodeRegistry.terminate_worker_for_trial and close). *)
THEOREM NodeSafety ==
  Spec => [](HolderFindsItIdle /\ OneExecution /\ NothingLeft)
<1>1. Init => NodeInv
  BY NodeInvInit DEF Init
<1>2. NodeInv => HolderFindsItIdle
  <2> SUFFICES ASSUME NodeInv,
                      NEW t \in Trials, NEW n \in Nodes,
                      lease[t] = n, serving[n] \notin {NoTrial, t},
                      serving[n] \notin cut, orch \notin Closing
               PROVE  FALSE
    BY DEF HolderFindsItIdle, Closing
  <2> DEFINE u == serving[n]
  <2>1. u \in Trials /\ thread[u] = "running" /\ node[u] = n
    BY DEF NodeInv, ServesCaller, DispatchTypeOK
  <2>2. lease[u] = n
    BY <2>1 DEF NodeInv, LeaseOwned, InCall
  <2>3. n # NoNode
    BY RegistryAssumption
  <2> QED
    BY <2>1, <2>2, <2>3 DEF NodeInv, LeaseInjective
<1>3. NodeInv => OneExecution
  BY DispatchAssumption DEF NodeInv, OneExecution, ServesCaller
<1>4. NodeInv => NothingLeft
  BY DEF NodeInv, NothingLeft, EntryInCall, LeaseBacked, Given, InCall, WorkersEnded
<1> QED
  BY <1>1, <1>2, <1>3, <1>4, NodeInvStep, PTL DEF Spec
-----------------------------------------------------------------------------
(* Threads that were notified, or woke, and have not come to the lock yet. *)
Awake == {t \in Trials : thread[t] = "waiting" /\ t \notin waiters}

(* Who stands among the waiters is in wait(). *)
WaitersWait == \A t \in waiters : thread[t] = "waiting"

(* There are finitely many nodes and threads. *)
LEMMA CoverFinite ==
  ASSUME DispatchTypeOK
  PROVE  /\ IsFiniteSet(Free) /\ Cardinality(Free) \in Nat
         /\ IsFiniteSet(Awake) /\ Cardinality(Awake) \in Nat
<1>1. IsFiniteSet(Nodes)
  BY FS_Interval, RegistryAssumption DEF Nodes
<1>2. Free \subseteq Nodes /\ Awake \subseteq Trials
  BY DEF DispatchTypeOK, RegistryTypeOK, Free, Awake
<1>3. IsFiniteSet(Free) /\ IsFiniteSet(Awake)
  BY <1>1, <1>2, FS_Subset, RegistryAssumption
<1> QED
  BY <1>3, FS_CardinalityType

(* A step that frees no node, puts nobody to sleep and keeps everybody awake who
   was. *)
LEMMA CoverFrame ==
  ASSUME DispatchTypeOK, DispatchTypeOK', WakeupsCover,
         Free' \subseteq Free, Awake \subseteq Awake',
         waiters' # {} => waiters # {}
  PROVE  WakeupsCover'
<1>1. Cardinality(Free') <= Cardinality(Free)
  BY CoverFinite, FS_Subset
<1>2. IsFiniteSet(Awake')
  BY FS_Subset, RegistryAssumption DEF Awake
<1>3. Cardinality(Awake) <= Cardinality(Awake')
  BY <1>2, FS_Subset
<1>4. /\ Cardinality(Free) \in Nat /\ Cardinality(Free') \in Nat
      /\ Cardinality(Awake) \in Nat /\ Cardinality(Awake') \in Nat
  BY <1>2, CoverFinite, FS_Subset, FS_CardinalityType
<1> QED
  BY <1>1, <1>3, <1>4 DEF WakeupsCover, Awake

(* A step that takes a node and whoever took it out of the threads awake. *)
LEMMA CoverTake ==
  ASSUME DispatchTypeOK, WakeupsCover,
         NEW t \in Trials, NEW n \in Free,
         Free' = Free \ {n}, Awake' = Awake \ {t},
         waiters' # {} => waiters # {}
  PROVE  WakeupsCover'
<1>1. Cardinality(Free') = Cardinality(Free) - 1 /\ Cardinality(Free') \in Nat
  BY CoverFinite, FS_RemoveElement, FS_CardinalityType
<1>2. Cardinality(Awake') >= Cardinality(Awake) - 1 /\ Cardinality(Awake') \in Nat
  <2>1. /\ IsFiniteSet(Awake')
        /\ Cardinality(Awake') = IF t \in Awake THEN Cardinality(Awake) - 1 ELSE Cardinality(Awake)
    BY CoverFinite, FS_RemoveElement
  <2>2. Cardinality(Awake') \in Nat
    BY <2>1, FS_CardinalityType
  <2> QED
    BY <2>1, <2>2, CoverFinite
<1> QED
  BY <1>1, <1>2, CoverFinite DEF WakeupsCover, Awake

(* A step that frees a node and notifies. *)
LEMMA CoverNotify ==
  ASSUME DispatchTypeOK, WakeupsCover, WaitersWait, NEW n,
         Free' \subseteq Free \cup {n}, Notify,
         \A t \in Trials : thread[t] = "waiting" => thread'[t] = "waiting"
  PROVE  WakeupsCover'
<1> SUFFICES ASSUME waiters' # {}
             PROVE  Cardinality(Free') <= Cardinality(Awake')
  BY DEF WakeupsCover, Awake
<1>1. PICK w \in waiters : waiters' = waiters \ {w}
  BY DEF Notify
<1>2. w \in Trials /\ thread[w] = "waiting" /\ w \notin Awake
  BY DEF WaitersWait, DispatchTypeOK, RegistryTypeOK, Awake
<1>3. Awake \cup {w} \subseteq Awake'
  BY <1>1, <1>2 DEF Awake
<1>4. Cardinality(Awake \cup {w}) = Cardinality(Awake) + 1
  BY <1>2, CoverFinite, FS_AddElement
<1>5. IsFiniteSet(Awake')
  BY FS_Subset, RegistryAssumption DEF Awake
<1>6. Cardinality(Awake) + 1 <= Cardinality(Awake')
  BY <1>3, <1>4, <1>5, FS_Subset
<1>7. /\ IsFiniteSet(Free \cup {n}) /\ Cardinality(Free \cup {n}) \in Nat
      /\ Cardinality(Free \cup {n}) <= Cardinality(Free) + 1
  <2>1. /\ IsFiniteSet(Free \cup {n})
        /\ Cardinality(Free \cup {n}) =
             IF n \in Free THEN Cardinality(Free) ELSE Cardinality(Free) + 1
    BY CoverFinite, FS_AddElement
  <2>2. Cardinality(Free \cup {n}) \in Nat
    BY <2>1, FS_CardinalityType
  <2> QED
    BY <2>1, <2>2, CoverFinite
<1>8. Cardinality(Free') <= Cardinality(Free \cup {n}) /\ Cardinality(Free') \in Nat
  BY <1>7, FS_Subset, FS_CardinalityType
<1>9. Cardinality(Free) <= Cardinality(Awake)
  BY <1>1 DEF WakeupsCover, Awake
<1>10. Cardinality(Awake') \in Nat
  BY <1>5, FS_CardinalityType
<1> QED
  BY <1>6, <1>7, <1>8, <1>9, <1>10, CoverFinite

(* A thread in lease() holds nothing yet. *)
LEMMA AtLockHoldsNothing ==
  ASSUME NodeInv, NEW t \in Trials, AtLock(t)
  PROVE  lease[t] = NoNode
BY DEF NodeInv, LeaseBacked, EntryInCall, AtLock, InCall

(* A step that leaves the registry alone and wakes nobody and puts nobody to
   sleep. *)
LEMMA CoverStays ==
  ASSUME NodeInv, NodeInv', WakeupsCover, WaitersWait,
         UNCHANGED registryVars,
         \A t \in Trials : thread[t] = "waiting" => thread'[t] = "waiting"
  PROVE  WakeupsCover' /\ WaitersWait'
<1>1. Free' = Free /\ Awake \subseteq Awake' /\ waiters' = waiters
  BY DEF registryVars, Free, Awake
<1>2. WakeupsCover'
  BY <1>1, CoverFrame DEF NodeInv
<1>3. WaitersWait'
  BY <1>1 DEF WaitersWait, NodeInv, DispatchTypeOK, RegistryTypeOK
<1> QED
  BY <1>2, <1>3

(* Every step of the dispatch keeps the wake-ups. *)
LEMMA CoverNext ==
  ASSUME NodeInv, NodeInv', WakeupsCover, WaitersWait, DispatchNext
  PROVE  WakeupsCover' /\ WaitersWait'
<1>0. /\ DispatchTypeOK /\ DispatchTypeOK' /\ RegistryTypeOK
      /\ thread \in [Trials -> {"idle", "lease", "waiting", "record", "connect", "call",
                            "running", "release", "unlease", "returned", "done"}]
      /\ lease \in [Trials -> Nodes \cup {NoNode}]
      /\ waiters \subseteq Trials
  BY DEF NodeInv, DispatchTypeOK, RegistryTypeOK
<1> USE DEF Goto
<1>1. ASSUME NEW t \in Trials, NEW n \in Nodes, Leased(t, n)
      PROVE  WakeupsCover' /\ WaitersWait'
  <2>1. lease[t] = NoNode /\ n # NoNode
    BY <1>1, AtLockHoldsNothing, RegistryAssumption DEF Leased
  <2>a. n \in Free /\ lease' = [lease EXCEPT ![t] = n] /\ registered' = registered
    BY <1>1, <2>1 DEF Leased, LeaseFound
  <2>b. \A u \in Trials : lease'[u] = IF u = t THEN n ELSE lease[u]
    BY <1>0, <2>a
  <2>c. ASSUME NEW m \in registered PROVE m \in Free' <=> m \in Free /\ m # n
    <3>1. m # NoNode
      BY <1>0, RegistryAssumption DEF RegistryTypeOK
    <3> QED
      BY <2>1, <2>a, <2>b, <3>1 DEF Free
  <2>2. n \in Free /\ Free' = Free \ {n}
    BY <2>a, <2>c DEF Free
  <2>3. Awake' = Awake \ {t}
    BY <1>0, <1>1 DEF Leased, LeaseFound, Awake
  <2>4. waiters' = waiters \ {t}
    BY <1>1 DEF Leased, LeaseFound
  <2>5. WakeupsCover'
    BY <1>0, <2>2, <2>3, <2>4, CoverTake
  <2>6. WaitersWait'
    BY <1>0, <1>1, <2>4 DEF Leased, WaitersWait
  <2> QED
    BY <2>5, <2>6
<1>2. ASSUME NEW t \in Trials, NoNodeInTime(t) \/ WaitForNode(t)
      PROVE  WakeupsCover' /\ WaitersWait'
  <2>1. Free' = {}
    BY <1>2 DEF NoNodeInTime, WaitForNode, LeaseTimesOut, LeaseWaits, NoneFound, Free
  <2>2. Cardinality(Free') = 0
    BY <2>1, FS_EmptySet
  <2>3. IsFiniteSet(Awake')
    BY FS_Subset, RegistryAssumption DEF Awake
  <2>4. Cardinality(Awake') \in Nat
    BY <2>3, FS_CardinalityType
  <2>5. WakeupsCover'
    BY <2>2, <2>4 DEF WakeupsCover, Awake
  <2>6. WaitersWait'
    BY <1>0, <1>2 DEF NoNodeInTime, WaitForNode, LeaseTimesOut, LeaseWaits, Back, WaitersWait
  <2> QED
    BY <2>5, <2>6
<1>3. ASSUME NEW t \in Trials, ReleaseLease(t),
             \A u \in Trials : thread[u] = "waiting" => thread'[u] = "waiting"
      PROVE  WakeupsCover' /\ WaitersWait'
  <2>1. waiters' \subseteq waiters
    BY <1>3 DEF ReleaseLease, Notify
  <2>2. WaitersWait'
    BY <1>0, <1>3, <2>1 DEF WaitersWait
  <2>3. CASE lease[t] = NoNode
    <3>1. waiters' = waiters /\ lease' = lease /\ registered' = registered
      BY <1>0, <1>3, <2>3 DEF ReleaseLease
    <3>2. Free' = Free /\ Awake \subseteq Awake'
      BY <1>3, <3>1 DEF Free, Awake
    <3> QED
      BY <1>0, <2>2, <3>1, <3>2, CoverFrame
  <2>4. CASE lease[t] # NoNode
    <3>1. PICK n : n = lease[t]
      OBVIOUS
    <3>2. Notify
      BY <1>3, <2>4 DEF ReleaseLease
    <3>3. Free' \subseteq Free \cup {n}
      BY <1>0, <1>3, <3>1 DEF ReleaseLease, Free
    <3> QED
      BY <1>0, <1>3, <2>2, <3>2, <3>3, CoverNotify
  <2> QED
    BY <2>3, <2>4
<1>4. ASSUME NEW t \in Trials, Unlease(t)
      PROVE  WakeupsCover' /\ WaitersWait'
  <2>1. \A u \in Trials : thread[u] = "waiting" => thread'[u] = "waiting"
    BY <1>0, <1>4 DEF Unlease, Back
  <2> QED
    BY <1>3, <1>4, <2>1 DEF Unlease
<1>5. ASSUME NEW t \in Trials, CloseReleases(t)
      PROVE  WakeupsCover' /\ WaitersWait'
  BY <1>3, <1>5 DEF CloseReleases, threadVars
<1>6. ASSUME NEW n \in Nodes, Listens(n)
      PROVE  WakeupsCover' /\ WaitersWait'
  <2>1. Free' \subseteq Free \cup {n} /\ Notify /\ thread' = thread
    BY <1>6 DEF Listens, RegisterNode, Free, threadVars
  <2>2. WaitersWait'
    BY <2>1 DEF WaitersWait, Notify
  <2> QED
    BY <1>0, <2>1, <2>2, CoverNotify
<1>7. CASE CloseResets
  BY <1>7 DEF CloseResets, ResetNodes, WakeupsCover, WaitersWait
<1>8. ASSUME NEW t \in Trials,
             \/ Dispatch(t) \/ RecordLease(t) \/ Connect(t) \/ RunTrial(t)
             \/ CallBreaks(t) \/ PopLease(t) \/ Collect(t)
      PROVE  WakeupsCover' /\ WaitersWait'
  <2>1. UNCHANGED registryVars
    BY <1>8 DEF Dispatch, RecordLease, Connect, RunTrial, CallBreaks, PopLease, Collect
  <2>2. /\ thread[t] # "waiting"
        /\ \A u \in Trials \ {t} : thread'[u] = thread[u]
    BY <1>0, <1>8 DEF Dispatch, RecordLease, Connect, RunTrial, CallBreaks, PopLease,
                      Collect, Ends, Back
  <2> QED
    BY <2>1, <2>2, CoverStays
<1>9. ASSUME NEW n \in Nodes, NEW o \in Replies, NodeFinishes(n, o)
      PROVE  WakeupsCover' /\ WaitersWait'
  <2>1. UNCHANGED registryVars
    BY <1>9 DEF NodeFinishes
  <2>2. \A u \in Trials : thread[u] = "waiting" => thread'[u] = "waiting"
    BY <1>0, <1>9 DEF NodeFinishes, Ends
  <2> QED
    BY <2>1, <2>2, CoverStays
<1>10. ASSUME \/ \E t \in Trials : DeadlinePasses(t) \/ CancelLookup(t)
              \/ \E n \in Nodes : Spawn(n) \/ ListenFails(n) \/ CloseTerminates(n) \/ NodeDies(n)
              \/ AllDone \/ CancelKill \/ CancelEnds \/ CloseAdapter \/ CloseReleased \/ Stop
       PROVE  WakeupsCover' /\ WaitersWait'
  <2>1. UNCHANGED <<registryVars, thread>>
    BY <1>10 DEF DeadlinePasses, CancelLookup, Spawn, ListenFails, CloseTerminates, NodeDies,
                 AllDone, CancelKill, CancelEnds, CloseAdapter, CloseReleased, Stop, threadVars
  <2> QED
    BY <2>1, CoverStays
<1> QED
  BY <1>1, <1>2, <1>4, <1>5, <1>6, <1>7, <1>8, <1>9, <1>10
     DEF DispatchNext, ThreadStep, OrchestratorStep

(* No wake-up of the registry's condition is lost, for any number of threads and
   nodes: release() and register() notify one waiter for the one node they free,
   a thread that goes on takes at most one, and one that times out looks for a
   node before it gives up. *)
THEOREM NoLostWakeup ==
  Spec => []WakeupsCover
<1> DEFINE Inv == NodeInv /\ WakeupsCover /\ WaitersWait
<1>1. Init => Inv
  BY NodeInvInit DEF Init, DispatchInit, WakeupsCover, WaitersWait
<1>2. Inv /\ [Next]_vars => Inv'
  <2> SUFFICES ASSUME Inv, [Next]_vars PROVE Inv'
    OBVIOUS
  <2>1. NodeInv'
    BY NodeInvStep
  <2>2. CASE UNCHANGED dispatchVars
    BY <2>1, <2>2, CoverStays DEF dispatchVars, threadVars
  <2>3. CASE DispatchNext
    BY <2>1, <2>3, CoverNext
  <2> QED
    BY <2>1, <2>2, <2>3 DEF Next, Over, vars
<1> QED
  BY <1>1, <1>2, PTL DEF Spec
=============================================================================
