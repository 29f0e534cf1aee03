---------------------------- MODULE NodeRegistry ----------------------------
(***************************************************************************)
(* InMemoryNodeRegistry (core/node_registry.py): which nodes there are and *)
(* which trial holds which.  Every method runs under one condition         *)
(* variable; lease() waits on it.  A thread that waits stands in waiters   *)
(* until it is notified, or until it wakes by itself at its deadline and   *)
(* has the lock again.  Condition.notify() says nothing about which waiter *)
(* it wakes.                                                               *)
(***************************************************************************)
EXTENDS Naturals, FiniteSets

CONSTANTS
  Trials,     \* trial ids; a trial has one thread that leases for it
  NumNodes,   \* nodes are numbered in the order of _nodes
  NoNode

Nodes == 1..NumNodes

ASSUME RegistryAssumption ==
  /\ IsFiniteSet(Trials)
  /\ NumNodes \in Nat \ {0}
  /\ NoNode \notin Nodes

VARIABLES
  registered,   \* keys of _nodes
  lease,        \* _leases: the node of each trial, or NoNode
  waiters       \* threads in wait() that nobody notified yet

registryVars == <<registered, lease, waiters>>

RegistryTypeOK ==
  /\ registered \subseteq Nodes
  /\ lease \in [Trials -> Nodes \cup {NoNode}]
  /\ waiters \subseteq Trials

Free == {n \in registered : \A t \in Trials : lease[t] # n}

\* notify(): one waiter, if any, may go on.
Notify ==
  \/ waiters = {} /\ waiters' = {}
  \/ \E w \in waiters : waiters' = waiters \ {w}

RegisterNode(n) ==
  /\ registered' = registered \cup {n}
  /\ Notify
  /\ UNCHANGED lease

\* A slip: whether a node is free is not looked at.
LeaseFoundTaken(t, n) ==
  /\ n \in registered
  /\ lease' = [lease EXCEPT ![t] = n]
  /\ waiters' = waiters \ {t}
  /\ UNCHANGED registered

\* A thread of t in lease(), with the lock: the node it holds already, or the
\* first free one.  It leaves the waiters if it was still among them.
LeaseFound(t, n) ==
  /\ \/ lease[t] = n
     \/ lease[t] = NoNode /\ n \in Free /\ \A m \in Free : n <= m
  /\ lease' = [lease EXCEPT ![t] = n]
  /\ waiters' = waiters \ {t}
  /\ UNCHANGED registered

\* Nothing held and nothing free.
NoneFound(t) == lease[t] = NoNode /\ Free = {}

\* A slip: the deadline is looked at before the nodes.
LeaseTimesOutFirst(t) ==
  /\ waiters' = waiters \ {t}
  /\ UNCHANGED <<registered, lease>>

\* ... the deadline has passed: lease() raises.
LeaseTimesOut(t) ==
  /\ NoneFound(t)
  /\ waiters' = waiters \ {t}
  /\ UNCHANGED <<registered, lease>>

\* ... or the thread waits (again).
LeaseWaits(t) ==
  /\ NoneFound(t)
  /\ waiters' = waiters \cup {t}
  /\ UNCHANGED <<registered, lease>>

\* release(): notify only if there was a lease.
ReleaseLease(t) ==
  /\ lease' = [lease EXCEPT ![t] = NoNode]
  /\ IF lease[t] = NoNode THEN UNCHANGED waiters ELSE Notify
  /\ UNCHANGED registered

\* _reset_nodes(): notify_all().
ResetNodes ==
  /\ registered' = {}
  /\ lease' = [t \in Trials |-> NoNode]
  /\ waiters' = {}
=============================================================================
