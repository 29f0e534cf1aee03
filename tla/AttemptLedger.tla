--------------------------- MODULE AttemptLedger ----------------------------
(***************************************************************************)
(* What the durable queue promises its users, without leases, clocks or    *)
(* statements: each trial of the run is taken by one worker at a time, is  *)
(* given back at most MaxRetries times, is reclaimed only from a worker    *)
(* that is gone, and once it is over it is over.                           *)
(***************************************************************************)
EXTENDS Integers

CONSTANTS Trials, Workers, MaxRetries, None

VARIABLES
  phase,   \* of each trial: unlisted, open, taken, over
  holder,  \* of each taken trial: the live worker that has it, or None
  credit   \* of each trial: how often it may still be given back

vars == <<phase, holder, credit>>

Init ==
  /\ phase = [a \in Trials |-> "unlisted"]
  /\ holder = [a \in Trials |-> None]
  /\ credit = [a \in Trials |-> MaxRetries]

List(a) ==
  /\ phase[a] = "unlisted"
  /\ phase' = [phase EXCEPT ![a] = "open"]
  /\ UNCHANGED <<holder, credit>>

Take(a, w) ==
  /\ phase[a] = "open"
  /\ phase' = [phase EXCEPT ![a] = "taken"]
  /\ holder' = [holder EXCEPT ![a] = w]
  /\ UNCHANGED credit

GiveBack(a) ==
  /\ phase[a] = "taken" /\ holder[a] # None
  /\ credit[a] > 0
  /\ phase' = [phase EXCEPT ![a] = "open"]
  /\ holder' = [holder EXCEPT ![a] = None]
  /\ credit' = [credit EXCEPT ![a] = @ - 1]

Close(a) ==
  /\ phase[a] = "taken" /\ holder[a] # None
  /\ phase' = [phase EXCEPT ![a] = "over"]
  /\ holder' = [holder EXCEPT ![a] = None]
  /\ UNCHANGED credit

(* The worker that has the trial dies; the trial stays taken. *)
Lose(a) ==
  /\ phase[a] = "taken" /\ holder[a] # None
  /\ holder' = [holder EXCEPT ![a] = None]
  /\ UNCHANGED <<phase, credit>>

(* Trials that nobody alive has are open again. *)
Reclaim(lost) ==
  /\ \A a \in lost : phase[a] = "taken" /\ holder[a] = None
  /\ phase' = [a \in Trials |-> IF a \in lost THEN "open" ELSE phase[a]]
  /\ UNCHANGED <<holder, credit>>

Next ==
  \/ \E a \in Trials : \/ List(a) \/ GiveBack(a) \/ Close(a) \/ Lose(a)
                       \/ \E w \in Workers : Take(a, w)
  \/ \E lost \in SUBSET Trials : Reclaim(lost)

Spec == Init /\ [][Next]_vars
=============================================================================
