----------------------------- MODULE TrialWorld -----------------------------
(***************************************************************************)
(* Where the state of one trial lives while the Runner serves it           *)
(* (env/json_db_service/app.py, runner/tool_factory.py):                   *)
(*                                                                         *)
(*   row   the trial in the db-service: its tables, the snapshots hash     *)
(*         grading takes and the attempt that initialised it;              *)
(*   held  the world of the state holder (an MCP server, an app world),    *)
(*         None for a trial whose tools write to the db-service and for a  *)
(*         holder that was stopped;                                        *)
(*   fifo  the calls handed to the holder's one worker thread: all those   *)
(*         to an MCP server; of those to an app world the state reads and  *)
(*         resets, its tools send their HTTP requests themselves.          *)
(*                                                                         *)
(* Of the tables only this is kept: which actions made them.  Requests for *)
(* one trial id are served one at a time (TrialState._lock) and share      *)
(* nothing with those for another.                                         *)
(*                                                                         *)
(* Assumed of HTTP, to the db-service and to an app world: a request that  *)
(* failed or was given up has been served by then, or never is.  A tool    *)
(* that is given up is another matter: it runs on and may write later.     *)
(***************************************************************************)
EXTENDS Naturals, Sequences

CONSTANTS
  None,
  Faults,      \* which of AllFaults the environment may show
  MaxFaults    \* bound on them

AllFaults == {"db_error",      \* a db-service request fails, unserved
              "db_lost",       \* a db-service request is served, its answer lost
              "holder_error",  \* a call into the holder fails
              "holder_slow",   \* the bound on a wait for the holder fires
              "tool_timeout",  \* the band of a tool call elapses
              "budget",        \* _run_async stops waiting for its coroutine
              "refusal",       \* RegisterTrial refuses what it was sent
              "build_fails",   \* files, search index or tools cannot be made
              "start_fails",   \* a tool's start or the app world fails
              "stop_fails",    \* cleanup_tools raises
              "overlap",       \* the retry registers while the cleanup runs
              "shutdown",      \* the Runner is told to stop
              "restart"}       \* the Runner process dies and is restarted

Acts == {"agent", "gold"}
Worlds == {"init", "mess", "half"} \cup Acts

(* The trial in the db-service, and a call handed to the holder: what to do,
   with what, and whether its coroutine still waits. *)
Rows == [of : Nat, data : Worlds, pre : Worlds \cup {None}, res : Worlds \cup {None}]
HolderOps == {"get", "reset", "tool", "replay"}
HolderCalls == [op : HolderOps, arg : Worlds \cup {None}, awaited : BOOLEAN]

(* Python's None is no number, no record and none of the words. *)
ASSUME WorldAssumption ==
  /\ Faults \subseteq AllFaults
  /\ MaxFaults \in Nat
  /\ None \notin Nat \cup Rows \cup Worlds
  /\ None \notin {"ok", "error", "refused", "duplicate", "failed",
                  "match", "mismatch", "unscorable", "graded", "undone", "loose"}

VARIABLES
  row, held, fifo,
  busy,        \* the first call of fifo has been sent
  got,         \* what the holder answered the coroutine that waits for it
  truth,       \* the initial state and the agent's calls, nothing else
  resetLost,   \* the holder failed a reset
  faults

worldVars == <<row, held, fifo, busy, got, truth, resetLost, faults>>

(* An action gives its own world from the initial one, again from its own,
   and nothing sensible from another's. *)
Apply(act, w) == IF w \in {"init", act} THEN act ELSE "mess"

Fault(f) ==
  /\ f \in Faults
  /\ faults < MaxFaults
  /\ faults' = faults + 1

-----------------------------------------------------------------------------
(* The db-service. *)

(* init_trial *)
NewRow(n) == [of |-> n, data |-> "init", pre |-> None, res |-> None]

(* A request that turns the trial into `served', and its answer; the caller
   sees an exception on either fault and for an unknown trial. *)
Request(served, Ok, Bad) ==
  \/ row # None /\ row' = served /\ UNCHANGED faults /\ Ok
  \/ row = None /\ UNCHANGED <<row, faults>> /\ Bad
  \/ Fault("db_error") /\ UNCHANGED row /\ Bad
  \/ row # None /\ Fault("db_lost") /\ row' = served /\ Bad

-----------------------------------------------------------------------------
(* The app world. *)

(* http_request of one action, on the event loop itself: no other coroutine
   runs meanwhile, and nothing cuts it but its own client timeout. *)
AppRequest(act, Ok, Bad) ==
  \/ held # None /\ held' = Apply(act, held) /\ UNCHANGED faults /\ Ok
  \/ held = None /\ UNCHANGED <<held, faults>> /\ Bad
  \/ held # None /\ Fault("holder_error") /\ held' \in {held, Apply(act, held)} /\ Bad

-----------------------------------------------------------------------------
(* The holder's worker thread. *)

Unawaited(e) == [e EXCEPT !.awaited = FALSE]

(* run_in_executor(holder.executor, call) *)
Hand(op, arg) ==
  fifo' = Append(fifo, [op |-> op, arg |-> arg, awaited |-> TRUE])

(* A slip: a call that was sent is taken back too. *)
AbandonSent == fifo' = SelectSeq(fifo, LAMBDA e : ~e.awaited)

(* The coroutine stops waiting for the call it handed over, the last of fifo:
   one not yet sent never is (a cancelled executor future;
   MCPRequestAbandoned), one that was sent runs on. *)
Abandon ==
  \/ /\ fifo # <<>> /\ fifo[Len(fifo)].awaited
     /\ fifo' = IF busy /\ Len(fifo) = 1
                THEN <<Unawaited(fifo[1])>>
                ELSE SubSeq(fifo, 1, Len(fifo) - 1)
  \/ /\ fifo # <<>> => ~fifo[Len(fifo)].awaited
     /\ UNCHANGED fifo

(* The wait was shielded: the call stays. *)
StopWaiting == fifo' = [i \in DOMAIN fifo |-> Unawaited(fifo[i])]

HolderStarts ==
  /\ fifo # <<>> /\ ~busy
  /\ busy' = TRUE
  /\ UNCHANGED <<row, held, fifo, got, truth, resetLost, faults>>

Answer(e, value) == got' = IF e.awaited THEN value ELSE got

(* A slip: the worker tries a call again until the holder serves it. *)
HolderServesRetries ==
  /\ busy /\ busy' = FALSE
  /\ LET e == Head(fifo) IN
       IF held = None
       THEN UNCHANGED <<held, fifo, got, truth>>
       ELSE /\ held' = CASE e.op = "get" -> held
                         [] e.op = "reset" -> e.arg
                         [] e.op \in {"tool", "replay"} -> Apply(e.arg, held)
            /\ Answer(e, IF e.op = "get" THEN held ELSE "ok")
            /\ truth' = IF e.op = "tool" THEN Apply(e.arg, truth) ELSE truth
            /\ fifo' = Tail(fifo)
  /\ UNCHANGED <<row, resetLost, faults>>

(* get_state, reset_state or tools/call on the worker thread; the agent's
   calls and the golden replay's are the same tools. *)
HolderServes ==
  /\ busy
  /\ LET e == Head(fifo) IN
       \/ /\ held # None
          /\ held' = CASE e.op = "get" -> held
                       [] e.op = "reset" -> e.arg
                       [] e.op \in {"tool", "replay"} -> Apply(e.arg, held)
          /\ Answer(e, IF e.op = "get" THEN held ELSE "ok")
          /\ truth' = IF e.op = "tool" THEN Apply(e.arg, truth) ELSE truth
          /\ UNCHANGED <<resetLost, faults>>
       \/ /\ IF held = None THEN UNCHANGED faults ELSE Fault("holder_error")
          /\ Answer(e, "error")
          /\ resetLost' = (resetLost \/ e.op = "reset")
          /\ UNCHANGED <<held, truth>>
  /\ fifo' = Tail(fifo)
  /\ busy' = FALSE
  /\ UNCHANGED row

WorldInit ==
  /\ row = None
  /\ held = None /\ fifo = <<>> /\ busy = FALSE /\ got = None
  /\ truth = "init" /\ resetLost = FALSE
  /\ faults = 0

WorldTypeOK ==
  /\ row \in Rows \cup {None}
  /\ held \in Worlds \cup {None}
  /\ fifo \in Seq(HolderCalls)
  /\ busy \in BOOLEAN
  /\ busy => fifo # <<>>
  /\ got \in Worlds \cup {None, "ok", "error"}
  /\ truth \in Worlds
  /\ resetLost \in BOOLEAN
  /\ faults \in 0..MaxFaults
=============================================================================
