--------------------------- MODULE TrialRegistry ---------------------------
(***************************************************************************)
(* RegisterTrial and cleanup_trial (runner/service.py) for one trial id.   *)
(* A retry reuses the id, so the registration of one attempt and the       *)
(* cleanup of another meet in the same three places: the db-service row,   *)
(* self.trials and self._artifact_dirs.                                    *)
(***************************************************************************)
EXTENDS TrialWorld

CONSTANT MaxAttempts    \* attempts of the trial: the queue's max_retries + 1

ASSUME AttemptsAssumption == MaxAttempts \in Nat \ {0}

VARIABLES
  ctx,        \* self.trials[id]: the attempt it was stored by
  art,        \* self._artifact_dirs[id], likewise
  tools,      \* the attempt whose tools are up
  released,   \* the attempts whose context says tools_released
  reg,        \* the RegisterTrial handler: its step, attempt and answer
  c           \* the cleanup coroutines: their step and the context they found

registryVars == <<ctx, art, tools, released, reg, c>>

Attempts == 1..MaxAttempts

(* Who runs a cleanup: the retry that follows attempt n, a registration that
   gives up (_abandon_registration), the Runner's stop (cleanup_all_trials). *)
Retry(n) == n
Abandoner == 0
Stopper == MaxAttempts
Cleaners == 0..MaxAttempts

NoCleanup == [pc |-> "idle", saw |-> None]

RegistryInit ==
  /\ ctx = None /\ art = None /\ tools = None /\ released = {}
  /\ reg = [pc |-> "idle", of |-> None, answer |-> None]
  /\ c = [n \in Cleaners |-> NoCleanup]

-----------------------------------------------------------------------------
(* RegisterTrial *)

RegGoto(s) == reg' = [reg EXCEPT !.pc = s]
RegAnswers(a) == reg' = [reg EXCEPT !.pc = "idle", !.answer = a]

RegisterTrial(n) ==
  /\ reg.pc = "idle"
  /\ reg' = [pc |-> "extract", of |-> n, answer |-> None]

(* The gates that need nothing, the tool artifacts, and the gates that need
   them, which drop them again. *)
Extract ==
  /\ reg.pc = "extract"
  /\ \/ art' = reg.of /\ RegGoto("init") /\ UNCHANGED faults
     \/ /\ Fault("refusal")
        /\ art' \in {art, None}
        /\ RegAnswers("refused")
  /\ UNCHANGED <<row, held, fifo, busy, got, truth, resetLost,
                 ctx, tools, released, c>>

(* db_client.init_trial; an existing row is the duplicate that the db-service
   refuses. *)
InitTrial ==
  /\ reg.pc = "init"
  /\ \/ /\ row # None
        /\ RegAnswers("duplicate")
        /\ UNCHANGED <<row, faults>>
     \/ /\ row = None
        /\ row' = NewRow(reg.of)
        /\ RegGoto("build")
        /\ UNCHANGED faults
     \/ /\ row = None
        /\ Fault("db_error") /\ UNCHANGED row
        /\ RegAnswers("refused")
     \/ /\ row = None
        /\ Fault("db_lost") /\ row' = NewRow(reg.of)
        /\ RegAnswers("refused")
  /\ UNCHANGED <<held, fifo, busy, got, truth, resetLost,
                 ctx, art, tools, released, c>>

(* Files, search index and tools, then self.trials[id] = trial_context. *)
Build(holder) ==
  /\ reg.pc = "build"
  /\ \/ /\ tools' = reg.of
        /\ held' = IF holder THEN "init" ELSE None
        /\ fifo' = <<>> /\ busy' = FALSE /\ got' = None
        /\ truth' = "init"
        /\ ctx' = reg.of
        /\ RegGoto("start")
        /\ UNCHANGED faults
     \/ /\ Fault("build_fails")
        /\ RegAnswers("refused")
        /\ UNCHANGED <<tools, held, fifo, busy, got, truth, ctx>>
  /\ UNCHANGED <<row, resetLost, art, released, c>>

(* tool.start and the app world; a failure cleans the trial up first. *)
Start ==
  /\ reg.pc = "start"
  /\ \/ RegAnswers("ok") /\ UNCHANGED <<faults, c>>
     \/ /\ Fault("start_fails")
        /\ RegGoto("abandon")
        /\ c' = [c EXCEPT ![Abandoner] = [pc |-> "look", saw |-> None]]
  /\ UNCHANGED <<row, held, fifo, busy, got, truth, resetLost,
                 ctx, art, tools, released>>

AbandonRegistration ==
  /\ reg.pc = "abandon"
  /\ c[Abandoner].pc \in {"done", "failed"}
  /\ RegAnswers("refused")
  /\ UNCHANGED <<worldVars, ctx, art, tools, released, c>>

-----------------------------------------------------------------------------
(* cleanup_trial *)

CGoto(n, s) == c' = [c EXCEPT ![n].pc = s]

(* Holders of one context's cleanup_lock. *)
Locked(context) ==
  \E n \in Cleaners : /\ c[n].saw = context
                      /\ c[n].pc \in {"tools", "delete", "forget"}

(* A slip: an unknown trial has nothing to clean up. *)
CleanupLookKnown(n) ==
  /\ c[n].pc = "look"
  /\ c' = [c EXCEPT ![n] = [pc |-> IF ctx = None THEN "done" ELSE "lock",
                            saw |-> ctx]]
  /\ UNCHANGED <<worldVars, ctx, art, tools, released, reg>>

(* The context is looked up and its lock asked for. *)
CleanupLook(n) ==
  /\ c[n].pc = "look"
  /\ c' = [c EXCEPT ![n] = [pc |-> IF ctx = None THEN "delete" ELSE "lock",
                            saw |-> ctx]]
  /\ UNCHANGED <<worldVars, ctx, art, tools, released, reg>>

(* A slip: no second look once the lock is held. *)
CleanupLockBlind(n) ==
  /\ c[n].pc = "lock"
  /\ ~Locked(c[n].saw)
  /\ CGoto(n, IF c[n].saw \in released THEN "delete" ELSE "tools")
  /\ UNCHANGED <<worldVars, ctx, art, tools, released, reg>>

CleanupLock(n) ==
  /\ c[n].pc = "lock"
  /\ ~Locked(c[n].saw)
  /\ CGoto(n, CASE ctx # c[n].saw -> "done"
                [] ctx = c[n].saw /\ ctx \in released -> "delete"
                [] OTHER -> "tools")
  /\ UNCHANGED <<worldVars, ctx, art, tools, released, reg>>

(* A slip: a tool that does not stop is logged. *)
CleanupToolsLogged(n) ==
  /\ c[n].pc = "tools"
  /\ \/ /\ CGoto(n, "delete") /\ UNCHANGED faults
        /\ released' = released \cup {c[n].saw}
        /\ tools' = IF tools = c[n].saw THEN None ELSE tools
     \/ /\ Fault("stop_fails")
        /\ CGoto(n, "delete")
        /\ UNCHANGED <<released, tools>>
  /\ held' = IF tools' = None THEN None ELSE held
  /\ UNCHANGED <<row, fifo, busy, got, truth, resetLost, ctx, art, reg>>

(* cleanup_tools on a thread: every tool is tried, the failures raised at the
   end.  The handler's budget leaves the thread to finish. *)
CleanupTools(n) ==
  /\ c[n].pc = "tools"
  /\ \/ /\ CGoto(n, "delete") /\ UNCHANGED faults
        /\ released' = released \cup {c[n].saw}
        /\ tools' = IF tools = c[n].saw THEN None ELSE tools
     \/ /\ Fault("stop_fails")
        /\ CGoto(n, "failed")
        /\ tools' \in {tools, IF tools = c[n].saw THEN None ELSE tools}
        /\ UNCHANGED released
     \/ /\ Fault("budget")
        /\ CGoto(n, "failed")
        /\ tools' = IF tools = c[n].saw THEN None ELSE tools
        /\ UNCHANGED released
  /\ held' = IF tools' = None THEN None ELSE held
  /\ UNCHANGED <<row, fifo, busy, got, truth, resetLost, ctx, art, reg>>

(* db_client.delete_trial; an unknown trial is a deleted one. *)
CleanupDelete(n) ==
  /\ c[n].pc = "delete"
  /\ \/ row' = None /\ CGoto(n, "forget") /\ UNCHANGED faults
     \/ Fault("db_error") /\ UNCHANGED row /\ CGoto(n, "failed")
     \/ Fault("db_lost") /\ row' = None /\ CGoto(n, "failed")
     \/ Fault("budget") /\ row' \in {row, None} /\ CGoto(n, "failed")
  /\ UNCHANGED <<held, fifo, busy, got, truth, resetLost,
                 ctx, art, tools, released, reg>>

(* The artifacts, then the context: del self.trials[id]. *)
CleanupForget(n) ==
  /\ c[n].pc = "forget"
  /\ art' = None
  /\ ctx' = IF c[n].saw = None THEN ctx ELSE None
  /\ CGoto(n, IF c[n].saw # None /\ ctx = None THEN "failed" ELSE "done")
  /\ UNCHANGED <<worldVars, tools, released, reg>>

-----------------------------------------------------------------------------
(* RunnerServer.stop: every trial of self.trials is cleaned up while the
   server still takes calls. *)
RunnerStops ==
  /\ c[Stopper].pc = "idle"
  /\ ctx # None
  /\ Fault("shutdown")
  /\ c' = [c EXCEPT ![Stopper] = [pc |-> "look", saw |-> None]]
  /\ UNCHANGED <<row, held, fifo, busy, got, truth, resetLost,
                 ctx, art, tools, released, reg>>

(* The process is gone, after its stop or without one, with everything it
   kept in memory and its children; a new one serves the next call. *)
ProcessGone ==
  /\ ctx' = None /\ art' = None /\ tools' = None
  /\ held' = None /\ fifo' = <<>> /\ busy' = FALSE /\ got' = None
  /\ c' = [n \in Cleaners |->
             CASE n = Stopper -> NoCleanup
               [] n # Stopper /\ c[n].pc \in {"idle", "done"} -> c[n]
               [] OTHER -> [c[n] EXCEPT !.pc = "failed"]]
  /\ reg' = IF reg.pc = "idle" THEN reg
            ELSE [reg EXCEPT !.pc = "idle", !.answer = "refused"]
  /\ UNCHANGED <<row, truth, resetLost, released>>

CleanupStep(n) ==
  CleanupLook(n) \/ CleanupLock(n) \/ CleanupTools(n) \/ CleanupDelete(n)
    \/ CleanupForget(n)

RegistryTypeOK ==
  /\ {ctx, art, tools} \subseteq Attempts \cup {None}
  /\ released \subseteq Attempts
  /\ reg \in [pc : {"idle", "extract", "init", "build", "start", "abandon"},
              of : Attempts \cup {None}, answer : {None, "ok", "refused", "duplicate"}]
  /\ c \in [Cleaners -> [pc : {"idle", "look", "lock", "tools", "delete", "forget",
                              "done", "failed"},
                        saw : Attempts \cup {None}]]
=============================================================================
