---------------------------- MODULE RunnerTrial ----------------------------
(***************************************************************************)
(* One trial as the engine drives it through a Runner (conductor.py,       *)
(* orchestrator.py): registration, the agent's tool calls, the capture of  *)
(* the final state and the grade; an attempt that failed is cleaned up and *)
(* the trial is registered again.                                          *)
(***************************************************************************)
EXTENDS HashGrading, TrialRegistry

CONSTANT MaxCalls    \* bound on the agent's tool calls in an attempt

ASSUME CallsAssumption == MaxCalls \in Nat

VARIABLES
  pc,       \* the engine's step
  att,      \* its attempt
  calls,    \* tool calls of the attempt
  failed,   \* the attempt ended in a failure
  late,     \* a timed-out tool call still running in the Runner
  upset     \* what befell the attempt:
            \*   "hurried"     it registered before the cleanup had answered,
            \*                 or an earlier attempt did
            \*   "stopped"     the Runner was told to stop, in it or before
            \*   "gone"        the Runner process it was registered with died
            \*   "late_write"  a timed-out call wrote after the last call
            \*   "stray_gold"  a golden action wrote after the grading's end

engineVars == <<pc, att, calls, failed, late, upset>>

vars == <<worldVars, gradingVars, registryVars, engineVars>>

LateCalls == [act : Acts, of : Attempts]

TypeOK ==
  /\ WorldTypeOK /\ GradingTypeOK /\ RegistryTypeOK
  /\ pc \in {"register", "registering", "agent", "calling", "capture",
             "capturing", "grade", "grading", "cleanup", "cleaning", "over"}
  /\ att \in Attempts
  /\ calls \in 0..MaxCalls
  /\ failed \in BOOLEAN
  /\ upset \subseteq {"hurried", "stopped", "gone", "late_write", "stray_gold"}
  /\ late \in LateCalls \cup {None}

Init ==
  /\ WorldInit /\ GradingInit /\ RegistryInit
  /\ pc = "register" /\ att = 1 /\ calls = 0
  /\ failed = FALSE /\ late = None /\ upset = {}

-----------------------------------------------------------------------------
(* Conductor._setup_trial: a refusal is a PROVISION_ERROR, never retried. *)
EngineRegisters ==
  /\ pc = "register"
  /\ RegisterTrial(att)
  /\ pc' = "registering"
  /\ UNCHANGED <<worldVars, gradingVars, ctx, art, tools, released, c,
                 att, calls, failed, late, upset>>

EngineRegistered ==
  /\ pc = "registering" /\ reg.answer # None
  /\ pc' = IF reg.answer = "ok" THEN "agent" ELSE "over"
  /\ UNCHANGED <<worldVars, gradingVars, registryVars,
                 att, calls, failed, late, upset>>

-----------------------------------------------------------------------------
(* ExecuteTool for a registered trial: through the MCP server's thread, on the
   app world, or on the db-service. *)
CallHolder(a) ==
  /\ pc = "agent" /\ calls < MaxCalls /\ ctx # None /\ hasHolder /\ ~app
  /\ Hand("tool", a)
  /\ pc' = "calling" /\ calls' = calls + 1
  /\ UNCHANGED <<row, held, busy, got, truth, resetLost, faults, gradingVars,
                 registryVars, att, failed, late, upset>>

CallReturns ==
  /\ pc = "calling" /\ got # None
  /\ got' = None
  /\ pc' = "agent"
  /\ UNCHANGED <<row, held, fifo, busy, truth, resetLost, faults, gradingVars,
                 registryVars, att, calls, failed, late, upset>>

CallTimesOut ==
  /\ pc = "calling" /\ got = None
  /\ Fault("tool_timeout")
  /\ Abandon
  /\ pc' = "agent"
  /\ UNCHANGED <<row, held, busy, got, truth, resetLost, gradingVars,
                 registryVars, att, calls, failed, late, upset>>

CallApp(a) ==
  /\ pc = "agent" /\ calls < MaxCalls /\ ctx # None /\ app
  /\ AppRequest(a, truth' = Apply(a, truth),
                   truth' = IF held' = held THEN truth ELSE Apply(a, truth))
  /\ calls' = calls + 1
  /\ UNCHANGED <<row, fifo, busy, got, resetLost, gradingVars, registryVars,
                 pc, att, failed, late, upset>>

(* The tool writes, fails, or is left running on its thread. *)
CallDb(a) ==
  /\ pc = "agent" /\ calls < MaxCalls /\ ctx # None /\ ~hasHolder
  /\ \/ /\ Request(IF row = None THEN None
                   ELSE [row EXCEPT !.data = Apply(a, row.data)],
                   truth' = Apply(a, truth),
                   truth' = IF row' = row THEN truth ELSE Apply(a, truth))
        /\ UNCHANGED late
     \/ /\ late = None
        /\ Fault("tool_timeout")
        /\ late' = [act |-> a, of |-> att]
        /\ UNCHANGED <<row, truth>>
  /\ calls' = calls + 1
  /\ UNCHANGED <<held, fifo, busy, got, resetLost, gradingVars, registryVars,
                 pc, att, failed, upset>>

(* The write of a tool call nobody waits for. *)
LateWrite ==
  /\ late # None
  /\ late' = None
  /\ row' = IF row = None THEN None
            ELSE [row EXCEPT !.data = Apply(late.act, row.data)]
  /\ IF pc \in {"agent", "calling"} /\ late.of = att
     THEN truth' = Apply(late.act, truth) /\ UNCHANGED upset
     ELSE upset' = upset \cup {"late_write"} /\ UNCHANGED truth
  /\ UNCHANGED <<held, fifo, busy, got, resetLost, faults, gradingVars,
                 registryVars, pc, att, calls, failed>>

(* The write of a golden action nobody waits for.  The undo's restore takes it
   out again if it is still to come; behind it nothing does. *)
StrayWrite ==
  /\ stray
  /\ stray' = FALSE
  /\ row' = IF row = None THEN None
            ELSE [row EXCEPT !.data = Apply("gold", row.data)]
  /\ upset' = IF g = Idle THEN upset \cup {"stray_gold"} ELSE upset
  /\ UNCHANGED <<held, fifo, busy, got, truth, resetLost, faults,
                 hasHolder, app, fast, g, res,
                 registryVars, pc, att, calls, failed, late>>

(* The loop ends, well or with a retryable failure; a trial the Runner does
   not know is lost (TRIAL_LOST). *)
AgentEnds ==
  /\ pc = "agent"
  /\ failed' \in IF ctx = None THEN {TRUE} ELSE BOOLEAN
  /\ pc' = "capture"
  /\ UNCHANGED <<worldVars, gradingVars, registryVars,
                 att, calls, late, upset>>

-----------------------------------------------------------------------------
(* _capture_final_state: a Runner that does not hold the trial answers from
   the mirror as it stands. *)
EngineCaptures ==
  /\ pc = "capture"
  /\ StartRead("capture", hasHolder /\ ctx # None)
  /\ pc' = "capturing"
  /\ UNCHANGED <<worldVars, hasHolder, app, fast, stray, registryVars,
                 att, calls, failed, late, upset>>

(* An attempt that failed is not graded by the Runner. *)
EngineCaptured ==
  /\ pc = "capturing" /\ res.answer # None
  /\ pc' = CASE ~failed -> "grade"
             [] failed /\ att < MaxAttempts -> "cleanup"
             [] OTHER -> "over"
  /\ UNCHANGED <<worldVars, gradingVars, registryVars,
                 att, calls, failed, late, upset>>

(* GradeTrial refuses an unknown trial. *)
EngineGrades ==
  /\ pc = "grade"
  /\ \/ /\ ctx # None
        /\ StartRead("grade", hasHolder)
        /\ pc' = "grading"
     \/ ctx = None /\ pc' = "over" /\ UNCHANGED <<g, res>>
  /\ UNCHANGED <<worldVars, hasHolder, app, fast, stray, registryVars,
                 att, calls, failed, late, upset>>

EngineGraded ==
  /\ pc = "grading" /\ res.answer # None
  /\ pc' = "over"
  /\ UNCHANGED <<worldVars, gradingVars, registryVars,
                 att, calls, failed, late, upset>>

-----------------------------------------------------------------------------
(* _cleanup_runner_state_for_retry: its failure does not stop the retry. *)
EngineCleansUp ==
  /\ pc = "cleanup"
  /\ c' = [c EXCEPT ![Retry(att)] = [pc |-> "look", saw |-> None]]
  /\ pc' = "cleaning"
  /\ UNCHANGED <<worldVars, gradingVars, ctx, art, tools, released, reg,
                 att, calls, failed, late, upset>>

(* The next attempt, after the cleanup; or before its answer, by a worker
   that leased the requeued trial. *)
NextAttempt ==
  /\ pc = "cleaning"
  /\ \/ /\ c[Retry(att)].pc \in {"done", "failed"}
        /\ upset' = upset \cap {"hurried", "stopped"}
        /\ UNCHANGED faults
     \/ /\ c[Retry(att)].pc \notin {"done", "failed"}
        /\ upset' = (upset \cap {"stopped"}) \cup {"hurried"}
        /\ Fault("overlap")
  /\ att' = att + 1
  /\ calls' = 0 /\ failed' = FALSE
  /\ res' = NoResult
  /\ pc' = "register"
  /\ UNCHANGED <<row, held, fifo, busy, got, truth, resetLost,
                 hasHolder, app, fast, g, stray, registryVars, late>>

-----------------------------------------------------------------------------
(* The Runner process is gone: a call in flight breaks. *)
RunnerGone ==
  /\ \/ c[Stopper].pc \in {"done", "failed"} /\ UNCHANGED faults
     \/ Fault("restart")
  /\ ProcessGone
  /\ g' = Idle
  /\ res' = IF g = Idle THEN res
            ELSE [res EXCEPT !.answer = "failed", !.ended = "loose"]
  /\ pc' = IF pc = "calling" THEN "agent" ELSE pc
  /\ late' = None /\ stray' = FALSE
  /\ upset' = upset \cup {"gone"}
  /\ UNCHANGED <<hasHolder, app, fast, att, calls, failed>>

Engine ==
  \/ EngineRegisters \/ EngineRegistered
  \/ \E a \in Acts : CallHolder(a) \/ CallApp(a) \/ CallDb(a)
  \/ CallReturns \/ CallTimesOut
  \/ AgentEnds
  \/ EngineCaptures \/ EngineCaptured
  \/ EngineGrades \/ EngineGraded
  \/ EngineCleansUp \/ NextAttempt

Runner ==
  \/ /\ Extract \/ InitTrial \/ Build(hasHolder) \/ Start
          \/ AbandonRegistration
     /\ UNCHANGED <<gradingVars, engineVars>>
  \/ /\ \E n \in Cleaners : CleanupStep(n)
     /\ UNCHANGED <<gradingVars, engineVars>>
  \/ /\ RunnerStops
     /\ upset' = upset \cup {"stopped"}
     /\ UNCHANGED <<gradingVars, pc, att, calls, failed, late>>
  \/ /\ HolderStarts \/ HolderServes
     /\ UNCHANGED <<gradingVars, registryVars, engineVars>>
  \/ /\ GradingStep
     /\ UNCHANGED <<registryVars, engineVars>>
  \/ LateWrite \/ StrayWrite
  \/ RunnerGone

(* Nothing runs any more. *)
Quiet ==
  /\ pc = "over" /\ g = Idle /\ fifo = <<>> /\ late = None /\ ~stray
  /\ \A n \in Cleaners : c[n].pc \in {"idle", "done", "failed"}

Next == Engine \/ Runner \/ (Quiet /\ UNCHANGED vars)

Spec == Init /\ [][Next]_vars /\ WF_vars(Engine \/ Runner)

-----------------------------------------------------------------------------
(* A hash verdict is about the world the agent's calls made: a match exactly
   when they made the golden world, whatever failed before the grading, in it
   or in the holder's queue, and never a score for a replay that failed.  The
   one exception is a tool call that writes to the db-service after its
   timeout. *)
VerdictTrue ==
  res.verdict \in {"match", "mismatch"} /\ "late_write" \notin upset =>
    (res.verdict = "match" <=> truth = "gold")

(* A final state that GetState answers for a registered trial is the one the
   agent's calls made: a mirror that missed its sync is never served. *)
CaptureTrue ==
  res.captured # None /\ ctx = att /\ "late_write" \notin upset =>
    res.captured = truth

(* Hash grading takes the golden world out again.  Once a grading ended with
   a verdict, or failed in steps 3-6 and its undo was not cut short, the
   database and the holder are back in the state the agent left, as soon as
   the holder has served what it was handed, unless a tool call of the agent
   wrote to the db-service after its timeout.  What the undo does not take
   out is the write of a golden action that was running when the budget cut
   the replay and that came after the undo: the database is then the agent's
   world with that one write on top, and nothing else. *)
WorldHandedBack ==
  /\ res.ended \in {"graded", "undone"}
  /\ fifo = <<>> /\ ~resetLost
  /\ "late_write" \notin upset
  => /\ row # None => row.data = IF "stray_gold" \in upset
                                 THEN Apply("gold", truth) ELSE truth
     /\ held # None => held = truth

UnderWay == {"agent", "calling", "capture", "capturing", "grade", "grading"}

(* A cleanup may still be about to forget an earlier attempt. *)
Overtaken == "hurried" \in upset \/ c[Stopper].pc # "idle"

(* An attempt under way has its own registration.  When every earlier cleanup
   was through it has all of it, for as long as the Runner lives.  A cleanup
   that was not through may forget its context and its artifacts, but deletes
   its row or stops its tools only if it found no context, or this one, or a
   cleanup of the same context failed before it: else one that found an
   earlier attempt's never does. *)
OwnRegistration ==
  pc \in UnderWay =>
    /\ ~Overtaken /\ "gone" \notin upset =>
         /\ {ctx, art, tools} = {att}
         /\ row # None /\ row.of = att
    /\ /\ ctx = att
       /\ \A n \in Cleaners : \/ c[n].pc = "idle"
                              \/ c[n].saw \notin {None, att} /\ c[n].pc # "failed"
       => /\ tools = att
          /\ row # None /\ row.of = att

(* A retry is refused as a duplicate only when the cleanup before it failed,
   or one had not answered, or the Runner's own was among them: a CleanupTrial
   that no other cleanup overtook never says success and leaves the row. *)
RetryNotRefused ==
  reg.answer = "duplicate" =>
    \/ upset \cap {"hurried", "stopped"} # {}
    \/ c[Retry(reg.of - 1)].pc = "failed"

(* Tools that are up are known to the Runner: no cleanup forgets the context
   of tools that it could not stop. *)
ToolsAccountedFor ==
  tools # None /\ ~Overtaken => ctx = tools

(* Every trial ends for the engine, and every coroutine, cleanup and queued
   call it left in the Runner comes to an end: a wait on the holder that has
   no bound of its own is answered. *)
EverythingSettles == <>Quiet
=============================================================================
