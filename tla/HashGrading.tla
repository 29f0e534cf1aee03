---------------------------- MODULE HashGrading ----------------------------
(***************************************************************************)
(* The two reads of a trial's final state (runner/service.py): GetState,   *)
(* and GradeTrial's hash grading.  Each is one coroutine; a step is what   *)
(* it does between two awaits.  Hash grading turns the trial's own row and *)
(* holder into the golden world and must turn both back.                   *)
(***************************************************************************)
EXTENDS TrialWorld

VARIABLES
  hasHolder,   \* the trial's state lives in a holder, the row mirrors it
  app,         \* the holder is an app world
  fast,        \* hashed by the db-service; else from states fetched
  g,           \* the coroutine: its step, its call and what it has read
  stray,       \* a golden action that was given up still runs
  res          \* what the caller learnt

gradingVars == <<hasHolder, app, fast, g, stray, res>>

Idle == [pc |-> "idle", waits |-> FALSE, call |-> None,
         hashed |-> None, golden |-> None, replayFailed |-> FALSE]

NoResult == [answer |-> None, captured |-> None, verdict |-> None,
             ended |-> None]

GradingInit ==
  /\ hasHolder \in BOOLEAN /\ fast \in BOOLEAN
  /\ app \in BOOLEAN /\ (app => hasHolder)
  /\ g = Idle /\ stray = FALSE
  /\ res = NoResult

-----------------------------------------------------------------------------
(* Steps 3-6, whose failure is followed by _restore_pre_golden_after_failure *)
Protected == {"reset", "hreset", "replay", "sync2", "snap2", "ghash"}

(* The steps that are one db-service request, what it does to the trial and
   the step after it. *)
DbSteps == {"read", "hash", "snap", "reset", "snap2", "ghash",
            "restore", "hget", "diff1", "diff2", "diff3", "diff4",
            "undo", "undo_get", "undo_db"}
             \cup (IF hasHolder THEN {} ELSE {"replay"})

Served(s) ==
  IF row = None THEN None
  ELSE CASE s = "snap" -> [row EXCEPT !.pre = row.data]
         [] s = "reset" -> [row EXCEPT !.data = "init"]
         [] s = "replay" -> [row EXCEPT !.data = Apply("gold", row.data)]
         [] s = "snap2" -> [row EXCEPT !.res = row.data]
         [] s \in {"restore", "diff4", "undo", "undo_db"} ->
              [row EXCEPT !.data = row.pre]
         [] s = "diff2" -> [row EXCEPT !.data = row.res]
         [] OTHER -> row

StepAfter(s) ==
  CASE s = "sync" -> IF g.call = "capture" THEN "read" ELSE "hash"
    [] s = "snap" -> "reset"
    [] s = "reset" -> IF hasHolder THEN "hreset" ELSE "replay"
    [] s = "replay" -> IF hasHolder THEN "sync2" ELSE "snap2"
    [] s = "sync2" -> "snap2"
    [] s = "snap2" -> "ghash"
    [] s = "diff1" -> "diff2"
    [] s = "diff2" -> "diff3"
    [] s = "diff3" -> "diff4"

Goto(s) == g' = [g EXCEPT !.pc = s, !.waits = FALSE] /\ UNCHANGED res

(* On to a step that waits for the holder. *)
WaitAt(s) == g' = [g EXCEPT !.pc = s, !.waits = TRUE] /\ UNCHANGED res

(* The coroutine is over; `how' says in what the trial's state was left. *)
Ends(how) ==
  /\ g' = Idle
  /\ res' = [res EXCEPT !.answer = "failed", !.ended = how]

(* An exception at the coroutine's step. *)
Raises ==
  CASE g.pc \in Protected -> Goto("undo")
    [] g.pc = "diff3" -> Goto("undo_db")
    [] OTHER -> Ends("loose")

(* The end of a capture: GetStateResponse. *)
Captured(w) ==
  /\ g' = Idle
  /\ res' = [res EXCEPT !.answer = "ok", !.captured = w]

(* Step 8, and the end: an unscorable replay gives no hash score. *)
Graded ==
  /\ g' = Idle
  /\ res' = [res EXCEPT
       !.answer = "ok",
       !.ended = "graded",
       !.verdict = CASE g.replayFailed -> "unscorable"
                     [] ~g.replayFailed /\ g.hashed = g.golden -> "match"
                     [] OTHER -> "mismatch"]

(* After step 7: the server-side path fetches the states of a mismatch. *)
Compare ==
  IF fast /\ g.hashed # g.golden THEN Goto("diff1") ELSE Graded

-----------------------------------------------------------------------------
(* A slip: the mirror that the last read left is good enough. *)
StartReadUnsynced(what, synced) ==
  /\ g = Idle
  /\ g' = [Idle EXCEPT !.call = what,
                       !.pc = IF what = "capture" THEN "read" ELSE "hash"]
  /\ res' = [res EXCEPT !.answer = None]

(* _get_state_async, _grade_trial_async: `synced' says that the call begins
   with the holder's live state. *)
StartRead(what, synced) ==
  /\ g = Idle
  /\ g' = [Idle EXCEPT !.call = what,
                       !.pc = CASE synced -> "sync"
                                [] ~synced /\ what = "capture" -> "read"
                                [] OTHER -> "hash"]
  /\ res' = [res EXCEPT !.answer = None]

(* A call the coroutine hands to the holder: the live read, the reset, the
   golden action. *)
HandOver ==
  /\ ~g.waits
  /\ \/ g.pc \in {"sync", "sync2"} /\ Hand("get", None)
     \/ g.pc = "hreset" /\ Hand("reset", "init")
     \/ g.pc = "replay" /\ hasHolder /\ ~app /\ Hand("replay", "gold")
  /\ WaitAt(g.pc)
  /\ UNCHANGED <<row, held, busy, got, truth, resetLost, faults,
                 hasHolder, app, fast, stray>>

(* The golden action on an app world; one that failed is recorded. *)
ReplayApp ==
  /\ g.pc = "replay" /\ app /\ ~g.waits
  /\ AppRequest("gold",
       g' = [g EXCEPT !.pc = "sync2"],
       g' = [g EXCEPT !.pc = "sync2", !.replayFailed = TRUE])
  /\ UNCHANGED <<row, fifo, busy, got, truth, resetLost,
                 hasHolder, app, fast, stray, res>>

(* A slip: a sync that failed is logged and the read goes on. *)
MirrorLogged ==
  /\ row # None
  /\ \/ row' = [row EXCEPT !.data = got] /\ UNCHANGED faults
     \/ Fault("db_error") /\ UNCHANGED row
  /\ Goto(StepAfter(g.pc))

(* _sync_mcp_state_to_db: the differing tables, one request each.  A sync of
   a grading whose caller left runs to its end and nobody goes on. *)
Mirror ==
  \/ /\ row # None
     /\ row' = [row EXCEPT !.data = got]
     /\ UNCHANGED faults
     /\ IF g.pc = "sync" /\ res.answer # None
        THEN Ends("loose") ELSE Goto(StepAfter(g.pc))
  \/ row = None /\ UNCHANGED <<row, faults>> /\ Raises
  \/ /\ row # None
     /\ Fault("db_error")
     /\ \E w \in {row.data, got} \cup (IF row.data = got THEN {} ELSE {"half"}) :
          row' = [row EXCEPT !.data = w]
     /\ Raises

(* What the coroutine does with the holder's answer; a golden action that
   failed is recorded. *)
HolderAnswers ==
  /\ g.waits /\ got # None
  /\ got' = None
  /\ \/ g.pc \in {"sync", "sync2"} /\ got # "error" /\ Mirror
     \/ /\ g.pc = "replay"
        /\ g' = [g EXCEPT !.pc = "sync2", !.waits = FALSE,
                          !.replayFailed = (got = "error")]
        /\ UNCHANGED <<row, faults, res>>
     \/ /\ g.pc # "replay" /\ got = "error"
        /\ Raises
        /\ UNCHANGED <<row, faults>>
     \/ /\ g.pc \in {"hreset", "hback", "undo_h"} /\ got # "error"
        /\ CASE g.pc = "hreset" -> Goto("replay")
             [] g.pc = "hback" -> Compare
             [] g.pc = "undo_h" -> Ends("undone")
        /\ UNCHANGED <<row, faults>>
  /\ UNCHANGED <<held, fifo, busy, truth, resetLost, hasHolder, app, fast, stray>>

(* holder_read_s elapses: on a read, or on the shielded reset of the undo,
   which stays with the holder. *)
HolderTooSlow ==
  /\ g.waits /\ got = None
  /\ Fault("holder_slow")
  /\ \/ g.pc \in {"sync", "sync2"} /\ Abandon /\ Raises
     \/ g.pc = "undo_h" /\ StopWaiting /\ Ends("undone")
  /\ UNCHANGED <<row, held, busy, got, truth, resetLost, hasHolder, app, fast, stray>>

(* A slip: the undo gives the database its state back and not the holder. *)
UndoHolderNot == Ends("undone")

(* The undo's second half. *)
UndoHolder == IF hasHolder THEN Goto("undo_get") ELSE Ends("undone")

(* What the answer to a request lets the coroutine do next.  The states that
   step 7 hands to the holder are the ones the db-service answers with. *)
DbAnswers ==
  CASE g.pc = "read" -> Captured(row.data) /\ UNCHANGED fifo
    [] g.pc = "hash" ->
         /\ g' = [g EXCEPT !.pc = "snap", !.hashed = row.data]
         /\ UNCHANGED <<fifo, res>>
    [] g.pc = "ghash" ->
         /\ g' = [g EXCEPT !.pc = "restore", !.golden = row.data]
         /\ UNCHANGED <<fifo, res>>
    [] g.pc = "restore" ->
         (IF hasHolder THEN Goto("hget") ELSE Compare) /\ UNCHANGED fifo
    [] g.pc = "hget" -> Hand("reset", row.data) /\ WaitAt("hback")
    [] g.pc = "diff4" -> Graded /\ UNCHANGED fifo
    [] g.pc = "undo" -> UndoHolder /\ UNCHANGED fifo
    [] g.pc = "undo_get" -> Hand("reset", row.data) /\ WaitAt("undo_h")
    [] g.pc = "undo_db" -> Ends("undone") /\ UNCHANGED fifo
    [] OTHER -> Goto(StepAfter(g.pc)) /\ UNCHANGED fifo

(* One request of the coroutine.  A golden action that fails in the
   db-service is recorded and the replay goes on. *)
DbRequest ==
  /\ g.pc \in DbSteps
  /\ Request(Served(g.pc), DbAnswers,
       /\ UNCHANGED fifo
       /\ IF g.pc = "replay"
          THEN /\ g' = [g EXCEPT !.pc = "snap2", !.replayFailed = TRUE]
               /\ UNCHANGED res
          ELSE Raises)
  /\ UNCHANGED <<held, busy, got, truth, resetLost, hasHolder, app, fast, stray>>

-----------------------------------------------------------------------------
(* The handler's budget elapses: its caller is answered, and the coroutine is
   cancelled where it waits, which is never in an app world's replay; the
   request it waits for is served or not, and a golden action on the
   db-service may still be running.  The sync of a grading is shielded; so is
   the reset of an undo. *)
BudgetElapses ==
  /\ g.pc # "idle" /\ res.answer = None
  /\ Fault("budget")
  /\ \/ /\ g.call = "grade" /\ g.pc = "sync"
        /\ res' = [res EXCEPT !.answer = "failed"]
        /\ UNCHANGED <<row, fifo, got, g, stray>>
     \/ /\ ~(g.call = "grade" /\ g.pc = "sync")
        /\ ~(g.pc = "replay" /\ app)
        /\ \/ /\ row' \in {row, IF g.pc \in DbSteps THEN Served(g.pc) ELSE row}
              /\ UNCHANGED stray
           \/ /\ g.pc = "replay" /\ ~hasHolder
              /\ stray' = TRUE
              /\ UNCHANGED row
        /\ IF g.pc = "undo_h" THEN StopWaiting ELSE Abandon
        /\ got' = None
        /\ CASE g.pc \in Protected \cup {"diff3"} ->
                  /\ g' = [g EXCEPT !.waits = FALSE,
                        !.pc = IF g.pc = "diff3" THEN "undo_db" ELSE "undo"]
                  /\ res' = [res EXCEPT !.answer = "failed"]
             [] g.pc = "undo_h" -> Ends("undone")
             [] OTHER -> Ends("loose")
  /\ UNCHANGED <<held, busy, truth, resetLost, hasHolder, app, fast>>

GradingStep ==
  HandOver \/ ReplayApp \/ HolderAnswers \/ HolderTooSlow \/ DbRequest \/ BudgetElapses

GradingTypeOK ==
  /\ {hasHolder, app, fast, stray} \subseteq BOOLEAN
  /\ app => hasHolder
  /\ g \in [pc : {"idle", "sync", "hreset", "replay", "sync2", "hback", "undo_h"} \cup DbSteps,
            waits : BOOLEAN, call : {None, "capture", "grade"},
            hashed : Worlds \cup {None}, golden : Worlds \cup {None},
            replayFailed : BOOLEAN]
  /\ res \in [answer : {None, "ok", "failed"}, captured : Worlds \cup {None},
              verdict : {None, "match", "mismatch", "unscorable"},
              ended : {None, "graded", "undone", "loose"}]
=============================================================================
