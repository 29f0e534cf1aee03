-------------------------- MODULE TrialTruthProofs --------------------------
(***************************************************************************)
(* Proofs about what RunnerTrial reports of a trial's state: the verdict   *)
(* of hash grading and the captured final state are about the world the    *)
(* agent's calls made, and hash grading hands that world back.             *)
(*                                                                         *)
(* The argument follows the state through its four places (the row, the    *)
(* holder, the calls on their way to the holder and what the coroutine     *)
(* has read) along the steps of the two reads; the registry matters only   *)
(* in that a cleanup takes a place away and never changes what is in it.   *)
(***************************************************************************)
EXTENDS RunnerTrialProofs

(* No timed-out tool call has written behind the agent's back. *)
Clean == "late_write" \notin upset

(* No golden action has written behind the grading's. *)
Unstrayed == "stray_gold" \notin upset

(* The attempt's world is built and nothing but the agent has touched it. *)
Fresh ==
  \/ reg.pc = "start"
  \/ pc = "registering" /\ reg.answer = "ok"
  \/ pc \in {"agent", "calling", "capture", "capturing", "grade"}

(* Before the final state is captured; and while or after it is graded. *)
Early == {"register", "registering", "agent", "calling", "capture"}
Late == {"grading", "over"}

(* The steps of the coroutine that only a trial with a holder takes, and those
   of the undo that may follow a call left behind. *)
HolderSteps == {"sync", "hreset", "sync2", "hget", "hback", "undo_get", "undo_h"}
Undoing == {"undo", "undo_get", "undo_h"}
LiveSteps == {"sync", "hash", "snap", "reset"}
Claims == {"graded", "undone"}

(* The row r, or the holder's world h, is w where there is one. *)
RowHas(r, w) == r # None => r.data = w
PreHas(r, w) == r # None => r.pre = w
HeldHas(h, w) == h # None => h = w
DataIs(w) == Clean => RowHas(row, w)

(* An answer the coroutine can go on with. *)
Ok(x) == x \notin {None, "error"}

(* The holder's queue q: which calls are in it; that all are awaited, or all
   but one that was sent; the arguments of its replays, of its resets and of
   what is awaited; and what its last call leaves. *)
Ops(q, S) == \A i \in 1..Len(q) : q[i].op \in S
AllAwaited(q) == \A i \in 1..Len(q) : q[i].awaited
OneLeft(q, sent) == \A i \in 1..Len(q) : ~q[i].awaited => i = 1 /\ sent
Replays(q) == \A i \in 1..Len(q) : q[i].op = "replay" => q[i].arg = "gold"
ResetsTo(q, w) == \A i \in 1..Len(q) : q[i].op = "reset" => q[i].arg = w
AwaitedTo(q, w) == \A i \in 1..Len(q) : q[i].awaited => q[i].arg = w
LastAwaited(q) == q # <<>> /\ q[Len(q)].awaited
LastResets(q, w) == q # <<>> => q[Len(q)].op = "reset" /\ q[Len(q)].arg = w

(* The calls of the agent, and those of hash grading. *)
AgentOps == {"tool", "get"}
GradeOps == {"get", "reset", "replay"}

-----------------------------------------------------------------------------
(* The kind of trial, and when its results are there. *)
KindInv ==
  /\ ~hasHolder => fifo = <<>> /\ held = None
  /\ hasHolder => late = None
  /\ g.pc \in HolderSteps => hasHolder
  /\ res.captured # None => pc \notin Early
  /\ g.pc # "idle" \/ pc \notin Late =>
       res.ended \notin Claims /\ res.verdict = None

(* What a call left behind may still do to the queue. *)
QShape ==
  /\ Fresh \/ g.pc # "idle" => OneLeft(fifo, busy)
  /\ g.pc \in BehindPre \ Undoing => AllAwaited(fifo)
  /\ g.pc = "undo_h" => IF got = None THEN LastAwaited(fifo) ELSE fifo = <<>>

(* Until hash grading takes the world away, it is where it belongs: in the
   holder, or else in the row; and once the mirror is synced, in the row. *)
LiveInv ==
  /\ reg.pc = "build" => DataIs("init")
  /\ Fresh \/ g.pc \in LiveSteps =>
       /\ HeldHas(held, truth) /\ Ops(fifo, AgentOps)
       /\ ~hasHolder => DataIs(truth)
  /\ g.pc = "sync" /\ Ok(got) => got = truth /\ fifo = <<>>
  /\ (g.pc = "read" /\ ctx # None) \/ g.pc \in LiveSteps \ {"sync"} =>
       fifo = <<>> /\ DataIs(truth)

(* The first snapshot, and what was hashed with it, are the agent's world. *)
KeptInv ==
  /\ g.pc \in BehindPre => Ops(fifo, GradeOps) /\ (Clean => PreHas(row, truth))
  /\ g.pc \in BehindPre \cup {"snap"} /\ Clean => g.hashed = truth

(* The golden world on its way in. *)
GoldInv ==
  /\ Replays(fifo)
  /\ g.pc = "hreset" => ResetsTo(fifo, "init") /\ (Ok(got) => HeldHas(held, "init"))
  /\ g.pc = "replay" => IF hasHolder
                        THEN /\ got = None => HeldHas(held, "init")
                             /\ Ok(got) => HeldHas(held, "gold")
                        ELSE DataIs("init")
  /\ ~g.replayFailed =>
       /\ g.pc = "sync2" => HeldHas(held, "gold") /\ (Ok(got) => got = "gold")
       /\ g.pc \in {"snap2", "ghash"} => DataIs("gold")
       /\ g.pc \in BehindRes \ {"ghash"} /\ Clean => g.golden = "gold"

(* The agent's world on its way back. *)
BackInv ==
  /\ g.pc \in {"hget", "hback", "diff1", "diff2", "undo_get", "undo_h"} => DataIs(truth)
  /\ Clean =>
       /\ g.pc \in {"hback", "undo_h"} => AwaitedTo(fifo, truth)
       /\ g.pc \in {"diff1", "diff2", "diff3", "diff4", "undo_db"} => HeldHas(held, truth)
       /\ g.pc = "hback" /\ Ok(got) => HeldHas(held, truth)
       /\ g.pc = "undo_h" /\ got # None /\ ~resetLost => HeldHas(held, truth)

(* What the reads have reported. *)
EndInv ==
  /\ res.captured # None /\ ctx # None =>
       Ops(fifo, GradeOps) /\ (Clean => res.captured = truth)
  /\ res.ended \in Claims \/ res.verdict # None => g.pc = "idle" /\ Ops(fifo, GradeOps)
  /\ Clean => /\ res.verdict \in {"match", "mismatch"} =>
                   (res.verdict = "match" <=> truth = "gold")
              /\ res.ended \in Claims =>
                   /\ Unstrayed => RowHas(row, truth)
                   /\ fifo = <<>> /\ ~resetLost => HeldHas(held, truth)
                   /\ LastResets(fifo, truth)

TruthInv ==
  TypeInv /\ KindInv /\ QShape /\ LiveInv /\ KeptInv /\ GoldInv /\ BackInv /\ EndInv

(* A golden action that was given up, and one that wrote behind the grading:
   nothing but a cleanup touches the row any more. *)
StrayInv ==
  /\ stray => Unstrayed /\ ~hasHolder /\ pc \in Late /\ g.pc \in {"idle", "undo"}
  /\ ~Unstrayed =>
       /\ ~hasHolder /\ pc \in Late /\ g.pc = "idle"
       /\ Clean /\ res.ended \in Claims => RowHas(row, Apply("gold", truth))

-----------------------------------------------------------------------------
(* The queue. *)

(* An empty queue is in order whatever is asked of it. *)
LEMMA EmptyQueue ==
  ASSUME NEW q, q = <<>>
  PROVE  /\ \A S : Ops(q, S)
         /\ AllAwaited(q) /\ Replays(q)
         /\ \A b : OneLeft(q, b)
         /\ \A w : ResetsTo(q, w) /\ AwaitedTo(q, w) /\ LastResets(q, w)
BY DEF Ops, AllAwaited, OneLeft, Replays, ResetsTo, AwaitedTo, LastResets

(* A call that is handed over stands behind those that were there. *)
LEMMA HandedQueue ==
  ASSUME fifo \in Seq(HolderCalls), NEW op, NEW arg, Hand(op, arg)
  PROVE  /\ LastAwaited(fifo')
         /\ \A S : Ops(fifo, S) /\ op \in S => Ops(fifo', S)
         /\ AllAwaited(fifo) => AllAwaited(fifo')
         /\ \A b : OneLeft(fifo, b) => OneLeft(fifo', b)
         /\ Replays(fifo) /\ (op = "replay" => arg = "gold") => Replays(fifo')
         /\ \A w : ResetsTo(fifo, w) /\ (op = "reset" => arg = w) => ResetsTo(fifo', w)
         /\ \A w : AwaitedTo(fifo, w) /\ arg = w => AwaitedTo(fifo', w)
<1> DEFINE e == [op |-> op, arg |-> arg, awaited |-> TRUE]
<1>1. e.op = op /\ e.arg = arg /\ e.awaited
  OBVIOUS
<1> HIDE DEF e
<1>2. fifo' = Append(fifo, e)
  BY DEF Hand, e
<1>3. /\ Len(fifo') = Len(fifo) + 1 /\ Len(fifo) \in Nat
      /\ \A i \in 1..Len(fifo) : fifo'[i] = fifo[i]
      /\ fifo'[Len(fifo) + 1] = e
  BY <1>2
<1>4. \A i \in 1..Len(fifo') : i \in 1..Len(fifo) \/ i = Len(fifo')
  BY <1>3
<1>5. fifo' # <<>> /\ fifo'[Len(fifo')] = e
  BY <1>3
<1>6. LastAwaited(fifo')
  BY <1>1, <1>5 DEF LastAwaited
<1>7. \A S : Ops(fifo, S) /\ op \in S => Ops(fifo', S)
  BY <1>1, <1>3, <1>4, <1>5 DEF Ops
<1>8. AllAwaited(fifo) => AllAwaited(fifo')
  BY <1>1, <1>3, <1>4, <1>5 DEF AllAwaited
<1>9. \A b : OneLeft(fifo, b) => OneLeft(fifo', b)
  BY <1>1, <1>3, <1>4, <1>5 DEF OneLeft
<1>10. Replays(fifo) /\ (op = "replay" => arg = "gold") => Replays(fifo')
  BY <1>1, <1>3, <1>4, <1>5 DEF Replays
<1>11. \A w : ResetsTo(fifo, w) /\ (op = "reset" => arg = w) => ResetsTo(fifo', w)
  BY <1>1, <1>3, <1>4, <1>5 DEF ResetsTo
<1>12. \A w : AwaitedTo(fifo, w) /\ arg = w => AwaitedTo(fifo', w)
  BY <1>1, <1>3, <1>4, <1>5 DEF AwaitedTo
<1> QED
  BY <1>6, <1>7, <1>8, <1>9, <1>10, <1>11, <1>12

(* A call taken back, or left behind once it was sent: the queue holds no call
   it did not hold, and at most the one at its head is left. *)
LEMMA AbandonedQueue ==
  ASSUME fifo \in Seq(HolderCalls),
         \A i \in 1..Len(fifo) : fifo[i].awaited => i = Len(fifo),
         Abandon
  PROVE  /\ \A S : Ops(fifo, S) => Ops(fifo', S)
         /\ OneLeft(fifo, busy) => OneLeft(fifo', busy)
         /\ Replays(fifo) => Replays(fifo')
         /\ fifo = <<>> => fifo' = <<>>
<1>0. Len(fifo) \in Nat /\ \A i \in 1..Len(fifo) : fifo[i] \in HolderCalls
  OBVIOUS
<1>1. CASE fifo # <<>> /\ fifo[Len(fifo)].awaited /\ busy /\ Len(fifo) = 1
  <2>1. fifo' = <<Unawaited(fifo[1])>>
    BY <1>1 DEF Abandon
  <2>2. /\ Unawaited(fifo[1]).op = fifo[1].op
        /\ Unawaited(fifo[1]).arg = fifo[1].arg
    BY <1>0, <1>1, UnawaitedCall
  <2>3. Len(fifo') = 1 /\ fifo'[1] = Unawaited(fifo[1])
    BY <2>1
  <2> QED
    BY <1>1, <2>2, <2>3 DEF Ops, OneLeft, Replays
<1>2. CASE fifo # <<>> /\ fifo[Len(fifo)].awaited /\ ~(busy /\ Len(fifo) = 1)
  <2>1. fifo' = SubSeq(fifo, 1, Len(fifo) - 1)
    BY <1>2 DEF Abandon
  <2>2. Len(fifo) >= 1
    BY <1>0, <1>2
  <2>3. Len(fifo') = Len(fifo) - 1 /\ \A i \in 1..(Len(fifo) - 1) : fifo'[i] = fifo[i]
    <3> DEFINE m == Len(fifo) - 1
    <3>1. m \in Int /\ 0 <= m /\ m - 1 + 1 = m
      BY <1>0, <2>2
    <3>2. \A i \in 1..m : fifo[i] \in HolderCalls
      BY <1>0, <2>2
    <3> HIDE DEF m
    <3>3. /\ Len(SubSeq(fifo, 1, m)) = IF 1 <= m THEN m - 1 + 1 ELSE 0
          /\ \A i \in 1..(m - 1 + 1) : SubSeq(fifo, 1, m)[i] = fifo[1 + i - 1]
      BY <3>1, <3>2, SubSeqProperties
    <3>4. \A i \in 1..m : SubSeq(fifo, 1, m)[i] = fifo[i]
      BY <3>1, <3>3
    <3>5. Len(SubSeq(fifo, 1, m)) = m
      BY <3>1, <3>3
    <3> QED
      BY <2>1, <3>4, <3>5 DEF m
  <2>4. \A i \in 1..Len(fifo') : i \in 1..Len(fifo) /\ fifo'[i] = fifo[i]
    BY <1>0, <2>2, <2>3
  <2> QED
    BY <1>2, <2>4 DEF Ops, OneLeft, Replays
<1>3. CASE fifo # <<>> => ~fifo[Len(fifo)].awaited
  BY <1>3 DEF Abandon
<1> QED
  BY <1>1, <1>2, <1>3

(* Shielded calls stay what they are. *)
LEMMA ShieldedQueue ==
  ASSUME fifo \in Seq(HolderCalls), StopWaiting
  PROVE  /\ \A S : Ops(fifo, S) => Ops(fifo', S)
         /\ Replays(fifo) => Replays(fifo')
         /\ \A w : LastResets(fifo, w) => LastResets(fifo', w)
         /\ fifo = <<>> <=> fifo' = <<>>
<1>0. Len(fifo) \in Nat /\ \A i \in 1..Len(fifo) : fifo[i] \in HolderCalls
  OBVIOUS
<1>1. fifo' = [i \in 1..Len(fifo) |-> Unawaited(fifo[i])]
  BY DEF StopWaiting
<1>2. /\ fifo' \in Seq(HolderCalls) /\ Len(fifo') = Len(fifo)
      /\ \A i \in 1..Len(fifo) : fifo'[i] = Unawaited(fifo[i])
  BY <1>0, <1>1, UnawaitedCall
<1>3. \A i \in 1..Len(fifo) : fifo'[i].op = fifo[i].op /\ fifo'[i].arg = fifo[i].arg
  BY <1>0, <1>2, UnawaitedCall
<1>4. fifo = <<>> <=> fifo' = <<>>
  BY <1>0, <1>2
<1>5. ASSUME NEW w, LastResets(fifo, w)
      PROVE  LastResets(fifo', w)
  <2> SUFFICES ASSUME fifo' # <<>>
               PROVE  fifo'[Len(fifo')].op = "reset" /\ fifo'[Len(fifo')].arg = w
    BY DEF LastResets
  <2>1. Len(fifo) \in 1..Len(fifo) /\ fifo # <<>>
    BY <1>0, <1>4
  <2> QED
    BY <1>2, <1>3, <1>5, <2>1 DEF LastResets
<1> QED
  BY <1>2, <1>3, <1>4, <1>5 DEF Ops, Replays

(* A call somebody waits for is the last, so a queue in which all are awaited
   is empty where nobody waits. *)
LEMMA NothingLeft ==
  ASSUME TypeInv, AllAwaited(fifo), NobodyWaits(fifo)
  PROVE  fifo = <<>>
<1>1. fifo \in Seq(HolderCalls)
  BY DEF TypeInv, TypeOK, WorldTypeOK
<1>2. fifo # <<>> => 1 \in 1..Len(fifo)
  BY <1>1
<1> QED
  BY <1>2 DEF AllAwaited, NobodyWaits

-----------------------------------------------------------------------------
(* The steps that take nothing from the world but what a cleanup deletes or
   stops, and that report nothing. *)
Frame ==
  /\ UNCHANGED <<fifo, truth, resetLost, hasHolder, g>>
  /\ held' \in {held, None}
  /\ got' = got \/ g.pc = "idle"
  /\ busy => busy'
  /\ late' \in {late, None}
  /\ res'.captured = res.captured /\ res'.verdict = res.verdict /\ res'.ended = res.ended
  /\ Clean' => Clean /\ row' \in {row, None}
  /\ Unstrayed' => Unstrayed
  /\ Fresh' => Fresh
  /\ reg'.pc = "build" => reg.pc = "build"
  /\ ctx' # None => ctx # None
  /\ pc' \in Early => pc \in Early
  /\ pc \in Late => pc' \in Late

(* They keep the invariant. *)
LEMMA FrameStep ==
  ASSUME TruthInv, TypeInv', Frame
  PROVE  TruthInv'
<1>0. /\ KindInv /\ QShape /\ LiveInv /\ KeptInv /\ GoldInv /\ BackInv /\ EndInv
      /\ fifo' = fifo /\ truth' = truth /\ resetLost' = resetLost
      /\ hasHolder' = hasHolder /\ g' = g
  BY DEF TruthInv, Frame
<1>1. \A w : HeldHas(held, w) => HeldHas(held', w)
  BY DEF Frame, HeldHas
<1>2. /\ \A w : DataIs(w) => DataIs(w)'
      /\ Clean' => /\ Clean
                   /\ \A w : RowHas(row, w) => RowHas(row', w)
                   /\ \A w : PreHas(row, w) => PreHas(row', w)
  BY DEF Frame, DataIs, RowHas, PreHas
<1>3. /\ got' = got \/ g.pc = "idle"
      /\ held = None => held' = None
      /\ late = None => late' = None
      /\ res'.captured = res.captured /\ res'.verdict = res.verdict /\ res'.ended = res.ended
      /\ Fresh' => Fresh
      /\ reg'.pc = "build" => reg.pc = "build"
      /\ ctx' # None => ctx # None
      /\ pc' \in Early => pc \in Early
      /\ pc \in Late => pc' \in Late
      /\ Unstrayed' => Unstrayed
  BY DEF Frame
<1>4. KindInv'
  BY <1>0, <1>3 DEF KindInv
<1>5. QShape'
  <2>1. OneLeft(fifo, busy) => OneLeft(fifo, busy')
    BY DEF Frame, OneLeft
  <2> QED
    BY <1>0, <1>3, <2>1 DEF QShape
<1>6. LiveInv'
  BY <1>0, <1>1, <1>2, <1>3 DEF LiveInv, LiveSteps
<1>7. KeptInv'
  BY <1>0, <1>2, <1>3 DEF KeptInv
<1>8. GoldInv'
  BY <1>0, <1>1, <1>2, <1>3 DEF GoldInv
<1>9. BackInv'
  BY <1>0, <1>1, <1>2, <1>3 DEF BackInv
<1>10. EndInv'
  BY <1>0, <1>1, <1>2, <1>3 DEF EndInv
<1> QED
  BY <1>4, <1>5, <1>6, <1>7, <1>8, <1>9, <1>10 DEF TruthInv

(* The engine's own steps, its calls' returns and its cleanups. *)
LEMMA EngineFrame ==
  ASSUME TypeInv,
         \/ EngineRegisters \/ EngineRegistered \/ CallReturns \/ AgentEnds
         \/ EngineCaptured \/ EngineGraded \/ EngineCleansUp
         \/ EngineGrades /\ ctx = None
  PROVE  Frame
<1>0. HandlerInv
  BY DEF TypeInv
<1> USE DEF Frame, worldVars, gradingVars, registryVars, Early, Late, Clean, Unstrayed, Fresh
<1>1. CASE EngineRegisters
  BY <1>0, <1>1, WorldAssumption DEF EngineRegisters, RegisterTrial
<1>2. CASE EngineRegistered
  BY <1>0, <1>2 DEF EngineRegistered, HandlerInv
<1>3. CASE CallReturns
  BY <1>0, <1>3 DEF CallReturns, HandlerInv
<1>4. CASE AgentEnds
  BY <1>4 DEF AgentEnds
<1>5. CASE EngineCaptured
  BY <1>5 DEF EngineCaptured
<1>6. CASE EngineGraded
  BY <1>6 DEF EngineGraded
<1>7. CASE EngineCleansUp
  BY <1>7 DEF EngineCleansUp
<1>8. CASE EngineGrades /\ ctx = None
  BY <1>8 DEF EngineGrades
<1> QED
  BY <1>1, <1>2, <1>3, <1>4, <1>5, <1>6, <1>7, <1>8

(* The cleanups and the Runner's stop; a step of the holder's thread that only
   takes a call up. *)
LEMMA CleanupFrames ==
  ASSUME TypeInv,
         \/ (\E n \in Cleaners : CleanupStep(n)) /\ UNCHANGED <<gradingVars, engineVars>>
         \/ /\ RunnerStops /\ upset' = upset \cup {"stopped"}
            /\ UNCHANGED <<gradingVars, pc, att, calls, failed, late>>
         \/ HolderStarts /\ UNCHANGED <<gradingVars, registryVars, engineVars>>
         \/ UNCHANGED vars
  PROVE  Frame
<1> USE DEF Frame, gradingVars, registryVars, engineVars, Clean, Unstrayed, Fresh
<1>1. ASSUME NEW n \in Cleaners, CleanupStep(n), UNCHANGED <<gradingVars, engineVars>>
      PROVE  Frame
  <2>1. /\ fifo' = fifo /\ busy' = busy /\ got' = got /\ truth' = truth
        /\ resetLost' = resetLost /\ reg' = reg
        /\ row' \in {row, None} /\ held' \in {held, None} /\ ctx' \in {ctx, None}
    BY <1>1 DEF CleanupStep, CleanupLook, CleanupLock, CleanupTools, CleanupDelete,
       CleanupForget, worldVars
  <2> QED
    BY <1>1, <2>1
<1>2. CASE /\ RunnerStops /\ upset' = upset \cup {"stopped"}
           /\ UNCHANGED <<gradingVars, pc, att, calls, failed, late>>
  BY <1>2 DEF RunnerStops
<1>3. CASE HolderStarts /\ UNCHANGED <<gradingVars, registryVars, engineVars>>
  BY <1>3 DEF HolderStarts
<1>4. CASE UNCHANGED vars
  BY <1>4 DEF vars, worldVars
<1> QED
  BY <1>1, <1>2, <1>3, <1>4

-----------------------------------------------------------------------------
(* RegisterTrial. *)

(* While a registration is under way there is neither a read nor a result. *)
LEMMA RegisteringFacts ==
  ASSUME TruthInv, pc \in Early
  PROVE  /\ g.pc = "idle" /\ g = Idle /\ res.captured = None
         /\ res.ended \notin Claims /\ res.verdict = None
         /\ Idle.pc = "idle" /\ ~Idle.waits
         /\ pc # "calling" => NobodyWaits(fifo) /\ got = None
<1>1. TypeInv /\ KindInv
  BY DEF TruthInv
<1>2. g.pc = "idle" /\ g = Idle
  BY <1>1 DEF TypeInv, HandlerInv, Early
<1>3. Idle.pc = "idle" /\ ~Idle.waits
  BY DEF Idle
<1>4. res.captured = None /\ res.ended \notin Claims /\ res.verdict = None
  BY <1>1 DEF KindInv, Early, Late
<1>5. pc # "calling" => NobodyWaits(fifo) /\ got = None
  BY <1>1, <1>2, <1>3, Unattended
<1> QED
  BY <1>2, <1>3, <1>4, <1>5

(* Where there is neither a read nor a result, only the live world counts. *)
LEMMA EarlyStep ==
  ASSUME TypeInv', g'.pc = "idle", res'.captured = None,
         res'.ended \notin Claims, res'.verdict = None,
         ~hasHolder' => fifo' = <<>> /\ held' = None,
         hasHolder' => late' = None,
         Replays(fifo'),
         reg'.pc = "build" => DataIs("init")',
         Fresh' => /\ OneLeft(fifo', busy')
                   /\ HeldHas(held', truth') /\ Ops(fifo', AgentOps)
                   /\ ~hasHolder' => DataIs(truth)'
  PROVE  TruthInv'
<1>1. KindInv'
  BY DEF KindInv, HolderSteps
<1>2. QShape'
  BY DEF QShape, BehindPre
<1>3. LiveInv'
  BY DEF LiveInv, LiveSteps
<1>4. KeptInv'
  BY DEF KeptInv, BehindPre
<1>5. GoldInv'
  BY DEF GoldInv, BehindRes
<1>6. BackInv'
  BY DEF BackInv
<1>7. EndInv'
  BY WorldAssumption DEF EndInv
<1> QED
  BY <1>1, <1>2, <1>3, <1>4, <1>5, <1>6, <1>7 DEF TruthInv

(* A registration keeps the invariant: the row it inserts and the holder it
   starts hold the initial world. *)
LEMMA RegisterTruth ==
  ASSUME TruthInv, TypeInv', UNCHANGED <<gradingVars, engineVars>>,
         Extract \/ InitTrial \/ Build(hasHolder) \/ Start \/ AbandonRegistration
  PROVE  TruthInv'
<1>0. TypeInv /\ KindInv /\ LiveInv /\ GoldInv
  BY DEF TruthInv
<1>a. /\ g' = g /\ res' = res /\ hasHolder' = hasHolder /\ pc' = pc /\ late' = late
      /\ upset' = upset
  BY DEF gradingVars, engineVars
<1>b. pc = "registering" /\ reg.answer = None /\ reg.pc # "idle" /\ pc \in Early
  <2>1. reg.pc # "idle"
    BY DEF Extract, InitTrial, Build, Start, AbandonRegistration
  <2> QED
    BY <1>0, <2>1 DEF TypeInv, HandlerInv, Early
<1>c. g.pc = "idle" /\ res.captured = None /\ res.ended \notin Claims /\ res.verdict = None
  BY <1>b, RegisteringFacts
<1>r. reg \in [pc : {"idle", "extract", "init", "build", "start", "abandon"},
               of : Attempts \cup {None}, answer : {None, "ok", "refused", "duplicate"}]
  BY <1>0 DEF TypeInv, TypeOK, RegistryTypeOK
<1>1. CASE Extract \/ AbandonRegistration
  <2>1. reg'.pc # "build" /\ reg'.pc # "start" /\ reg'.answer # "ok"
    BY <1>1, <1>b, <1>r, WorldAssumption DEF Extract, AbandonRegistration, RegGoto, RegAnswers
  <2>2. Frame
    BY <1>1, <1>a, <1>b, <2>1 DEF Frame, Extract, AbandonRegistration, worldVars, Clean,
       Unstrayed, Fresh
  <2> QED
    BY <2>2, FrameStep
<1>2. CASE Start
  <2>1. reg'.pc # "build" /\ reg'.pc # "start" /\ reg.pc = "start"
    BY <1>2, <1>r DEF Start, RegGoto, RegAnswers
  <2>2. Frame
    BY <1>2, <1>a, <2>1 DEF Frame, Start, Clean, Unstrayed, Fresh
  <2> QED
    BY <2>2, FrameStep
<1>3. CASE InitTrial
  <2>1. /\ UNCHANGED <<held, fifo, busy, got, truth, resetLost>>
        /\ reg'.pc # "start" /\ reg'.answer # "ok"
    BY <1>3, <1>b, <1>r, WorldAssumption DEF InitTrial, RegGoto, RegAnswers
  <2>2. ~Fresh'
    BY <1>a, <1>b, <2>1 DEF Fresh
  <2>3. reg'.pc = "build" => row'.data = "init"
    <3>1. reg'.pc = "build" => row' = NewRow(reg.of)
      BY <1>3, <1>r DEF InitTrial, RegAnswers
    <3>2. NewRow(reg.of).data = "init"
      BY DEF NewRow
    <3> QED
      BY <3>1, <3>2
  <2>4. reg'.pc = "build" => DataIs("init")'
    BY <2>3 DEF DataIs, RowHas
  <2> QED
    BY <1>0, <1>a, <1>c, <2>1, <2>2, <2>4, EarlyStep DEF KindInv, GoldInv
<1>4. CASE Build(hasHolder)
  <2>1. CASE /\ held' = IF hasHolder THEN "init" ELSE None
             /\ fifo' = <<>> /\ truth' = "init" /\ RegGoto("start") /\ row' = row
    <3>1. reg'.pc = "start"
      BY <1>r, <2>1 DEF RegGoto
    <3>2. HeldHas(held', truth') /\ (hasHolder' = hasHolder)
      BY <1>a, <2>1 DEF HeldHas
    <3>3. DataIs(truth)'
      <4>1. DataIs("init")
        BY <1>0, <1>4 DEF LiveInv, Build
      <4> QED
        BY <1>a, <2>1, <4>1 DEF DataIs, Clean
    <3>4. OneLeft(fifo', busy') /\ Ops(fifo', AgentOps) /\ Replays(fifo')
      BY <2>1, EmptyQueue
    <3> QED
      BY <1>0, <1>a, <1>c, <2>1, <3>1, <3>2, <3>3, <3>4, EarlyStep DEF KindInv
  <2>2. CASE /\ RegAnswers("refused") /\ UNCHANGED <<held, fifo, busy, got, truth, ctx>>
             /\ UNCHANGED <<row, resetLost>>
    <3>1. reg'.pc = "idle" /\ reg'.answer = "refused"
      BY <1>r, <2>2 DEF RegAnswers
    <3>2. Frame
      BY <1>a, <1>b, <2>2, <3>1 DEF Frame, Clean, Unstrayed, Fresh
    <3> QED
      BY <3>2, FrameStep
  <2> QED
    BY <1>4, <2>1, <2>2 DEF Build
<1> QED
  BY <1>1, <1>2, <1>3, <1>4

-----------------------------------------------------------------------------
(* The agent's calls. *)

(* A call through the holder keeps the invariant, and so does its timeout. *)
LEMMA HolderCallTruth ==
  ASSUME TruthInv, TypeInv',
         CallTimesOut \/ \E a \in Acts : CallHolder(a)
  PROVE  TruthInv'
<1>0. /\ TypeInv /\ KindInv /\ QShape /\ LiveInv /\ GoldInv
      /\ fifo \in Seq(HolderCalls)
      /\ \A i \in 1..Len(fifo) : fifo[i].awaited => i = Len(fifo)
  BY DEF TruthInv, TypeInv, TypeOK, WorldTypeOK, QueueInv
<1>a. /\ UNCHANGED <<row, held, busy, truth, resetLost>> /\ UNCHANGED gradingVars
      /\ UNCHANGED registryVars /\ UNCHANGED <<late, upset>>
      /\ pc \in {"agent", "calling"} /\ pc' \in {"agent", "calling"}
  BY DEF CallTimesOut, CallHolder
<1>b. /\ g' = g /\ res' = res /\ hasHolder' = hasHolder /\ reg' = reg /\ late' = late
      /\ row' = row /\ held' = held /\ busy' = busy /\ truth' = truth /\ upset' = upset
  BY <1>a DEF gradingVars, registryVars
<1>c. g.pc = "idle" /\ res.captured = None /\ res.ended \notin Claims /\ res.verdict = None
  BY <1>a, RegisteringFacts DEF Early
<1>d. Fresh
  BY <1>a DEF Fresh
<1>e. OneLeft(fifo, busy) /\ HeldHas(held, truth) /\ Ops(fifo, AgentOps) /\ Replays(fifo)
  BY <1>0, <1>d DEF QShape, LiveInv, GoldInv
<1>f. (reg.pc = "build" => DataIs("init")) /\ (~hasHolder => DataIs(truth))
  BY <1>0, <1>d DEF LiveInv
<1>g. \A w : DataIs(w) => (Clean' => RowHas(row', w))
  BY <1>b DEF DataIs, Clean
<1>1. OneLeft(fifo', busy) /\ Ops(fifo', AgentOps) /\ Replays(fifo')
      /\ (fifo' = <<>> \/ hasHolder \/ fifo' = fifo)
  <2>1. CASE CallTimesOut
    <3>1. Abandon
      BY <2>1 DEF CallTimesOut
    <3> QED
      BY <1>0, <1>e, <3>1, AbandonedQueue DEF KindInv
  <2>2. ASSUME NEW a \in Acts, CallHolder(a)
        PROVE  OneLeft(fifo', busy) /\ Ops(fifo', AgentOps) /\ Replays(fifo') /\ hasHolder
    <3>1. Hand("tool", a) /\ hasHolder /\ "tool" \in AgentOps
      BY <2>2 DEF CallHolder, AgentOps
    <3> QED
      BY <1>0, <1>e, <3>1, HandedQueue
  <2> QED
    BY <2>1, <2>2
<1>2. DataIs("init")' <=> (Clean' => RowHas(row', "init"))
  BY DEF DataIs
<1>3. DataIs(truth)' <=> (Clean' => RowHas(row', truth'))
  BY DEF DataIs
<1> QED
  BY <1>0, <1>b, <1>c, <1>e, <1>f, <1>g, <1>1, <1>2, <1>3, EarlyStep DEF KindInv

(* A tool call that writes to the db-service changes the row as it changes the
   agent's world; one that writes after its timeout is the exception that the
   properties name, unless the agent is still at work. *)
LEMMA DbCallTruth ==
  ASSUME TruthInv, TypeInv',
         \/ \E a \in Acts : CallDb(a)
         \/ LateWrite /\ pc \in {"agent", "calling"} /\ late.of = att
  PROVE  TruthInv'
<1>0. TypeInv /\ KindInv /\ LiveInv /\ row \in Rows \cup {None} /\ None \notin Rows
  BY WorldAssumption DEF TruthInv, TypeInv, TypeOK, WorldTypeOK
<1>a. /\ UNCHANGED <<held, fifo, busy, got, resetLost>> /\ UNCHANGED gradingVars
      /\ UNCHANGED registryVars /\ upset' = upset
      /\ pc \in {"agent", "calling"} /\ pc' = pc
  BY DEF CallDb, LateWrite
<1>b. /\ g' = g /\ res' = res /\ hasHolder' = hasHolder /\ reg' = reg
      /\ held' = held /\ fifo' = fifo /\ busy' = busy
  BY <1>a DEF gradingVars, registryVars
<1>c. /\ g.pc = "idle" /\ res.captured = None /\ res.ended \notin Claims /\ res.verdict = None
      /\ reg.pc # "build" /\ Fresh
  BY <1>0, <1>a, RegisteringFacts DEF Early, TypeInv, HandlerInv, Fresh
<1>h. ~hasHolder
  BY <1>0 DEF CallDb, LateWrite, KindInv
<1>1. fifo = <<>> /\ held = None /\ DataIs(truth)
  BY <1>0, <1>c, <1>h DEF KindInv, LiveInv
<1>2. \/ row' = row /\ truth' = truth
      \/ row = None /\ row' = None
      \/ \E w \in Acts : /\ row # None /\ row' = [row EXCEPT !.data = Apply(w, row.data)]
                         /\ truth' = Apply(w, truth)
  <2>1. ASSUME NEW a \in Acts, CallDb(a)
        PROVE  \/ row' = row /\ truth' = truth
               \/ row = None /\ row' = None
               \/ /\ row # None /\ row' = [row EXCEPT !.data = Apply(a, row.data)]
                  /\ truth' = Apply(a, truth)
    BY <2>1 DEF CallDb, Request
  <2>2. CASE LateWrite /\ pc \in {"agent", "calling"} /\ late.of = att
    <3>1. late.act \in Acts
      BY <1>0, <2>2 DEF LateWrite, TypeInv, TypeOK, LateCalls
    <3> QED
      BY <2>2, <3>1 DEF LateWrite
  <2> QED
    BY <2>1, <2>2
<1>3. DataIs(truth)'
  <2>1. CASE row' = row /\ truth' = truth
    BY <1>1, <1>a, <2>1 DEF DataIs, Clean, RowHas
  <2>2. CASE row = None /\ row' = None
    BY <2>2 DEF DataIs, RowHas
  <2>3. ASSUME NEW w \in Acts, row # None, row' = [row EXCEPT !.data = Apply(w, row.data)],
               truth' = Apply(w, truth)
        PROVE  DataIs(truth)'
    <3>1. row'.data = Apply(w, row.data)
      BY <1>0, <2>3 DEF Rows
    <3> QED
      BY <1>1, <1>a, <2>3, <3>1 DEF DataIs, Clean, RowHas
  <2> QED
    BY <1>2, <2>1, <2>2, <2>3
<1>4. /\ OneLeft(fifo', busy') /\ Ops(fifo', AgentOps) /\ Replays(fifo')
      /\ HeldHas(held', truth')
  BY <1>1, <1>b, EmptyQueue DEF HeldHas
<1> QED
  BY <1>b, <1>c, <1>h, <1>1, <1>3, <1>4, EarlyStep

(* A call on an app world changes the holder's world as it changes the agent's,
   also when its answer is lost. *)
LEMMA AppCallTruth ==
  ASSUME TruthInv, TypeInv', \E a \in Acts : CallApp(a)
  PROVE  TruthInv'
<1>0. TypeInv /\ KindInv /\ QShape /\ LiveInv /\ GoldInv
  BY DEF TruthInv
<1>a. /\ UNCHANGED <<row, fifo, busy>> /\ UNCHANGED gradingVars
      /\ UNCHANGED registryVars /\ UNCHANGED <<pc, late, upset>>
      /\ pc = "agent" /\ app
  BY DEF CallApp
<1>b. /\ g' = g /\ res' = res /\ hasHolder' = hasHolder /\ reg' = reg /\ late' = late
      /\ fifo' = fifo /\ busy' = busy /\ pc' = pc
  BY <1>a DEF gradingVars, registryVars
<1>c. /\ g.pc = "idle" /\ res.captured = None /\ res.ended \notin Claims /\ res.verdict = None
      /\ reg.pc # "build" /\ Fresh
  BY <1>0, <1>a, RegisteringFacts DEF Early, TypeInv, HandlerInv, Fresh
<1>h. hasHolder
  BY <1>0, <1>a DEF TypeInv, TypeOK, GradingTypeOK
<1>1. HeldHas(held, truth) /\ Ops(fifo, AgentOps) /\ OneLeft(fifo, busy) /\ Replays(fifo)
  BY <1>0, <1>c DEF LiveInv, QShape, GoldInv
<1>2. HeldHas(held', truth')
  <2>1. ASSUME NEW a \in Acts, CallApp(a)
        PROVE  \/ held' = held /\ truth' = truth
               \/ held = None /\ held' = None
               \/ held' = Apply(a, held) /\ truth' = Apply(a, truth) /\ held # None
    BY <2>1 DEF CallApp, AppRequest
  <2> QED
    BY <1>1, <2>1 DEF HeldHas
<1> QED
  BY <1>0, <1>b, <1>c, <1>h, <1>1, <1>2, EarlyStep DEF KindInv

(* The late write that is the exception. *)
LEMMA LateWriteFrame ==
  ASSUME TypeInv, LateWrite, ~(pc \in {"agent", "calling"} /\ late.of = att)
  PROVE  Frame
BY DEF LateWrite, Frame, gradingVars, registryVars, Clean, Unstrayed, Fresh

(* The write of a golden action that was given up: the undo has its restore
   before it, or the grading is over. *)
LEMMA StrayWriteTruth ==
  ASSUME TruthInv, StrayInv, TypeInv', StrayWrite
  PROVE  TruthInv'
<1>0. TypeInv /\ KindInv /\ QShape /\ KeptInv /\ GoldInv /\ EndInv
  BY DEF TruthInv
<1>a. /\ UNCHANGED <<held, fifo, busy, got, truth, resetLost, hasHolder, g, res, pc, late>>
      /\ ctx' = ctx /\ reg' = reg
      /\ upset' = IF g = Idle THEN upset \cup {"stray_gold"} ELSE upset
  BY DEF StrayWrite, registryVars
<1>b. /\ ~hasHolder /\ pc \in Late /\ g.pc \in {"idle", "undo"}
      /\ g.pc = "idle" => g = Idle
  BY <1>0 DEF StrayInv, StrayWrite, TypeInv, HandlerInv
<1>c. /\ (Clean' <=> Clean) /\ (Fresh' <=> Fresh) /\ (g.pc = "idle" => ~Unstrayed')
  BY <1>a, <1>b DEF Clean, Unstrayed, Fresh
<1>d. ~Fresh /\ reg.pc # "build"
  BY <1>0, <1>b DEF TypeInv, HandlerInv, Fresh, Late
<1>1. \A w : PreHas(row, w) => PreHas(row', w)
  <2>1. row \in Rows \cup {None}
    BY <1>0 DEF TypeInv, TypeOK, WorldTypeOK
  <2>2. row' # None => row # None /\ row'.pre = row.pre
    BY <2>1 DEF StrayWrite, Rows
  <2> QED
    BY <2>2 DEF PreHas
<1>2. KindInv'
  BY <1>0, <1>a DEF KindInv
<1>3. QShape'
  BY <1>0, <1>a, <1>c DEF QShape
<1>4. LiveInv'
  BY <1>a, <1>b, <1>c, <1>d DEF LiveInv, LiveSteps
<1>5. KeptInv'
  BY <1>0, <1>1, <1>a, <1>c DEF KeptInv
<1>6. GoldInv' /\ BackInv'
  BY <1>0, <1>a, <1>b DEF GoldInv, BackInv, BehindRes
<1>7. EndInv'
  BY <1>0, <1>a, <1>c DEF EndInv
<1> QED
  BY <1>2, <1>3, <1>4, <1>5, <1>6, <1>7 DEF TruthInv

(* The next attempt starts from nothing but what the last left in the Runner. *)
LEMMA NextAttemptTruth ==
  ASSUME TruthInv, TypeInv', NextAttempt
  PROVE  TruthInv'
<1>0. TypeInv /\ KindInv /\ GoldInv
  BY DEF TruthInv
<1>1. /\ g' = g /\ hasHolder' = hasHolder /\ reg' = reg /\ late' = late
      /\ held' = held /\ fifo' = fifo
      /\ pc = "cleaning" /\ pc' = "register" /\ res' = NoResult
  BY DEF NextAttempt, registryVars
<1>2. g.pc = "idle" /\ reg.pc = "idle"
  BY <1>0, <1>1 DEF TypeInv, HandlerInv
<1>3. ~Fresh'
  BY <1>1, <1>2 DEF Fresh
<1>4. res'.captured = None /\ res'.ended \notin Claims /\ res'.verdict = None
  BY <1>1, WorldAssumption DEF NoResult, Claims
<1> QED
  BY <1>0, <1>1, <1>2, <1>3, <1>4, EarlyStep DEF KindInv, GoldInv

(* A Runner that is gone takes the holder and the registration with it; the
   row stays. *)
LEMMA GoneTruth ==
  ASSUME TruthInv, TypeInv', RunnerGone
  PROVE  TruthInv'
<1>0. TypeInv /\ KindInv /\ LiveInv /\ EndInv
  BY DEF TruthInv
<1>1. /\ ctx' = None /\ held' = None /\ fifo' = <<>> /\ row' = row /\ truth' = truth
      /\ g' = Idle /\ Idle.pc = "idle" /\ hasHolder' = hasHolder /\ late' = None
      /\ pc' = IF pc = "calling" THEN "agent" ELSE pc
      /\ upset' = upset \cup {"gone"}
  BY DEF RunnerGone, ProcessGone, Idle
<1>2. reg'.pc = "idle" /\ (reg'.answer = "ok" => reg'.answer = reg.answer)
  BY <1>0, WorldAssumption DEF RunnerGone, ProcessGone, TypeInv, TypeOK, RegistryTypeOK
<1>3. (Fresh' => Fresh) /\ (Clean' <=> Clean) /\ (Unstrayed' <=> Unstrayed)
  BY <1>1, <1>2 DEF Fresh, Clean, Unstrayed
<1>4. /\ res'.captured = res.captured /\ res'.verdict = res.verdict
      /\ res'.ended \in Claims => g = Idle /\ res'.ended = res.ended
  <2>1. res \in Results
    BY <1>0 DEF TypeInv, TypeOK, GradingTypeOK, Results
  <2> QED
    BY <2>1 DEF RunnerGone, Results, Claims
<1>5. /\ OneLeft(fifo', busy') /\ Replays(fifo')
      /\ \A S : Ops(fifo', S)
      /\ \A w : HeldHas(held', w) /\ LastResets(fifo', w)
  BY <1>1, EmptyQueue DEF HeldHas
<1>6. KindInv'
  BY <1>0, <1>1, <1>4, <1>5 DEF KindInv, HolderSteps, Early, Late
<1>7. QShape'
  BY <1>1, <1>5 DEF QShape, BehindPre
<1>8. LiveInv'
  BY <1>0, <1>1, <1>2, <1>3, <1>5 DEF LiveInv, LiveSteps, DataIs
<1>9. KeptInv' /\ GoldInv' /\ BackInv'
  BY <1>1, <1>5 DEF KeptInv, GoldInv, BackInv, BehindPre, BehindRes
<1>10. EndInv'
  BY <1>0, <1>1, <1>3, <1>4, <1>5 DEF EndInv, RowHas
<1> QED
  BY <1>6, <1>7, <1>8, <1>9, <1>10 DEF TruthInv

-----------------------------------------------------------------------------
(* The reads. *)

(* A read starts with the live world: in the holder, which it asks, or in the
   row. *)
LEMMA ReadStarts ==
  ASSUME TruthInv, TypeInv', EngineCaptures \/ (EngineGrades /\ ctx # None)
  PROVE  TruthInv'
<1>0. TypeInv /\ KindInv /\ QShape /\ LiveInv /\ GoldInv /\ EndInv
  BY DEF TruthInv
<1>a. /\ UNCHANGED worldVars /\ UNCHANGED registryVars /\ hasHolder' = hasHolder
      /\ late' = late /\ upset' = upset
      /\ \/ pc = "capture" /\ pc' = "capturing"
         \/ pc = "grade" /\ pc' = "grading" /\ ctx # None
  BY DEF EngineCaptures, EngineGrades
<1>b. /\ row' = row /\ held' = held /\ fifo' = fifo /\ busy' = busy /\ got' = got
      /\ truth' = truth /\ resetLost' = resetLost /\ ctx' = ctx /\ reg' = reg
  BY <1>a DEF worldVars, registryVars
<1>c. /\ g = Idle /\ got = None /\ Fresh /\ pc \notin Late
      /\ res.ended \notin Claims /\ res.verdict = None
  <2>1. g = Idle /\ ~Idle.waits
    BY DEF EngineCaptures, EngineGrades, StartRead, Idle
  <2> QED
    BY <1>0, <1>a, <2>1, Unattended DEF Fresh, Late, KindInv
<1>d. res'.captured = res.captured /\ res'.ended = res.ended /\ res'.verdict = res.verdict
  <2>1. res \in Results
    BY <1>0 DEF TypeInv, TypeOK, GradingTypeOK, Results
  <2> QED
    BY <2>1 DEF EngineCaptures, EngineGrades, StartRead, Results
<1>e. /\ g'.pc \in {"sync", "read", "hash"}
      /\ g'.pc = "sync" => hasHolder
      /\ g'.pc # "sync" => ~hasHolder \/ (g'.pc = "read" /\ ctx = None)
      /\ ~g'.replayFailed
  <2>1. hasHolder \in BOOLEAN
    BY <1>0 DEF TypeInv, TypeOK, GradingTypeOK
  <2> QED
    BY <1>a, <2>1 DEF EngineCaptures, EngineGrades, StartRead, Idle
<1>f. Clean' <=> Clean
  BY <1>a DEF Clean
<1>1. OneLeft(fifo, busy) /\ HeldHas(held, truth) /\ Ops(fifo, AgentOps) /\ Replays(fifo)
      /\ (~hasHolder => DataIs(truth) /\ fifo = <<>>) /\ reg.pc # "build"
  BY <1>0, <1>a, <1>c DEF QShape, LiveInv, GoldInv, KindInv, TypeInv, HandlerInv
<1>2. KindInv'
  BY <1>0, <1>a, <1>b, <1>c, <1>d, <1>e DEF KindInv, HolderSteps, Early
<1>3. QShape'
  BY <1>b, <1>e, <1>1 DEF QShape, BehindPre
<1>4. LiveInv'
  BY <1>a, <1>b, <1>c, <1>e, <1>f, <1>1 DEF LiveInv, LiveSteps, DataIs, Ok
<1>5. KeptInv' /\ GoldInv' /\ BackInv'
  BY <1>b, <1>e, <1>1 DEF KeptInv, GoldInv, BackInv, BehindPre, BehindRes
<1>6. EndInv'
  BY <1>0, <1>b, <1>c, <1>d, <1>f, WorldAssumption DEF EndInv
<1> QED
  BY <1>2, <1>3, <1>4, <1>5, <1>6 DEF TruthInv

(* What the invariant says of a read under way. *)
LEMMA ReadNow ==
  ASSUME TruthInv, g.pc # "idle"
  PROVE  /\ TypeInv /\ KindInv /\ QShape /\ LiveInv /\ KeptInv /\ GoldInv /\ BackInv /\ EndInv
         /\ g \in Reads /\ res \in Results /\ row \in Rows \cup {None}
         /\ hasHolder \in BOOLEAN
         /\ fifo \in Seq(HolderCalls)
         /\ \A i \in 1..Len(fifo) : fifo[i].awaited => i = Len(fifo)
         /\ res.ended \notin Claims /\ res.verdict = None
         /\ reg.pc = "idle" /\ pc \notin Early
         /\ Fresh <=> pc = "capturing"
         /\ pc = "capturing" => g.pc \in {"sync", "read"}
         /\ pc # "capturing" => pc \in Late
         /\ OneLeft(fifo, busy) /\ Replays(fifo)
         /\ ~g.waits => got = None /\ NobodyWaits(fifo)
         /\ got # None => NobodyWaits(fifo)
<1>1. TypeInv /\ KindInv /\ QShape /\ LiveInv /\ KeptInv /\ GoldInv /\ BackInv /\ EndInv
  BY DEF TruthInv
<1>2. /\ g \in Reads /\ res \in Results /\ row \in Rows \cup {None}
      /\ hasHolder \in BOOLEAN
      /\ fifo \in Seq(HolderCalls)
      /\ \A i \in 1..Len(fifo) : fifo[i].awaited => i = Len(fifo)
  BY <1>1, ReadFacts
<1>3. /\ pc = "capturing" => g.pc \in {"sync", "read"}
      /\ pc \in {"capturing", "grading", "over"}
      /\ reg.pc # "idle" => pc = "registering"
  BY <1>1 DEF TypeInv, HandlerInv
<1>4. reg.pc = "idle" /\ pc \notin Early /\ (Fresh <=> pc = "capturing")
      /\ (pc # "capturing" => pc \in Late)
  BY <1>3 DEF Early, Late, Fresh
<1>5. res.ended \notin Claims /\ res.verdict = None
  BY <1>1 DEF KindInv
<1>6. OneLeft(fifo, busy) /\ Replays(fifo)
  BY <1>1 DEF QShape, GoldInv
<1>7. (~g.waits => got = None /\ NobodyWaits(fifo)) /\ (got # None => NobodyWaits(fifo))
  BY <1>1, <1>3, Unattended, Answered
<1> QED
  BY <1>1, <1>2, <1>3, <1>4, <1>5, <1>6, <1>7

(* What a step of a read leaves alone; a queue that only loses what was
   awaited; and a result that says nothing new. *)
ReadHere ==
  /\ UNCHANGED <<registryVars, engineVars>>
  /\ held' = held /\ busy' = busy /\ truth' = truth /\ resetLost' = resetLost
  /\ hasHolder' = hasHolder

Shrinks ==
  /\ \A S : Ops(fifo, S) => Ops(fifo', S)
  /\ OneLeft(fifo, busy) => OneLeft(fifo', busy)
  /\ Replays(fifo) => Replays(fifo')
  /\ fifo = <<>> => fifo' = <<>>

SameResult ==
  res'.captured = res.captured /\ res'.verdict = res.verdict /\ res'.ended = res.ended

(* Every step of the coroutine leaves that alone, but a golden action on an app
   world. *)
LEMMA ReadIsHere ==
  ASSUME HandOver \/ HolderAnswers \/ HolderTooSlow \/ DbRequest \/ BudgetElapses,
         UNCHANGED <<registryVars, engineVars>>
  PROVE  ReadHere
BY DEF HandOver, HolderAnswers, HolderTooSlow, DbRequest, BudgetElapses, ReadHere

(* The state around the read. *)
LEMMA HereIs ==
  ASSUME ReadHere
  PROVE  /\ ctx' = ctx /\ reg' = reg /\ pc' = pc /\ late' = late
         /\ upset' = upset /\ (Clean' <=> Clean) /\ (Unstrayed' <=> Unstrayed)
         /\ (Fresh' <=> Fresh)
         /\ held' = held /\ busy' = busy /\ truth' = truth /\ resetLost' = resetLost
         /\ hasHolder' = hasHolder
BY DEF ReadHere, registryVars, engineVars, Clean, Unstrayed, Fresh

(* A read that ends and claims nothing of the trial's state. *)
LEMMA ReadEnds ==
  ASSUME TruthInv, TypeInv', g.pc # "idle", ReadHere, Shrinks,
         g' = Idle, res'.verdict = None, res'.ended \notin Claims,
         \/ res'.captured = res.captured
         \/ ctx # None => fifo = <<>> /\ (Clean => res'.captured = truth),
         pc = "capturing" /\ ~hasHolder => row' = row
  PROVE  TruthInv'
<1>0. /\ KindInv /\ QShape /\ LiveInv /\ KeptInv /\ GoldInv /\ BackInv /\ EndInv
      /\ reg.pc = "idle" /\ pc \notin Early
      /\ Fresh <=> pc = "capturing"
      /\ OneLeft(fifo, busy) /\ Replays(fifo)
  BY ReadNow
<1>1. /\ ctx' = ctx /\ reg' = reg /\ pc' = pc /\ late' = late
      /\ (Clean' <=> Clean) /\ (Fresh' <=> Fresh)
      /\ held' = held /\ busy' = busy /\ truth' = truth
      /\ hasHolder' = hasHolder
  BY HereIs
<1>2. g'.pc = "idle"
  BY DEF Idle
<1>3. /\ OneLeft(fifo', busy') /\ Replays(fifo') /\ (fifo = <<>> => fifo' = <<>>)
      /\ Ops(fifo, GradeOps) => Ops(fifo', GradeOps)
      /\ Ops(fifo, AgentOps) => Ops(fifo', AgentOps)
      /\ fifo = <<>> => Ops(fifo', GradeOps)
  BY <1>0, <1>1, EmptyQueue DEF Shrinks
<1>4. KindInv'
  BY <1>0, <1>1, <1>2, <1>3 DEF KindInv, HolderSteps
<1>5. QShape'
  BY <1>2, <1>3 DEF QShape, BehindPre
<1>6. LiveInv'
  BY <1>0, <1>1, <1>2, <1>3 DEF LiveInv, LiveSteps, DataIs
<1>7. KeptInv' /\ GoldInv' /\ BackInv'
  BY <1>2, <1>3 DEF KeptInv, GoldInv, BackInv, BehindPre, BehindRes
<1>8. EndInv'
  BY <1>0, <1>1, <1>2, <1>3, WorldAssumption DEF EndInv
<1> QED
  BY <1>4, <1>5, <1>6, <1>7, <1>8 DEF TruthInv

(* A grading that ends with a verdict, or undone. *)
LEMMA ReadClaims ==
  ASSUME TruthInv, TypeInv', g.pc # "idle", g.pc \notin {"sync", "read"}, ReadHere,
         g' = Idle, res'.captured = res.captured,
         Ops(fifo', GradeOps), Replays(fifo'), fifo = <<>> => fifo' = <<>>,
         Clean => /\ res'.verdict \in {"match", "mismatch"} =>
                       (res'.verdict = "match" <=> truth = "gold")
                  /\ RowHas(row', truth)
                  /\ fifo' = <<>> /\ ~resetLost => HeldHas(held, truth)
                  /\ LastResets(fifo', truth)
  PROVE  TruthInv'
<1>0. /\ KindInv /\ EndInv /\ reg.pc = "idle" /\ pc \notin Early /\ pc \in Late
      /\ ~Fresh
  BY ReadNow
<1>1. /\ ctx' = ctx /\ reg' = reg /\ pc' = pc /\ late' = late
      /\ (Clean' <=> Clean) /\ (Fresh' <=> Fresh)
      /\ held' = held /\ truth' = truth /\ resetLost' = resetLost
      /\ hasHolder' = hasHolder
  BY HereIs
<1>2. g'.pc = "idle"
  BY DEF Idle
<1>4. KindInv'
  BY <1>0, <1>1, <1>2 DEF KindInv, HolderSteps
<1>5. QShape' /\ LiveInv'
  BY <1>0, <1>1, <1>2 DEF QShape, LiveInv, LiveSteps, BehindPre
<1>7. KeptInv' /\ GoldInv' /\ BackInv'
  BY <1>2 DEF KeptInv, GoldInv, BackInv, BehindPre, BehindRes
<1>8. EndInv'
  BY <1>0, <1>1, <1>2 DEF EndInv
<1> QED
  BY <1>4, <1>5, <1>7, <1>8 DEF TruthInv

(* A grading that goes on, behind its first snapshot. *)
LEMMA GradeGoes ==
  ASSUME TruthInv, TypeInv', ReadHere, SameResult,
         g.pc \in BehindPre, g'.pc \in BehindPre \ {"reset"}, g'.hashed = g.hashed,
         row' # None => row # None /\ row'.pre = row.pre,
         Ops(fifo', GradeOps), OneLeft(fifo', busy), Replays(fifo'),
         ~hasHolder => fifo' = <<>>,
         g'.pc \in HolderSteps => hasHolder,
         g'.pc \notin Undoing => AllAwaited(fifo'),
         g'.pc = "undo_h" => got' = None /\ LastAwaited(fifo'),
         GoldInv', BackInv'
  PROVE  TruthInv'
<1>b. /\ g.pc # "idle" /\ g.pc \notin {"sync", "read"}
      /\ g'.pc # "idle" /\ g'.pc \notin LiveSteps \cup {"read"}
  BY DEF BehindPre, LiveSteps
<1>0. /\ KindInv /\ KeptInv /\ EndInv /\ reg.pc = "idle" /\ pc \notin Early /\ pc \in Late
      /\ ~Fresh /\ res.ended \notin Claims /\ res.verdict = None
  BY <1>b, ReadNow
<1>1. /\ ctx' = ctx /\ reg' = reg /\ pc' = pc /\ late' = late
      /\ (Clean' <=> Clean) /\ (Fresh' <=> Fresh)
      /\ held' = held /\ busy' = busy /\ truth' = truth /\ resetLost' = resetLost
      /\ hasHolder' = hasHolder
  BY HereIs
<1>2. KindInv'
  BY <1>0, <1>1, <1>b DEF KindInv, SameResult
<1>3. QShape'
  BY <1>1 DEF QShape
<1>4. LiveInv'
  BY <1>0, <1>1, <1>b DEF LiveInv, LiveSteps
<1>5. KeptInv'
  BY <1>0, <1>1, <1>b DEF KeptInv, PreHas
<1>6. EndInv'
  BY <1>0, <1>1, WorldAssumption DEF EndInv, SameResult
<1> QED
  BY <1>2, <1>3, <1>4, <1>5, <1>6 DEF TruthInv

(* An exception or a cancellation: the coroutine is over, or in its undo. *)
Stops ==
  \/ /\ g.pc \in Protected /\ g'.pc = "undo"
     /\ g'.hashed = g.hashed /\ SameResult
  \/ /\ g.pc = "diff3" /\ g'.pc = "undo_db"
     /\ g'.hashed = g.hashed /\ SameResult
  \/ /\ g' = Idle
     /\ res'.captured = res.captured /\ res'.verdict = res.verdict /\ res'.ended = "loose"

(* What an exception does. *)
LEMMA RaisesStops ==
  ASSUME g \in Reads, res \in Results, Raises
  PROVE  Stops
<1>1. CASE g.pc \in Protected
  <2>1. Goto("undo") /\ "undo" \in ReadSteps
    BY <1>1 DEF Raises, Protected, ReadSteps
  <2> QED
    BY <1>1, <2>1, GotoIs DEF Stops, SameResult
<1>2. CASE g.pc = "diff3"
  <2>1. Goto("undo_db") /\ "undo_db" \in ReadSteps
    BY <1>2 DEF Raises, Protected, ReadSteps
  <2> QED
    BY <1>2, <2>1, GotoIs DEF Stops, SameResult
<1>3. CASE g.pc \notin Protected /\ g.pc # "diff3"
  <2>1. Ends("loose")
    BY <1>3 DEF Raises
  <2> QED
    BY <2>1 DEF Ends, Results, Stops
<1> QED
  BY <1>1, <1>2, <1>3

(* It keeps the invariant, wherever it strikes: the snapshot is what the undo
   goes back to. *)
LEMMA StopsTruth ==
  ASSUME TruthInv, TypeInv', g.pc # "idle", ReadHere, Shrinks, Stops,
         row' # None => row # None /\ (g.pc \in BehindPre => row'.pre = row.pre),
         pc = "capturing" /\ ~hasHolder => row' = row
  PROVE  TruthInv'
<1>0. /\ TypeInv /\ KindInv /\ QShape /\ KeptInv /\ BackInv
      /\ OneLeft(fifo, busy) /\ Replays(fifo) /\ res.verdict = None
      /\ ~g.waits => NobodyWaits(fifo)
  BY ReadNow
<1>1. /\ held' = held /\ truth' = truth /\ hasHolder' = hasHolder /\ (Clean' <=> Clean)
  BY HereIs
<1>2. CASE g.pc \in Protected /\ g'.pc = "undo" /\ g'.hashed = g.hashed /\ SameResult
  <2>1. /\ g.pc \in BehindPre /\ g'.pc \in BehindPre \ {"reset"}
        /\ g'.pc \in Undoing /\ g'.pc \notin HolderSteps /\ g'.pc \notin BehindRes
    BY <1>2 DEF Protected, BehindPre, Undoing, HolderSteps, BehindRes
  <2>2. Ops(fifo', GradeOps) /\ OneLeft(fifo', busy) /\ Replays(fifo')
        /\ (~hasHolder => fifo' = <<>>)
    BY <1>0, <2>1 DEF KeptInv, KindInv, Shrinks
  <2>3. GoldInv' /\ BackInv'
    BY <1>2, <2>1, <2>2 DEF GoldInv, BackInv
  <2> QED
    BY <1>2, <2>1, <2>2, <2>3, GradeGoes
<1>3. CASE g.pc = "diff3" /\ g'.pc = "undo_db" /\ g'.hashed = g.hashed /\ SameResult
  <2>1. /\ g.pc \in BehindPre /\ g'.pc \in BehindPre \ {"reset"}
        /\ g.pc \notin Undoing /\ g'.pc \notin HolderSteps /\ g'.pc \notin BehindRes
    BY <1>3 DEF BehindPre, Undoing, HolderSteps, BehindRes
  <2>2. ~g.waits
    BY <1>0, <1>3 DEF TypeInv, QueueInv
  <2>3. fifo' = <<>>
    <3>1. AllAwaited(fifo)
      BY <1>0, <2>1 DEF QShape
    <3>2. fifo = <<>>
      BY <1>0, <2>2, <3>1, NothingLeft
    <3> QED
      BY <3>2 DEF Shrinks
  <2>4. Ops(fifo', GradeOps) /\ OneLeft(fifo', busy) /\ Replays(fifo') /\ AllAwaited(fifo')
    BY <2>3, EmptyQueue
  <2>5. GoldInv' /\ BackInv'
    BY <1>0, <1>1, <1>3, <2>1, <2>4 DEF GoldInv, BackInv
  <2> QED
    BY <1>3, <2>1, <2>3, <2>4, <2>5, GradeGoes
<1>4. CASE /\ g' = Idle
           /\ res'.captured = res.captured /\ res'.verdict = res.verdict /\ res'.ended = "loose"
  <2>1. res'.ended \notin Claims
    BY <1>4 DEF Claims
  <2> QED
    BY <1>0, <1>4, <2>1, ReadEnds
<1> QED
  BY <1>2, <1>3, <1>4 DEF Stops

(* A coroutine that goes on keeps what it has read. *)
LEMMA GoesIs ==
  ASSUME g \in Reads, res \in Results, NEW s \in ReadSteps, Goto(s) \/ WaitAt(s)
  PROVE  /\ g'.pc = s /\ g'.hashed = g.hashed /\ g'.golden = g.golden
         /\ g'.replayFailed = g.replayFailed /\ SameResult
BY DEF Goto, WaitAt, Reads, SameResult

(* A read that goes on before anything was taken away. *)
LEMMA LiveGoes ==
  ASSUME TruthInv, TypeInv', ReadHere, SameResult,
         g.pc \in {"sync", "hash", "snap"}, g'.pc \in LiveSteps \cup {"read"},
         OneLeft(fifo', busy), Replays(fifo'), Ops(fifo', AgentOps),
         Ops(fifo, GradeOps) => Ops(fifo', GradeOps),
         g'.pc = "sync" => hasHolder /\ got' = None,
         g'.pc # "sync" => fifo' = <<>> /\ DataIs(truth)',
         KeptInv'
  PROVE  TruthInv'
<1>b. /\ g.pc # "idle" /\ g'.pc # "idle"
      /\ g'.pc \in BehindPre => g'.pc = "reset"
      /\ g'.pc \notin BehindRes /\ g'.pc # "undo_h" /\ g'.pc \notin HolderSteps \ {"sync"}
  BY DEF LiveSteps, BehindPre, BehindRes, HolderSteps
<1>0. /\ KindInv /\ LiveInv /\ EndInv /\ reg.pc = "idle" /\ pc \notin Early
      /\ res.ended \notin Claims /\ res.verdict = None
  BY <1>b, ReadNow
<1>1. /\ ctx' = ctx /\ reg' = reg /\ pc' = pc /\ late' = late
      /\ (Clean' <=> Clean) /\ (Fresh' <=> Fresh)
      /\ held' = held /\ busy' = busy /\ truth' = truth /\ resetLost' = resetLost
      /\ hasHolder' = hasHolder
  BY HereIs
<1>2. HeldHas(held, truth)
  BY <1>0 DEF LiveInv, LiveSteps
<1>3. fifo' = <<>> => AllAwaited(fifo')
  BY EmptyQueue
<1>4. KindInv'
  BY <1>0, <1>1, <1>b DEF KindInv, SameResult
<1>5. QShape'
  BY <1>1, <1>3, <1>b DEF QShape
<1>6. LiveInv'
  BY <1>0, <1>1, <1>2, <1>b DEF LiveInv, Ok
<1>7. GoldInv' /\ BackInv'
  BY <1>b DEF GoldInv, BackInv, LiveSteps
<1>8. EndInv'
  BY <1>0, <1>1, WorldAssumption DEF EndInv, SameResult
<1> QED
  BY <1>4, <1>5, <1>6, <1>7, <1>8 DEF TruthInv

(* A call handed to the holder keeps the invariant. *)
LEMMA HandOverTruth ==
  ASSUME TruthInv, TypeInv', ReadHere, HandOver
  PROVE  TruthInv'
<1>a. /\ ~g.waits /\ WaitAt(g.pc) /\ row' = row /\ got' = got
      /\ \/ g.pc \in {"sync", "sync2"} /\ Hand("get", None)
         \/ g.pc = "hreset" /\ Hand("reset", "init")
         \/ g.pc = "replay" /\ hasHolder /\ Hand("replay", "gold")
  BY DEF HandOver
<1>b. g.pc # "idle"
  BY <1>a
<1>0. /\ KindInv /\ QShape /\ LiveInv /\ KeptInv /\ GoldInv
      /\ g \in Reads /\ res \in Results
      /\ fifo \in Seq(HolderCalls)
      /\ OneLeft(fifo, busy) /\ Replays(fifo) /\ got = None
  BY <1>a, <1>b, ReadNow
<1>1. /\ g'.pc = g.pc /\ g'.hashed = g.hashed /\ g'.golden = g.golden
      /\ g'.replayFailed = g.replayFailed /\ SameResult
  BY <1>0, <1>a, GoesIs DEF Reads
<1>2. /\ held' = held /\ truth' = truth /\ hasHolder' = hasHolder
  BY HereIs
<1>3. /\ OneLeft(fifo', busy) /\ Replays(fifo')
      /\ Ops(fifo, GradeOps) => Ops(fifo', GradeOps)
      /\ g.pc = "sync" /\ Ops(fifo, AgentOps) => Ops(fifo', AgentOps)
      /\ AllAwaited(fifo) => AllAwaited(fifo')
      /\ ResetsTo(fifo, "init") => ResetsTo(fifo', "init")
  <2>1. {"get", "reset", "replay"} \subseteq GradeOps /\ "get" \in AgentOps
    BY DEF GradeOps, AgentOps
  <2> QED
    BY <1>0, <1>a, <2>1, HandedQueue
<1>4. CASE g.pc = "sync"
  <2>1. hasHolder /\ Ops(fifo, AgentOps)
    BY <1>0, <1>4 DEF KindInv, HolderSteps, LiveInv, LiveSteps
  <2>2. KeptInv'
    BY <1>1, <1>4 DEF KeptInv, BehindPre
  <2> QED
    BY <1>0, <1>a, <1>1, <1>3, <1>4, <2>1, <2>2, LiveGoes DEF LiveSteps
<1>5. CASE g.pc \in {"sync2", "hreset", "replay"}
  <2>1. /\ g.pc \in BehindPre /\ g.pc \in BehindPre \ {"reset"}
        /\ g.pc \notin Undoing /\ g.pc \notin BehindRes /\ hasHolder
    BY <1>0, <1>5, <1>a DEF BehindPre, Undoing, BehindRes, KindInv, HolderSteps
  <2>2. Ops(fifo, GradeOps) /\ AllAwaited(fifo)
    BY <1>0, <2>1 DEF KeptInv, QShape
  <2>3. GoldInv'
    BY <1>0, <1>1, <1>2, <1>3, <1>5, <1>a, <2>1 DEF GoldInv, Ok
  <2>4. BackInv'
    BY <1>1, <1>5 DEF BackInv
  <2>5. g'.pc # "undo_h" /\ (row' # None => row # None /\ row'.pre = row.pre)
    BY <1>1, <1>5, <1>a
  <2> QED
    BY <1>1, <1>3, <2>1, <2>2, <2>3, <2>4, <2>5, GradeGoes
<1> QED
  BY <1>4, <1>5, <1>a

(* A golden action on an app world finds it reset, with nothing left in the
   queue, and leaves the golden world or is recorded. *)
LEMMA ReplayAppTruth ==
  ASSUME TruthInv, TypeInv', ReplayApp, UNCHANGED <<registryVars, engineVars>>
  PROVE  TruthInv'
<1>a. /\ g.pc = "replay" /\ app /\ ~g.waits
      /\ row' = row /\ fifo' = fifo /\ busy' = busy /\ got' = got /\ truth' = truth
      /\ resetLost' = resetLost /\ hasHolder' = hasHolder /\ res' = res
  BY DEF ReplayApp
<1>e. /\ ctx' = ctx /\ reg' = reg /\ pc' = pc /\ late' = late
      /\ (Clean' <=> Clean) /\ (Unstrayed' <=> Unstrayed) /\ (Fresh' <=> Fresh)
  BY DEF registryVars, engineVars, Clean, Unstrayed, Fresh
<1>b. g.pc # "idle" /\ g.pc \in BehindPre /\ g.pc \notin Undoing
  BY <1>a DEF BehindPre, Undoing
<1>0. /\ TypeInv /\ KindInv /\ QShape /\ KeptInv /\ GoldInv /\ EndInv
      /\ g \in Reads /\ got = None /\ NobodyWaits(fifo)
      /\ reg.pc = "idle" /\ pc \notin Early /\ pc \in Late /\ ~Fresh
      /\ res.ended \notin Claims /\ res.verdict = None
  BY <1>a, <1>b, ReadNow
<1>h. hasHolder
  BY <1>0, <1>a DEF TypeInv, TypeOK, GradingTypeOK
<1>1. fifo = <<>>
  <2>1. AllAwaited(fifo)
    BY <1>0, <1>b DEF QShape
  <2> QED
    BY <1>0, <2>1, NothingLeft
<1>2. HeldHas(held, "init")
  BY <1>0, <1>a, <1>h DEF GoldInv
<1>3. /\ g'.pc = "sync2" /\ g'.hashed = g.hashed
      /\ g'.replayFailed \/ HeldHas(held', "gold")
  <2>1. \/ g' = [g EXCEPT !.pc = "sync2"] /\ held' = Apply("gold", held) /\ held # None
        \/ g' = [g EXCEPT !.pc = "sync2", !.replayFailed = TRUE]
    BY DEF ReplayApp, AppRequest
  <2>2. Apply("gold", "init") = "gold"
    BY DEF Apply
  <2> QED
    BY <1>0, <1>2, <2>1, <2>2 DEF Reads, HeldHas
<1>4. /\ OneLeft(fifo', busy') /\ Replays(fifo') /\ AllAwaited(fifo')
      /\ Ops(fifo', GradeOps)
  BY <1>1, <1>a, EmptyQueue
<1>5. KindInv'
  BY <1>0, <1>1, <1>3, <1>a, <1>e, <1>h DEF KindInv
<1>6. QShape'
  BY <1>3, <1>4 DEF QShape
<1>7. LiveInv'
  BY <1>0, <1>3, <1>e DEF LiveInv, LiveSteps
<1>8. KeptInv'
  BY <1>0, <1>3, <1>4, <1>a, <1>b, <1>e DEF KeptInv
<1>9. GoldInv'
  BY <1>0, <1>3, <1>4, <1>a DEF GoldInv, BehindRes, Ok
<1>10. BackInv'
  BY <1>3 DEF BackInv
<1>11. EndInv'
  BY <1>0, <1>4, <1>a, <1>e, WorldAssumption DEF EndInv
<1> QED
  BY <1>5, <1>6, <1>7, <1>8, <1>9, <1>10, <1>11 DEF TruthInv

(* The verdict is what the two hashes say. *)
LEMMA GradedSays ==
  ASSUME g \in Reads, res \in Results, Graded
  PROVE  /\ g' = Idle /\ res'.captured = res.captured
         /\ res'.verdict \in {"match", "mismatch"} =>
              ~g.replayFailed /\ (res'.verdict = "match" <=> g.hashed = g.golden)
<1>1. g.replayFailed \in BOOLEAN
  BY DEF Reads
<1>2. /\ g' = Idle /\ res'.captured = res.captured
      /\ g.replayFailed => res'.verdict = "unscorable"
      /\ ~g.replayFailed => res'.verdict = IF g.hashed = g.golden THEN "match" ELSE "mismatch"
  BY <1>1 DEF Graded, Results
<1> QED
  BY <1>1, <1>2

(* Where the agent's world is back, the verdict is about it: a step to the end
   of the grading, or to the states of a mismatch. *)
LEMMA CompareTruth ==
  ASSUME TruthInv, TypeInv', ReadHere, g.pc \in {"restore", "hback", "diff4"},
         Graded \/ Goto("diff1"), fifo = <<>>, fifo' = <<>>,
         row' # None => row # None /\ row'.pre = row.pre,
         Clean => RowHas(row', truth) /\ HeldHas(held, truth)
  PROVE  TruthInv'
<1>b. /\ g.pc # "idle" /\ g.pc \notin {"sync", "read"}
      /\ g.pc \in BehindPre /\ g.pc \in BehindRes \ {"ghash"}
  BY DEF BehindPre, BehindRes
<1>0. KeptInv /\ GoldInv /\ g \in Reads /\ res \in Results
  BY <1>b, ReadNow
<1>1. /\ Clean => g.hashed = truth
      /\ Clean /\ ~g.replayFailed => g.golden = "gold"
  BY <1>0, <1>b DEF KeptInv, GoldInv
<1>2. /\ Ops(fifo', GradeOps) /\ Replays(fifo') /\ AllAwaited(fifo') /\ OneLeft(fifo', busy)
      /\ \A w : LastResets(fifo', w)
  BY EmptyQueue
<1>3. /\ held' = held /\ truth' = truth /\ (Clean' <=> Clean)
  BY HereIs
<1>4. CASE Graded
  <2>1. /\ g' = Idle /\ res'.captured = res.captured
        /\ res'.verdict \in {"match", "mismatch"} =>
             ~g.replayFailed /\ (res'.verdict = "match" <=> g.hashed = g.golden)
    BY <1>0, <1>4, GradedSays
  <2> QED
    BY <1>1, <1>2, <1>b, <2>1, ReadClaims
<1>5. CASE Goto("diff1")
  <2>1. /\ g'.pc = "diff1" /\ g'.hashed = g.hashed /\ g'.golden = g.golden
        /\ g'.replayFailed = g.replayFailed /\ SameResult
    BY <1>0, <1>5, GoesIs DEF ReadSteps
  <2>2. /\ g'.pc \in BehindPre \ {"reset"} /\ g'.pc \notin HolderSteps /\ g'.pc # "undo_h"
    BY <2>1 DEF BehindPre, HolderSteps
  <2>3. GoldInv'
    BY <1>1, <1>2, <1>3, <2>1 DEF GoldInv
  <2>4. BackInv'
    BY <1>3, <2>1 DEF BackInv, DataIs
  <2> QED
    BY <1>2, <1>b, <2>1, <2>2, <2>3, <2>4, GradeGoes
<1> QED
  BY <1>4, <1>5

(* A queue that is left as it is. *)
LEMMA SameQueueShrinks ==
  ASSUME fifo' = fifo
  PROVE  Shrinks
BY DEF Shrinks

(* The live state on its way into the row. *)
LEMMA MirrorTruth ==
  ASSUME TruthInv, TypeInv', ReadHere, g.waits, g.pc \in {"sync", "sync2"},
         got # None, got # "error", got' = None, fifo' = fifo, Mirror
  PROVE  TruthInv'
<1>b. g.pc # "idle" /\ Ok(got)
  BY DEF Ok
<1>0. /\ TypeInv /\ KindInv /\ QShape /\ LiveInv /\ KeptInv /\ GoldInv
      /\ g \in Reads /\ res \in Results /\ row \in Rows \cup {None}
      /\ OneLeft(fifo, busy) /\ Replays(fifo) /\ NobodyWaits(fifo)
      /\ res.verdict = None /\ res.ended \notin Claims
      /\ hasHolder
  <2>1. hasHolder
    BY <1>b, ReadNow DEF KindInv, HolderSteps
  <2> QED
    BY <1>b, <2>1, ReadNow
<1>1. /\ held' = held /\ truth' = truth /\ hasHolder' = hasHolder /\ (Clean' <=> Clean)
  BY HereIs
<1>2. row' = row \/ (row' \in Rows /\ SameTrial(row, row'))
  BY <1>0, MirrorIs
<1>3. row' # None => row # None /\ row'.pre = row.pre
  BY <1>2 DEF SameTrial
<1>s. Shrinks
  BY SameQueueShrinks
<1>4. CASE Raises
  BY <1>0, <1>3, <1>4, <1>b, <1>s, RaisesStops, StopsTruth
<1>5. CASE Ends("loose")
  <2>1. Stops
    BY <1>0, <1>5 DEF Ends, Results, Stops
  <2> QED
    BY <1>0, <1>3, <1>b, <1>s, <2>1, StopsTruth
<1>6. CASE row # None /\ row' = [row EXCEPT !.data = got] /\ Goto(StepAfter(g.pc))
  <2>1. row'.data = got
    BY <1>0, <1>6 DEF Rows
  <2>2. CASE g.pc = "sync"
    <3>1. StepAfter(g.pc) \in {"read", "hash"} /\ {"read", "hash"} \subseteq ReadSteps
      BY <2>2 DEF StepAfter, ReadSteps
    <3>2. g'.pc \in {"read", "hash"} /\ SameResult
      BY <1>0, <1>6, <3>1, GoesIs
    <3>3. got = truth /\ fifo = <<>>
      BY <1>0, <1>b, <2>2 DEF LiveInv
    <3>4. DataIs(truth)'
      BY <1>1, <2>1, <3>3 DEF DataIs, RowHas
    <3>5. KeptInv'
      BY <3>2 DEF KeptInv, BehindPre
    <3>6. OneLeft(fifo', busy) /\ Replays(fifo') /\ Ops(fifo', AgentOps) /\ Ops(fifo', GradeOps)
      BY <3>3, EmptyQueue
    <3> QED
      BY <2>2, <3>2, <3>3, <3>4, <3>5, <3>6, LiveGoes DEF LiveSteps
  <2>3. CASE g.pc = "sync2"
    <3>1. StepAfter(g.pc) = "snap2" /\ "snap2" \in ReadSteps
      BY <2>3 DEF StepAfter, ReadSteps
    <3>2. /\ g'.pc = "snap2" /\ g'.hashed = g.hashed
          /\ g'.replayFailed = g.replayFailed /\ SameResult
      BY <1>0, <1>6, <3>1, GoesIs
    <3>3. /\ g.pc \in BehindPre \ Undoing /\ g'.pc \in BehindPre \ {"reset"}
          /\ g'.pc \notin HolderSteps /\ g'.pc \notin BehindRes /\ g'.pc # "undo_h"
      BY <2>3, <3>2 DEF BehindPre, Undoing, HolderSteps, BehindRes
    <3>4. ~g.replayFailed => DataIs("gold")'
      BY <1>0, <1>b, <2>1, <2>3 DEF GoldInv, DataIs, RowHas
    <3>5. Ops(fifo, GradeOps) /\ AllAwaited(fifo)
      BY <1>0, <3>3 DEF KeptInv, QShape
    <3>6. GoldInv' /\ BackInv'
      BY <1>0, <3>2, <3>3, <3>4 DEF GoldInv, BackInv
    <3> QED
      BY <1>0, <1>3, <3>2, <3>3, <3>5, <3>6, GradeGoes
  <2> QED
    BY <2>2, <2>3
<1> QED
  BY <1>4, <1>5, <1>6 DEF Mirror

(* The holder's answers keep the invariant. *)
LEMMA AnswersTruth ==
  ASSUME TruthInv, TypeInv', ReadHere, HolderAnswers
  PROVE  TruthInv'
<1>a. g.waits /\ got # None /\ got' = None /\ fifo' = fifo
  BY DEF HolderAnswers
<1>b. g.pc # "idle"
  BY <1>a DEF TruthInv, TypeInv, HandlerInv, Idle
<1>0. /\ TypeInv /\ KindInv /\ QShape /\ LiveInv /\ KeptInv /\ GoldInv /\ BackInv
      /\ g \in Reads /\ res \in Results /\ row \in Rows \cup {None}
      /\ OneLeft(fifo, busy) /\ Replays(fifo) /\ NobodyWaits(fifo)
      /\ g.pc = "replay" => hasHolder
  <2>1. g.pc = "replay" => hasHolder
    BY <1>a DEF TruthInv, TypeInv, QueueInv
  <2> QED
    BY <1>a, <1>b, <2>1, ReadNow
<1>1. /\ held' = held /\ truth' = truth /\ hasHolder' = hasHolder /\ (Clean' <=> Clean)
  BY HereIs
<1>s. Shrinks
  BY <1>a, SameQueueShrinks
<1>2. CASE g.pc \in {"sync", "sync2"} /\ got # "error" /\ Mirror
  BY <1>a, <1>2, MirrorTruth
<1>3. CASE Raises /\ row' = row
  BY <1>0, <1>3, <1>b, <1>s, RaisesStops, StopsTruth
<1>4. CASE /\ g.pc = "replay" /\ row' = row /\ res' = res
           /\ g' = [g EXCEPT !.pc = "sync2", !.waits = FALSE, !.replayFailed = (got = "error")]
  <2>1. g'.pc = "sync2" /\ g'.hashed = g.hashed /\ (~g'.replayFailed => got # "error")
        /\ SameResult
    BY <1>0, <1>4 DEF Reads, SameResult
  <2>2. /\ g.pc \in BehindPre \ Undoing /\ g'.pc \in BehindPre \ {"reset"}
        /\ g'.pc \notin BehindRes /\ g'.pc # "undo_h"
    BY <1>4, <2>1 DEF BehindPre, Undoing, BehindRes
  <2>3. Ops(fifo, GradeOps) /\ AllAwaited(fifo)
    BY <1>0, <2>2 DEF KeptInv, QShape
  <2>4. GoldInv'
    BY <1>0, <1>1, <1>4, <1>a, <2>1, <2>2 DEF GoldInv, Ok
  <2>5. BackInv'
    BY <2>1 DEF BackInv
  <2> QED
    BY <1>0, <1>4, <1>a, <2>1, <2>2, <2>3, <2>4, <2>5, GradeGoes
<1>5. CASE g.pc = "hreset" /\ got # "error" /\ Goto("replay") /\ row' = row
  <2>1. g'.pc = "replay" /\ g'.hashed = g.hashed /\ SameResult
    BY <1>0, <1>5, GoesIs DEF ReadSteps
  <2>2. /\ g.pc \in BehindPre \ Undoing /\ g'.pc \in BehindPre \ {"reset"} /\ hasHolder
        /\ g'.pc \notin BehindRes /\ g'.pc # "undo_h"
    BY <1>0, <1>5, <2>1 DEF BehindPre, Undoing, BehindRes, KindInv, HolderSteps
  <2>3. Ops(fifo, GradeOps) /\ AllAwaited(fifo)
    BY <1>0, <2>2 DEF KeptInv, QShape
  <2>4. GoldInv'
    BY <1>0, <1>1, <1>5, <1>a, <2>1, <2>2 DEF GoldInv, Ok
  <2>5. BackInv'
    BY <2>1 DEF BackInv
  <2> QED
    BY <1>0, <1>5, <1>a, <2>1, <2>2, <2>3, <2>4, <2>5, GradeGoes
<1>6. CASE g.pc = "hback" /\ got # "error" /\ Compare /\ row' = row
  <2>1. Graded \/ Goto("diff1")
    BY <1>6 DEF Compare
  <2>2. AllAwaited(fifo)
    BY <1>0, <1>6 DEF QShape, BehindPre, Undoing
  <2>3. fifo = <<>>
    BY <1>0, <2>2, NothingLeft
  <2>4. Clean => RowHas(row', truth) /\ HeldHas(held, truth)
    BY <1>0, <1>6, <1>a DEF BackInv, DataIs, Ok
  <2> QED
    BY <1>6, <1>a, <2>1, <2>3, <2>4, CompareTruth
<1>7. CASE g.pc = "undo_h" /\ Ends("undone") /\ row' = row
  <2>1. fifo = <<>>
    BY <1>0, <1>7, <1>a DEF QShape
  <2>2. g' = Idle /\ res'.captured = res.captured /\ res'.verdict = res.verdict
    BY <1>0, <1>7 DEF Ends, Results
  <2>3. res'.verdict = None
    BY <1>b, <2>2, ReadNow
  <2>4. Ops(fifo', GradeOps) /\ Replays(fifo') /\ LastResets(fifo', truth)
    BY <1>a, <2>1, EmptyQueue
  <2>5. Clean => RowHas(row', truth) /\ (~resetLost => HeldHas(held, truth))
    BY <1>0, <1>7, <1>a DEF BackInv, DataIs
  <2> QED
    BY <1>7, <1>a, <1>b, <2>1, <2>2, <2>3, <2>4, <2>5, ReadClaims, WorldAssumption
<1> QED
  BY <1>2, <1>3, <1>4, <1>5, <1>6, <1>7 DEF HolderAnswers

(* The undo stops waiting for the reset it handed to the holder, which is the
   last call of the queue and resets it to the agent's world. *)
LEMMA UndoLeaves ==
  ASSUME TruthInv, TypeInv', ReadHere, g.pc = "undo_h", StopWaiting, Ends("undone"),
         row' = row
  PROVE  TruthInv'
<1>b. g.pc # "idle"
  OBVIOUS
<1>0. /\ TypeInv /\ QShape /\ KeptInv /\ BackInv /\ Replays(fifo)
      /\ res \in Results /\ res.verdict = None
      /\ fifo \in Seq(HolderCalls)
  BY ReadNow
<1>1. g' = Idle /\ res'.captured = res.captured /\ res'.verdict = None
  BY <1>0 DEF Ends, Results
<1>2. /\ \A S : Ops(fifo, S) => Ops(fifo', S)
      /\ Replays(fifo')
      /\ \A w : LastResets(fifo, w) => LastResets(fifo', w)
      /\ fifo = <<>> <=> fifo' = <<>>
  BY <1>0, ShieldedQueue
<1>3. Ops(fifo', GradeOps)
  BY <1>0, <1>2 DEF KeptInv, BehindPre
<1>4. Clean => LastResets(fifo, truth)
  <2>1. CASE fifo = <<>>
    BY <2>1, EmptyQueue
  <2>2. CASE fifo # <<>>
    <3>1. fifo[Len(fifo)].awaited
      BY <1>0, <2>2 DEF QShape, LastAwaited
    <3>2. Len(fifo) \in 1..Len(fifo)
      BY <1>0, <2>2
    <3>3. fifo[Len(fifo)].op = "reset"
      BY <1>0, <3>1, <3>2 DEF TypeInv, HandlerInv, QueueInv, Wants
    <3>4. Clean => fifo[Len(fifo)].arg = truth
      BY <1>0, <3>1, <3>2 DEF BackInv, AwaitedTo
    <3> QED
      BY <3>3, <3>4 DEF LastResets
  <2> QED
    BY <2>1, <2>2
<1>5. Clean /\ fifo' = <<>> /\ ~resetLost => HeldHas(held, truth)
  BY <1>0, <1>2 DEF QShape, LastAwaited, BackInv
<1>6. Clean => RowHas(row', truth)
  BY <1>0 DEF BackInv, DataIs
<1> QED
  BY <1>1, <1>2, <1>3, <1>4, <1>5, <1>6, ReadClaims, WorldAssumption

(* A holder that is too slow keeps the invariant. *)
LEMMA TooSlowTruth ==
  ASSUME TruthInv, TypeInv', ReadHere, HolderTooSlow
  PROVE  TruthInv'
<1>a. g.waits /\ row' = row
  BY DEF HolderTooSlow
<1>b. g.pc # "idle"
  BY <1>a DEF TruthInv, TypeInv, HandlerInv, Idle
<1>1. CASE g.pc \in {"sync", "sync2"} /\ Abandon /\ Raises
  <2>1. g \in Reads /\ res \in Results /\ fifo \in Seq(HolderCalls)
        /\ \A i \in 1..Len(fifo) : fifo[i].awaited => i = Len(fifo)
    BY <1>b, ReadNow
  <2>2. Shrinks
    BY <1>1, <2>1, AbandonedQueue DEF Shrinks
  <2> QED
    BY <1>1, <1>a, <1>b, <2>1, <2>2, RaisesStops, StopsTruth
<1>2. CASE g.pc = "undo_h" /\ StopWaiting /\ Ends("undone")
  BY <1>2, <1>a, UndoLeaves
<1> QED
  BY <1>1, <1>2 DEF HolderTooSlow

(* The budget keeps the invariant, wherever the coroutine is cancelled. *)
LEMMA BudgetTruth ==
  ASSUME TruthInv, TypeInv', ReadHere, BudgetElapses
  PROVE  TruthInv'
<1>b. g.pc # "idle"
  BY DEF BudgetElapses
<1>0. /\ TypeInv /\ g \in Reads /\ res \in Results /\ fifo \in Seq(HolderCalls)
      /\ \A i \in 1..Len(fifo) : fifo[i].awaited => i = Len(fifo)
      /\ pc = "capturing" => g.pc \in {"sync", "read"}
  BY <1>b, ReadNow
<1>1. CASE /\ g.call = "grade" /\ g.pc = "sync"
           /\ res' = [res EXCEPT !.answer = "failed"]
           /\ UNCHANGED <<row, fifo, got, g>>
  <2>1. SameResult
    BY <1>0, <1>1 DEF Results, SameResult
  <2>2. /\ ctx' = ctx /\ reg' = reg /\ pc' = pc /\ late' = late
        /\ (Clean' <=> Clean) /\ (Unstrayed' <=> Unstrayed) /\ (Fresh' <=> Fresh)
        /\ held' = held /\ busy' = busy /\ truth' = truth /\ resetLost' = resetLost
        /\ hasHolder' = hasHolder
    BY HereIs
  <2>3. Frame
    BY <1>1, <2>1, <2>2 DEF Frame, SameResult
  <2> QED
    BY <2>3, FrameStep
<1>2. CASE /\ row' \in {row, IF g.pc \in DbSteps THEN Served(g.pc) ELSE row}
           /\ IF g.pc = "undo_h" THEN StopWaiting ELSE Abandon
           /\ CASE g.pc \in Protected \cup {"diff3"} ->
                     /\ g' = [g EXCEPT !.waits = FALSE,
                           !.pc = IF g.pc = "diff3" THEN "undo_db" ELSE "undo"]
                     /\ res' = [res EXCEPT !.answer = "failed"]
                [] g.pc = "undo_h" -> Ends("undone")
                [] OTHER -> Ends("loose")
  <2>1. CASE g.pc = "undo_h"
    <3>1. Ends("undone") /\ StopWaiting
      BY <1>2, <2>1 DEF Protected
    <3>2. row' = row
      BY <1>2, <2>1 DEF DbSteps
    <3> QED
      BY <2>1, <3>1, <3>2, UndoLeaves
  <2>2. CASE g.pc # "undo_h"
    <3>1. Shrinks
      BY <1>0, <1>2, <2>2, AbandonedQueue DEF Shrinks
    <3>2. Stops
      <4>1. CASE g.pc \in Protected \cup {"diff3"}
        <5>1. /\ g' = [g EXCEPT !.waits = FALSE,
                         !.pc = IF g.pc = "diff3" THEN "undo_db" ELSE "undo"]
              /\ res' = [res EXCEPT !.answer = "failed"]
          BY <1>2, <2>2, <4>1
        <5>2. SameResult /\ g'.hashed = g.hashed
              /\ g'.pc = IF g.pc = "diff3" THEN "undo_db" ELSE "undo"
          BY <1>0, <5>1 DEF Reads, Results, SameResult
        <5> QED
          BY <4>1, <5>2 DEF Stops
      <4>2. CASE g.pc \notin Protected \cup {"diff3"}
        <5>1. Ends("loose")
          BY <1>2, <2>2, <4>2
        <5> QED
          BY <1>0, <5>1 DEF Ends, Results, Stops
      <4> QED
        BY <4>1, <4>2
    <3>3. row' # None => row # None /\ (g.pc \in BehindPre => row'.pre = row.pre)
      <4>1. row' = row \/ row' = Served(g.pc)
        BY <1>2
      <4>2. row = None => Served(g.pc) = None
        BY DEF Served
      <4>3. row # None /\ g.pc \in BehindPre => Served(g.pc).pre = row.pre
        BY <1>0, <1>b, ServedIs DEF BehindPre
      <4> QED
        BY <4>1, <4>2, <4>3
    <3>4. pc = "capturing" => row' = row
      <4>1. g.pc = "read" => Served(g.pc) = IF row = None THEN None ELSE row
        BY DEF Served
      <4>2. g.pc = "sync" => g.pc \notin DbSteps
        BY DEF DbSteps
      <4> QED
        BY <1>0, <1>2, <4>1, <4>2
    <3> QED
      BY <1>b, <3>1, <3>2, <3>3, <3>4, StopsTruth
  <2> QED
    BY <2>1, <2>2
<1> QED
  BY <1>1, <1>2 DEF BudgetElapses

-----------------------------------------------------------------------------
(* The requests to the db-service. *)

(* What a request makes of the row's tables. *)
LEMMA ServedData ==
  ASSUME TypeInv, g.pc # "idle", row # None
  PROVE  /\ g.pc \in {"snap", "snap2"} => Served(g.pc).data = row.data
         /\ g.pc = "snap" => Served(g.pc).pre = row.data
         /\ g.pc = "reset" => Served(g.pc).data = "init"
         /\ g.pc = "replay" => Served(g.pc).data = Apply("gold", row.data)
         /\ g.pc \in {"restore", "diff4", "undo", "undo_db"} => Served(g.pc).data = row.pre
         /\ g.pc \in {"read", "hash", "ghash", "hget", "diff1", "diff3", "undo_get"} =>
              Served(g.pc) = row
<1>0. row \in Rows
  BY ReadFacts
<1>1. g.pc = "snap" => Served(g.pc) = [row EXCEPT !.pre = row.data]
  BY DEF Served
<1>2. g.pc = "snap2" => Served(g.pc) = [row EXCEPT !.res = row.data]
  BY DEF Served
<1>3. g.pc = "reset" => Served(g.pc) = [row EXCEPT !.data = "init"]
  BY DEF Served
<1>4. g.pc = "replay" => Served(g.pc) = [row EXCEPT !.data = Apply("gold", row.data)]
  BY DEF Served
<1>5. g.pc \in {"restore", "diff4", "undo", "undo_db"} =>
        Served(g.pc) = [row EXCEPT !.data = row.pre]
  BY DEF Served
<1>6. g.pc \in {"read", "hash", "ghash", "hget", "diff1", "diff3", "undo_get"} =>
        Served(g.pc) = row
  BY DEF Served
<1> QED
  BY <1>0, <1>1, <1>2, <1>3, <1>4, <1>5, <1>6 DEF Rows

(* What holds when a request goes out: nobody waits for the holder. *)
LEMMA RequestNow ==
  ASSUME TruthInv, DbRequest
  PROVE  /\ g.pc # "idle" /\ g.pc \in DbSteps /\ ~g.waits /\ got = None /\ got' = got
         /\ NobodyWaits(fifo)
         /\ g.pc \in BehindPre \ Undoing => fifo = <<>>
         /\ ~hasHolder => fifo = <<>> /\ held = None
         /\ g.pc = "replay" => ~hasHolder
<1>1. g.pc # "idle" /\ g.pc \in DbSteps /\ got' = got
  BY DEF DbRequest, DbSteps
<1>2. TypeInv /\ QShape /\ KindInv
  BY DEF TruthInv
<1>3. ~g.waits
  BY <1>1, <1>2 DEF TypeInv, QueueInv, DbSteps
<1>4. NobodyWaits(fifo) /\ got = None
  BY <1>1, <1>3, ReadNow
<1>5. g.pc \in BehindPre \ Undoing => fifo = <<>>
  BY <1>2, <1>4, NothingLeft DEF QShape
<1>6. g.pc = "replay" => ~hasHolder
  BY <1>1 DEF DbSteps
<1> QED
  BY <1>1, <1>2, <1>3, <1>4, <1>5, <1>6 DEF KindInv

(* A request that fails, or whose answer is lost, keeps the invariant. *)
LEMMA RequestFails ==
  ASSUME TruthInv, TypeInv', ReadHere, DbRequest,
         row' = row \/ (row # None /\ row' = Served(g.pc)), fifo' = fifo,
         IF g.pc = "replay"
         THEN g' = [g EXCEPT !.pc = "snap2", !.replayFailed = TRUE] /\ UNCHANGED res
         ELSE Raises
  PROVE  TruthInv'
<1>b. /\ g.pc # "idle" /\ g.pc \in DbSteps
      /\ g.pc \in BehindPre \ Undoing => fifo = <<>>
      /\ g.pc = "replay" => ~hasHolder
  BY RequestNow
<1>0. /\ TypeInv /\ g \in Reads /\ res \in Results
      /\ pc = "capturing" => g.pc \in {"sync", "read"}
  BY <1>b, ReadNow
<1>1. row' # None => row # None /\ (g.pc \in BehindPre => row'.pre = row.pre)
  BY <1>0, <1>b, ServedIs DEF BehindPre
<1>2. CASE g.pc = "replay"
  <2>0. TRUE \in BOOLEAN /\ g' = [g EXCEPT !.pc = "snap2", !.replayFailed = TRUE] /\ res' = res
    BY <1>2
  <2>1. g'.pc = "snap2" /\ g'.hashed = g.hashed /\ g'.replayFailed /\ SameResult
    BY <1>0, <2>0 DEF Reads, SameResult
  <2>2. /\ g.pc \in BehindPre \ Undoing /\ g'.pc \in BehindPre \ {"reset"}
        /\ g'.pc \notin HolderSteps /\ g'.pc # "undo_h"
    BY <1>2, <2>1 DEF BehindPre, Undoing, HolderSteps
  <2>3. fifo' = <<>>
    BY <1>b, <2>2
  <2>4. Ops(fifo', GradeOps) /\ OneLeft(fifo', busy) /\ Replays(fifo') /\ AllAwaited(fifo')
    BY <2>3, EmptyQueue
  <2>5. GoldInv' /\ BackInv'
    BY <2>1, <2>4 DEF GoldInv, BackInv
  <2> QED
    BY <1>1, <2>1, <2>2, <2>3, <2>4, <2>5, GradeGoes
<1>3. CASE g.pc # "replay"
  <2>1. Stops
    BY <1>0, <1>3, RaisesStops
  <2>2. pc = "capturing" => row' = row
    <3>1. g.pc = "sync" => g.pc \notin DbSteps
      BY DEF DbSteps
    <3> QED
      BY <1>0, <1>b, <3>1, ServedData
  <2>3. Shrinks
    BY SameQueueShrinks
  <2> QED
    BY <1>1, <1>b, <2>1, <2>2, <2>3, StopsTruth
<1> QED
  BY <1>2, <1>3

(* A request that is answered, before the first snapshot. *)
LEMMA LiveServed ==
  ASSUME TruthInv, TypeInv', ReadHere, DbRequest, g.pc \in {"read", "hash", "snap"},
         row # None, row' = Served(g.pc), DbAnswers
  PROVE  TruthInv'
<1>b. g.pc # "idle" /\ got = None /\ got' = got
  BY RequestNow
<1>0. /\ TypeInv /\ LiveInv /\ KeptInv
      /\ g \in Reads /\ res \in Results /\ row \in Rows
      /\ res.verdict = None /\ res.ended \notin Claims
      /\ pc = "capturing" => g.pc \in {"sync", "read"}
  BY <1>b, ReadNow
<1>1. truth' = truth /\ (Clean' <=> Clean) /\ hasHolder' = hasHolder
  BY HereIs
<1>2. CASE g.pc = "read"
  <2>1. Captured(row.data) /\ fifo' = fifo
    BY <1>2 DEF DbAnswers
  <2>2. /\ g' = Idle /\ res'.captured = row.data
        /\ res'.verdict = res.verdict /\ res'.ended = res.ended
    BY <1>0, <2>1 DEF Captured, Results
  <2>3. ctx # None => fifo = <<>> /\ (Clean => res'.captured = truth)
    BY <1>0, <1>2, <2>2 DEF LiveInv, DataIs, RowHas
  <2>4. row' = row
    BY <1>0, <1>2, <1>b, ServedData
  <2>5. Shrinks
    BY <2>1, SameQueueShrinks
  <2> QED
    BY <1>0, <1>b, <2>2, <2>3, <2>4, <2>5, ReadEnds
<1>3. CASE g.pc \in {"hash", "snap"}
  <2>1. fifo = <<>> /\ DataIs(truth)
    BY <1>0, <1>3 DEF LiveInv, LiveSteps
  <2>2. row'.data = row.data /\ (g.pc = "snap" => row'.pre = row.data)
    BY <1>0, <1>3, <1>b, ServedData
  <2>3. DataIs(truth)'
    BY <1>1, <2>1, <2>2 DEF DataIs, RowHas
  <2>4. OneLeft(fifo, busy) /\ Replays(fifo) /\ Ops(fifo, AgentOps) /\ Ops(fifo, GradeOps)
    BY <2>1, EmptyQueue
  <2>5. CASE g.pc = "hash"
    <3>1. /\ g' = [g EXCEPT !.pc = "snap", !.hashed = row.data]
          /\ fifo' = fifo /\ res' = res
      BY <2>5 DEF DbAnswers
    <3>2. g'.pc = "snap" /\ g'.hashed = row.data /\ SameResult
      BY <1>0, <3>1 DEF Reads, SameResult
    <3>3. KeptInv'
      BY <1>1, <2>1, <3>2 DEF KeptInv, BehindPre, DataIs, RowHas
    <3> QED
      BY <2>1, <2>3, <2>4, <2>5, <3>1, <3>2, <3>3, LiveGoes DEF LiveSteps
  <2>6. CASE g.pc = "snap"
    <3>1. Goto("reset") /\ fifo' = fifo
      BY <2>6 DEF DbAnswers, StepAfter
    <3>2. g'.pc = "reset" /\ g'.hashed = g.hashed /\ SameResult
      BY <1>0, <3>1, GoesIs DEF ReadSteps
    <3>3. Clean => g.hashed = truth
      BY <1>0, <2>6 DEF KeptInv
    <3>4. Clean => PreHas(row', truth)
      BY <2>1, <2>2, <2>6 DEF DataIs, RowHas, PreHas
    <3>5. KeptInv'
      BY <1>1, <2>4, <3>1, <3>2, <3>3, <3>4 DEF KeptInv
    <3> QED
      BY <2>1, <2>3, <2>4, <2>6, <3>1, <3>2, <3>5, LiveGoes DEF LiveSteps
  <2> QED
    BY <1>3, <2>5, <2>6
<1> QED
  BY <1>2, <1>3

(* What a request that is answered behind the first snapshot may rely on. *)
LEMMA BehindNow ==
  ASSUME TruthInv, ReadHere, DbRequest, g.pc \in BehindPre, row # None, row' = Served(g.pc)
  PROVE  /\ g.pc # "idle" /\ g.pc \notin {"sync", "read"} /\ got' = None
         /\ g \in Reads /\ res \in Results /\ res.verdict = None
         /\ row' # None /\ row'.pre = row.pre
         /\ Clean => row.pre = truth
         /\ Ops(fifo, GradeOps) /\ OneLeft(fifo, busy) /\ Replays(fifo)
         /\ ~hasHolder => fifo = <<>> /\ held = None
         /\ g.pc \notin Undoing => fifo = <<>> /\ AllAwaited(fifo)
         /\ held' = held /\ truth' = truth /\ (Clean' <=> Clean) /\ hasHolder' = hasHolder
<1>1. /\ g.pc # "idle" /\ got = None /\ got' = got
      /\ g.pc \in BehindPre \ Undoing => fifo = <<>>
      /\ ~hasHolder => fifo = <<>> /\ held = None
  BY RequestNow
<1>2. /\ TypeInv /\ KeptInv /\ g \in Reads /\ res \in Results /\ res.verdict = None
      /\ OneLeft(fifo, busy) /\ Replays(fifo)
  BY <1>1, ReadNow
<1>3. g.pc # "snap" /\ g.pc \notin {"sync", "read"}
  BY DEF BehindPre
<1>4. row' # None /\ row'.pre = row.pre
  BY <1>1, <1>2, <1>3, ServedIs, WorldAssumption
<1>5. Ops(fifo, GradeOps) /\ (Clean => row.pre = truth)
  BY <1>2 DEF KeptInv, PreHas
<1>6. fifo = <<>> => AllAwaited(fifo)
  BY EmptyQueue
<1>7. held' = held /\ truth' = truth /\ (Clean' <=> Clean) /\ hasHolder' = hasHolder
  BY HereIs
<1> QED
  BY <1>1, <1>2, <1>3, <1>4, <1>5, <1>6, <1>7

(* A request that is answered while the golden world is made. *)
LEMMA GoldServed ==
  ASSUME TruthInv, TypeInv', ReadHere, DbRequest,
         g.pc \in {"reset", "replay", "snap2", "ghash"},
         row # None, row' = Served(g.pc), DbAnswers
  PROVE  TruthInv'
<1>a. g.pc \in BehindPre /\ g.pc \notin Undoing
  BY DEF BehindPre, Undoing
<1>b. /\ g.pc # "idle" /\ got' = None
      /\ g \in Reads /\ res \in Results
      /\ row' # None /\ row'.pre = row.pre
      /\ Ops(fifo, GradeOps) /\ OneLeft(fifo, busy) /\ Replays(fifo)
      /\ fifo = <<>> /\ AllAwaited(fifo)
      /\ truth' = truth /\ (Clean' <=> Clean) /\ hasHolder' = hasHolder
  BY <1>a, BehindNow
<1>0. TypeInv /\ GoldInv /\ hasHolder \in BOOLEAN /\ row.data \in Worlds
  BY <1>b, ReadNow DEF Rows
<1>c. g.pc = "replay" => ~hasHolder
  BY RequestNow
<1>e. \A w : ResetsTo(fifo, w)
  BY <1>b, EmptyQueue
<1>1. /\ g.pc = "reset" => row'.data = "init"
      /\ g.pc = "replay" => row'.data = Apply("gold", row.data)
      /\ g.pc = "snap2" => row'.data = row.data
      /\ g.pc = "ghash" => row' = row
  BY <1>0, <1>b, ServedData
<1>2. CASE g.pc = "reset"
  <2>1. Goto(IF hasHolder THEN "hreset" ELSE "replay") /\ fifo' = fifo
    BY <1>2 DEF DbAnswers, StepAfter
  <2>2. /\ g'.pc = (IF hasHolder THEN "hreset" ELSE "replay")
        /\ g'.hashed = g.hashed /\ SameResult
    BY <1>b, <2>1, GoesIs DEF ReadSteps
  <2>3. GoldInv'
    <3>1. DataIs("init")'
      BY <1>1, <1>2 DEF DataIs, RowHas
    <3>2. g'.pc \notin BehindRes
      BY <2>2 DEF BehindRes
    <3> QED
      BY <1>0, <1>b, <1>e, <2>1, <2>2, <3>1, <3>2 DEF GoldInv, Ok
  <2>4. BackInv'
    BY <2>2 DEF BackInv
  <2>5. g'.pc \in BehindPre \ {"reset"} /\ g'.pc # "undo_h" /\ (g'.pc \in HolderSteps => hasHolder)
    BY <2>2 DEF BehindPre, HolderSteps
  <2> QED
    BY <1>a, <1>b, <2>1, <2>2, <2>3, <2>4, <2>5, GradeGoes
<1>3. CASE g.pc \in {"replay", "snap2"}
  <2>1. Goto(IF g.pc = "replay" THEN "snap2" ELSE "ghash") /\ fifo' = fifo
    <3>1. Goto(StepAfter(g.pc)) /\ fifo' = fifo
      BY <1>3 DEF DbAnswers
    <3>2. StepAfter(g.pc) = IF g.pc = "replay" THEN "snap2" ELSE "ghash"
      BY <1>3, <1>c DEF StepAfter
    <3> QED
      BY <3>1, <3>2
  <2>2. /\ g'.pc = (IF g.pc = "replay" THEN "snap2" ELSE "ghash")
        /\ g'.hashed = g.hashed /\ g'.replayFailed = g.replayFailed /\ SameResult
    BY <1>b, <2>1, GoesIs DEF ReadSteps
  <2>3. ~g.replayFailed => DataIs("gold")'
    <3>1. Apply("gold", "init") = "gold"
      BY DEF Apply
    <3>2. CASE g.pc = "replay"
      BY <1>0, <1>1, <1>b, <1>c, <3>1, <3>2 DEF GoldInv, DataIs, RowHas
    <3>3. CASE g.pc = "snap2"
      BY <1>0, <1>1, <1>b, <3>3 DEF GoldInv, DataIs, RowHas
    <3> QED
      BY <1>3, <3>2, <3>3
  <2>4. GoldInv'
    BY <1>3, <1>b, <2>1, <2>2, <2>3 DEF GoldInv, BehindRes
  <2>5. BackInv'
    BY <1>3, <2>2 DEF BackInv
  <2>6. g'.pc \in BehindPre \ {"reset"} /\ g'.pc # "undo_h" /\ g'.pc \notin HolderSteps
    BY <1>3, <2>2 DEF BehindPre, HolderSteps
  <2> QED
    BY <1>a, <1>b, <2>1, <2>2, <2>4, <2>5, <2>6, GradeGoes
<1>4. CASE g.pc = "ghash"
  <2>1. /\ g' = [g EXCEPT !.pc = "restore", !.golden = row.data]
        /\ fifo' = fifo /\ res' = res
    BY <1>4 DEF DbAnswers
  <2>2. /\ g'.pc = "restore" /\ g'.golden = row.data /\ g'.hashed = g.hashed
        /\ g'.replayFailed = g.replayFailed /\ SameResult
    BY <1>b, <2>1 DEF Reads, SameResult
  <2>3. GoldInv'
    <3>1. Clean /\ ~g.replayFailed => row.data = "gold"
      BY <1>0, <1>4 DEF GoldInv, DataIs, RowHas
    <3> QED
      BY <1>b, <2>1, <2>2, <3>1 DEF GoldInv
  <2>4. BackInv'
    BY <2>2 DEF BackInv
  <2>5. g'.pc \in BehindPre \ {"reset"} /\ g'.pc # "undo_h" /\ g'.pc \notin HolderSteps
    BY <2>2 DEF BehindPre, HolderSteps
  <2> QED
    BY <1>a, <1>b, <2>1, <2>2, <2>3, <2>4, <2>5, GradeGoes
<1> QED
  BY <1>2, <1>3, <1>4

(* A request that is answered while the states of a mismatch are fetched, or on
   the way back to the agent's world, before the holder is reset. *)
LEMMA BackServed ==
  ASSUME TruthInv, TypeInv', ReadHere, DbRequest,
         g.pc \in {"restore", "diff1", "diff2", "diff3", "diff4", "undo_db"},
         row # None, row' = Served(g.pc), DbAnswers
  PROVE  TruthInv'
<1>a. g.pc \in BehindPre /\ g.pc \notin Undoing
  BY DEF BehindPre, Undoing
<1>b. /\ g.pc # "idle" /\ g.pc \notin {"sync", "read"} /\ got' = None
      /\ g \in Reads /\ res \in Results /\ res.verdict = None
      /\ row' # None /\ row'.pre = row.pre
      /\ Clean => row.pre = truth
      /\ Ops(fifo, GradeOps) /\ OneLeft(fifo, busy) /\ Replays(fifo)
      /\ fifo = <<>> /\ AllAwaited(fifo)
      /\ ~hasHolder => held = None
      /\ held' = held /\ truth' = truth /\ (Clean' <=> Clean) /\ hasHolder' = hasHolder
  BY <1>a, BehindNow
<1>0. TypeInv /\ GoldInv /\ BackInv /\ hasHolder \in BOOLEAN
  BY <1>b, ReadNow
<1>1. /\ g.pc \in {"restore", "diff4", "undo_db"} => row'.data = row.pre
      /\ g.pc \in {"diff1", "diff3"} => row' = row
  BY <1>0, <1>b, ServedData
<1>2. g.pc \in {"restore", "diff4", "undo_db"} /\ Clean => RowHas(row', truth)
  BY <1>1, <1>b DEF RowHas
<1>3. g.pc \in {"diff1", "diff2", "diff3", "diff4", "undo_db"} /\ Clean => HeldHas(held, truth)
  BY <1>0 DEF BackInv
<1>4. CASE g.pc = "restore" /\ hasHolder
  <2>1. Goto("hget") /\ fifo' = fifo
    BY <1>4 DEF DbAnswers
  <2>2. /\ g'.pc = "hget" /\ g'.hashed = g.hashed /\ g'.golden = g.golden
        /\ g'.replayFailed = g.replayFailed /\ SameResult
    BY <1>b, <2>1, GoesIs DEF ReadSteps
  <2>3. GoldInv'
    BY <1>0, <1>4, <1>b, <2>1, <2>2 DEF GoldInv, BehindRes
  <2>4. BackInv'
    BY <1>2, <1>4, <1>b, <2>2 DEF BackInv, DataIs
  <2>5. g'.pc \in BehindPre \ {"reset"} /\ g'.pc # "undo_h"
    BY <2>2 DEF BehindPre
  <2> QED
    BY <1>4, <1>a, <1>b, <2>1, <2>2, <2>3, <2>4, <2>5, GradeGoes
<1>5. CASE (g.pc = "restore" /\ ~hasHolder) \/ g.pc = "diff4"
  <2>1. (Graded \/ Goto("diff1")) /\ fifo' = fifo
    <3>1. CASE g.pc = "restore"
      BY <1>5, <3>1 DEF DbAnswers, Compare
    <3>2. CASE g.pc = "diff4"
      BY <3>2 DEF DbAnswers
    <3> QED
      BY <1>5, <3>1, <3>2
  <2>2. Clean => HeldHas(held, truth)
    BY <1>3, <1>5, <1>b DEF HeldHas
  <2>3. Clean => RowHas(row', truth)
    BY <1>2, <1>5
  <2>4. g.pc \in {"restore", "hback", "diff4"}
    BY <1>5
  <2> QED
    BY <1>b, <2>1, <2>2, <2>3, <2>4, CompareTruth
<1>6. CASE g.pc \in {"diff1", "diff2", "diff3"}
  <2> DEFINE s == CASE g.pc = "diff1" -> "diff2" [] g.pc = "diff2" -> "diff3"
                    [] g.pc = "diff3" -> "diff4"
  <2>0. /\ g.pc = "diff1" => s = "diff2"
        /\ g.pc = "diff2" => s = "diff3"
        /\ g.pc = "diff3" => s = "diff4"
    OBVIOUS
  <2>1. Goto(s) /\ fifo' = fifo
    BY <1>6 DEF DbAnswers, StepAfter
  <2> HIDE DEF s
  <2>2. /\ g'.pc = s /\ g'.hashed = g.hashed /\ g'.golden = g.golden
        /\ g'.replayFailed = g.replayFailed /\ SameResult
    <3>1. s \in ReadSteps
      BY <1>6, <2>0 DEF ReadSteps
    <3> QED
      BY <1>b, <2>1, <3>1, GoesIs
  <2>3. GoldInv'
    BY <1>0, <1>6, <1>b, <2>0, <2>1, <2>2 DEF GoldInv, BehindRes
  <2>4. BackInv'
    <3>1. g.pc = "diff1" => DataIs(truth)'
      BY <1>0, <1>1, <1>b DEF BackInv, DataIs
    <3> QED
      BY <1>3, <1>6, <1>b, <2>0, <2>2, <3>1 DEF BackInv
  <2>5. g'.pc \in BehindPre \ {"reset"} /\ g'.pc # "undo_h" /\ g'.pc \notin HolderSteps
    BY <1>6, <2>0, <2>2 DEF BehindPre, HolderSteps
  <2> QED
    BY <1>a, <1>b, <2>1, <2>2, <2>3, <2>4, <2>5, GradeGoes
<1>7. CASE g.pc = "undo_db"
  <2>1. Ends("undone") /\ fifo' = fifo
    BY <1>7 DEF DbAnswers
  <2>2. g' = Idle /\ res'.captured = res.captured /\ res'.verdict = None
    BY <1>b, <2>1 DEF Ends, Results
  <2>3. LastResets(fifo', truth)
    BY <1>b, <2>1, EmptyQueue
  <2> QED
    BY <1>2, <1>3, <1>7, <1>b, <2>1, <2>2, <2>3, ReadClaims, WorldAssumption
<1> QED
  BY <1>0, <1>4, <1>5, <1>6, <1>7

(* A request that is answered with the agent's world for the holder, or puts it
   back into the row for the undo. *)
LEMMA ResetServed ==
  ASSUME TruthInv, TypeInv', ReadHere, DbRequest,
         g.pc \in {"hget", "undo", "undo_get"},
         row # None, row' = Served(g.pc), DbAnswers
  PROVE  TruthInv'
<1>a. g.pc \in BehindPre
  BY DEF BehindPre
<1>b. /\ g.pc # "idle" /\ g.pc \notin {"sync", "read"} /\ got' = None
      /\ g \in Reads /\ res \in Results /\ res.verdict = None
      /\ row' # None /\ row'.pre = row.pre
      /\ Clean => row.pre = truth
      /\ Ops(fifo, GradeOps) /\ OneLeft(fifo, busy) /\ Replays(fifo)
      /\ ~hasHolder => fifo = <<>> /\ held = None
      /\ g.pc \notin Undoing => fifo = <<>> /\ AllAwaited(fifo)
      /\ held' = held /\ truth' = truth /\ (Clean' <=> Clean) /\ hasHolder' = hasHolder
  BY <1>a, BehindNow
<1>0. /\ TypeInv /\ KindInv /\ GoldInv /\ BackInv /\ hasHolder \in BOOLEAN
      /\ fifo \in Seq(HolderCalls)
  BY <1>b, ReadNow
<1>1. /\ g.pc = "undo" => row'.data = row.pre
      /\ g.pc \in {"hget", "undo_get"} => row' = row
  BY <1>0, <1>b, ServedData
<1>2. CASE g.pc = "undo"
  <2>1. Clean => RowHas(row', truth)
    BY <1>1, <1>2, <1>b DEF RowHas
  <2>2. CASE hasHolder
    <3>1. Goto("undo_get") /\ fifo' = fifo
      BY <1>2, <2>2 DEF DbAnswers, UndoHolder
    <3>2. g'.pc = "undo_get" /\ g'.hashed = g.hashed /\ SameResult
      BY <1>b, <3>1, GoesIs DEF ReadSteps
    <3>3. GoldInv'
      BY <1>b, <3>1, <3>2 DEF GoldInv, BehindRes
    <3>4. BackInv'
      BY <1>b, <2>1, <3>2 DEF BackInv, DataIs
    <3>5. g'.pc \in BehindPre \ {"reset"} /\ g'.pc # "undo_h" /\ g'.pc \in Undoing
      BY <3>2 DEF BehindPre, Undoing
    <3> QED
      BY <1>a, <1>b, <2>2, <3>1, <3>2, <3>3, <3>4, <3>5, GradeGoes
  <2>3. CASE ~hasHolder
    <3>1. Ends("undone") /\ fifo' = fifo
      BY <1>2, <2>3 DEF DbAnswers, UndoHolder
    <3>2. g' = Idle /\ res'.captured = res.captured /\ res'.verdict = None
      BY <1>b, <3>1 DEF Ends, Results
    <3>3. LastResets(fifo', truth) /\ HeldHas(held, truth)
      BY <1>b, <2>3, <3>1, EmptyQueue DEF HeldHas
    <3> QED
      BY <1>b, <2>1, <3>1, <3>2, <3>3, ReadClaims, WorldAssumption
  <2> QED
    BY <2>2, <2>3
<1>3. CASE g.pc \in {"hget", "undo_get"}
  <2> DEFINE s == IF g.pc = "hget" THEN "hback" ELSE "undo_h"
  <2>1. Hand("reset", row.data) /\ WaitAt(s)
    <3>1. g.pc = "hget" => Hand("reset", row.data) /\ WaitAt("hback")
      BY DEF DbAnswers
    <3>2. g.pc = "undo_get" => Hand("reset", row.data) /\ WaitAt("undo_h")
      BY DEF DbAnswers
    <3> QED
      BY <1>3, <3>1, <3>2
  <2>2. /\ g'.pc = s /\ g'.hashed = g.hashed /\ g'.golden = g.golden
        /\ g'.replayFailed = g.replayFailed /\ SameResult
    <3>1. s \in ReadSteps
      BY DEF ReadSteps
    <3> QED
      BY <1>b, <2>1, <3>1, GoesIs
  <2>3. /\ LastAwaited(fifo')
        /\ Ops(fifo', GradeOps) /\ OneLeft(fifo', busy) /\ Replays(fifo')
        /\ AllAwaited(fifo) => AllAwaited(fifo')
        /\ AwaitedTo(fifo, truth) /\ row.data = truth => AwaitedTo(fifo', truth)
    <3>1. "reset" \in GradeOps
      BY DEF GradeOps
    <3> QED
      BY <1>0, <1>b, <2>1, <3>1, HandedQueue
  <2>4. Clean => row.data = truth
    BY <1>0, <1>3 DEF BackInv, DataIs, RowHas
  <2>5. AwaitedTo(fifo, truth)
    <3>1. NobodyWaits(fifo)
      BY RequestNow
    <3> QED
      BY <3>1 DEF NobodyWaits, AwaitedTo
  <2>6. GoldInv'
    BY <1>0, <1>3, <1>b, <2>2, <2>3 DEF GoldInv, BehindRes
  <2>7. BackInv'
    BY <1>1, <1>3, <1>b, <2>2, <2>3, <2>4, <2>5 DEF BackInv, DataIs, RowHas, Ok
  <2>8. /\ g'.pc \in BehindPre \ {"reset"} /\ hasHolder
        /\ g'.pc \notin Undoing => g.pc \notin Undoing
    BY <1>0, <1>3, <2>2 DEF BehindPre, Undoing, KindInv, HolderSteps
  <2> QED
    BY <1>1, <1>3, <1>a, <1>b, <2>2, <2>3, <2>6, <2>7, <2>8, GradeGoes
<1> QED
  BY <1>2, <1>3

(* A request to the db-service keeps the invariant. *)
LEMMA RequestTruth ==
  ASSUME TruthInv, TypeInv', ReadHere, DbRequest
  PROVE  TruthInv'
<1>1. CASE row # None /\ row' = Served(g.pc) /\ DbAnswers
  <2>1. g.pc \in DbSteps
    BY RequestNow
  <2>2. \/ g.pc \in {"read", "hash", "snap"}
        \/ g.pc \in {"reset", "replay", "snap2", "ghash"}
        \/ g.pc \in {"restore", "diff1", "diff2", "diff3", "diff4", "undo_db"}
        \/ g.pc \in {"hget", "undo", "undo_get"}
    BY <2>1 DEF DbSteps
  <2> QED
    BY <1>1, <2>2, LiveServed, GoldServed, BackServed, ResetServed
<1>2. CASE /\ row' = row \/ (row # None /\ row' = Served(g.pc))
           /\ fifo' = fifo
           /\ IF g.pc = "replay"
              THEN g' = [g EXCEPT !.pc = "snap2", !.replayFailed = TRUE] /\ UNCHANGED res
              ELSE Raises
  BY <1>2, RequestFails
<1> QED
  BY <1>1, <1>2 DEF DbRequest, Request

-----------------------------------------------------------------------------
(* The holder's worker thread. *)

(* The queue without its first call: the others move up by one place. *)
LEMMA TailShift ==
  ASSUME NEW S, NEW q \in Seq(S), q # <<>>
  PROVE  /\ 1 \in 1..Len(q) /\ Len(q) \in 1..Len(q)
         /\ \A i \in 1..Len(Tail(q)) : i + 1 \in 1..Len(q) /\ Tail(q)[i] = q[i + 1]
         /\ Tail(q) = <<>> <=> Len(q) = 1
         /\ Tail(q) # <<>> => Tail(q)[Len(Tail(q))] = q[Len(q)]
<1> DEFINE n == Len(q)  t == Tail(q)  m == Len(t)
<1>1. n \in Nat /\ n >= 1 /\ m = n - 1 /\ t \in Seq(S)
  OBVIOUS
<1>2. \A i \in 1..(n - 1) : t[i] = q[i + 1]
  OBVIOUS
<1>3. t = <<>> <=> m = 0
  BY <1>1, EmptySeq
<1> HIDE DEF n, t, m
<1>4. /\ 1 \in 1..n /\ n \in 1..n
      /\ \A i \in 1..m : i + 1 \in 1..n /\ t[i] = q[i + 1]
      /\ t = <<>> <=> n = 1
  BY <1>1, <1>2, <1>3
<1>5. t # <<>> => m \in 1..m /\ m + 1 = n
  BY <1>1, <1>3
<1>6. t # <<>> => t[m] = q[n]
  BY <1>4, <1>5
<1> QED
  BY <1>4, <1>6 DEF n, t, m

(* What the queue says of its calls it says of the first one and of the rest. *)
LEMMA ServedQueue ==
  ASSUME fifo \in Seq(HolderCalls), fifo # <<>>, fifo' = Tail(fifo),
         \A i \in 1..Len(fifo) : fifo[i].awaited => i = Len(fifo)
  PROVE  /\ \A S : Ops(fifo, S) => fifo[1].op \in S /\ Ops(fifo', S)
         /\ AllAwaited(fifo) => fifo[1].awaited /\ AllAwaited(fifo')
         /\ \A b : OneLeft(fifo, b) => \A d : OneLeft(fifo', d)
         /\ Replays(fifo) => (fifo[1].op = "replay" => fifo[1].arg = "gold") /\ Replays(fifo')
         /\ \A w : ResetsTo(fifo, w) => /\ fifo[1].op = "reset" => fifo[1].arg = w
                                        /\ ResetsTo(fifo', w)
         /\ \A w : AwaitedTo(fifo, w) => /\ fifo[1].awaited => fifo[1].arg = w
                                         /\ AwaitedTo(fifo', w)
         /\ fifo[1].awaited => fifo' = <<>>
         /\ LastAwaited(fifo) /\ ~fifo[1].awaited => LastAwaited(fifo')
         /\ \A w : LastResets(fifo, w) => /\ LastResets(fifo', w)
                                          /\ fifo' = <<>> => /\ fifo[1].op = "reset"
                                                             /\ fifo[1].arg = w
<1>2. \A i \in 1..Len(fifo') : i + 1 \in 1..Len(fifo) /\ fifo'[i] = fifo[i + 1]
  BY TailShift
<1>3. 1 \in 1..Len(fifo) /\ Len(fifo) \in 1..Len(fifo)
  BY TailShift
<1>4. fifo' = <<>> <=> Len(fifo) = 1
  BY TailShift
<1>5. fifo' # <<>> => fifo'[Len(fifo')] = fifo[Len(fifo)]
  BY TailShift
<1>6. fifo[1].awaited => fifo' = <<>>
  BY <1>3, <1>4
<1>7. \A S : Ops(fifo, S) => fifo[1].op \in S /\ Ops(fifo', S)
  BY <1>2, <1>3 DEF Ops
<1>8. AllAwaited(fifo) => fifo[1].awaited /\ AllAwaited(fifo')
  BY <1>2, <1>3 DEF AllAwaited
<1>9. \A b : OneLeft(fifo, b) => \A d : OneLeft(fifo', d)
  BY <1>2 DEF OneLeft
<1>10. Replays(fifo) => (fifo[1].op = "replay" => fifo[1].arg = "gold") /\ Replays(fifo')
  BY <1>2, <1>3 DEF Replays
<1>11. \A w : ResetsTo(fifo, w) => (fifo[1].op = "reset" => fifo[1].arg = w) /\ ResetsTo(fifo', w)
  BY <1>2, <1>3 DEF ResetsTo
<1>12. \A w : AwaitedTo(fifo, w) => (fifo[1].awaited => fifo[1].arg = w) /\ AwaitedTo(fifo', w)
  BY <1>2, <1>3 DEF AwaitedTo
<1>13. LastAwaited(fifo) /\ ~fifo[1].awaited => LastAwaited(fifo')
  BY <1>4, <1>5 DEF LastAwaited
<1>14. \A w : LastResets(fifo, w) => /\ LastResets(fifo', w)
                                     /\ fifo' = <<>> => fifo[1].op = "reset" /\ fifo[1].arg = w
  BY <1>4, <1>5 DEF LastResets
<1> QED
  BY <1>6, <1>7, <1>8, <1>9, <1>10, <1>11, <1>12, <1>13, <1>14

(* A call that is served, or that fails, keeps the invariant: what is still in
   the queue once the world is handed back ends in a reset to it. *)
LEMMA ServesTruth ==
  ASSUME TruthInv, TypeInv', UNCHANGED <<gradingVars, registryVars, engineVars>>, HolderServes
  PROVE  TruthInv'
<1>0. TypeInv /\ KindInv /\ QShape /\ LiveInv /\ KeptInv /\ GoldInv /\ BackInv /\ EndInv
  BY DEF TruthInv
<1>a. /\ g' = g /\ res' = res /\ hasHolder' = hasHolder /\ ctx' = ctx /\ reg' = reg
      /\ pc' = pc /\ late' = late /\ upset' = upset /\ row' = row
      /\ (Clean' <=> Clean) /\ (Fresh' <=> Fresh)
  BY DEF gradingVars, registryVars, engineVars, HolderServes, Clean, Fresh
<1>b. /\ fifo \in Seq(HolderCalls) /\ fifo # <<>> /\ fifo' = Tail(fifo)
      /\ held \in Worlds \cup {None} /\ truth \in Worlds /\ None \notin Worlds
      /\ \A i \in 1..Len(fifo) : fifo[i].awaited => i = Len(fifo)
  BY <1>0, WorldAssumption DEF TypeInv, TypeOK, WorldTypeOK, QueueInv, HolderServes
<1> DEFINE e == fifo[1]
<1>c. /\ e \in HolderCalls /\ Head(fifo) = e
      /\ e.awaited => got = None /\ Wants(e.op)
  <2>1. 1 \in 1..Len(fifo) /\ fifo[1] \in HolderCalls /\ Head(fifo) = fifo[1]
    BY <1>b
  <2> QED
    BY <1>0, <2>1 DEF TypeInv, QueueInv
<1>q. /\ \A S : Ops(fifo, S) => e.op \in S /\ Ops(fifo', S)
      /\ AllAwaited(fifo) => e.awaited /\ AllAwaited(fifo')
      /\ OneLeft(fifo, busy) => OneLeft(fifo', busy')
      /\ Replays(fifo) => (e.op = "replay" => e.arg = "gold") /\ Replays(fifo')
      /\ \A w : ResetsTo(fifo, w) => (e.op = "reset" => e.arg = w) /\ ResetsTo(fifo', w)
      /\ \A w : AwaitedTo(fifo, w) => (e.awaited => e.arg = w) /\ AwaitedTo(fifo', w)
      /\ e.awaited => fifo' = <<>>
      /\ LastAwaited(fifo) /\ ~e.awaited => LastAwaited(fifo')
      /\ \A w : LastResets(fifo, w) => /\ LastResets(fifo', w)
                                       /\ fifo' = <<>> => e.op = "reset" /\ e.arg = w
  BY <1>b, ServedQueue
<1>s. \/ /\ held # None
         /\ held' = CASE e.op = "get" -> held
                      [] e.op = "reset" -> e.arg
                      [] e.op \in {"tool", "replay"} -> Apply(e.arg, held)
         /\ got' = IF e.awaited THEN (IF e.op = "get" THEN held ELSE "ok") ELSE got
         /\ truth' = IF e.op = "tool" THEN Apply(e.arg, truth) ELSE truth
         /\ resetLost' = resetLost
      \/ /\ got' = IF e.awaited THEN "error" ELSE got
         /\ resetLost' = (resetLost \/ e.op = "reset")
         /\ held' = held /\ truth' = truth
  <2>1. HolderServes
    OBVIOUS
  <2> QED
    BY <1>c, <2>1, Zenon DEF HolderServes, Answer
<1> HIDE DEF e
<1>o. e.op \in HolderOps
  BY <1>c DEF HolderCalls
(* What the call leaves in the holder. *)
<1>1. /\ e.op # "tool" => truth' = truth
      /\ e.op = "get" => held' = held
      /\ \/ held' = held /\ truth' = truth
         \/ /\ held # None
            /\ e.op = "reset" => held' = e.arg
            /\ e.op \in {"tool", "replay"} => held' = Apply(e.arg, held)
            /\ e.op = "tool" => truth' = Apply(e.arg, truth)
  BY <1>s
<1>2. /\ ~e.awaited => got' = got
      /\ e.awaited => /\ got' # None
                      /\ Ok(got') => /\ held # None
                                     /\ e.op = "get" => got' = held
                                     /\ e.op = "reset" => held' = e.arg
                                     /\ e.op = "replay" => held' = Apply(e.arg, held)
  BY <1>b, <1>s, WorldAssumption DEF Ok
<1>3. /\ e.op = "reset" => resetLost' \/ held' = e.arg
      /\ ~resetLost' => ~resetLost
  <2>1. e.op = "reset" /\ held' # e.arg => resetLost' = (resetLost \/ e.op = "reset")
    BY <1>1, <1>s
  <2>2. resetLost' = resetLost \/ resetLost' = (resetLost \/ e.op = "reset")
    BY <1>s
  <2>3. e.op = "reset" /\ held' # e.arg => resetLost'
    <3>1. ASSUME e.op = "reset", held' # e.arg  PROVE resetLost'
      <4>1. resetLost' = (resetLost \/ e.op = "reset")
        BY <2>1, <3>1
      <4>2. resetLost \/ e.op = "reset"
        BY <3>1
      <4> QED
        BY <4>1, <4>2, Zenon
    <3> QED
      BY <3>1
  <2>4. resetLost => resetLost'
    BY <2>2, Zenon
  <2> QED
    BY <2>3, <2>4
<1>h. hasHolder
  BY <1>0, <1>b DEF KindInv
(* Who waits for it, if it is a call of a grading. *)
<1>4. g.pc # "idle" /\ e.awaited =>
        \/ g.pc \in {"sync", "sync2"} /\ e.op = "get"
        \/ g.pc \in {"hreset", "hback", "undo_h"} /\ e.op = "reset"
        \/ g.pc = "replay" /\ e.op = "replay"
  BY <1>0, <1>c DEF Wants, TypeInv, HandlerInv
<1>5. g.pc \in BehindPre \ Undoing => e.awaited /\ got = None /\ g.pc # "idle"
  BY <1>0, <1>c, <1>q DEF QShape, BehindPre
<1>6. g.pc \in BehindPre \cup {"snap"} => truth' = truth /\ Ops(fifo', GradeOps)
  <2>1. g.pc # "snap"
    BY <1>0, <1>b DEF LiveInv, LiveSteps
  <2>2. g.pc \in BehindPre => Ops(fifo, GradeOps)
    BY <1>0 DEF KeptInv
  <2> QED
    BY <1>1, <1>q, <2>1, <2>2 DEF GradeOps
<1>7. KindInv'
  BY <1>0, <1>a, <1>h DEF KindInv
<1>8. QShape'
  <2>1. Fresh \/ g.pc # "idle" => OneLeft(fifo', busy')
    BY <1>0, <1>q DEF QShape
  <2>2. g.pc \in BehindPre \ Undoing => AllAwaited(fifo')
    BY <1>0, <1>q DEF QShape
  <2>3. g.pc = "undo_h" => IF got' = None THEN LastAwaited(fifo') ELSE fifo' = <<>>
    BY <1>0, <1>2, <1>b, <1>q DEF QShape
  <2> QED
    BY <1>a, <2>1, <2>2, <2>3 DEF QShape
<1>9. LiveInv'
  <2>1. Fresh \/ g.pc \in LiveSteps => HeldHas(held', truth') /\ Ops(fifo', AgentOps)
    <3>1. SUFFICES ASSUME Fresh \/ g.pc \in LiveSteps
                   PROVE  HeldHas(held', truth') /\ Ops(fifo', AgentOps)
      OBVIOUS
    <3>2. HeldHas(held, truth) /\ Ops(fifo, AgentOps)
      BY <1>0, <3>1 DEF LiveInv
    <3>3. e.op \in {"tool", "get"} /\ Ops(fifo', AgentOps)
      BY <1>q, <3>2 DEF AgentOps
    <3> QED
      BY <1>1, <3>2, <3>3 DEF HeldHas
  <2>2. g.pc = "sync" /\ Ok(got') => got' = truth' /\ fifo' = <<>>
    <3>1. SUFFICES ASSUME g.pc = "sync", Ok(got')
                   PROVE  got' = truth' /\ fifo' = <<>>
      OBVIOUS
    <3>2. e.awaited
      BY <1>0, <1>2, <1>b, <3>1 DEF LiveInv
    <3>3. e.op = "get" /\ got' = held /\ held # None
      BY <1>2, <1>4, <3>1, <3>2
    <3>4. HeldHas(held, truth)
      BY <1>0, <3>1 DEF LiveInv, LiveSteps
    <3> QED
      BY <1>1, <1>q, <3>2, <3>3, <3>4 DEF HeldHas
  <2>3. ~((g.pc = "read" /\ ctx # None) \/ g.pc \in LiveSteps \ {"sync"})
    BY <1>0, <1>b DEF LiveInv
  <2>4. reg.pc = "build" => DataIs("init")'
    BY <1>0, <1>a DEF LiveInv, DataIs
  <2> QED
    BY <1>a, <1>h, <2>1, <2>2, <2>3, <2>4 DEF LiveInv
<1>10. KeptInv'
  BY <1>0, <1>6, <1>a DEF KeptInv
<1>11. GoldInv'
  <2>1. Replays(fifo')
    BY <1>0, <1>q DEF GoldInv
  <2>2. g.pc = "hreset" => ResetsTo(fifo', "init") /\ (Ok(got') => HeldHas(held', "init"))
    <3>1. SUFFICES ASSUME g.pc = "hreset"
                   PROVE  ResetsTo(fifo', "init") /\ (Ok(got') => HeldHas(held', "init"))
      OBVIOUS
    <3>2. ResetsTo(fifo, "init")
      BY <1>0, <3>1 DEF GoldInv
    <3>3. e.awaited /\ e.op = "reset"
      BY <1>4, <1>5, <3>1 DEF BehindPre, Undoing
    <3> QED
      BY <1>2, <1>q, <3>2, <3>3 DEF HeldHas
  <2>3. g.pc = "replay" => got' # None /\ (Ok(got') => HeldHas(held', "gold"))
    <3>1. SUFFICES ASSUME g.pc = "replay"
                   PROVE  got' # None /\ (Ok(got') => HeldHas(held', "gold"))
      OBVIOUS
    <3>2. e.awaited /\ e.op = "replay" /\ got = None
      BY <1>4, <1>5, <3>1 DEF BehindPre, Undoing
    <3>3. HeldHas(held, "init") /\ e.arg = "gold"
      BY <1>0, <1>h, <1>q, <3>1, <3>2 DEF GoldInv
    <3>4. Apply("gold", "init") = "gold"
      BY DEF Apply
    <3> QED
      BY <1>2, <3>2, <3>3, <3>4 DEF HeldHas
  <2>4. g.pc = "sync2" /\ ~g.replayFailed =>
          HeldHas(held', "gold") /\ (Ok(got') => got' = "gold")
    <3>1. SUFFICES ASSUME g.pc = "sync2", ~g.replayFailed
                   PROVE  HeldHas(held', "gold") /\ (Ok(got') => got' = "gold")
      OBVIOUS
    <3>2. e.awaited /\ e.op = "get"
      BY <1>4, <1>5, <3>1 DEF BehindPre, Undoing
    <3>3. HeldHas(held, "gold")
      BY <1>0, <3>1 DEF GoldInv
    <3> QED
      BY <1>1, <1>2, <3>2, <3>3 DEF HeldHas
  <2>5. g.pc \notin {"snap2", "ghash"}
    BY <1>4, <1>5 DEF BehindPre, Undoing
  <2>6. ~g.replayFailed /\ g.pc \in BehindRes \ {"ghash"} /\ Clean => g.golden = "gold"
    BY <1>0 DEF GoldInv
  <2> QED
    BY <1>a, <1>h, <2>1, <2>2, <2>3, <2>4, <2>5, <2>6 DEF GoldInv
<1>12. BackInv'
  <2>1. g.pc \in {"hget", "hback", "diff1", "diff2", "undo_get", "undo_h"} => DataIs(truth)'
    BY <1>0, <1>6, <1>a DEF BackInv, DataIs, BehindPre
  <2>2. g.pc \notin {"diff1", "diff2", "diff3", "diff4", "undo_db"}
    BY <1>4, <1>5 DEF BehindPre, Undoing
  <2>3. ASSUME Clean, g.pc \in {"hback", "undo_h"}
        PROVE  /\ AwaitedTo(fifo', truth')
               /\ g.pc = "hback" /\ Ok(got') => HeldHas(held', truth')
               /\ g.pc = "undo_h" /\ got' # None /\ ~resetLost' => HeldHas(held', truth')
    <3>1. AwaitedTo(fifo, truth) /\ truth' = truth
      BY <1>0, <1>6, <2>3 DEF BackInv, BehindPre
    <3>2. e.awaited => e.op = "reset" /\ e.arg = truth
      BY <1>4, <1>q, <2>3, <3>1
    <3>3. g.pc = "hback" => e.awaited
      BY <1>5 DEF BehindPre, Undoing
    <3>4. g.pc = "undo_h" /\ got' # None => e.awaited
      BY <1>0, <1>2, <1>b DEF QShape
    <3> QED
      BY <1>2, <1>3, <1>q, <3>1, <3>2, <3>3, <3>4 DEF HeldHas
  <2> QED
    BY <1>a, <2>1, <2>2, <2>3 DEF BackInv
<1>13. EndInv'
  <2>1. (res.captured # None /\ ctx # None) \/ res.ended \in Claims \/ res.verdict # None =>
          Ops(fifo', GradeOps) /\ truth' = truth
    <3>1. (res.captured # None /\ ctx # None) \/ res.ended \in Claims \/ res.verdict # None =>
            Ops(fifo, GradeOps)
      BY <1>0 DEF EndInv
    <3> QED
      BY <1>1, <1>q, <3>1 DEF GradeOps
  <2>2. ASSUME Clean, res.ended \in Claims
        PROVE  /\ Unstrayed' => RowHas(row', truth')
               /\ fifo' = <<>> /\ ~resetLost' => HeldHas(held', truth')
               /\ LastResets(fifo', truth')
    <3>1. (Unstrayed => RowHas(row, truth)) /\ LastResets(fifo, truth) /\ truth' = truth
      BY <1>0, <2>1, <2>2 DEF EndInv
    <3>2. Unstrayed' <=> Unstrayed
      BY <1>a DEF Unstrayed
    <3> QED
      BY <1>3, <1>a, <1>q, <3>1, <3>2 DEF HeldHas
  <2>3. res.verdict \in {"match", "mismatch"} => res.verdict # None
    BY WorldAssumption
  <2> QED
    BY <1>0, <1>a, <2>1, <2>2, <2>3 DEF EndInv
<1> QED
  BY <1>7, <1>8, <1>9, <1>10, <1>11, <1>12, <1>13 DEF TruthInv

-----------------------------------------------------------------------------
(* The invariant holds at the start. *)
LEMMA TruthInit ==
  ASSUME Init
  PROVE  TruthInv
<1>1. TypeInv
  BY TypeInit
<1>2. /\ g = Idle /\ Idle.pc = "idle" /\ fifo = <<>> /\ held = None /\ late = None
      /\ pc = "register" /\ reg.pc = "idle" /\ res = NoResult
  BY DEF Init, WorldInit, GradingInit, RegistryInit, Idle
<1>3. res.captured = None /\ res.ended \notin Claims /\ res.verdict = None
  BY <1>2, WorldAssumption DEF NoResult, Claims
<1>4. ~Fresh
  BY <1>2 DEF Fresh
<1>5. Replays(fifo)
  BY <1>2, EmptyQueue
<1>6. KindInv /\ QShape
  BY <1>2, <1>3, <1>4 DEF KindInv, QShape, HolderSteps, BehindPre
<1>7. LiveInv /\ KeptInv
  BY <1>2, <1>4 DEF LiveInv, KeptInv, LiveSteps, BehindPre
<1>8. GoldInv /\ BackInv
  BY <1>2, <1>5 DEF GoldInv, BackInv, BehindRes
<1>9. EndInv
  BY <1>3, WorldAssumption DEF EndInv
<1> QED
  BY <1>1, <1>6, <1>7, <1>8, <1>9 DEF TruthInv

(* Every step keeps it. *)
LEMMA TruthStep ==
  ASSUME TruthInv, StrayInv, LockInv, [Next]_vars
  PROVE  TruthInv'
<1>0. TypeInv
  BY DEF TruthInv
<1>t. TypeInv'
  BY <1>0, TypeStep
<1>1. CASE UNCHANGED vars
  BY <1>0, <1>1, <1>t, CleanupFrames, FrameStep
<1>2. CASE Engine
  <2>1. CASE \/ EngineRegisters \/ EngineRegistered \/ CallReturns \/ AgentEnds
             \/ EngineCaptured \/ EngineGraded \/ EngineCleansUp
             \/ EngineGrades /\ ctx = None
    BY <1>0, <1>t, <2>1, EngineFrame, FrameStep
  <2>2. CASE CallTimesOut \/ \E a \in Acts : CallHolder(a)
    BY <1>t, <2>2, HolderCallTruth
  <2>3. CASE \E a \in Acts : CallDb(a)
    BY <1>t, <2>3, DbCallTruth
  <2>4. CASE EngineCaptures \/ (EngineGrades /\ ctx # None)
    BY <1>t, <2>4, ReadStarts
  <2>5. CASE NextAttempt
    BY <1>t, <2>5, NextAttemptTruth
  <2>6. CASE \E a \in Acts : CallApp(a)
    BY <1>t, <2>6, AppCallTruth
  <2> QED
    BY <1>2, <2>1, <2>2, <2>3, <2>4, <2>5, <2>6 DEF Engine
<1>3. CASE Runner
  <2>1. CASE /\ Extract \/ InitTrial \/ Build(hasHolder) \/ Start \/ AbandonRegistration
             /\ UNCHANGED <<gradingVars, engineVars>>
    BY <1>t, <2>1, RegisterTruth
  <2>2. CASE \/ (\E n \in Cleaners : CleanupStep(n)) /\ UNCHANGED <<gradingVars, engineVars>>
             \/ /\ RunnerStops /\ upset' = upset \cup {"stopped"}
                /\ UNCHANGED <<gradingVars, pc, att, calls, failed, late>>
             \/ HolderStarts /\ UNCHANGED <<gradingVars, registryVars, engineVars>>
    BY <1>0, <1>t, <2>2, CleanupFrames, FrameStep
  <2>3. CASE HolderServes /\ UNCHANGED <<gradingVars, registryVars, engineVars>>
    BY <1>t, <2>3, ServesTruth
  <2>4. CASE GradingStep /\ UNCHANGED <<registryVars, engineVars>>
    <3>1. CASE HandOver \/ HolderAnswers \/ HolderTooSlow \/ DbRequest \/ BudgetElapses
      <4>1. ReadHere
        BY <2>4, <3>1, ReadIsHere
      <4> QED
        BY <1>t, <3>1, <4>1, HandOverTruth, AnswersTruth, TooSlowTruth, RequestTruth,
           BudgetTruth
    <3>2. CASE ReplayApp
      BY <1>t, <2>4, <3>2, ReplayAppTruth
    <3> QED
      BY <2>4, <3>1, <3>2 DEF GradingStep
  <2>5. CASE LateWrite
    BY <1>0, <1>t, <2>5, DbCallTruth, LateWriteFrame, FrameStep
  <2>6. CASE RunnerGone
    BY <1>t, <2>6, GoneTruth
  <2>7. CASE StrayWrite
    BY <1>t, <2>7, StrayWriteTruth
  <2> QED
    BY <1>3, <2>1, <2>2, <2>3, <2>4, <2>5, <2>6, <2>7 DEF Runner
<1> QED
  BY <1>1, <1>2, <1>3 DEF Next, Quiet

(* No golden action has been given up at the start. *)
LEMMA StrayInit ==
  ASSUME Init
  PROVE  StrayInv
BY DEF Init, GradingInit, StrayInv, Unstrayed

(* A step that neither gives up a golden action nor lets one write, and that
   leaves the row and the read alone but for a cleanup, or is the late write
   that the properties except. *)
LEMMA StrayFrame ==
  ASSUME StrayInv,
         stray' = stray, Unstrayed' <=> Unstrayed, hasHolder' = hasHolder,
         pc \in Late => pc' \in Late,
         Clean' => Clean /\ row' \in {row, None} /\ truth' = truth,
         g' = g, res' = res
  PROVE  StrayInv'
BY DEF StrayInv, RowHas

(* The engine's steps: only the last of them finds a grading under way. *)
LEMMA StrayEngine ==
  ASSUME StrayInv, Engine
  PROVE  StrayInv'
<1>1. stray' = stray /\ (Unstrayed => Unstrayed') /\ (pc \in Late => EngineGraded)
  BY DEF Engine, EngineRegisters, EngineRegistered, CallHolder, CallApp, CallDb, CallReturns,
     CallTimesOut, AgentEnds, EngineCaptures, EngineCaptured, EngineGrades, EngineGraded,
     EngineCleansUp, NextAttempt, gradingVars, Unstrayed, Late
<1>2. CASE pc \notin Late
  BY <1>1, <1>2 DEF StrayInv
<1>3. CASE EngineGraded
  <2>1. /\ stray' = stray /\ upset' = upset /\ hasHolder' = hasHolder /\ pc' = "over"
        /\ row' = row /\ truth' = truth /\ g' = g /\ res' = res
    BY <1>3 DEF EngineGraded, worldVars, gradingVars
  <2> QED
    BY <2>1, StrayFrame DEF Unstrayed, Clean, Late
<1> QED
  BY <1>1, <1>2, <1>3

(* A step of the grading: a golden action is given up, or one that was is
   behind the grading's end. *)
LEMMA StrayGrading ==
  ASSUME TruthInv, StrayInv, GradingStep, UNCHANGED <<registryVars, engineVars>>
  PROVE  StrayInv'
<1>a. pc' = pc /\ upset' = upset /\ (Unstrayed' <=> Unstrayed)
  BY DEF engineVars, Unstrayed
<1>b. hasHolder' = hasHolder
  BY DEF GradingStep, HandOver, ReplayApp, HolderAnswers, HolderTooSlow, DbRequest,
     BudgetElapses
<1>c. g.pc # "idle"
  <2>1. TypeInv
    BY DEF TruthInv
  <2>2. g.waits => g.pc # "idle"
    BY <2>1 DEF TypeInv, QueueInv
  <2> QED
    BY <2>2 DEF GradingStep, HandOver, ReplayApp, HolderAnswers, HolderTooSlow, DbRequest,
       DbSteps, BudgetElapses
<1>0. /\ g \in Reads /\ res \in Results
      /\ pc = "capturing" => g.pc \in {"sync", "read"}
      /\ pc # "capturing" => pc \in Late
  BY <1>c, ReadNow
<1>1. Unstrayed /\ Unstrayed'
  BY <1>a, <1>c DEF StrayInv
<1>2. CASE ~stray'
  BY <1>1, <1>2 DEF StrayInv
<1>3. CASE stray /\ stray'
  <2>1. g.pc = "undo" /\ ~hasHolder /\ pc \in Late
    BY <1>3, <1>c DEF StrayInv
  <2>2. ~g.waits
    BY <2>1 DEF TruthInv, TypeInv, QueueInv
  <2>3. g'.pc = "idle"
    <3>1. Idle.pc = "idle"
      BY DEF Idle
    <3>2. CASE DbRequest
      <4>1. DbAnswers \/ Raises
        BY <2>1, <3>2 DEF DbRequest, Request
      <4>2. Raises => g' = Idle
        BY <2>1 DEF Raises, Protected, Ends
      <4>3. DbAnswers => g' = Idle
        BY <2>1 DEF DbAnswers, UndoHolder, Ends
      <4> QED
        BY <3>1, <4>1, <4>2, <4>3
    <3>3. CASE BudgetElapses
      <4>1. Ends("loose")
        BY <2>1, <3>3 DEF BudgetElapses, Protected
      <4> QED
        BY <3>1, <4>1 DEF Ends
    <3> QED
      BY <2>1, <2>2, <3>2, <3>3 DEF GradingStep, HandOver, ReplayApp, HolderAnswers,
         HolderTooSlow
  <2> QED
    BY <1>1, <1>a, <1>b, <2>1, <2>3 DEF StrayInv
<1>4. CASE ~stray /\ stray'
  <2>1. BudgetElapses /\ g.pc = "replay" /\ ~hasHolder
    BY <1>4 DEF GradingStep, HandOver, ReplayApp, HolderAnswers, HolderTooSlow, DbRequest,
       BudgetElapses
  <2>2. g' = [g EXCEPT !.waits = FALSE, !.pc = IF g.pc = "diff3" THEN "undo_db" ELSE "undo"]
    BY <2>1 DEF BudgetElapses, Protected
  <2>3. g'.pc = "undo"
    BY <1>0, <2>1, <2>2 DEF Reads
  <2> QED
    BY <1>0, <1>1, <1>a, <1>b, <2>1, <2>3 DEF StrayInv
<1> QED
  BY <1>2, <1>3, <1>4

(* The write itself. *)
LEMMA StrayWrites ==
  ASSUME TruthInv, StrayInv, StrayWrite
  PROVE  StrayInv'
<1>0. /\ TypeInv /\ KindInv /\ EndInv
      /\ Unstrayed /\ ~hasHolder /\ pc \in Late
  BY DEF TruthInv, StrayInv, StrayWrite
<1>1. /\ ~stray' /\ hasHolder' = hasHolder /\ pc' = pc /\ g' = g /\ res' = res
      /\ truth' = truth
      /\ upset' = IF g = Idle THEN upset \cup {"stray_gold"} ELSE upset
  BY DEF StrayWrite
<1>2. Clean' <=> Clean
  BY <1>1 DEF Clean
<1>3. CASE g # Idle
  BY <1>0, <1>1, <1>3 DEF StrayInv, Unstrayed
<1>4. CASE g = Idle
  <2>1. ASSUME Clean, res.ended \in Claims
        PROVE  RowHas(row', Apply("gold", truth))
    <3>1. RowHas(row, truth)
      BY <1>0, <2>1 DEF EndInv
    <3>2. row \in Rows \cup {None}
      BY <1>0 DEF TypeInv, TypeOK, WorldTypeOK
    <3>3. row' # None => row # None /\ row'.data = Apply("gold", row.data)
      BY <3>2 DEF StrayWrite, Rows
    <3> QED
      BY <3>1, <3>3 DEF RowHas
  <2>2. g.pc = "idle"
    BY <1>4 DEF Idle
  <2> QED
    BY <1>0, <1>1, <1>2, <2>1, <2>2 DEF StrayInv
<1> QED
  BY <1>3, <1>4

(* Every step keeps it. *)
LEMMA StrayStep ==
  ASSUME TruthInv, StrayInv, [Next]_vars
  PROVE  StrayInv'
<1>0. TypeInv /\ KindInv /\ res \in Results
  BY DEF TruthInv, TypeInv, TypeOK, GradingTypeOK, Results
<1>1. CASE UNCHANGED vars
  BY <1>1, StrayFrame DEF vars, worldVars, gradingVars, engineVars, Unstrayed, Clean
<1>2. CASE Engine
  BY <1>2, StrayEngine
<1>3. CASE Runner
  <2>1. CASE /\ Extract \/ InitTrial \/ Build(hasHolder) \/ Start \/ AbandonRegistration
             /\ UNCHANGED <<gradingVars, engineVars>>
    <3>1. reg.pc # "idle"
      BY <2>1 DEF Extract, InitTrial, Build, Start, AbandonRegistration
    <3>2. pc \notin Late
      BY <1>0, <3>1 DEF TypeInv, HandlerInv, Late
    <3>3. stray' = stray /\ upset' = upset
      BY <2>1 DEF gradingVars, engineVars
    <3> QED
      BY <3>2, <3>3 DEF StrayInv, Unstrayed
  <2>2. ASSUME NEW n \in Cleaners, CleanupStep(n), UNCHANGED <<gradingVars, engineVars>>
        PROVE  StrayInv'
    <3>1. row' \in {row, None} /\ truth' = truth
      BY <2>2 DEF CleanupStep, CleanupLook, CleanupLock, CleanupTools, CleanupDelete,
         CleanupForget, worldVars
    <3> QED
      BY <2>2, <3>1, StrayFrame DEF gradingVars, engineVars, Unstrayed, Clean
  <2>3. CASE /\ RunnerStops /\ upset' = upset \cup {"stopped"}
             /\ UNCHANGED <<gradingVars, pc, att, calls, failed, late>>
    <3>1. row' = row /\ truth' = truth
      BY <2>3 DEF RunnerStops, worldVars
    <3> QED
      BY <2>3, <3>1, StrayFrame DEF gradingVars, Unstrayed, Clean
  <2>4. CASE HolderStarts /\ UNCHANGED <<gradingVars, registryVars, engineVars>>
    <3>1. row' = row /\ truth' = truth
      BY <2>4 DEF HolderStarts
    <3> QED
      BY <2>4, <3>1, StrayFrame DEF gradingVars, engineVars, Unstrayed, Clean
  <2>5. CASE HolderServes /\ UNCHANGED <<gradingVars, registryVars, engineVars>>
    <3>1. fifo # <<>>
      BY <1>0, <2>5 DEF HolderServes, TypeInv, TypeOK, WorldTypeOK
    <3>2. hasHolder
      BY <1>0, <3>1 DEF KindInv
    <3>3. stray' = stray /\ upset' = upset
      BY <2>5 DEF gradingVars, engineVars
    <3> QED
      BY <3>2, <3>3 DEF StrayInv, Unstrayed
  <2>6. CASE GradingStep /\ UNCHANGED <<registryVars, engineVars>>
    BY <2>6, StrayGrading
  <2>7. CASE LateWrite
    <3>1. /\ stray' = stray /\ hasHolder' = hasHolder /\ g' = g /\ res' = res /\ pc' = pc
          /\ (Unstrayed' <=> Unstrayed)
      BY <2>7 DEF LateWrite, gradingVars, Unstrayed
    <3>2. CASE pc \in Late
      <4>1. ~Clean'
        BY <2>7, <3>2 DEF LateWrite, Late, Clean
      <4> QED
        BY <3>1, <4>1, StrayFrame
    <3>3. CASE pc \notin Late
      BY <3>1, <3>3 DEF StrayInv
    <3> QED
      BY <3>2, <3>3
  <2>8. CASE StrayWrite
    BY <2>8, StrayWrites
  <2>9. CASE RunnerGone
    <3>1. /\ ~stray' /\ hasHolder' = hasHolder /\ row' = row /\ truth' = truth
          /\ g' = Idle /\ Idle.pc = "idle"
          /\ pc' = IF pc = "calling" THEN "agent" ELSE pc
          /\ (Clean' <=> Clean) /\ (Unstrayed' <=> Unstrayed)
      BY <2>9 DEF RunnerGone, ProcessGone, Idle, Clean, Unstrayed
    <3>2. res'.ended \in Claims => res'.ended = res.ended
      BY <1>0, <2>9 DEF RunnerGone, Results, Claims
    <3> QED
      BY <3>1, <3>2 DEF StrayInv, Late
  <2> QED
    BY <1>3, <2>1, <2>2, <2>3, <2>4, <2>5, <2>6, <2>7, <2>8, <2>9 DEF Runner
<1> QED
  BY <1>1, <1>2, <1>3 DEF Next, Quiet

(* It holds in every behaviour. *)
LEMMA TruthHolds == Spec => [](TruthInv /\ StrayInv)
<1>1. Init => TruthInv /\ StrayInv /\ LockInv
  BY TruthInit, StrayInit, TypeInit
<1>2. TruthInv /\ StrayInv /\ LockInv /\ [Next]_vars =>
        (TruthInv /\ StrayInv /\ LockInv)'
  BY TruthStep, StrayStep, LockStep DEF TruthInv
<1> QED
  BY <1>1, <1>2, PTL DEF Spec

(* A hash verdict is about the world the agent's calls made, for any number of
   attempts, calls and faults: a match exactly when they made the golden world,
   and no score after a golden replay that failed, whatever was cut short, lost
   or left in the holder's queue before; the one exception is a tool call that
   writes to the db-service after its timeout. *)
THEOREM VerdictIsTrue == Spec => []VerdictTrue
<1>1. TruthInv => VerdictTrue
  BY DEF TruthInv, EndInv, VerdictTrue, Clean
<1> QED
  BY <1>1, TruthHolds, PTL

(* A final state that GetState answers for a trial the Runner knows is the one
   the agent's calls made: a mirror whose sync was missed, cut short or
   overtaken by a call in the holder's queue is never served. *)
THEOREM CaptureIsTrue == Spec => []CaptureTrue
<1>1. TruthInv => CaptureTrue
  <2>1. TypeInv => att # None
    BY RegFacts, WorldAssumption
  <2> QED
    BY <2>1 DEF TruthInv, EndInv, CaptureTrue, Clean
<1> QED
  BY <1>1, TruthHolds, PTL

(* Hash grading takes the golden world out again, for any number of attempts
   and faults: once a grading ended with a verdict, or failed in steps 3-6 and
   its undo was not cut short, the row is back in the agent's state, and so is
   the holder as soon as it has served what it was handed.  A golden action that
   the budget cut short and that wrote behind the undo is the one thing left in
   the row, on top of that state. *)
THEOREM WorldIsHandedBack == Spec => []WorldHandedBack
<1>1. TruthInv /\ StrayInv => WorldHandedBack
  BY DEF TruthInv, EndInv, StrayInv, WorldHandedBack, Clean, Unstrayed, Claims, RowHas,
     HeldHas
<1> QED
  BY <1>1, TruthHolds, PTL
=============================================================================
