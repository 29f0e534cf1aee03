------------------------- MODULE RunnerTrialProofs -------------------------
(***************************************************************************)
(* Proofs about RunnerTrial: one trial in the Runner, through any number   *)
(* of attempts, cleanups, tool calls and faults.                           *)
(*                                                                         *)
(*   TypesHold            every variable keeps its type: a step never uses *)
(*                        an answer, a snapshot or an argument that is not *)
(*                        there.                                           *)
(*   ToolsAreAccountedFor, RegistrationIsOwn, RetryIsNotRefused            *)
(*                        what registration and cleanup of the attempts of *)
(*                        one trial id promise each other.                 *)
(***************************************************************************)
EXTENDS RunnerTrial, SequenceTheorems, TLAPS

-----------------------------------------------------------------------------
(* The strengthened type invariant. *)

(* Where the engine stands while a handler of the Runner is under way. *)
HandlerInv ==
  /\ g.pc = "idle" => g = Idle
  /\ g.pc # "idle" =>
       \/ /\ pc = "capturing" /\ g.call = "capture"
          /\ g.pc \in {"sync", "read"} /\ res.answer = None
       \/ pc \in {"grading", "over"} /\ g.call = "grade"
  /\ reg.pc # "idle" => pc = "registering" /\ reg.of = att /\ reg.answer = None
  /\ pc \in {"cleanup", "cleaning"} => att < MaxAttempts

(* Somebody waits for a call of this kind. *)
Wants(op) ==
  \/ pc = "calling" /\ op = "tool"
  \/ g.waits /\ g.pc \in {"sync", "sync2"} /\ op = "get"
  \/ g.waits /\ g.pc \in {"hreset", "hback", "undo_h"} /\ op = "reset"
  \/ g.waits /\ g.pc = "replay" /\ op = "replay"

(* Of the calls in the holder's queue only the last is awaited, and then its
   answer is not there yet; an answer that is there is one its waiter can
   use. *)
QueueInv ==
  /\ g.waits => /\ g.pc \in {"sync", "sync2", "hreset", "replay", "hback", "undo_h"}
                /\ g.pc = "replay" => hasHolder
  /\ \A i \in 1..Len(fifo) :
       /\ fifo[i].op # "get" => fifo[i].arg \in Worlds
       /\ fifo[i].awaited => i = Len(fifo) /\ got = None /\ Wants(fifo[i].op)
  /\ got # None => \/ pc = "calling"
                   \/ g.waits /\ (g.pc \in {"sync", "sync2"} => got # "ok")

(* The steps of hash grading behind its first and behind its second
   snapshot. *)
BehindPre == {"reset", "hreset", "replay", "sync2", "snap2", "ghash", "restore",
              "hget", "hback", "diff1", "diff2", "diff3", "diff4",
              "undo", "undo_get", "undo_h", "undo_db"}
BehindRes == {"ghash", "restore", "hget", "hback", "diff1", "diff2", "diff3", "diff4"}

(* A state that is restored was snapshot. *)
SnapInv ==
  row # None => /\ g.pc \in BehindPre => row.pre # None
                /\ g.pc \in BehindRes => row.res # None

(* A cleanup that asks for a lock, or stops tools, found a context. *)
LockInv == \A n \in Cleaners : c[n].pc \in {"lock", "tools"} => c[n].saw # None

TypeInv == TypeOK /\ HandlerInv /\ QueueInv /\ SnapInv

-----------------------------------------------------------------------------
(* Registrations and cleanups. *)

(* The attempt has not stored its context yet. *)
Unbuilt == pc = "register" \/ (pc = "registering" /\ reg.pc \in {"extract", "init", "build"})

(* An attempt that may have left traces in the Runner. *)
Past(k) == k <= att /\ (k = att => ~Unbuilt)

Active(n) == c[n].pc \in {"look", "lock", "tools", "delete", "forget"}

(* Traces are of past attempts. *)
TracesInv ==
  /\ \A k \in Attempts : k \in {ctx, tools} \cup released => Past(k)
  /\ \A n \in Cleaners : c[n].saw # None => Past(c[n].saw)

(* One cleanup per retry, one per abandoned registration, and those before the
   attempt are through unless it hurried. *)
TurnsInv ==
  /\ \A n \in Cleaners : c[n].pc \in {"idle", "look"} => c[n].saw = None
  /\ \A n \in att..(MaxAttempts - 1) : c[n].pc = "idle" \/ (n = att /\ pc = "cleaning")
  /\ "hurried" \notin upset => \A n \in 1..(att - 1) : c[n].pc \in {"done", "failed"}
  /\ c[Abandoner].pc # "idle" =>
       \/ reg.pc = "abandon"
       \/ /\ pc \in {"registering", "over"} /\ reg.pc = "idle"
          /\ reg.answer = "refused" /\ ~Active(Abandoner)

(* A context's lock has one holder. *)
OneHolder ==
  \A n, m \in Cleaners :
    /\ n # m /\ c[n].saw = c[m].saw /\ c[n].saw # None
    /\ c[n].pc \in {"tools", "delete", "forget"}
    => c[m].pc \notin {"tools", "delete", "forget"}

CleanersInv == TracesInv /\ TurnsInv /\ OneHolder

(* What holds of the tools while no cleanup is overtaken. *)
ToolsInv ==
  ~Overtaken =>
    /\ tools # None => ctx = tools /\ tools \notin released
    /\ \A n \in Cleaners :
         /\ c[n].pc = "tools" => ctx = c[n].saw
         /\ c[n].pc \in {"delete", "forget"} => tools = None

(* What an attempt has of its own, step by step. *)
OwnInv ==
  ~Overtaken /\ "gone" \notin upset =>
    /\ reg.pc \in {"init", "build", "start"} => art = att
    /\ reg.pc \in {"build", "start"} => row # None /\ row.of = att
    /\ reg.pc = "start" => ctx = att /\ tools = att
    /\ pc \in UnderWay \/ (pc = "registering" /\ reg.answer = "ok") =>
         /\ ctx = att /\ art = att /\ tools = att
         /\ row # None /\ row.of = att

(* No cleanup found nothing, and none failed. *)
Orderly ==
  \A n \in Cleaners : \/ c[n].pc \in {"idle", "look"}
                      \/ c[n].saw # None /\ c[n].pc # "failed"

RowIsOf(r, k) == r # None /\ r.of = k

(* Whose row and whose tools there are, however the cleanups overlap. *)
OverlapInv ==
  /\ Orderly =>
       /\ \A n \in Cleaners : c[n].pc \in {"tools", "delete"} => RowIsOf(row, c[n].saw)
       /\ ctx # None => \/ RowIsOf(row, ctx)
                        \/ \E n \in Cleaners : c[n].saw = ctx /\ c[n].pc = "forget"
       /\ reg.pc = "build" => RowIsOf(row, att)
  /\ ctx # None => \/ tools = ctx
                   \/ \E n \in Cleaners : c[n].saw = ctx /\ c[n].pc # "lock"

(* The row before a registration and in a cleanup. *)
RetryInv ==
  upset \cap {"hurried", "stopped"} = {} =>
    /\ c[Stopper].pc = "idle"
    /\ pc = "register" \/ reg.pc \in {"extract", "init"} =>
         row = None \/ (att > 1 /\ c[att - 1].pc = "failed")
    /\ pc = "cleaning" =>
         /\ c[att].pc \in {"lock", "tools"} => ctx = c[att].saw
         /\ c[att].pc \in {"forget", "done"} => row = None
    /\ reg.answer = "duplicate" =>
         /\ pc \in {"registering", "over"}
         /\ reg.of = att /\ att > 1 /\ c[att - 1].pc = "failed"

RegInv == TypeInv /\ LockInv /\ CleanersInv /\ ToolsInv /\ OwnInv /\ OverlapInv /\ RetryInv
-----------------------------------------------------------------------------
(* An action applied to a world gives a world. *)
LEMMA ApplyType ==
  ASSUME NEW act \in Worlds, NEW w \in Worlds
  PROVE  Apply(act, w) \in Worlds
BY DEF Apply, Worlds, Acts

(* The engine's own steps, which hand nothing to the holder and start no
   read, keep the types. *)
LEMMA EngineTypes ==
  ASSUME TypeInv,
         \/ EngineRegisters \/ EngineRegistered \/ CallReturns \/ AgentEnds
         \/ EngineCaptured \/ EngineGraded \/ EngineCleansUp \/ NextAttempt
  PROVE  TypeInv'
<1>0. TypeOK /\ HandlerInv /\ QueueInv /\ SnapInv
  BY DEF TypeInv
<1> USE WorldAssumption, AttemptsAssumption, CallsAssumption
    DEF worldVars, registryVars, gradingVars, Attempts, Cleaners
<1>1. CASE EngineRegisters
  <2>1. TypeOK'
    BY <1>0, <1>1 DEF EngineRegisters, RegisterTrial, TypeOK, HandlerInv, WorldTypeOK,
       GradingTypeOK, RegistryTypeOK, DbSteps
  <2>2. HandlerInv'
    BY <1>0, <1>1 DEF EngineRegisters, RegisterTrial, HandlerInv, TypeOK, RegistryTypeOK
  <2>3. QueueInv'
    BY <1>0, <1>1 DEF EngineRegisters, RegisterTrial, HandlerInv, QueueInv, Wants,
       TypeOK, WorldTypeOK, Idle
  <2>4. SnapInv'
    BY <1>0, <1>1 DEF EngineRegisters, RegisterTrial, SnapInv
  <2> QED
    BY <2>1, <2>2, <2>3, <2>4 DEF TypeInv
<1>2. CASE EngineRegistered
  <2>1. TypeOK'
    BY <1>0, <1>2 DEF EngineRegistered, TypeOK, HandlerInv, WorldTypeOK,
       GradingTypeOK, RegistryTypeOK, DbSteps
  <2>2. HandlerInv'
    BY <1>0, <1>2 DEF EngineRegistered, HandlerInv, TypeOK, RegistryTypeOK
  <2>3. QueueInv'
    BY <1>0, <1>2 DEF EngineRegistered, HandlerInv, QueueInv, Wants,
       TypeOK, WorldTypeOK, Idle
  <2>4. SnapInv'
    BY <1>0, <1>2 DEF EngineRegistered, SnapInv
  <2> QED
    BY <2>1, <2>2, <2>3, <2>4 DEF TypeInv
<1>3. CASE CallReturns
  <2>1. TypeOK'
    BY <1>0, <1>3 DEF CallReturns, TypeOK, HandlerInv, WorldTypeOK,
       GradingTypeOK, RegistryTypeOK, DbSteps
  <2>2. HandlerInv'
    BY <1>0, <1>3 DEF CallReturns, HandlerInv, TypeOK, RegistryTypeOK
  <2>3. QueueInv'
    BY <1>0, <1>3 DEF CallReturns, HandlerInv, QueueInv, Wants,
       TypeOK, WorldTypeOK, Idle
  <2>4. SnapInv'
    BY <1>0, <1>3 DEF CallReturns, SnapInv
  <2> QED
    BY <2>1, <2>2, <2>3, <2>4 DEF TypeInv
<1>4. CASE AgentEnds
  <2>a. failed' \in BOOLEAN
    BY <1>4 DEF AgentEnds
  <2>1. TypeOK'
    BY <1>0, <1>4, <2>a DEF AgentEnds, TypeOK, WorldTypeOK, GradingTypeOK,
       RegistryTypeOK, DbSteps
  <2>2. HandlerInv'
    BY <1>0, <1>4 DEF AgentEnds, HandlerInv, TypeOK, RegistryTypeOK
  <2>3. QueueInv'
    BY <1>0, <1>4 DEF AgentEnds, HandlerInv, QueueInv, Wants,
       TypeOK, WorldTypeOK, Idle
  <2>4. SnapInv'
    BY <1>0, <1>4 DEF AgentEnds, SnapInv
  <2> QED
    BY <2>1, <2>2, <2>3, <2>4 DEF TypeInv
<1>5. CASE EngineCaptured
  <2>1. TypeOK'
    BY <1>0, <1>5 DEF EngineCaptured, TypeOK, HandlerInv, WorldTypeOK,
       GradingTypeOK, RegistryTypeOK, DbSteps
  <2>2. HandlerInv'
    BY <1>0, <1>5 DEF EngineCaptured, HandlerInv, TypeOK, RegistryTypeOK
  <2>3. QueueInv'
    BY <1>0, <1>5 DEF EngineCaptured, HandlerInv, QueueInv, Wants,
       TypeOK, WorldTypeOK, Idle
  <2>4. SnapInv'
    BY <1>0, <1>5 DEF EngineCaptured, SnapInv
  <2> QED
    BY <2>1, <2>2, <2>3, <2>4 DEF TypeInv
<1>6. CASE EngineGraded
  <2>1. TypeOK'
    BY <1>0, <1>6 DEF EngineGraded, TypeOK, HandlerInv, WorldTypeOK,
       GradingTypeOK, RegistryTypeOK, DbSteps
  <2>2. HandlerInv'
    BY <1>0, <1>6 DEF EngineGraded, HandlerInv, TypeOK, RegistryTypeOK
  <2>3. QueueInv'
    BY <1>0, <1>6 DEF EngineGraded, HandlerInv, QueueInv, Wants,
       TypeOK, WorldTypeOK, Idle
  <2>4. SnapInv'
    BY <1>0, <1>6 DEF EngineGraded, SnapInv
  <2> QED
    BY <2>1, <2>2, <2>3, <2>4 DEF TypeInv
<1>7. CASE EngineCleansUp
  <2>1. TypeOK'
    BY <1>0, <1>7 DEF EngineCleansUp, Retry, TypeOK, HandlerInv, WorldTypeOK,
       GradingTypeOK, RegistryTypeOK, DbSteps
  <2>2. HandlerInv'
    BY <1>0, <1>7 DEF EngineCleansUp, Retry, HandlerInv, TypeOK, RegistryTypeOK
  <2>3. QueueInv'
    BY <1>0, <1>7 DEF EngineCleansUp, Retry, HandlerInv, QueueInv, Wants,
       TypeOK, WorldTypeOK, Idle
  <2>4. SnapInv'
    BY <1>0, <1>7 DEF EngineCleansUp, Retry, SnapInv
  <2> QED
    BY <2>1, <2>2, <2>3, <2>4 DEF TypeInv
<1>8. CASE NextAttempt
  <2>a. WorldTypeOK'
    BY <1>0, <1>8 DEF NextAttempt, Fault, TypeOK, WorldTypeOK
  <2>b. GradingTypeOK'
    BY <1>0, <1>8 DEF NextAttempt, NoResult, TypeOK, GradingTypeOK, DbSteps
  <2>c. RegistryTypeOK'
    BY <1>0, <1>8 DEF NextAttempt, TypeOK, RegistryTypeOK
  <2>d. att' \in Attempts
        /\ upset' \subseteq {"hurried", "stopped", "gone", "late_write", "stray_gold"}
    BY <1>0, <1>8 DEF NextAttempt, TypeOK, HandlerInv
  <2>1. TypeOK'
    <3>0. failed' \in BOOLEAN
      BY <1>8, Zenon DEF NextAttempt
    <3>1. pc' = "register" /\ calls' \in 0..MaxCalls /\ late' = late
      BY <1>8 DEF NextAttempt
    <3>2. late' \in LateCalls' \cup {None}
      BY <1>0, <3>1 DEF TypeOK, LateCalls
    <3> QED
      BY <2>a, <2>b, <2>c, <2>d, <3>0, <3>1, <3>2, Zenon DEF TypeOK
  <2>2. HandlerInv'
    BY <1>0, <1>8 DEF NextAttempt, Fault, NoResult, HandlerInv, TypeOK, RegistryTypeOK
  <2>3. QueueInv'
    BY <1>0, <1>8 DEF NextAttempt, Fault, NoResult, HandlerInv, QueueInv, Wants,
       TypeOK, WorldTypeOK, Idle
  <2>4. SnapInv'
    BY <1>0, <1>8 DEF NextAttempt, Fault, NoResult, SnapInv
  <2> QED
    BY <2>1, <2>2, <2>3, <2>4 DEF TypeInv
<1> QED
  BY <1>1, <1>2, <1>3, <1>4, <1>5, <1>6, <1>7, <1>8

-----------------------------------------------------------------------------
(* The holder's queue. *)

ArgsIn(q) == \A i \in 1..Len(q) : q[i].op # "get" => q[i].arg \in Worlds
NobodyWaits(q) == \A i \in 1..Len(q) : ~q[i].awaited

(* Where nobody waits for the holder, no call is awaited and no answer is
   there. *)
LEMMA Unattended ==
  ASSUME TypeInv, ~g.waits, pc # "calling"
  PROVE  NobodyWaits(fifo) /\ got = None
BY DEF TypeInv, QueueInv, Wants, NobodyWaits

(* Once the answer is there, its call is no longer in the queue. *)
LEMMA Answered ==
  ASSUME TypeInv, got # None
  PROVE  NobodyWaits(fifo)
BY DEF TypeInv, QueueInv, NobodyWaits

(* A call that is handed over is the last of the queue and the one that is
   awaited. *)
LEMMA HandQueue ==
  ASSUME fifo \in Seq(HolderCalls), ArgsIn(fifo), NobodyWaits(fifo),
         NEW op \in HolderOps, NEW arg \in Worlds \cup {None},
         op # "get" => arg \in Worlds,
         Hand(op, arg)
  PROVE  /\ fifo' \in Seq(HolderCalls) /\ fifo' # <<>> /\ ArgsIn(fifo')
         /\ \A i \in 1..Len(fifo') :
              fifo'[i].awaited => i = Len(fifo') /\ fifo'[i].op = op
<1> DEFINE e == [op |-> op, arg |-> arg, awaited |-> TRUE]
<1>1. e \in HolderCalls /\ e.op = op /\ e.arg = arg
  BY DEF HolderCalls
<1> HIDE DEF e
<1>2. fifo' = Append(fifo, e)
  BY DEF Hand, e
<1>3. /\ fifo' \in Seq(HolderCalls) /\ Len(fifo') = Len(fifo) + 1
      /\ \A i \in 1..Len(fifo) : fifo'[i] = fifo[i]
      /\ fifo'[Len(fifo) + 1] = e
      /\ Len(fifo) \in Nat
  BY <1>1, <1>2
<1>4. \A i \in 1..Len(fifo') : i \in 1..Len(fifo) \/ i = Len(fifo) + 1
  BY <1>3
<1>5. fifo' # <<>>
  BY <1>3
<1>6. ArgsIn(fifo')
  BY <1>1, <1>3, <1>4 DEF ArgsIn
<1>7. ASSUME NEW i \in 1..Len(fifo'), fifo'[i].awaited
      PROVE  i = Len(fifo') /\ fifo'[i].op = op
  BY <1>1, <1>3, <1>4, <1>7 DEF NobodyWaits
<1> QED
  BY <1>3, <1>5, <1>6, <1>7

(* A call whose waiter left is the same call. *)
LEMMA UnawaitedCall ==
  \A e \in HolderCalls :
    /\ Unawaited(e) \in HolderCalls /\ ~Unawaited(e).awaited
    /\ Unawaited(e).op = e.op /\ Unawaited(e).arg = e.arg
BY DEF Unawaited, HolderCalls

(* A call that is taken back or left alone is awaited no more. *)
LEMMA AbandonQueue ==
  ASSUME fifo \in Seq(HolderCalls), ArgsIn(fifo),
         \A i \in 1..Len(fifo) : fifo[i].awaited => i = Len(fifo),
         Abandon
  PROVE  /\ fifo' \in Seq(HolderCalls) /\ ArgsIn(fifo') /\ NobodyWaits(fifo')
         /\ busy /\ fifo # <<>> => fifo' # <<>>
<1>0. Len(fifo) \in Nat /\ \A i \in 1..Len(fifo) : fifo[i] \in HolderCalls
  OBVIOUS
<1>1. CASE fifo # <<>> /\ fifo[Len(fifo)].awaited /\ busy /\ Len(fifo) = 1
  <2>1. fifo' = <<Unawaited(fifo[1])>>
    BY <1>1 DEF Abandon
  <2>2. /\ Unawaited(fifo[1]) \in HolderCalls /\ ~Unawaited(fifo[1]).awaited
        /\ Unawaited(fifo[1]).op = fifo[1].op
        /\ Unawaited(fifo[1]).arg = fifo[1].arg
    BY <1>0, <1>1, UnawaitedCall
  <2>3. Len(fifo') = 1 /\ fifo'[1] = Unawaited(fifo[1]) /\ fifo' \in Seq(HolderCalls)
    BY <2>1, <2>2
  <2> QED
    BY <1>1, <2>2, <2>3 DEF ArgsIn, NobodyWaits
<1>2. CASE fifo # <<>> /\ fifo[Len(fifo)].awaited /\ ~(busy /\ Len(fifo) = 1)
  <2>1. fifo' = SubSeq(fifo, 1, Len(fifo) - 1)
    BY <1>2 DEF Abandon
  <2>2. Len(fifo) >= 1
    BY <1>0, <1>2
  <2>3. /\ fifo' \in Seq(HolderCalls) /\ Len(fifo') = Len(fifo) - 1
        /\ \A i \in 1..(Len(fifo) - 1) : fifo'[i] = fifo[i]
    <3> DEFINE m == Len(fifo) - 1
    <3>1. m \in Int /\ 0 <= m /\ m - 1 + 1 = m
      BY <1>0, <2>2
    <3>2. \A i \in 1..m : fifo[i] \in HolderCalls
      BY <1>0, <2>2
    <3> HIDE DEF m
    <3>3. /\ SubSeq(fifo, 1, m) \in Seq(HolderCalls)
          /\ Len(SubSeq(fifo, 1, m)) = IF 1 <= m THEN m - 1 + 1 ELSE 0
          /\ \A i \in 1..(m - 1 + 1) : SubSeq(fifo, 1, m)[i] = fifo[1 + i - 1]
      BY <3>1, <3>2, SubSeqProperties
    <3>4. \A i \in 1..m : SubSeq(fifo, 1, m)[i] = fifo[i]
      BY <3>1, <3>3
    <3>5. Len(SubSeq(fifo, 1, m)) = m
      BY <3>1, <3>3
    <3> QED
      BY <2>1, <3>3, <3>4, <3>5 DEF m
  <2>4. ArgsIn(fifo') /\ NobodyWaits(fifo')
    BY <1>0, <2>2, <2>3 DEF ArgsIn, NobodyWaits
  <2> QED
    BY <1>0, <1>2, <2>2, <2>3, <2>4
<1>3. CASE fifo # <<>> => ~fifo[Len(fifo)].awaited
  <2>1. fifo' = fifo
    BY <1>3 DEF Abandon
  <2> QED
    BY <1>0, <1>3, <2>1 DEF ArgsIn, NobodyWaits
<1> QED
  BY <1>1, <1>2, <1>3

(* Shielded calls stay in the queue, and nobody waits for any of them. *)
LEMMA StopWaitingQueue ==
  ASSUME fifo \in Seq(HolderCalls), ArgsIn(fifo), StopWaiting
  PROVE  /\ fifo' \in Seq(HolderCalls) /\ ArgsIn(fifo') /\ NobodyWaits(fifo')
         /\ Len(fifo') = Len(fifo)
<1>0. Len(fifo) \in Nat /\ \A i \in 1..Len(fifo) : fifo[i] \in HolderCalls
  OBVIOUS
<1>2. fifo' = [i \in 1..Len(fifo) |-> Unawaited(fifo[i])]
  BY DEF StopWaiting
<1>3. /\ fifo' \in Seq(HolderCalls) /\ Len(fifo') = Len(fifo)
      /\ \A i \in 1..Len(fifo) : fifo'[i] = Unawaited(fifo[i])
  BY <1>0, <1>2, UnawaitedCall
<1> QED
  BY <1>0, <1>3, UnawaitedCall DEF ArgsIn, NobodyWaits

(* The first call of the queue is served or fails. *)
LEMMA ServeQueue ==
  ASSUME fifo \in Seq(HolderCalls), ArgsIn(fifo), fifo # <<>>, fifo' = Tail(fifo)
  PROVE  /\ fifo' \in Seq(HolderCalls) /\ ArgsIn(fifo')
         /\ Head(fifo) = fifo[1] /\ 1 \in 1..Len(fifo)
         /\ Len(fifo') = Len(fifo) - 1
         /\ \A i \in 1..Len(fifo') : i + 1 \in 1..Len(fifo) /\ fifo'[i] = fifo[i + 1]
<1>1. /\ fifo' \in Seq(HolderCalls) /\ Len(fifo') = Len(fifo) - 1
      /\ Len(fifo) \in Nat /\ Len(fifo) >= 1
      /\ Head(fifo) = fifo[1]
      /\ \A i \in 1..(Len(fifo) - 1) : fifo'[i] = fifo[i + 1]
  OBVIOUS
<1>2. \A i \in 1..Len(fifo') : i + 1 \in 1..Len(fifo) /\ fifo'[i] = fifo[i + 1]
  BY <1>1
<1>3. ArgsIn(fifo')
  BY <1>1, <1>2 DEF ArgsIn
<1> QED
  BY <1>1, <1>2, <1>3

-----------------------------------------------------------------------------
(* A step of one cleanup coroutine leaves the others. *)

CleanerSteps == {"idle", "look", "lock", "tools", "delete", "forget", "done", "failed"}
CleanerStates == [pc : CleanerSteps, saw : Attempts \cup {None}]

(* A cleanup goes to its next step and keeps the context it found. *)
LEMMA CGotoIs ==
  ASSUME RegistryTypeOK, NEW n \in Cleaners, NEW s \in CleanerSteps, CGoto(n, s)
  PROVE  /\ c' \in [Cleaners -> CleanerStates]
         /\ \A m \in Cleaners \ {n} : c'[m] = c[m]
         /\ c'[n].pc = s /\ c'[n].saw = c[n].saw
BY DEF RegistryTypeOK, CGoto, CleanerStates, CleanerSteps

-----------------------------------------------------------------------------
(* A row as a step finds it and leaves it: the same trial and snapshots. *)
SameTrial(r, s) ==
  r # None /\ s # None /\ s.of = r.of /\ s.pre = r.pre /\ s.res = r.res

(* A row whose tables are written is the same trial. *)
LEMMA RowWritten ==
  ASSUME NEW r \in Rows, NEW w \in Worlds, NEW s, s = [r EXCEPT !.data = w]
  PROVE  s \in Rows /\ s # None /\ SameTrial(r, s) /\ s.data = w
<1>1. s \in Rows /\ s.of = r.of /\ s.pre = r.pre /\ s.res = r.res /\ s.data = w
  BY DEF Rows
<1>2. r # None /\ s # None
  BY <1>1, WorldAssumption
<1> QED
  BY <1>1, <1>2 DEF SameTrial

(* The agent's calls keep the types. *)
LEMMA CallTypes ==
  ASSUME TypeInv,
         \/ \E a \in Acts : CallHolder(a) \/ CallApp(a) \/ CallDb(a)
         \/ CallTimesOut \/ LateWrite \/ StrayWrite
  PROVE  TypeInv'
<1>0. TypeOK /\ HandlerInv /\ QueueInv /\ SnapInv
  BY DEF TypeInv
<1> USE WorldAssumption, AttemptsAssumption, CallsAssumption
    DEF worldVars, registryVars, gradingVars, Attempts, Cleaners
<1>a. Acts \subseteq Worlds
  BY DEF Acts, Worlds
<1>b. fifo \in Seq(HolderCalls) /\ ArgsIn(fifo) /\ Len(fifo) \in Nat
  BY <1>0 DEF TypeOK, WorldTypeOK, QueueInv, ArgsIn
<1>1. ASSUME NEW a \in Acts, CallHolder(a)
      PROVE  TypeInv'
  <2>0. g = Idle /\ ~g.waits /\ pc = "agent" /\ pc' = "calling" /\ got = None
    BY <1>0, <1>1, Unattended DEF CallHolder, HandlerInv, Idle
  <2>1. /\ fifo' \in Seq(HolderCalls) /\ fifo' # <<>> /\ ArgsIn(fifo')
        /\ \A i \in 1..Len(fifo') :
             fifo'[i].awaited => i = Len(fifo') /\ fifo'[i].op = "tool"
    <3>1. NobodyWaits(fifo)
      BY <2>0, Unattended
    <3>2. Hand("tool", a) /\ "tool" \in HolderOps
      BY <1>1 DEF CallHolder, HolderOps
    <3> QED
      BY <1>a, <1>b, <3>1, <3>2, HandQueue
  <2>2. TypeOK'
    BY <1>0, <1>1, <2>1 DEF CallHolder, TypeOK, WorldTypeOK, GradingTypeOK,
       RegistryTypeOK, DbSteps
  <2>3. HandlerInv'
    BY <1>0, <1>1 DEF CallHolder, HandlerInv, TypeOK, RegistryTypeOK
  <2>4. QueueInv'
    BY <1>1, <2>0, <2>1 DEF CallHolder, QueueInv, Wants, ArgsIn
  <2>5. SnapInv'
    BY <1>0, <1>1 DEF CallHolder, SnapInv
  <2> QED
    BY <2>2, <2>3, <2>4, <2>5 DEF TypeInv
<1>2. ASSUME NEW a \in Acts, CallDb(a)
      PROVE  TypeInv'
  <2>0. /\ pc = "agent" /\ pc' = pc /\ g' = g /\ res' = res /\ reg' = reg /\ att' = att
        /\ fifo' = fifo /\ got' = got /\ hasHolder' = hasHolder
    BY <1>2 DEF CallDb
  <2>1. truth' \in Worlds
    <3>1. truth' \in {truth, Apply(a, truth)}
      BY <1>2 DEF CallDb, Request
    <3> QED
      BY <1>0, <1>a, <3>1, ApplyType DEF TypeOK, WorldTypeOK
  <2>2. row' = row \/ (row' \in Rows /\ SameTrial(row, row'))
    <3>1. row' = row \/ (row # None /\ row' = [row EXCEPT !.data = Apply(a, row.data)])
      BY <1>2 DEF CallDb, Request
    <3>2. row # None => row \in Rows /\ Apply(a, row.data) \in Worlds
      BY <1>0, <1>a, ApplyType DEF TypeOK, WorldTypeOK, Rows
    <3> QED
      BY <3>1, <3>2, RowWritten
  <2>3. faults' \in 0..MaxFaults
    BY <1>0, <1>2 DEF CallDb, Request, Fault, TypeOK, WorldTypeOK
  <2>4. late' \in LateCalls \cup {None}
    BY <1>0, <1>2 DEF CallDb, TypeOK, LateCalls
  <2>5. TypeOK'
    <3>1. WorldTypeOK'
      BY <1>0, <1>2, <2>1, <2>2, <2>3 DEF CallDb, TypeOK, WorldTypeOK
    <3>2. GradingTypeOK' /\ RegistryTypeOK'
      BY <1>0, <1>2 DEF CallDb, TypeOK, GradingTypeOK, RegistryTypeOK, DbSteps
    <3>3. calls' \in 0..MaxCalls
      BY <1>0, <1>2 DEF CallDb, TypeOK
    <3> QED
      BY <1>0, <1>2, <2>4, <3>1, <3>2, <3>3 DEF CallDb, TypeOK
  <2>6. HandlerInv'
    BY <1>0, <2>0 DEF HandlerInv
  <2>7. QueueInv'
    BY <1>0, <2>0 DEF QueueInv, Wants
  <2>8. SnapInv'
    BY <1>0, <2>0, <2>2 DEF SnapInv, SameTrial
  <2> QED
    BY <2>5, <2>6, <2>7, <2>8 DEF TypeInv
<1>3. CASE CallTimesOut
  <2>0. g.pc = "idle" /\ g = Idle /\ ~g.waits
    BY <1>0, <1>3 DEF CallTimesOut, HandlerInv, Idle
  <2>1. /\ fifo' \in Seq(HolderCalls) /\ ArgsIn(fifo') /\ NobodyWaits(fifo')
        /\ busy /\ fifo # <<>> => fifo' # <<>>
    BY <1>0, <1>3, <1>b, AbandonQueue DEF CallTimesOut, QueueInv
  <2>2. TypeOK'
    BY <1>0, <1>3, <2>1 DEF CallTimesOut, Fault, TypeOK, WorldTypeOK, GradingTypeOK,
       RegistryTypeOK, DbSteps
  <2>3. HandlerInv'
    BY <1>0, <1>3 DEF CallTimesOut, HandlerInv
  <2>4. QueueInv'
    BY <1>3, <2>0, <2>1 DEF CallTimesOut, QueueInv, Wants, ArgsIn, NobodyWaits
  <2>5. SnapInv'
    BY <1>0, <1>3 DEF CallTimesOut, SnapInv
  <2> QED
    BY <2>2, <2>3, <2>4, <2>5 DEF TypeInv
<1>4. CASE LateWrite
  <2>0. /\ pc' = pc /\ g' = g /\ res' = res /\ reg' = reg /\ att' = att
        /\ fifo' = fifo /\ got' = got /\ hasHolder' = hasHolder
    BY <1>4 DEF LateWrite
  <2>a. late.act \in Worlds
    BY <1>0, <1>4, <1>a DEF LateWrite, TypeOK, LateCalls
  <2>1. truth' \in Worlds
    <3>1. truth' \in {truth, Apply(late.act, truth)}
      BY <1>4 DEF LateWrite
    <3> QED
      BY <1>0, <2>a, <3>1, ApplyType DEF TypeOK, WorldTypeOK
  <2>2. row' = row \/ (row' \in Rows /\ SameTrial(row, row'))
    <3>1. row' = row \/ (row # None /\ row' = [row EXCEPT !.data = Apply(late.act, row.data)])
      BY <1>4 DEF LateWrite
    <3>2. row # None => row \in Rows /\ Apply(late.act, row.data) \in Worlds
      BY <1>0, <2>a, ApplyType DEF TypeOK, WorldTypeOK, Rows
    <3> QED
      BY <3>1, <3>2, RowWritten
  <2>3. TypeOK'
    <3>1. WorldTypeOK'
      BY <1>0, <1>4, <2>1, <2>2 DEF LateWrite, TypeOK, WorldTypeOK
    <3>2. GradingTypeOK' /\ RegistryTypeOK'
      BY <1>0, <1>4 DEF LateWrite, TypeOK, GradingTypeOK, RegistryTypeOK, DbSteps
    <3>3. upset' \subseteq {"hurried", "stopped", "gone", "late_write", "stray_gold"}
      BY <1>0, <1>4 DEF LateWrite, TypeOK
    <3> QED
      BY <1>0, <1>4, <3>1, <3>2, <3>3 DEF LateWrite, TypeOK
  <2>4. HandlerInv'
    BY <1>0, <2>0 DEF HandlerInv
  <2>5. QueueInv'
    BY <1>0, <2>0 DEF QueueInv, Wants
  <2>6. SnapInv'
    BY <1>0, <2>0, <2>2 DEF SnapInv, SameTrial
  <2> QED
    BY <2>3, <2>4, <2>5, <2>6 DEF TypeInv
<1>5. ASSUME NEW a \in Acts, CallApp(a)
      PROVE  TypeInv'
  <2>0. /\ pc' = pc /\ g' = g /\ res' = res /\ reg' = reg /\ att' = att /\ row' = row
        /\ fifo' = fifo /\ got' = got /\ hasHolder' = hasHolder
    BY <1>5 DEF CallApp
  <2>1. truth' \in Worlds /\ held' \in Worlds \cup {None}
    <3>1. truth' \in {truth, Apply(a, truth)}
      BY <1>5 DEF CallApp, AppRequest
    <3>2. held' = held \/ (held # None /\ held' = Apply(a, held))
      BY <1>5 DEF CallApp, AppRequest
    <3> QED
      BY <1>0, <1>a, <3>1, <3>2, ApplyType DEF TypeOK, WorldTypeOK
  <2>2. faults' \in 0..MaxFaults
    BY <1>0, <1>5 DEF CallApp, AppRequest, Fault, TypeOK, WorldTypeOK
  <2>3. TypeOK'
    <3>1. WorldTypeOK'
      BY <1>0, <1>5, <2>1, <2>2 DEF CallApp, TypeOK, WorldTypeOK
    <3>2. GradingTypeOK' /\ RegistryTypeOK'
      BY <1>0, <1>5 DEF CallApp, TypeOK, GradingTypeOK, RegistryTypeOK, DbSteps
    <3>3. calls' \in 0..MaxCalls
      BY <1>0, <1>5 DEF CallApp, TypeOK
    <3> QED
      BY <1>0, <1>5, <3>1, <3>2, <3>3 DEF CallApp, TypeOK
  <2>4. HandlerInv'
    BY <1>0, <2>0 DEF HandlerInv
  <2>5. QueueInv'
    BY <1>0, <2>0 DEF QueueInv, Wants
  <2>6. SnapInv'
    BY <1>0, <2>0 DEF SnapInv
  <2> QED
    BY <2>3, <2>4, <2>5, <2>6 DEF TypeInv
<1>6. CASE StrayWrite
  <2>0. /\ pc' = pc /\ g' = g /\ res' = res /\ reg' = reg /\ att' = att
        /\ fifo' = fifo /\ got' = got /\ hasHolder' = hasHolder
    BY <1>6 DEF StrayWrite
  <2>1. row' = row \/ (row' \in Rows /\ SameTrial(row, row'))
    <3>1. row' = row \/ (row # None /\ row' = [row EXCEPT !.data = Apply("gold", row.data)])
      BY <1>6 DEF StrayWrite
    <3>2. row # None => row \in Rows /\ Apply("gold", row.data) \in Worlds
      BY <1>0, <1>a, ApplyType DEF TypeOK, WorldTypeOK, Rows, Acts
    <3> QED
      BY <3>1, <3>2, RowWritten
  <2>2. TypeOK'
    <3>1. WorldTypeOK'
      BY <1>0, <1>6, <2>1 DEF StrayWrite, TypeOK, WorldTypeOK
    <3>2. GradingTypeOK'
      <4>1. stray' \in BOOLEAN
        BY <1>6, Zenon DEF StrayWrite
      <4>2. UNCHANGED <<hasHolder, app, fast, g, res>>
        BY <1>6 DEF StrayWrite
      <4> QED
        BY <1>0, <4>1, <4>2 DEF TypeOK, GradingTypeOK, DbSteps
    <3>3. RegistryTypeOK'
      BY <1>0, <1>6 DEF StrayWrite, TypeOK, RegistryTypeOK
    <3>4. upset' \subseteq {"hurried", "stopped", "gone", "late_write", "stray_gold"}
      BY <1>0, <1>6 DEF StrayWrite, TypeOK
    <3> QED
      BY <1>0, <1>6, <3>1, <3>2, <3>3, <3>4 DEF StrayWrite, TypeOK
  <2>3. HandlerInv'
    BY <1>0, <2>0 DEF HandlerInv
  <2>4. QueueInv'
    BY <1>0, <2>0 DEF QueueInv, Wants
  <2>5. SnapInv'
    BY <1>0, <2>0, <2>1 DEF SnapInv, SameTrial
  <2> QED
    BY <2>2, <2>3, <2>4, <2>5 DEF TypeInv
<1> QED
  BY <1>1, <1>2, <1>3, <1>4, <1>5, <1>6

(* The engine starts a read of the trial's state. *)
LEMMA ReadTypes ==
  ASSUME TypeInv, EngineCaptures \/ EngineGrades
  PROVE  TypeInv'
<1>0. TypeOK /\ HandlerInv /\ QueueInv /\ SnapInv
  BY DEF TypeInv
<1> USE WorldAssumption, AttemptsAssumption, CallsAssumption
    DEF worldVars, registryVars, gradingVars, engineVars, Attempts, Cleaners
<1>1. CASE EngineCaptures
  <2>1. TypeOK'
    <3>1. WorldTypeOK'
      BY <1>0, <1>1 DEF EngineCaptures, StartRead, Idle, TypeOK, WorldTypeOK, HandlerInv
    <3>2. GradingTypeOK'
      BY <1>0, <1>1 DEF EngineCaptures, StartRead, Idle, TypeOK, GradingTypeOK, DbSteps
    <3>3. RegistryTypeOK'
      BY <1>0, <1>1 DEF EngineCaptures, StartRead, Idle, TypeOK, RegistryTypeOK
    <3> QED
      BY <1>0, <1>1, <3>1, <3>2, <3>3 DEF EngineCaptures, StartRead, TypeOK
  <2>2. HandlerInv'
    BY <1>0, <1>1 DEF EngineCaptures, StartRead, Idle, HandlerInv, TypeOK, RegistryTypeOK
  <2>3. QueueInv'
    BY <1>0, <1>1 DEF EngineCaptures, StartRead, Idle, HandlerInv, QueueInv, Wants,
       TypeOK, WorldTypeOK, Idle
  <2>4. SnapInv'
    BY <1>0, <1>1 DEF EngineCaptures, StartRead, Idle, HandlerInv, SnapInv, BehindPre, BehindRes
  <2> QED
    BY <2>1, <2>2, <2>3, <2>4 DEF TypeInv
<1>2. CASE EngineGrades
  <2>1. TypeOK'
    <3>1. WorldTypeOK'
      BY <1>0, <1>2 DEF EngineGrades, StartRead, Idle, TypeOK, WorldTypeOK, HandlerInv
    <3>2. GradingTypeOK'
      <4>1. CASE UNCHANGED <<g, res, hasHolder, app, fast, stray>>
        BY <1>0, <4>1 DEF TypeOK, GradingTypeOK, DbSteps
      <4>2. CASE StartRead("grade", hasHolder) /\ UNCHANGED <<hasHolder, app, fast, stray>>
        BY <1>0, <4>2 DEF StartRead, Idle, TypeOK, GradingTypeOK, DbSteps
      <4> QED
        BY <1>2, <4>1, <4>2 DEF EngineGrades
    <3>3. RegistryTypeOK'
      BY <1>0, <1>2 DEF EngineGrades, StartRead, Idle, TypeOK, RegistryTypeOK
    <3> QED
      BY <1>0, <1>2, <3>1, <3>2, <3>3 DEF EngineGrades, StartRead, TypeOK
  <2>2. HandlerInv'
    BY <1>0, <1>2 DEF EngineGrades, StartRead, Idle, HandlerInv, TypeOK, RegistryTypeOK
  <2>3. QueueInv'
    BY <1>0, <1>2 DEF EngineGrades, StartRead, Idle, HandlerInv, QueueInv, Wants,
       TypeOK, WorldTypeOK, Idle
  <2>4. SnapInv'
    BY <1>0, <1>2 DEF EngineGrades, StartRead, Idle, HandlerInv, SnapInv, BehindPre, BehindRes
  <2> QED
    BY <2>1, <2>2, <2>3, <2>4 DEF TypeInv
<1> QED
  BY <1>1, <1>2

(* RegisterTrial keeps the types. *)
LEMMA RegisterTypes ==
  ASSUME TypeInv, UNCHANGED <<gradingVars, engineVars>>,
         Extract \/ InitTrial \/ Build(hasHolder) \/ Start \/ AbandonRegistration
  PROVE  TypeInv'
<1>0. TypeOK /\ HandlerInv /\ QueueInv /\ SnapInv
  BY DEF TypeInv
<1> USE WorldAssumption, AttemptsAssumption, CallsAssumption
    DEF worldVars, registryVars, gradingVars, engineVars, Attempts, Cleaners
<1>a. UNCHANGED <<hasHolder, app, fast, stray, g, res, pc, att, calls, failed, late, upset>>
  OBVIOUS
<1>b. GradingTypeOK'
  BY <1>0, <1>a DEF TypeOK, GradingTypeOK, DbSteps
<1>c. fifo \in Seq(HolderCalls) /\ (busy => fifo # <<>>)
  BY <1>0 DEF TypeOK, WorldTypeOK
<1>d. ASSUME NEW s \in {"idle", "extract", "init", "build", "start", "abandon"},
             NEW a \in {None, "ok", "refused", "duplicate"},
             reg' = [reg EXCEPT !.pc = s] \/ reg' = [reg EXCEPT !.pc = s, !.answer = a]
      PROVE  /\ reg' \in [pc : {"idle", "extract", "init", "build", "start", "abandon"},
                          of : Attempts \cup {None},
                          answer : {None, "ok", "refused", "duplicate"}]
             /\ reg'.pc = s /\ reg'.of = reg.of
             /\ reg' = [reg EXCEPT !.pc = s] => reg'.answer = reg.answer
  BY <1>0, <1>d DEF TypeOK, RegistryTypeOK
<1>e. reg' \in [pc : {"idle", "extract", "init", "build", "start", "abandon"},
                of : Attempts \cup {None}, answer : {None, "ok", "refused", "duplicate"}]
  BY <1>d DEF Extract, InitTrial, Build, Start, AbandonRegistration, RegGoto, RegAnswers
<1>f. faults' \in 0..MaxFaults
  BY <1>0 DEF Extract, InitTrial, Build, Start, AbandonRegistration, Fault,
     TypeOK, WorldTypeOK
<1>g. reg.of = att /\ reg.answer = None /\ pc = "registering" /\ g.pc = "idle" /\ ~g.waits
      /\ att \in Attempts /\ row \in Rows \cup {None}
  BY <1>0 DEF Extract, InitTrial, Build, Start, AbandonRegistration, HandlerInv, Idle,
     TypeOK, WorldTypeOK
<1>h. reg'.pc # "idle" => reg'.of = att /\ reg'.answer = None
  BY <1>d, <1>g DEF Extract, InitTrial, Build, Start, AbandonRegistration, RegGoto, RegAnswers
<1>1. CASE Extract
  <2>1. WorldTypeOK'
    BY <1>0, <1>1, <1>f DEF Extract, TypeOK, WorldTypeOK
  <2>2. RegistryTypeOK'
    <3>1. art' \in Attempts \cup {None} /\ UNCHANGED <<ctx, tools, released, c>>
      BY <1>0, <1>1, <1>g DEF Extract, TypeOK, RegistryTypeOK
    <3> QED
      BY <1>0, <1>e, <3>1 DEF TypeOK, RegistryTypeOK
  <2>3. TypeOK'
    BY <1>0, <1>a, <1>b, <2>1, <2>2 DEF TypeOK
  <2>4. HandlerInv'
    BY <1>0, <1>a, <1>g, <1>h DEF HandlerInv
  <2>5. QueueInv'
    BY <1>0, <1>1, <1>a DEF Extract, QueueInv, Wants
  <2>6. SnapInv'
    BY <1>a, <1>g DEF SnapInv, BehindPre, BehindRes
  <2> QED
    BY <2>3, <2>4, <2>5, <2>6 DEF TypeInv
<1>2. CASE InitTrial
  <2>1. WorldTypeOK'
    <3>1. row' \in {row, NewRow(att)} /\ NewRow(att) \in Rows
      BY <1>2, <1>g DEF InitTrial, NewRow, Rows, Worlds
    <3> QED
      BY <1>0, <1>2, <1>f, <1>g, <3>1 DEF InitTrial, TypeOK, WorldTypeOK
  <2>2. RegistryTypeOK'
    BY <1>0, <1>2, <1>e DEF InitTrial, TypeOK, RegistryTypeOK
  <2>3. TypeOK'
    BY <1>0, <1>a, <1>b, <2>1, <2>2 DEF TypeOK
  <2>4. HandlerInv'
    BY <1>0, <1>a, <1>g, <1>h DEF HandlerInv
  <2>5. QueueInv'
    BY <1>0, <1>2, <1>a DEF InitTrial, QueueInv, Wants
  <2>6. SnapInv'
    BY <1>a, <1>g DEF SnapInv, BehindPre, BehindRes
  <2> QED
    BY <2>3, <2>4, <2>5, <2>6 DEF TypeInv
<1>3. CASE Build(hasHolder)
  <2>1. WorldTypeOK'
    <3>1. fifo' = <<>> \/ fifo' = fifo
      BY <1>3 DEF Build
    <3>2. fifo' \in Seq(HolderCalls)
      BY <1>c, <3>1, EmptySeq
    <3>3. busy' \in BOOLEAN /\ (busy' => fifo' # <<>>)
      <4>1. busy' = FALSE \/ (busy' = busy /\ fifo' = fifo)
        BY <1>3 DEF Build
      <4>2. busy \in BOOLEAN
        BY <1>0 DEF TypeOK, WorldTypeOK
      <4> QED
        <5>1. busy' \in BOOLEAN
          BY <4>1, <4>2, Zenon
        <5>2. busy' => fifo' # <<>>
          BY <1>c, <4>1
        <5> QED
          BY <5>1, <5>2
    <3>4. held' \in {held, "init", None} /\ got' \in {got, None} /\ truth' \in {truth, "init"}
      BY <1>3 DEF Build
    <3>5. resetLost' = resetLost /\ row' = row /\ "init" \in Worlds
      BY <1>3 DEF Build, Worlds
    <3> QED
      BY <1>0, <1>f, <3>2, <3>3, <3>4, <3>5 DEF TypeOK, WorldTypeOK
  <2>2. RegistryTypeOK'
    <3>1. /\ {ctx', tools'} \subseteq Attempts \cup {None}
          /\ UNCHANGED <<art, released, c>>
      BY <1>0, <1>3, <1>g DEF Build, TypeOK, RegistryTypeOK
    <3> QED
      BY <1>0, <1>e, <3>1 DEF TypeOK, RegistryTypeOK
  <2>3. TypeOK'
    BY <1>0, <1>a, <1>b, <2>1, <2>2 DEF TypeOK
  <2>4. HandlerInv'
    BY <1>0, <1>a, <1>g, <1>h DEF HandlerInv
  <2>5. QueueInv'
    <3>1. (fifo' = <<>> /\ got' = None) \/ (fifo' = fifo /\ got' = got)
      BY <1>3 DEF Build
    <3> QED
      BY <1>0, <1>a, <1>g, <3>1 DEF QueueInv, Wants
  <2>6. SnapInv'
    BY <1>a, <1>g DEF SnapInv, BehindPre, BehindRes
  <2> QED
    BY <2>3, <2>4, <2>5, <2>6 DEF TypeInv
<1>4. CASE Start
  <2>1. WorldTypeOK'
    BY <1>0, <1>4, <1>f DEF Start, TypeOK, WorldTypeOK
  <2>2. RegistryTypeOK'
    <3>1. c' \in [Cleaners -> CleanerStates]
      BY <1>0, <1>4 DEF Start, Abandoner, TypeOK, RegistryTypeOK, CleanerStates, CleanerSteps
    <3> QED
      BY <1>0, <1>4, <1>e, <3>1
         DEF Start, TypeOK, RegistryTypeOK, CleanerStates, CleanerSteps
  <2>3. TypeOK'
    BY <1>0, <1>a, <1>b, <2>1, <2>2 DEF TypeOK
  <2>4. HandlerInv'
    BY <1>0, <1>a, <1>g, <1>h DEF HandlerInv
  <2>5. QueueInv'
    BY <1>0, <1>4, <1>a DEF Start, QueueInv, Wants
  <2>6. SnapInv'
    BY <1>a, <1>g DEF SnapInv, BehindPre, BehindRes
  <2> QED
    BY <2>3, <2>4, <2>5, <2>6 DEF TypeInv
<1>5. CASE AbandonRegistration
  <2>1. WorldTypeOK'
    BY <1>0, <1>5, <1>f DEF AbandonRegistration, TypeOK, WorldTypeOK
  <2>2. RegistryTypeOK'
    BY <1>0, <1>5, <1>e DEF AbandonRegistration, TypeOK, RegistryTypeOK
  <2>3. TypeOK'
    BY <1>0, <1>a, <1>b, <2>1, <2>2 DEF TypeOK
  <2>4. HandlerInv'
    BY <1>0, <1>a, <1>g, <1>h DEF HandlerInv
  <2>5. QueueInv'
    BY <1>0, <1>5, <1>a DEF AbandonRegistration, QueueInv, Wants
  <2>6. SnapInv'
    BY <1>a, <1>g DEF SnapInv, BehindPre, BehindRes
  <2> QED
    BY <2>3, <2>4, <2>5, <2>6 DEF TypeInv
<1> QED
  BY <1>1, <1>2, <1>3, <1>4, <1>5

(* cleanup_trial and the Runner's stop keep the types. *)
LEMMA CleanupTypes ==
  ASSUME TypeInv, LockInv, UNCHANGED <<gradingVars, pc, att, calls, failed, late>>,
         \/ (\E n \in Cleaners : CleanupStep(n)) /\ UNCHANGED upset
         \/ RunnerStops /\ upset' = upset \cup {"stopped"}
  PROVE  TypeInv'
<1>0. TypeOK /\ HandlerInv /\ QueueInv /\ SnapInv
  BY DEF TypeInv
<1> USE WorldAssumption, AttemptsAssumption, CallsAssumption
    DEF worldVars, registryVars, gradingVars, engineVars, Attempts, Cleaners
<1>a. UNCHANGED <<hasHolder, app, fast, stray, g, res, pc, att, calls, failed, late>>
  OBVIOUS
<1>b. upset' \subseteq {"hurried", "stopped", "gone", "late_write", "stray_gold"}
  BY <1>0 DEF TypeOK
<1>1. ASSUME NEW n \in Cleaners, CleanupStep(n)
      PROVE  TypeInv'
  <2>0. /\ fifo' = fifo /\ busy' = busy /\ got' = got /\ truth' = truth
        /\ resetLost' = resetLost /\ reg' = reg
    BY <1>1 DEF CleanupStep, CleanupLook, CleanupLock, CleanupTools, CleanupDelete, CleanupForget
  <2>1. row' \in {row, None} /\ held' \in {held, None}
    BY <1>1 DEF CleanupStep, CleanupLook, CleanupLock, CleanupTools, CleanupDelete, CleanupForget
  <2>2. faults' \in 0..MaxFaults
    BY <1>0, <1>1 DEF TypeOK, WorldTypeOK, Fault,
       CleanupStep, CleanupLook, CleanupLock, CleanupTools, CleanupDelete, CleanupForget
  <2>3. WorldTypeOK'
    BY <1>0, <2>0, <2>1, <2>2 DEF TypeOK, WorldTypeOK
  <2>4. GradingTypeOK'
    BY <1>0, <1>a DEF TypeOK, GradingTypeOK, DbSteps
  <2>5. RegistryTypeOK'
    <3>1. c' \in [Cleaners -> CleanerStates] /\ released' \subseteq Attempts
      <4>1. CASE CleanupLook(n)
        BY <1>0, <4>1 DEF CleanupLook, TypeOK, RegistryTypeOK, CleanerStates, CleanerSteps
      <4>2. CASE ~CleanupLook(n)
        <5>1. \E s \in CleanerSteps : CGoto(n, s)
          BY <1>1, <4>2 DEF CleanupStep, CleanupLock, CleanupTools, CleanupDelete,
             CleanupForget, CleanerSteps
        <5>2. c[n].pc = "tools" => c[n].saw \in Attempts
          BY <1>0 DEF LockInv, TypeOK, RegistryTypeOK
        <5>3. released' = released \/ (c[n].pc = "tools" /\ released' = released \cup {c[n].saw})
          BY <1>1, <4>2 DEF CleanupStep, CleanupLock, CleanupTools, CleanupDelete, CleanupForget
        <5>4. released \subseteq Attempts /\ RegistryTypeOK
          BY <1>0 DEF TypeOK, RegistryTypeOK
        <5> QED
          BY <5>1, <5>2, <5>3, <5>4, CGotoIs
      <4> QED
        BY <4>1, <4>2
    <3>2. {ctx', art', tools'} \subseteq {ctx, art, tools, None}
      BY <1>1 DEF CleanupStep, CleanupLook, CleanupLock, CleanupTools, CleanupDelete, CleanupForget
    <3> QED
      BY <1>0, <2>0, <3>1, <3>2 DEF TypeOK, RegistryTypeOK, CleanerStates, CleanerSteps
  <2>6. TypeOK'
    BY <1>0, <1>a, <1>b, <2>3, <2>4, <2>5 DEF TypeOK
  <2>7. HandlerInv' /\ QueueInv' /\ SnapInv'
    BY <1>0, <1>a, <2>0, <2>1 DEF HandlerInv, QueueInv, Wants, SnapInv
  <2> QED
    BY <2>6, <2>7 DEF TypeInv
<1>2. CASE RunnerStops
  <2>1. TypeOK'
    <3>1. WorldTypeOK'
      BY <1>0, <1>2 DEF RunnerStops, Fault, TypeOK, WorldTypeOK
    <3>2. GradingTypeOK'
      BY <1>0, <1>a DEF TypeOK, GradingTypeOK, DbSteps
    <3>3. RegistryTypeOK'
      BY <1>0, <1>2 DEF RunnerStops, Stopper, TypeOK, RegistryTypeOK
    <3> QED
      BY <1>0, <1>a, <1>b, <3>1, <3>2, <3>3 DEF TypeOK
  <2>2. HandlerInv' /\ QueueInv' /\ SnapInv'
    BY <1>0, <1>2, <1>a DEF RunnerStops, HandlerInv, QueueInv, Wants, SnapInv
  <2> QED
    BY <2>1, <2>2 DEF TypeInv
<1> QED
  BY <1>1, <1>2

(* The holder's worker thread keeps the types. *)
LEMMA HolderTypes ==
  ASSUME TypeInv, UNCHANGED <<gradingVars, registryVars, engineVars>>,
         HolderStarts \/ HolderServes
  PROVE  TypeInv'
<1>0. TypeOK /\ HandlerInv /\ QueueInv /\ SnapInv
  BY DEF TypeInv
<1> USE WorldAssumption, AttemptsAssumption, CallsAssumption
    DEF worldVars, registryVars, gradingVars, engineVars, Attempts, Cleaners
<1>a. /\ UNCHANGED <<hasHolder, app, fast, stray, g, res, pc, att, calls, failed, late, upset>>
      /\ UNCHANGED <<ctx, art, tools, released, reg, c>>
  OBVIOUS
<1>b. GradingTypeOK' /\ RegistryTypeOK'
  BY <1>0, <1>a DEF TypeOK, GradingTypeOK, RegistryTypeOK, DbSteps
<1>1. CASE HolderStarts
  <2>1. WorldTypeOK'
    BY <1>0, <1>1 DEF HolderStarts, TypeOK, WorldTypeOK
  <2>2. TypeOK'
    BY <1>0, <1>a, <1>b, <2>1 DEF TypeOK
  <2>3. HandlerInv' /\ QueueInv' /\ SnapInv'
    BY <1>0, <1>1, <1>a DEF HolderStarts, HandlerInv, QueueInv, Wants, SnapInv
  <2> QED
    BY <2>2, <2>3 DEF TypeInv
<1>2. CASE HolderServes
  <2> DEFINE e == Head(fifo)
  <2>0. /\ fifo \in Seq(HolderCalls) /\ ArgsIn(fifo) /\ fifo # <<>> /\ Len(fifo) \in Nat
        /\ fifo' = Tail(fifo) /\ busy' = FALSE /\ row' = row
    BY <1>0, <1>2 DEF TypeOK, WorldTypeOK, QueueInv, ArgsIn, HolderServes
  <2>1. /\ fifo' \in Seq(HolderCalls) /\ ArgsIn(fifo')
        /\ e = fifo[1] /\ 1 \in 1..Len(fifo) /\ Len(fifo') = Len(fifo) - 1
        /\ \A i \in 1..Len(fifo') : i + 1 \in 1..Len(fifo) /\ fifo'[i] = fifo[i + 1]
    BY <2>0, ServeQueue
  <2>2. /\ e \in HolderCalls
        /\ e.op # "get" => e.arg \in Worlds
        /\ e.awaited => Len(fifo) = 1 /\ got = None /\ Wants(e.op)
    <3>1. fifo[1] \in HolderCalls
      BY <2>0, <2>1
    <3> QED
      BY <1>0, <2>0, <2>1, <3>1 DEF QueueInv
  <2>3. \/ /\ held # None
           /\ held' = CASE e.op = "get" -> held
                        [] e.op = "reset" -> e.arg
                        [] e.op \in {"tool", "replay"} -> Apply(e.arg, held)
           /\ got' = IF e.awaited THEN (IF e.op = "get" THEN held ELSE "ok") ELSE got
           /\ truth' = IF e.op = "tool" THEN Apply(e.arg, truth) ELSE truth
           /\ resetLost' = resetLost /\ faults' = faults
        \/ /\ faults' = faults \/ Fault("holder_error")
           /\ got' = IF e.awaited THEN "error" ELSE got
           /\ resetLost' = (resetLost \/ e.op = "reset")
           /\ held' = held /\ truth' = truth
    BY <1>2, Zenon DEF HolderServes, Answer
  <2> HIDE DEF e
  <2>t. held \in Worlds \cup {None} /\ truth \in Worlds /\ e.op \in HolderOps
        /\ resetLost \in BOOLEAN /\ faults \in 0..MaxFaults
        /\ got \in Worlds \cup {None, "ok", "error"}
    BY <1>0, <2>2 DEF TypeOK, WorldTypeOK, HolderCalls
  <2>4. held' \in Worlds \cup {None} /\ truth' \in Worlds
    <3>1. held # None /\ e.op # "get" => Apply(e.arg, held) \in Worlds
      BY <2>2, <2>t, ApplyType
    <3>2. e.op = "tool" => Apply(e.arg, truth) \in Worlds
      BY <2>2, <2>t, ApplyType
    <3> QED
      BY <2>2, <2>3, <2>t, <3>1, <3>2 DEF HolderOps
  <2>5. /\ got' = got \/ (e.awaited /\ (got' = "error" \/ (e.op = "get" /\ got' = held /\ held # None)
                                                    \/ (e.op # "get" /\ got' = "ok")))
    BY <2>3
  <2>6. resetLost' \in BOOLEAN
    BY <2>3, <2>t
  <2>7. TypeOK'
    <3>1. got' \in Worlds \cup {None, "ok", "error"} /\ faults' \in 0..MaxFaults
      BY <2>3, <2>5, <2>t DEF Fault
    <3>2. WorldTypeOK'
      BY <1>0, <2>0, <2>1, <2>4, <2>6, <3>1 DEF TypeOK, WorldTypeOK
    <3> QED
      BY <1>0, <1>a, <1>b, <3>2 DEF TypeOK
  <2>8. QueueInv'
    <3>0. g' = g /\ pc' = pc /\ hasHolder' = hasHolder
      BY <1>a
    <3>1. \A i \in 1..Len(fifo') :
            fifo'[i].awaited => i = Len(fifo') /\ got' = None /\ Wants(fifo'[i].op)
      <4> SUFFICES ASSUME NEW i \in 1..Len(fifo'), fifo'[i].awaited
                   PROVE  i = Len(fifo') /\ got' = None /\ Wants(fifo'[i].op)
        OBVIOUS
      <4>1. i + 1 = Len(fifo) /\ got = None /\ Wants(fifo'[i].op)
        BY <1>0, <2>1 DEF QueueInv
      <4>2. ~e.awaited
        BY <2>0, <2>1, <2>2, <4>1
      <4> QED
        <5>1. got' = got
          BY <2>5, <4>2
        <5>2. i = Len(fifo')
          <6>1. Len(fifo') = Len(fifo) - 1 /\ Len(fifo) \in Nat
            BY <2>0, <2>1
          <6>2. i \in Int
            BY <6>1
          <6> QED
            BY <4>1, <6>1, <6>2
        <5> QED
          BY <4>1, <5>1, <5>2
    <3>2. \A op : Wants(op)' <=> Wants(op)
      BY <3>0 DEF Wants
    <3>3. got' # None => \/ pc = "calling"
                         \/ g.waits /\ (g.pc \in {"sync", "sync2"} => got' # "ok")
      <4>1. CASE got' = got
        BY <1>0, <4>1 DEF QueueInv
      <4>2. CASE e.awaited /\ got' = "error"
        BY <2>2, <4>2 DEF Wants
      <4>3. CASE e.awaited /\ e.op = "get" /\ got' = held /\ held # None
        BY <2>2, <2>t, <4>3 DEF Wants, Worlds, Acts
      <4>4. CASE e.awaited /\ e.op # "get" /\ got' = "ok"
        BY <2>2, <4>4 DEF Wants
      <4> QED
        BY <2>5, <4>1, <4>2, <4>3, <4>4
    <3>4. ArgsIn(fifo')
      BY <2>1
    <3> QED
      BY <1>0, <3>0, <3>1, <3>2, <3>3, <3>4 DEF QueueInv, ArgsIn
  <2>9. HandlerInv' /\ SnapInv'
    BY <1>0, <1>a, <2>0 DEF HandlerInv, SnapInv
  <2> QED
    BY <2>7, <2>8, <2>9 DEF TypeInv
<1> QED
  BY <1>1, <1>2

(* The process dies: what it kept is gone. *)
LEMMA GoneTypes ==
  ASSUME TypeInv, RunnerGone
  PROVE  TypeInv'
<1>0. TypeOK /\ HandlerInv /\ QueueInv /\ SnapInv
  BY DEF TypeInv
<1> USE WorldAssumption, AttemptsAssumption, CallsAssumption
    DEF worldVars, registryVars, gradingVars, engineVars, Attempts, Cleaners
<1>1. WorldTypeOK'
  <2>1. /\ row' = row /\ held' = None /\ fifo' = <<>> /\ got' = None
        /\ truth' = truth /\ resetLost' = resetLost
    BY DEF RunnerGone, ProcessGone
  <2>2. busy' \in BOOLEAN /\ ~busy'
    BY Zenon DEF RunnerGone, ProcessGone
  <2>3. faults' \in 0..MaxFaults
    BY <1>0 DEF RunnerGone, Fault, TypeOK, WorldTypeOK
  <2>4. fifo' \in Seq(HolderCalls)
    BY <2>1, EmptySeq
  <2> QED
    BY <1>0, <2>1, <2>2, <2>3, <2>4 DEF TypeOK, WorldTypeOK
<1>2. GradingTypeOK'
  BY <1>0 DEF RunnerGone, TypeOK, GradingTypeOK, DbSteps, Idle
<1>3. RegistryTypeOK'
  <2>1. c' \in [Cleaners -> [pc : {"idle", "look", "lock", "tools", "delete", "forget",
                                  "done", "failed"},
                            saw : Attempts \cup {None}]]
    BY <1>0 DEF RunnerGone, ProcessGone, NoCleanup, TypeOK, RegistryTypeOK
  <2> QED
    BY <1>0, <2>1 DEF RunnerGone, ProcessGone, TypeOK, RegistryTypeOK
<1>4. TypeOK'
  <2>1. /\ UNCHANGED <<hasHolder, app, fast, att, calls, failed>>
        /\ late' = None /\ pc' \in {pc, "agent"}
        /\ upset' \subseteq {"hurried", "stopped", "gone", "late_write", "stray_gold"}
    BY <1>0 DEF RunnerGone, TypeOK
  <2> QED
    BY <1>0, <1>1, <1>2, <1>3, <2>1 DEF TypeOK
<1>5. HandlerInv' /\ QueueInv' /\ SnapInv'
  <2>1. g' = Idle /\ Idle.pc = "idle" /\ ~Idle.waits
    BY DEF RunnerGone, Idle
  <2>2. reg'.pc = "idle"
    BY <1>0 DEF RunnerGone, ProcessGone, TypeOK, RegistryTypeOK
  <2>3. fifo' = <<>> /\ got' = None /\ att' = att
    BY DEF RunnerGone, ProcessGone
  <2>4. pc' = IF pc = "calling" THEN "agent" ELSE pc
    BY DEF RunnerGone
  <2> QED
    BY <1>0, <2>1, <2>2, <2>3, <2>4
       DEF HandlerInv, QueueInv, SnapInv, BehindPre, BehindRes
<1> QED
  BY <1>4, <1>5 DEF TypeInv

-----------------------------------------------------------------------------
(* The two reads.  A step of their coroutine ends it (Over), or takes it to a
   step that needs no snapshot the last one did not have (Moves). *)

ReadSteps == {"idle", "sync", "hreset", "replay", "sync2", "hback", "undo_h",
              "read", "hash", "snap", "reset", "snap2", "ghash", "restore", "hget",
              "diff1", "diff2", "diff3", "diff4", "undo", "undo_get", "undo_db"}

Reads == [pc : ReadSteps, waits : BOOLEAN, call : {None, "capture", "grade"},
          hashed : Worlds \cup {None}, golden : Worlds \cup {None},
          replayFailed : BOOLEAN]

Results == [answer : {None, "ok", "failed"}, captured : Worlds \cup {None},
            verdict : {None, "match", "mismatch", "unscorable"},
            ended : {None, "graded", "undone", "loose"}]

Snapped(r, s) == r # None => /\ s \in BehindPre => r.pre # None
                             /\ s \in BehindRes => r.res # None

Over == g' = Idle /\ res' \in Results

Stays == /\ g' \in Reads /\ g'.pc # "idle" /\ g'.call = g.call
         /\ res' \in Results
         /\ g.call = "capture" => g'.pc \in {"sync", "read"} /\ res'.answer = None

Moves == \/ Over
         \/ /\ Stays /\ ~g'.waits
            /\ g'.pc \in BehindPre => g.pc \in BehindPre
            /\ g'.pc \in BehindRes => g.pc \in BehindRes

(* What the type invariant says of a read under way. *)
LEMMA ReadFacts ==
  ASSUME TypeInv, g.pc # "idle"
  PROVE  /\ g \in Reads /\ res \in Results
         /\ hasHolder \in BOOLEAN /\ fast \in BOOLEAN
         /\ row \in Rows \cup {None} /\ Snapped(row, g.pc)
         /\ got \in Worlds \cup {None, "ok", "error"} /\ faults \in 0..MaxFaults
         /\ fifo \in Seq(HolderCalls) /\ ArgsIn(fifo)
         /\ \A i \in 1..Len(fifo) : fifo[i].awaited => i = Len(fifo)
         /\ pc # "calling"
         /\ g.call = "capture" => g.pc \in {"sync", "read"} /\ res.answer = None
<1>0. TypeOK /\ HandlerInv /\ QueueInv /\ SnapInv
  BY DEF TypeInv
<1>1. g \in Reads /\ res \in Results
  BY <1>0 DEF TypeOK, GradingTypeOK, DbSteps, Reads, Results, ReadSteps
<1>2. /\ hasHolder \in BOOLEAN /\ fast \in BOOLEAN
      /\ row \in Rows \cup {None} /\ Snapped(row, g.pc)
      /\ got \in Worlds \cup {None, "ok", "error"} /\ faults \in 0..MaxFaults
      /\ fifo \in Seq(HolderCalls)
  BY <1>0 DEF TypeOK, GradingTypeOK, WorldTypeOK, SnapInv, Snapped
<1>3. ArgsIn(fifo) /\ \A i \in 1..Len(fifo) : fifo[i].awaited => i = Len(fifo)
  BY <1>0 DEF QueueInv, ArgsIn
<1>4. pc # "calling" /\ (g.call = "capture" => g.pc \in {"sync", "read"} /\ res.answer = None)
  BY <1>0 DEF HandlerInv
<1> QED
  BY <1>1, <1>2, <1>3, <1>4

(* A step of a read keeps the types when the world, the queue and the
   snapshots are in order after it. *)
LEMMA ReadFrame ==
  ASSUME TypeInv, g.pc # "idle",
         UNCHANGED <<registryVars, engineVars>>,
         UNCHANGED <<hasHolder, app, fast>>, stray' \in BOOLEAN,
         Over \/ Stays,
         WorldTypeOK', QueueInv', Snapped(row', g'.pc)
  PROVE  TypeInv'
<1>0. TypeOK /\ HandlerInv
  BY DEF TypeInv
<1>a. /\ UNCHANGED <<pc, att, calls, failed, late, upset>>
      /\ UNCHANGED <<ctx, art, tools, released, reg, c>>
  BY DEF engineVars, registryVars
<1>1. Idle \in Reads /\ Idle.pc = "idle"
  BY DEF Idle, Reads, ReadSteps
<1>2. g' \in Reads /\ res' \in Results
  BY <1>1 DEF Over, Stays
<1>3. GradingTypeOK'
  BY <1>0, <1>2 DEF TypeOK, GradingTypeOK, DbSteps, Reads, Results, ReadSteps
<1>4. RegistryTypeOK'
  BY <1>0, <1>a DEF TypeOK, RegistryTypeOK
<1>5. TypeOK'
  BY <1>0, <1>a, <1>3, <1>4 DEF TypeOK
<1>6. HandlerInv'
  BY <1>0, <1>a, <1>1 DEF HandlerInv, Over, Stays
<1>7. SnapInv'
  BY DEF SnapInv, Snapped
<1> QED
  BY <1>5, <1>6, <1>7 DEF TypeInv

(* The queue after a step that leaves nobody waiting. *)
LEMMA QuietQueue ==
  ASSUME ArgsIn(fifo'), NobodyWaits(fifo'), got' = None, ~g'.waits
  PROVE  QueueInv'
BY DEF QueueInv, ArgsIn, NobodyWaits

(* The queue after a step that hands a call over and waits for it. *)
LEMMA WaitingQueue ==
  ASSUME NEW op, ArgsIn(fifo'), got' = None, Wants(op)',
         \A i \in 1..Len(fifo') : fifo'[i].awaited => i = Len(fifo') /\ fifo'[i].op = op,
         g'.waits => /\ g'.pc \in {"sync", "sync2", "hreset", "replay", "hback", "undo_h"}
                     /\ g'.pc = "replay" => hasHolder'
  PROVE  QueueInv'
BY DEF QueueInv, ArgsIn

(* A coroutine goes to its next request and keeps what it has read. *)
LEMMA GotoIs ==
  ASSUME g \in Reads, res \in Results, NEW s \in ReadSteps, Goto(s)
  PROVE  /\ g' \in Reads /\ g'.pc = s /\ ~g'.waits /\ g'.call = g.call
         /\ res' = res /\ g'.hashed = g.hashed /\ g'.golden = g.golden
BY DEF Goto, Reads

(* A coroutine begins to wait for the holder. *)
LEMMA WaitAtIs ==
  ASSUME g \in Reads, res \in Results, NEW s \in ReadSteps, WaitAt(s)
  PROVE  g' \in Reads /\ g'.pc = s /\ g'.waits /\ g'.call = g.call /\ res' = res
BY DEF WaitAt, Reads

(* A coroutine that ends without a verdict is over. *)
LEMMA EndsIs ==
  ASSUME res \in Results, NEW how \in {"undone", "loose"}, Ends(how)
  PROVE  Over
BY DEF Ends, Results, Over

(* A coroutine that ends with its verdict is over. *)
LEMMA GradedIs ==
  ASSUME res \in Results, Graded
  PROVE  Over
BY DEF Graded, Results, Over

(* An exception leaves the coroutine over, or in one of its undos. *)
LEMMA RaisesIs ==
  ASSUME TypeInv, g.pc # "idle", Raises
  PROVE  Moves
<1>0. /\ g \in Reads /\ res \in Results
      /\ g.call = "capture" => g.pc \in {"sync", "read"} /\ res.answer = None
  BY ReadFacts
<1>1. CASE g.pc \in Protected
  <2>1. Goto("undo") /\ "undo" \in ReadSteps
    BY <1>1 DEF Raises, ReadSteps, Protected
  <2>2. g' \in Reads /\ g'.pc = "undo" /\ ~g'.waits /\ g'.call = g.call /\ res' = res
    BY <1>0, <2>1, GotoIs
  <2>3. g.pc \in BehindPre /\ "undo" \notin BehindRes /\ g.call # "capture"
    BY <1>0, <1>1 DEF Protected, BehindPre, BehindRes
  <2> QED
    BY <1>0, <2>2, <2>3 DEF Moves, Stays
<1>2. CASE g.pc = "diff3"
  <2>1. Goto("undo_db") /\ "undo_db" \in ReadSteps
    BY <1>2 DEF Raises, ReadSteps, Protected
  <2>2. g' \in Reads /\ g'.pc = "undo_db" /\ ~g'.waits /\ g'.call = g.call /\ res' = res
    BY <1>0, <2>1, GotoIs
  <2>3. g.pc \in BehindPre /\ "undo_db" \notin BehindRes /\ g.call # "capture"
    BY <1>0, <1>2 DEF BehindPre, BehindRes
  <2> QED
    BY <1>0, <2>2, <2>3 DEF Moves, Stays
<1>3. CASE g.pc \notin Protected /\ g.pc # "diff3"
  <2>1. Ends("loose")
    BY <1>3 DEF Raises
  <2> QED
    BY <1>0, <2>1, EndsIs DEF Moves
<1> QED
  BY <1>1, <1>2, <1>3

(* A state read back from the row is there. *)
LEMMA ServedIs ==
  ASSUME TypeInv, row # None, g.pc # "idle"
  PROVE  /\ Served(g.pc) \in Rows /\ Served(g.pc).of = row.of
         /\ g.pc # "snap" => Served(g.pc).pre = row.pre
         /\ g.pc = "snap" => Served(g.pc).pre # None
         /\ g.pc # "snap2" => Served(g.pc).res = row.res
         /\ g.pc = "snap2" => Served(g.pc).res # None
<1>0. row \in Rows /\ Snapped(row, g.pc) /\ row.data \in Worlds
  BY ReadFacts DEF Rows
<1>1. "init" \in Worlds /\ Apply("gold", row.data) \in Worlds
  BY <1>0, ApplyType DEF Worlds, Acts
<1>2. g.pc \in {"restore", "diff4", "undo", "undo_db"} => row.pre \in Worlds
  BY <1>0 DEF Snapped, BehindPre, Rows
<1>3. g.pc = "diff2" => row.res \in Worlds
  BY <1>0 DEF Snapped, BehindRes, Rows
<1>4. CASE g.pc = "snap"
  BY <1>0, <1>4, WorldAssumption DEF Served, Rows
<1>5. CASE g.pc = "snap2"
  BY <1>0, <1>5, WorldAssumption DEF Served, Rows
<1>6. CASE g.pc \notin {"snap", "snap2"}
  <2>1. Served(g.pc) = row \/ \E w \in Worlds : Served(g.pc) = [row EXCEPT !.data = w]
    BY <1>1, <1>2, <1>3, <1>6 DEF Served
  <2>2. CASE Served(g.pc) = row
    BY <1>0, <1>6, <2>2
  <2>3. ASSUME NEW w \in Worlds, Served(g.pc) = [row EXCEPT !.data = w]
        PROVE  Served(g.pc) \in Rows /\ SameTrial(row, Served(g.pc))
    BY <1>0, <2>3, RowWritten
  <2> QED
    BY <1>6, <2>1, <2>2, <2>3 DEF SameTrial
<1> QED
  BY <1>4, <1>5, <1>6

(* What a step takes from the holder's answer: the live state on its way into
   the row. *)
LEMMA MirrorIs ==
  ASSUME TypeInv, g.waits, g.pc \in {"sync", "sync2"}, got # None, got # "error", Mirror
  PROVE  /\ Moves
         /\ row' = row \/ (row' \in Rows /\ SameTrial(row, row'))
         /\ faults' \in 0..MaxFaults
<1>0. g.pc # "idle"
  OBVIOUS
<1>1. /\ g \in Reads /\ res \in Results /\ row \in Rows \cup {None}
      /\ got \in Worlds \cup {None, "ok", "error"} /\ faults \in 0..MaxFaults
      /\ g.call = "capture" => g.pc \in {"sync", "read"} /\ res.answer = None
  BY <1>0, ReadFacts
<1>2. got \in Worlds
  BY <1>1 DEF TypeInv, QueueInv, HandlerInv
<1>3. ASSUME NEW w \in Worlds \cup {"half"}, row # None, row' = [row EXCEPT !.data = w]
      PROVE  row' \in Rows /\ SameTrial(row, row')
  <2>1. w \in Worlds
    BY DEF Worlds
  <2> QED
    BY <1>1, <1>3, <2>1, RowWritten
<1>4. CASE /\ row # None /\ row' = [row EXCEPT !.data = got] /\ UNCHANGED faults
           /\ IF g.pc = "sync" /\ res.answer # None
              THEN Ends("loose") ELSE Goto(StepAfter(g.pc))
  <2>1. CASE g.pc = "sync" /\ res.answer # None
    <3>1. Over
      BY <1>1, <1>4, <2>1, EndsIs
    <3> QED
      BY <1>1, <1>2, <1>3, <1>4, <3>1 DEF Moves
  <2>2. CASE ~(g.pc = "sync" /\ res.answer # None)
    <3>1. Goto(StepAfter(g.pc))
      BY <1>4, <2>2
    <3>2. /\ g.pc = "sync" => StepAfter(g.pc) = IF g.call = "capture" THEN "read" ELSE "hash"
          /\ g.pc = "sync2" => StepAfter(g.pc) = "snap2"
      BY DEF StepAfter
    <3>3. StepAfter(g.pc) \in ReadSteps
      BY <3>2 DEF ReadSteps
    <3>4. g' \in Reads /\ g'.pc = StepAfter(g.pc) /\ ~g'.waits /\ g'.call = g.call /\ res' = res
      BY <1>1, <3>1, <3>3, GotoIs
    <3>5. Moves
      BY <1>1, <3>2, <3>4 DEF Moves, Stays, BehindPre, BehindRes
    <3> QED
      BY <1>1, <1>2, <1>3, <1>4, <3>5
  <2> QED
    BY <2>1, <2>2
<1>5. CASE row = None /\ UNCHANGED <<row, faults>> /\ Raises
  BY <1>0, <1>1, <1>5, RaisesIs
<1>6. CASE /\ row # None /\ Fault("db_error")
           /\ \E w \in {row.data, got} \cup (IF row.data = got THEN {} ELSE {"half"}) :
                row' = [row EXCEPT !.data = w]
           /\ Raises
  <2>1. PICK w \in {row.data, got} \cup {"half"} : row' = [row EXCEPT !.data = w]
    BY <1>6
  <2>2. w \in Worlds \cup {"half"}
    BY <1>1, <1>2, <1>6, <2>1 DEF Rows
  <2>3. row' \in Rows /\ SameTrial(row, row')
    BY <1>3, <1>6, <2>1, <2>2
  <2>4. faults' \in 0..MaxFaults
    BY <1>1, <1>6, WorldAssumption DEF Fault
  <2> QED
    BY <1>0, <1>6, <2>3, <2>4, RaisesIs
<1> QED
  BY <1>4, <1>5, <1>6 DEF Mirror

(* The steps of the reads that wait for the holder keep the types. *)
LEMMA HolderReadTypes ==
  ASSUME TypeInv, UNCHANGED <<registryVars, engineVars>>,
         HandOver \/ HolderAnswers \/ HolderTooSlow
  PROVE  TypeInv'
<1> USE WorldAssumption
<1>0. g.pc # "idle" /\ UNCHANGED <<hasHolder, app, fast>> /\ stray' \in BOOLEAN
  <2>1. UNCHANGED <<hasHolder, app, fast>> /\ stray' \in BOOLEAN
    <3>1. UNCHANGED <<hasHolder, app, fast, stray>>
      BY DEF HandOver, HolderAnswers, HolderTooSlow
    <3> QED
      BY <3>1 DEF TypeInv, TypeOK, GradingTypeOK
  <2>2. g.waits \/ g.pc \in {"sync", "sync2", "hreset", "replay"}
    BY DEF HandOver, HolderAnswers, HolderTooSlow
  <2>3. g.pc = "idle" => g = Idle /\ ~Idle.waits
    BY DEF TypeInv, HandlerInv, Idle
  <2> QED
    BY <2>1, <2>2, <2>3
<1>1. /\ g \in Reads /\ res \in Results
      /\ hasHolder \in BOOLEAN /\ fast \in BOOLEAN
      /\ row \in Rows \cup {None} /\ Snapped(row, g.pc)
      /\ got \in Worlds \cup {None, "ok", "error"} /\ faults \in 0..MaxFaults
      /\ fifo \in Seq(HolderCalls) /\ ArgsIn(fifo)
      /\ \A i \in 1..Len(fifo) : fifo[i].awaited => i = Len(fifo)
      /\ pc # "calling"
      /\ g.call = "capture" => g.pc \in {"sync", "read"} /\ res.answer = None
  BY <1>0, ReadFacts
<1>2. /\ WorldTypeOK
      /\ busy \in BOOLEAN /\ (busy => fifo # <<>>)
  BY DEF TypeInv, TypeOK, WorldTypeOK
<1>a. pc' = pc /\ ReadSteps # {}
  BY DEF engineVars, ReadSteps
<1>3. CASE HandOver
  <2>0. /\ ~g.waits /\ WaitAt(g.pc)
        /\ UNCHANGED <<row, held, busy, got, truth, resetLost, faults>>
    BY <1>3 DEF HandOver
  <2>1. g' \in Reads /\ g'.pc = g.pc /\ g'.waits /\ g'.call = g.call /\ res' = res
    BY <1>1, <2>0, WaitAtIs DEF Reads
  <2>2. NobodyWaits(fifo) /\ got = None
    BY <1>1, <2>0, Unattended
  <2>3. \E op \in HolderOps, arg \in Worlds \cup {None} :
          /\ Hand(op, arg) /\ (op # "get" => arg \in Worlds)
          /\ \/ g.pc \in {"sync", "sync2"} /\ op = "get"
             \/ g.pc = "hreset" /\ op = "reset"
             \/ g.pc = "replay" /\ hasHolder /\ op = "replay"
    <3>1. CASE g.pc \in {"sync", "sync2"} /\ Hand("get", None)
      <4>1. "get" \in HolderOps
        BY DEF HolderOps
      <4> QED
        BY <3>1, <4>1
    <3>2. CASE g.pc = "hreset" /\ Hand("reset", "init")
      <4>1. "reset" \in HolderOps /\ "init" \in Worlds
        BY DEF HolderOps, Worlds
      <4> QED
        BY <3>2, <4>1
    <3>3. CASE g.pc = "replay" /\ hasHolder /\ Hand("replay", "gold")
      <4>1. "replay" \in HolderOps /\ "gold" \in Worlds
        BY DEF HolderOps, Worlds, Acts
      <4> QED
        BY <3>3, <4>1
    <3> QED
      BY <1>3, <3>1, <3>2, <3>3 DEF HandOver
  <2>4. PICK op \in HolderOps, arg \in Worlds \cup {None} :
          /\ Hand(op, arg) /\ (op # "get" => arg \in Worlds)
          /\ \/ g.pc \in {"sync", "sync2"} /\ op = "get"
             \/ g.pc = "hreset" /\ op = "reset"
             \/ g.pc = "replay" /\ hasHolder /\ op = "replay"
    BY <2>3
  <2>5. /\ fifo' \in Seq(HolderCalls) /\ fifo' # <<>> /\ ArgsIn(fifo')
        /\ \A i \in 1..Len(fifo') : fifo'[i].awaited => i = Len(fifo') /\ fifo'[i].op = op
    BY <1>1, <2>2, <2>4, HandQueue
  <2>6. Wants(op)'
    BY <2>1, <2>4 DEF Wants
  <2>7. g'.pc \in {"sync", "sync2", "hreset", "replay"} /\ (g'.pc = "replay" => hasHolder')
    BY <1>0, <2>1, <2>4
  <2>8. QueueInv'
    BY <2>0, <2>2, <2>5, <2>6, <2>7, WaitingQueue
  <2>9. WorldTypeOK'
    BY <1>2, <2>0, <2>5 DEF WorldTypeOK
  <2>10. Stays /\ Snapped(row', g'.pc)
    BY <1>0, <1>1, <2>0, <2>1 DEF Stays
  <2> QED
    BY <1>0, <2>8, <2>9, <2>10, ReadFrame
<1>4. CASE HolderAnswers
  <2>0. /\ g.waits /\ got # None /\ got' = None
        /\ UNCHANGED <<held, fifo, busy, truth, resetLost>>
    BY <1>4 DEF HolderAnswers
  <2>1. NobodyWaits(fifo)
    BY <2>0, Answered
  <2>2. Moves /\ (row' = row \/ (row' \in Rows /\ SameTrial(row, row')))
        /\ faults' \in 0..MaxFaults
    <3>1. CASE g.pc \in {"sync", "sync2"} /\ got # "error" /\ Mirror
      BY <2>0, <3>1, MirrorIs
    <3>2. CASE /\ g.pc = "replay"
               /\ g' = [g EXCEPT !.pc = "sync2", !.waits = FALSE,
                                 !.replayFailed = (got = "error")]
               /\ UNCHANGED <<row, faults, res>>
      <4>1. g' \in Reads /\ g'.pc = "sync2" /\ ~g'.waits /\ g'.call = g.call
        BY <1>1, <3>2 DEF Reads, ReadSteps
      <4> QED
        BY <1>1, <3>2, <4>1 DEF Moves, Stays, BehindPre, BehindRes
    <3>3. CASE g.pc # "replay" /\ got = "error" /\ Raises /\ UNCHANGED <<row, faults>>
      BY <1>0, <1>1, <3>3, RaisesIs
    <3>4. CASE /\ g.pc \in {"hreset", "hback", "undo_h"}
               /\ CASE g.pc = "hreset" -> Goto("replay")
                    [] g.pc = "hback" -> Compare
                    [] g.pc = "undo_h" -> Ends("undone")
               /\ UNCHANGED <<row, faults>>
      <4>1. CASE g.pc = "hreset"
        <5>1. Goto("replay") /\ "replay" \in ReadSteps
          BY <3>4, <4>1 DEF ReadSteps
        <5>2. g' \in Reads /\ g'.pc = "replay" /\ ~g'.waits /\ g'.call = g.call /\ res' = res
          BY <1>1, <5>1, GotoIs
        <5> QED
          BY <1>1, <3>4, <4>1, <5>2 DEF Moves, Stays, BehindPre, BehindRes
      <4>2. CASE g.pc = "hback"
        <5>1. Compare
          BY <3>4, <4>2
        <5>2. CASE Graded
          BY <1>1, <3>4, <5>2, GradedIs DEF Moves
        <5>3. CASE Goto("diff1")
          <6>1. g' \in Reads /\ g'.pc = "diff1" /\ ~g'.waits /\ g'.call = g.call /\ res' = res
            BY <1>1, <5>3, GotoIs DEF ReadSteps
          <6> QED
            BY <1>1, <3>4, <4>2, <6>1 DEF Moves, Stays, BehindPre, BehindRes
        <5> QED
          BY <5>1, <5>2, <5>3 DEF Compare
      <4>3. CASE g.pc = "undo_h"
        <5>1. Ends("undone")
          BY <3>4, <4>3
        <5> QED
          BY <1>1, <3>4, <5>1, EndsIs DEF Moves
      <4> QED
        BY <3>4, <4>1, <4>2, <4>3
    <3> QED
      BY <1>4, <3>1, <3>2, <3>3, <3>4 DEF HolderAnswers
  <2>3. ~g'.waits /\ (Over \/ Stays) /\ Snapped(row', g'.pc)
    <3>1. CASE Over
      BY <3>1 DEF Over, Idle, Snapped, BehindPre, BehindRes
    <3>2. CASE ~Over
      BY <1>1, <2>2, <3>2 DEF Moves, Snapped, SameTrial
    <3> QED
      BY <3>1, <3>2
  <2>4. QueueInv'
    <3>1. ArgsIn(fifo') /\ NobodyWaits(fifo')
      BY <1>1, <2>0, <2>1
    <3> QED
      BY <2>0, <2>3, <3>1, QuietQueue
  <2>5. WorldTypeOK'
    BY <1>1, <1>2, <2>0, <2>2 DEF WorldTypeOK
  <2> QED
    BY <1>0, <2>3, <2>4, <2>5, ReadFrame
<1>5. CASE HolderTooSlow
  <2>0. /\ g.waits /\ got = None /\ got' = None /\ Fault("holder_slow")
        /\ UNCHANGED <<row, held, busy, truth, resetLost>>
    BY <1>5 DEF HolderTooSlow
  <2>1. Moves /\ fifo' \in Seq(HolderCalls) /\ ArgsIn(fifo') /\ NobodyWaits(fifo')
        /\ (busy => fifo' # <<>>)
    <3>1. CASE Abandon /\ Raises
      BY <1>0, <1>1, <1>2, <3>1, AbandonQueue, RaisesIs
    <3>2. CASE StopWaiting /\ Ends("undone")
      <4>1. Moves
        BY <1>1, <3>2, EndsIs DEF Moves
      <4>2. /\ fifo' \in Seq(HolderCalls) /\ ArgsIn(fifo') /\ NobodyWaits(fifo')
            /\ Len(fifo') = Len(fifo)
        BY <1>1, <3>2, StopWaitingQueue
      <4>3. busy => fifo' # <<>>
        BY <1>1, <1>2, <4>2
      <4> QED
        BY <4>1, <4>2, <4>3
    <3> QED
      BY <1>5, <3>1, <3>2 DEF HolderTooSlow
  <2>2. ~g'.waits /\ (Over \/ Stays) /\ Snapped(row', g'.pc)
    <3>1. CASE Over
      BY <3>1 DEF Over, Idle, Snapped, BehindPre, BehindRes
    <3>2. CASE ~Over
      BY <1>1, <2>0, <2>1, <3>2 DEF Moves, Snapped
    <3> QED
      BY <3>1, <3>2
  <2>3. QueueInv'
    BY <2>0, <2>1, <2>2, QuietQueue
  <2>4. WorldTypeOK'
    <3>1. faults' \in 0..MaxFaults
      BY <1>1, <2>0 DEF Fault
    <3> QED
      BY <1>2, <2>0, <2>1, <3>1 DEF WorldTypeOK
  <2> QED
    BY <1>0, <2>2, <2>3, <2>4, ReadFrame
<1> QED
  BY <1>3, <1>4, <1>5

(* The replay on an app world keeps the types. *)
LEMMA AppReplayTypes ==
  ASSUME TypeInv, UNCHANGED <<registryVars, engineVars>>, ReplayApp
  PROVE  TypeInv'
<1>0. g.pc # "idle" /\ g.pc = "replay"
  BY DEF ReplayApp
<1>1. /\ g \in Reads /\ res \in Results
      /\ row \in Rows \cup {None} /\ Snapped(row, g.pc)
      /\ fifo \in Seq(HolderCalls) /\ ArgsIn(fifo)
      /\ pc # "calling"
      /\ g.call = "capture" => g.pc \in {"sync", "read"} /\ res.answer = None
  BY <1>0, ReadFacts
<1>2. /\ UNCHANGED <<row, fifo, busy, got, truth, resetLost, hasHolder, app, fast, res>>
      /\ stray' \in BOOLEAN /\ pc' = pc
  <2>1. UNCHANGED <<row, fifo, busy, got, truth, resetLost, hasHolder, app, fast, stray, res>>
    BY DEF ReplayApp
  <2>2. stray \in BOOLEAN
    BY DEF TypeInv, TypeOK, GradingTypeOK
  <2> QED
    BY <2>1, <2>2 DEF engineVars
<1>3. /\ g' \in Reads /\ g'.pc = "sync2" /\ g'.waits = g.waits /\ g'.call = g.call
  <2>1. TRUE \in BOOLEAN
    OBVIOUS
  <2>2. \/ g' = [g EXCEPT !.pc = "sync2"]
        \/ g' = [g EXCEPT !.pc = "sync2", !.replayFailed = TRUE]
    BY DEF ReplayApp, AppRequest
  <2> QED
    BY <1>1, <2>1, <2>2 DEF Reads, ReadSteps
<1>4. WorldTypeOK'
  <2>1. held' = held \/ (held # None /\ held' = Apply("gold", held))
    BY DEF ReplayApp, AppRequest
  <2>2. held \in Worlds \cup {None} /\ "gold" \in Worlds /\ WorldTypeOK
    BY DEF TypeInv, TypeOK, WorldTypeOK, Worlds, Acts
  <2>3. held' \in Worlds \cup {None}
    BY <2>1, <2>2, ApplyType
  <2>4. faults' \in 0..MaxFaults
    BY <2>2, WorldAssumption DEF ReplayApp, AppRequest, Fault, WorldTypeOK
  <2> QED
    BY <1>2, <2>2, <2>3, <2>4 DEF WorldTypeOK
<1>5. ~g'.waits /\ NobodyWaits(fifo') /\ got' = None
  <2>1. ~g.waits
    BY DEF ReplayApp
  <2> QED
    BY <1>1, <1>2, <1>3, <2>1, Unattended
<1>6. QueueInv'
  BY <1>1, <1>2, <1>5, QuietQueue
<1>7. Stays /\ Snapped(row', g'.pc)
  BY <1>0, <1>1, <1>2, <1>3 DEF Stays, Snapped, BehindPre, BehindRes
<1> QED
  BY <1>0, <1>2, <1>4, <1>6, <1>7, ReadFrame

(* What the answer of the db-service takes the coroutine to. *)
LEMMA DbAnswersIs ==
  ASSUME TypeInv, g.pc \in DbSteps, row # None, DbAnswers
  PROVE  \/ Over /\ fifo' = fifo
         \/ /\ Stays /\ ~g'.waits /\ fifo' = fifo
            /\ g'.pc \in BehindPre => g.pc \in BehindPre \cup {"snap"}
            /\ g'.pc \in BehindRes => g.pc \in BehindRes \cup {"snap2"}
         \/ /\ Stays /\ g'.waits /\ Hand("reset", row.data) /\ res' = res
            /\ (g.pc = "hget" /\ g'.pc = "hback") \/ (g.pc = "undo_get" /\ g'.pc = "undo_h")
<1>0. g.pc # "idle" /\ g.pc \in ReadSteps
  BY DEF DbSteps, ReadSteps
<1>1. /\ g \in Reads /\ res \in Results /\ row \in Rows /\ row.data \in Worlds
      /\ hasHolder \in BOOLEAN
      /\ g.call = "capture" => g.pc \in {"sync", "read"} /\ res.answer = None
  BY <1>0, ReadFacts DEF Rows
<1>w. ~g.waits
  BY DEF TypeInv, QueueInv, DbSteps
<1>2. ASSUME NEW s \in ReadSteps \ {"idle"}, Goto(s), g.pc # "read", fifo' = fifo,
             s \in BehindPre => g.pc \in BehindPre \cup {"snap"},
             s \in BehindRes => g.pc \in BehindRes \cup {"snap2"}
      PROVE  /\ Stays /\ ~g'.waits /\ fifo' = fifo
             /\ g'.pc \in BehindPre => g.pc \in BehindPre \cup {"snap"}
             /\ g'.pc \in BehindRes => g.pc \in BehindRes \cup {"snap2"}
  <2>1. g' \in Reads /\ g'.pc = s /\ ~g'.waits /\ g'.call = g.call /\ res' = res
    BY <1>1, <1>2, GotoIs
  <2>2. g.call # "capture"
    BY <1>1, <1>2 DEF DbSteps
  <2> QED
    BY <1>1, <1>2, <2>1, <2>2 DEF Stays
<1>3. CASE g.pc = "read"
  <2>1. Captured(row.data) /\ fifo' = fifo
    BY <1>3 DEF DbAnswers
  <2> QED
    BY <1>1, <2>1 DEF Captured, Over, Results
<1>4. CASE g.pc \in {"hash", "ghash"}
  <2>a. g.pc = "hash" => /\ g' = [g EXCEPT !.pc = "snap", !.hashed = row.data]
                          /\ fifo' = fifo /\ res' = res
    BY DEF DbAnswers
  <2>b. g.pc = "ghash" => /\ g' = [g EXCEPT !.pc = "restore", !.golden = row.data]
                           /\ fifo' = fifo /\ res' = res
    BY DEF DbAnswers
  <2>1. fifo' = fifo /\ res' = res
    BY <1>4, <2>a, <2>b
  <2>2. /\ g' \in Reads /\ g'.call = g.call /\ ~g'.waits
        /\ g'.pc = "snap" \/ (g'.pc = "restore" /\ g.pc = "ghash")
    BY <1>1, <1>4, <1>w, <2>a, <2>b DEF Reads, ReadSteps
  <2>3. g.call # "capture"
    BY <1>1, <1>4
  <2> QED
    BY <1>1, <2>1, <2>2, <2>3 DEF Stays, BehindPre, BehindRes
<1>5. CASE g.pc = "restore"
  <2>1. (IF hasHolder THEN Goto("hget") ELSE Compare) /\ fifo' = fifo
    BY <1>5 DEF DbAnswers
  <2>2. Goto("hget") \/ Goto("diff1") \/ Graded
    BY <2>1 DEF Compare
  <2>3. {"hget", "diff1"} \subseteq ReadSteps \ {"idle"} /\ "restore" \in BehindPre \cap BehindRes
    BY DEF ReadSteps, BehindPre, BehindRes
  <2> QED
    BY <1>1, <1>2, <1>5, <2>1, <2>2, <2>3, GradedIs
<1>6. CASE g.pc \in {"hget", "undo_get"}
  <2>1. \E s \in {"hback", "undo_h"} :
          /\ Hand("reset", row.data) /\ WaitAt(s)
          /\ (g.pc = "hget" /\ s = "hback") \/ (g.pc = "undo_get" /\ s = "undo_h")
    <3>1. g.pc = "hget" => Hand("reset", row.data) /\ WaitAt("hback")
      BY DEF DbAnswers
    <3>2. g.pc = "undo_get" => Hand("reset", row.data) /\ WaitAt("undo_h")
      BY DEF DbAnswers
    <3> QED
      BY <1>6, <3>1, <3>2
  <2>2. PICK s \in {"hback", "undo_h"} :
          /\ Hand("reset", row.data) /\ WaitAt(s)
          /\ (g.pc = "hget" /\ s = "hback") \/ (g.pc = "undo_get" /\ s = "undo_h")
    BY <2>1
  <2>3. g' \in Reads /\ g'.pc = s /\ g'.waits /\ g'.call = g.call /\ res' = res
    BY <1>1, <2>2, WaitAtIs DEF ReadSteps
  <2> QED
    BY <1>1, <1>6, <2>2, <2>3 DEF Stays
<1>7. CASE g.pc \in {"diff4", "undo", "undo_db"}
  <2>1. (Graded \/ Ends("undone") \/ (g.pc = "undo" /\ Goto("undo_get"))) /\ fifo' = fifo
    BY <1>7 DEF DbAnswers, UndoHolder
  <2>2. /\ "undo_get" \in ReadSteps \ {"idle"} /\ "undo_get" \notin BehindRes
        /\ "undo" \in BehindPre
    BY DEF ReadSteps, BehindPre, BehindRes
  <2> QED
    BY <1>1, <1>2, <2>1, <2>2, GradedIs, EndsIs
<1>8. CASE g.pc \in {"snap", "reset", "snap2", "diff1", "diff2", "diff3", "replay"}
  <2>1. Goto(StepAfter(g.pc)) /\ fifo' = fifo
    BY <1>8 DEF DbAnswers
  <2>2. /\ g.pc = "snap" => StepAfter(g.pc) = "reset"
        /\ g.pc = "reset" => StepAfter(g.pc) \in {"hreset", "replay"}
        /\ g.pc = "snap2" => StepAfter(g.pc) = "ghash"
        /\ g.pc = "diff1" => StepAfter(g.pc) = "diff2"
        /\ g.pc = "diff2" => StepAfter(g.pc) = "diff3"
        /\ g.pc = "diff3" => StepAfter(g.pc) = "diff4"
        /\ g.pc = "replay" => StepAfter(g.pc) \in {"sync2", "snap2"}
    BY DEF StepAfter
  <2>3. /\ StepAfter(g.pc) \in ReadSteps \ {"idle"}
        /\ StepAfter(g.pc) \in BehindPre => g.pc \in BehindPre \cup {"snap"}
        /\ StepAfter(g.pc) \in BehindRes => g.pc \in BehindRes \cup {"snap2"}
    BY <1>8, <2>2 DEF ReadSteps, BehindPre, BehindRes
  <2>4. ASSUME NEW s, s = StepAfter(g.pc)
        PROVE  /\ Stays /\ ~g'.waits /\ fifo' = fifo
               /\ g'.pc \in BehindPre => g.pc \in BehindPre \cup {"snap"}
               /\ g'.pc \in BehindRes => g.pc \in BehindRes \cup {"snap2"}
    BY <1>2, <1>8, <2>1, <2>3, <2>4
  <2> QED
    BY <2>4
<1> QED
  BY <1>3, <1>4, <1>5, <1>6, <1>7, <1>8 DEF DbSteps

(* A request to the db-service keeps the types. *)
LEMMA RequestTypes ==
  ASSUME TypeInv, UNCHANGED <<registryVars, engineVars>>, DbRequest
  PROVE  TypeInv'
<1> USE WorldAssumption
<1>0. g.pc # "idle" /\ g.pc \in DbSteps
  BY DEF DbRequest, DbSteps
<1>1. /\ g \in Reads /\ res \in Results
      /\ row \in Rows \cup {None} /\ Snapped(row, g.pc)
      /\ faults \in 0..MaxFaults
      /\ fifo \in Seq(HolderCalls) /\ ArgsIn(fifo)
      /\ pc # "calling"
      /\ g.call = "capture" => g.pc \in {"sync", "read"} /\ res.answer = None
  BY <1>0, ReadFacts
<1>2. WorldTypeOK
  BY DEF TypeInv, TypeOK
<1>w. ~g.waits /\ NobodyWaits(fifo) /\ got = None
  <2>1. ~g.waits
    BY <1>0 DEF TypeInv, QueueInv, DbSteps
  <2> QED
    BY <1>1, <2>1, Unattended
<1>u. UNCHANGED <<held, busy, got, truth, resetLost, hasHolder, app, fast>> /\ stray' \in BOOLEAN
  <2>1. UNCHANGED <<held, busy, got, truth, resetLost, hasHolder, app, fast, stray>>
    BY DEF DbRequest
  <2> QED
    BY <2>1 DEF TypeInv, TypeOK, GradingTypeOK
<1>f. faults' \in 0..MaxFaults
  BY <1>1 DEF DbRequest, Request, Fault
<1>r. /\ row' \in Rows \cup {None}
      /\ row' # None =>
           /\ row # None
           /\ row'.pre = row.pre \/ row'.pre # None
           /\ row'.res = row.res \/ row'.res # None
  <2>1. row' = row \/ (row # None /\ row' = Served(g.pc))
    BY DEF DbRequest, Request
  <2> QED
    BY <1>0, <1>1, <2>1, ServedIs
<1>3. CASE /\ fifo' = fifo
           /\ IF g.pc = "replay"
              THEN /\ g' = [g EXCEPT !.pc = "snap2", !.replayFailed = TRUE]
                   /\ UNCHANGED res
              ELSE Raises
  <2>1. Moves
    <3>1. CASE g.pc = "replay"
      <4>1. g' \in Reads /\ g'.pc = "snap2" /\ ~g'.waits /\ g'.call = g.call /\ res' = res
        <5>1. /\ g' = [g EXCEPT !.pc = "snap2", !.replayFailed = TRUE] /\ res' = res
              /\ TRUE \in BOOLEAN
          BY <1>3, <3>1, Zenon
        <5> QED
          BY <1>1, <1>w, <5>1 DEF Reads, ReadSteps
      <4> QED
        BY <1>1, <3>1, <4>1 DEF Moves, Stays, BehindPre, BehindRes
    <3>2. CASE g.pc # "replay"
      BY <1>0, <1>3, <3>2, RaisesIs
    <3> QED
      BY <3>1, <3>2
  <2>2. ~g'.waits /\ (Over \/ Stays) /\ Snapped(row', g'.pc)
    <3>1. CASE Over
      BY <3>1 DEF Over, Idle, Snapped, BehindPre, BehindRes
    <3>2. CASE ~Over
      BY <1>1, <1>r, <2>1, <3>2 DEF Moves, Snapped
    <3> QED
      BY <3>1, <3>2
  <2>3. QueueInv'
    BY <1>1, <1>3, <1>w, <1>u, <2>2, QuietQueue
  <2>4. WorldTypeOK'
    BY <1>2, <1>3, <1>f, <1>r, <1>u DEF WorldTypeOK
  <2> QED
    BY <1>0, <1>u, <2>2, <2>3, <2>4, ReadFrame
<1>4. CASE row # None /\ row' = Served(g.pc) /\ DbAnswers
  <2>0. /\ Served(g.pc) \in Rows
        /\ g.pc # "snap" => Served(g.pc).pre = row.pre
        /\ g.pc = "snap" => Served(g.pc).pre # None
        /\ g.pc # "snap2" => Served(g.pc).res = row.res
        /\ g.pc = "snap2" => Served(g.pc).res # None
    BY <1>0, <1>4, ServedIs
  <2>1. CASE Over /\ fifo' = fifo
    <3>1. ~g'.waits /\ Snapped(row', g'.pc)
      BY <2>1 DEF Over, Idle, Snapped, BehindPre, BehindRes
    <3>2. QueueInv'
      BY <1>1, <1>w, <1>u, <2>1, <3>1, QuietQueue
    <3>3. WorldTypeOK'
      BY <1>2, <1>f, <1>r, <1>u, <2>1 DEF WorldTypeOK
    <3> QED
      BY <1>0, <1>u, <2>1, <3>1, <3>2, <3>3, ReadFrame
  <2>2. CASE /\ Stays /\ ~g'.waits /\ fifo' = fifo
             /\ g'.pc \in BehindPre => g.pc \in BehindPre \cup {"snap"}
             /\ g'.pc \in BehindRes => g.pc \in BehindRes \cup {"snap2"}
    <3>1. Snapped(row', g'.pc)
      BY <1>1, <1>4, <2>0, <2>2 DEF Snapped
    <3>2. QueueInv'
      BY <1>1, <1>w, <1>u, <2>2, QuietQueue
    <3>3. WorldTypeOK'
      BY <1>2, <1>f, <1>r, <1>u, <2>2 DEF WorldTypeOK
    <3> QED
      BY <1>0, <1>u, <2>2, <3>1, <3>2, <3>3, ReadFrame
  <2>3. CASE /\ Stays /\ g'.waits /\ Hand("reset", row.data) /\ res' = res
             /\ (g.pc = "hget" /\ g'.pc = "hback") \/ (g.pc = "undo_get" /\ g'.pc = "undo_h")
    <3>0. row.data \in Worlds /\ "reset" \in HolderOps
      BY <1>1, <1>4 DEF Rows, HolderOps
    <3>1. /\ fifo' \in Seq(HolderCalls) /\ fifo' # <<>> /\ ArgsIn(fifo')
          /\ \A i \in 1..Len(fifo') :
               fifo'[i].awaited => i = Len(fifo') /\ fifo'[i].op = "reset"
      BY <1>1, <1>w, <2>3, <3>0, HandQueue
    <3>2. Snapped(row', g'.pc)
      BY <1>1, <1>4, <2>0, <2>3 DEF Snapped, BehindPre, BehindRes
    <3>3. Wants("reset")'
      BY <2>3 DEF Wants
    <3>4. g'.pc \in {"hback", "undo_h"} /\ got' = None
      BY <1>w, <1>u, <2>3
    <3>5. QueueInv'
      BY <3>1, <3>3, <3>4, WaitingQueue
    <3>6. WorldTypeOK'
      BY <1>2, <1>f, <1>r, <1>u, <3>1 DEF WorldTypeOK
    <3> QED
      BY <1>0, <1>u, <2>3, <3>2, <3>5, <3>6, ReadFrame
  <2> QED
    BY <1>0, <1>4, <2>1, <2>2, <2>3, DbAnswersIs
<1> QED
  BY <1>3, <1>4 DEF DbRequest, Request

(* The budget of a handler keeps the types. *)
LEMMA BudgetTypes ==
  ASSUME TypeInv, UNCHANGED <<registryVars, engineVars>>, BudgetElapses
  PROVE  TypeInv'
<1> USE WorldAssumption
<1>0. g.pc # "idle" /\ res.answer = None /\ Fault("budget")
      /\ UNCHANGED <<held, busy, truth, resetLost, hasHolder, app, fast>>
      /\ stray' \in BOOLEAN
  <2>1. g.pc # "idle" /\ res.answer = None /\ Fault("budget")
        /\ UNCHANGED <<held, busy, truth, resetLost, hasHolder, app, fast>>
    BY DEF BudgetElapses
  <2>2. stray' = stray \/ stray' = TRUE
    BY DEF BudgetElapses
  <2>3. stray' \in BOOLEAN
    BY <2>2 DEF TypeInv, TypeOK, GradingTypeOK
  <2> QED
    BY <2>1, <2>3
<1>1. /\ g \in Reads /\ res \in Results
      /\ row \in Rows \cup {None} /\ Snapped(row, g.pc)
      /\ faults \in 0..MaxFaults
      /\ fifo \in Seq(HolderCalls) /\ ArgsIn(fifo)
      /\ \A i \in 1..Len(fifo) : fifo[i].awaited => i = Len(fifo)
      /\ pc # "calling"
      /\ g.call = "capture" => g.pc \in {"sync", "read"} /\ res.answer = None
  BY <1>0, ReadFacts
<1>2. WorldTypeOK /\ busy \in BOOLEAN /\ (busy => fifo # <<>>)
  BY DEF TypeInv, TypeOK, WorldTypeOK
<1>f. faults' \in 0..MaxFaults
  BY <1>0, <1>1 DEF Fault
<1>3. CASE /\ g.call = "grade" /\ g.pc = "sync"
           /\ res' = [res EXCEPT !.answer = "failed"]
           /\ UNCHANGED <<row, fifo, got, g>>
  <2>1. Stays /\ Snapped(row', g'.pc)
    BY <1>0, <1>1, <1>3 DEF Stays, Results
  <2>2. QueueInv'
    BY <1>0, <1>3 DEF TypeInv, QueueInv, Wants, engineVars
  <2>3. WorldTypeOK'
    BY <1>0, <1>2, <1>3, <1>f DEF WorldTypeOK
  <2> QED
    BY <1>0, <2>1, <2>2, <2>3, ReadFrame
<1>4. CASE /\ row' \in {row, IF g.pc \in DbSteps THEN Served(g.pc) ELSE row}
           /\ IF g.pc = "undo_h" THEN StopWaiting ELSE Abandon
           /\ got' = None
           /\ CASE g.pc \in Protected \cup {"diff3"} ->
                     /\ g' = [g EXCEPT !.waits = FALSE,
                           !.pc = IF g.pc = "diff3" THEN "undo_db" ELSE "undo"]
                     /\ res' = [res EXCEPT !.answer = "failed"]
                [] g.pc = "undo_h" -> Ends("undone")
                [] OTHER -> Ends("loose")
  <2>1. /\ fifo' \in Seq(HolderCalls) /\ ArgsIn(fifo') /\ NobodyWaits(fifo')
        /\ busy => fifo' # <<>>
    <3>1. CASE Abandon
      BY <1>1, <1>2, <3>1, AbandonQueue
    <3>2. CASE StopWaiting
      <4>1. /\ fifo' \in Seq(HolderCalls) /\ ArgsIn(fifo') /\ NobodyWaits(fifo')
            /\ Len(fifo') = Len(fifo)
        BY <1>1, <3>2, StopWaitingQueue
      <4>2. busy => fifo' # <<>>
        BY <1>1, <1>2, <4>1
      <4> QED
        BY <4>1, <4>2
    <3> QED
      BY <1>4, <3>1, <3>2
  <2>2. /\ row' \in Rows \cup {None}
        /\ row' # None => /\ row # None
                          /\ row'.pre = row.pre \/ row'.pre # None
    <3>1. row' = row \/ row' = Served(g.pc)
      BY <1>4
    <3>2. row = None => Served(g.pc) = None
      BY DEF Served
    <3> QED
      BY <1>0, <1>1, <3>1, <3>2, ServedIs
  <2>3. ~g'.waits /\ (Over \/ Stays) /\ Snapped(row', g'.pc)
    <3>1. CASE g.pc \in Protected \cup {"diff3"}
      <4>1. /\ g' = [g EXCEPT !.waits = FALSE,
                       !.pc = IF g.pc = "diff3" THEN "undo_db" ELSE "undo"]
            /\ res' = [res EXCEPT !.answer = "failed"]
        BY <1>4, <3>1 DEF Protected
      <4>2. /\ g' \in Reads /\ g'.pc \in {"undo_db", "undo"} /\ ~g'.waits
            /\ g'.call = g.call /\ res' \in Results
        BY <1>1, <4>1 DEF Reads, ReadSteps, Results
      <4>3. g.call # "capture" /\ g.pc \in BehindPre
        BY <1>1, <3>1 DEF Protected, BehindPre
      <4> QED
        BY <1>1, <2>2, <4>2, <4>3 DEF Stays, Snapped, BehindRes
    <3>2. CASE g.pc \notin Protected \cup {"diff3"}
      <4>1. Ends("undone") \/ Ends("loose")
        BY <1>4, <3>2
      <4>2. Over
        BY <1>1, <4>1, EndsIs
      <4> QED
        BY <4>2 DEF Over, Idle, Snapped, BehindPre, BehindRes
    <3> QED
      BY <3>1, <3>2
  <2>4. QueueInv'
    BY <1>4, <2>1, <2>3, QuietQueue
  <2>5. WorldTypeOK'
    BY <1>0, <1>2, <1>4, <1>f, <2>1, <2>2 DEF WorldTypeOK
  <2> QED
    BY <1>0, <2>3, <2>4, <2>5, ReadFrame
<1> QED
  <2>1. UNCHANGED row => row' \in {row, IF g.pc \in DbSteps THEN Served(g.pc) ELSE row}
    OBVIOUS
  <2> QED
    BY <1>3, <1>4, <2>1 DEF BudgetElapses

-----------------------------------------------------------------------------
(* The steps that leave the registry alone: the agent's calls, the reads, the
   holder and the late write. *)

RowKept == (row' = None <=> row = None) /\ (row # None => row'.of = row.of)

Aside ==
  /\ UNCHANGED registryVars /\ att' = att /\ RowKept
  /\ \A x \in {"hurried", "stopped", "gone"} : x \in upset' <=> x \in upset
  /\ \/ pc' = pc
     \/ pc \in UnderWay /\ pc' \in UnderWay \cup {"cleanup", "over"}
     \/ /\ pc = "registering" /\ reg.answer # None
        /\ pc' = IF reg.answer = "ok" THEN "agent" ELSE "over"

(* The steps that are not aside. *)
Touches ==
  \/ EngineRegisters \/ EngineCleansUp \/ NextAttempt
  \/ /\ Extract \/ InitTrial \/ Build(hasHolder) \/ Start \/ AbandonRegistration
     /\ UNCHANGED <<gradingVars, engineVars>>
  \/ /\ \E n \in Cleaners : CleanupStep(n)
     /\ UNCHANGED <<gradingVars, engineVars>>
  \/ /\ RunnerStops /\ upset' = upset \cup {"stopped"}
     /\ UNCHANGED <<gradingVars, pc, att, calls, failed, late>>
  \/ RunnerGone

(* The steps of the two reads keep the trial's row. *)
LEMMA ReadKeepsRow ==
  ASSUME TypeInv, GradingStep
  PROVE  RowKept
<1>1. CASE HandOver \/ HolderTooSlow \/ ReplayApp
  BY <1>1 DEF HandOver, HolderTooSlow, ReplayApp, RowKept
<1>2. CASE HolderAnswers
  <2>1. row' = row \/ (g.waits /\ g.pc \in {"sync", "sync2"} /\ got # None /\ got # "error" /\ Mirror)
    BY <1>2 DEF HolderAnswers
  <2> QED
    BY <2>1, MirrorIs DEF RowKept, SameTrial
<1>3. CASE DbRequest
  <2>1. row' = row \/ (row # None /\ row' = Served(g.pc))
    BY <1>3 DEF DbRequest, Request
  <2>2. g.pc # "idle"
    BY <1>3 DEF DbRequest, DbSteps
  <2> QED
    BY <2>1, <2>2, ServedIs, WorldAssumption DEF RowKept
<1>4. CASE BudgetElapses
  <2>1. row' = row \/ row' = Served(g.pc)
    BY <1>4 DEF BudgetElapses
  <2>2. g.pc # "idle" /\ (row = None => Served(g.pc) = None)
    BY <1>4 DEF BudgetElapses, Served
  <2> QED
    BY <2>1, <2>2, ServedIs, WorldAssumption DEF RowKept
<1> QED
  BY <1>1, <1>2, <1>3, <1>4 DEF GradingStep

(* Every step touches the registry or is aside. *)
LEMMA AsideOrTouches ==
  ASSUME TypeInv, [Next]_vars
  PROVE  Aside \/ Touches
<1>0. /\ row \in Rows \cup {None}
      /\ upset \subseteq {"hurried", "stopped", "gone", "late_write", "stray_gold"}
  BY DEF TypeInv, TypeOK, WorldTypeOK
<1>1. CASE UNCHANGED vars
  <2>1. UNCHANGED registryVars /\ att' = att /\ row' = row /\ upset' = upset /\ pc' = pc
    BY <1>1 DEF vars, worldVars, engineVars
  <2> QED
    BY <2>1 DEF Aside, RowKept
<1>2. ASSUME NEW a \in Acts, CallHolder(a) \/ CallApp(a) \/ CallDb(a)
      PROVE  Aside
  <2>1. UNCHANGED registryVars /\ att' = att /\ upset' = upset /\ pc = "agent"
        /\ pc' \in {"agent", "calling"}
    BY <1>2 DEF CallHolder, CallApp, CallDb
  <2>2. row' = row \/ (row # None /\ row' = [row EXCEPT !.data = Apply(a, row.data)])
    BY <1>2 DEF CallHolder, CallApp, CallDb, Request
  <2>3. row # None => row \in Rows /\ Apply(a, row.data) \in Worlds
    BY <1>0, ApplyType DEF Rows, Acts, Worlds
  <2>4. RowKept
    BY <2>2, <2>3, RowWritten DEF RowKept, SameTrial
  <2> QED
    BY <2>1, <2>4 DEF Aside, UnderWay
<1>3. CASE \/ CallReturns \/ CallTimesOut \/ AgentEnds \/ EngineCaptures
           \/ EngineCaptured \/ EngineGrades \/ EngineGraded
  <2>1. UNCHANGED registryVars /\ att' = att /\ row' = row /\ upset' = upset
    BY <1>3 DEF CallReturns, CallTimesOut, AgentEnds, EngineCaptures, EngineCaptured,
       EngineGrades, EngineGraded, worldVars
  <2>2. pc \in UnderWay /\ pc' \in UnderWay \cup {"cleanup", "over"}
    BY <1>3 DEF CallReturns, CallTimesOut, AgentEnds, EngineCaptures, EngineCaptured,
       EngineGrades, EngineGraded, UnderWay
  <2> QED
    BY <2>1, <2>2 DEF Aside, RowKept
<1>4. CASE EngineRegistered
  BY <1>4 DEF EngineRegistered, Aside, RowKept, worldVars
<1>5. CASE /\ HolderStarts \/ HolderServes
           /\ UNCHANGED <<gradingVars, registryVars, engineVars>>
  BY <1>5 DEF HolderStarts, HolderServes, engineVars, Aside, RowKept
<1>6. CASE GradingStep /\ UNCHANGED <<registryVars, engineVars>>
  BY <1>6, ReadKeepsRow DEF engineVars, Aside
<1>7. CASE LateWrite
  <2>1. /\ UNCHANGED registryVars /\ att' = att /\ pc' = pc
        /\ upset' \in {upset, upset \cup {"late_write"}}
    BY <1>7 DEF LateWrite
  <2>2. row' = row \/ (row # None /\ row' = [row EXCEPT !.data = Apply(late.act, row.data)])
    BY <1>7 DEF LateWrite
  <2>3. row # None => row \in Rows /\ Apply(late.act, row.data) \in Worlds
    <3>1. late.act \in Worlds
      BY <1>7 DEF LateWrite, TypeInv, TypeOK, LateCalls, Acts, Worlds
    <3> QED
      BY <1>0, <3>1, ApplyType DEF Rows
  <2>4. RowKept
    BY <2>2, <2>3, RowWritten DEF RowKept, SameTrial
  <2> QED
    BY <2>1, <2>4 DEF Aside
<1>8. CASE StrayWrite
  <2>1. /\ UNCHANGED registryVars /\ att' = att /\ pc' = pc
        /\ upset' \in {upset, upset \cup {"stray_gold"}}
    BY <1>8 DEF StrayWrite
  <2>2. row' = row \/ (row # None /\ row' = [row EXCEPT !.data = Apply("gold", row.data)])
    BY <1>8 DEF StrayWrite
  <2>3. row # None => row \in Rows /\ Apply("gold", row.data) \in Worlds
    BY <1>0, ApplyType DEF Rows, Acts, Worlds
  <2>4. RowKept
    BY <2>2, <2>3, RowWritten DEF RowKept, SameTrial
  <2> QED
    BY <2>1, <2>4 DEF Aside
<1> QED
  BY <1>1, <1>2, <1>3, <1>4, <1>5, <1>6, <1>7, <1>8 DEF Next, Engine, Runner, Touches, Quiet

(* What a step of the engine, of a registration, of a cleanup or of the Runner
   makes of the cleanup coroutines. *)
LEMMA GoneCleaners ==
  ASSUME TypeInv, RunnerGone
  PROVE  /\ c'[Stopper] = NoCleanup
         /\ \A n \in Cleaners \ {Stopper} :
              /\ c'[n].saw = c[n].saw
              /\ c'[n].pc = IF c[n].pc \in {"idle", "done"} THEN c[n].pc ELSE "failed"
<1>1. c \in [Cleaners -> CleanerStates]
  BY DEF TypeInv, TypeOK, RegistryTypeOK, CleanerStates, CleanerSteps
<1>2. c' = [n \in Cleaners |->
             CASE n = Stopper -> NoCleanup
               [] n # Stopper /\ c[n].pc \in {"idle", "done"} -> c[n]
               [] OTHER -> [c[n] EXCEPT !.pc = "failed"]]
  BY DEF RunnerGone, ProcessGone
<1>3. Stopper \in Cleaners
  BY AttemptsAssumption DEF Stopper, Cleaners
<1>4. c'[Stopper] = NoCleanup
  BY <1>2, <1>3
<1>5. ASSUME NEW n \in Cleaners \ {Stopper}
      PROVE  /\ c'[n].saw = c[n].saw
             /\ c'[n].pc = IF c[n].pc \in {"idle", "done"} THEN c[n].pc ELSE "failed"
  BY <1>1, <1>2, <1>5 DEF CleanerStates
<1> QED
  BY <1>4, <1>5

(* Every step keeps that a cleanup at a lock, or behind it, found a context. *)
LEMMA LockStep ==
  ASSUME TypeInv, LockInv, [Next]_vars
  PROVE  LockInv'
<1>0. /\ RegistryTypeOK /\ c \in [Cleaners -> CleanerStates]
      /\ ctx \in Attempts \cup {None} /\ att \in Attempts
  BY DEF TypeInv, TypeOK, RegistryTypeOK, CleanerStates, CleanerSteps
<1>1. CASE c' = c
  BY <1>1 DEF LockInv
<1>2. ASSUME NEW n \in Cleaners, CleanupStep(n)
      PROVE  LockInv'
  <2>1. CASE CleanupLook(n)
    BY <1>0, <2>1 DEF CleanupLook, LockInv
  <2>2. CASE ~CleanupLook(n)
    <3>1. \E s \in CleanerSteps : /\ CGoto(n, s)
                                  /\ s = "tools" => c[n].pc = "lock"
                                  /\ s # "lock"
      BY <1>2, <2>2 DEF CleanupStep, CleanupLock, CleanupTools, CleanupDelete,
         CleanupForget, CleanerSteps
    <3> QED
      BY <1>0, <1>2, <3>1, CGotoIs DEF LockInv
  <2> QED
    BY <2>1, <2>2
<1>3. ASSUME NEW n \in Cleaners, c' = [c EXCEPT ![n] = [pc |-> "look", saw |-> None]]
      PROVE  LockInv'
  BY <1>0, <1>3 DEF LockInv
<1>4. CASE RunnerGone
  BY <1>4, GoneCleaners DEF LockInv, NoCleanup
<1>5. EngineCleansUp => \E n \in Cleaners : c' = [c EXCEPT ![n] = [pc |-> "look", saw |-> None]]
  <2>1. att \in Cleaners
    BY <1>0, AttemptsAssumption DEF Cleaners, Attempts
  <2> QED
    BY <2>1 DEF EngineCleansUp, Retry
<1>6. RunnerStops => \E n \in Cleaners : c' = [c EXCEPT ![n] = [pc |-> "look", saw |-> None]]
  <2>1. Stopper \in Cleaners
    BY AttemptsAssumption DEF Stopper, Cleaners
  <2> QED
    BY <2>1 DEF RunnerStops
<1>7. Start => c' = c \/ \E n \in Cleaners : c' = [c EXCEPT ![n] = [pc |-> "look", saw |-> None]]
  BY AttemptsAssumption DEF Start, Abandoner, Cleaners
<1>8. Extract \/ InitTrial \/ Build(hasHolder) \/ AbandonRegistration \/ EngineRegisters
        \/ NextAttempt \/ Aside => c' = c
  BY DEF Extract, InitTrial, Build, AbandonRegistration, EngineRegisters, NextAttempt,
     Aside, registryVars
<1> QED
  BY <1>1, <1>2, <1>3, <1>4, <1>5, <1>6, <1>7, <1>8, AsideOrTouches DEF Touches

(* Every step keeps the types and what they rest on. *)
LEMMA TypeStep ==
  ASSUME TypeInv, LockInv, [Next]_vars
  PROVE  TypeInv'
<1>1. CASE UNCHANGED vars
  BY <1>1 DEF TypeInv, TypeOK, WorldTypeOK, GradingTypeOK, RegistryTypeOK, DbSteps,
     HandlerInv, QueueInv, Wants, SnapInv,
     vars, worldVars, gradingVars, registryVars, engineVars
<1>2. CASE Engine
  BY <1>2, EngineTypes, CallTypes, ReadTypes DEF Engine
<1>3. CASE Runner
  <2>1. CASE /\ Extract \/ InitTrial \/ Build(hasHolder) \/ Start \/ AbandonRegistration
             /\ UNCHANGED <<gradingVars, engineVars>>
    BY <2>1, RegisterTypes
  <2>2. CASE /\ \E n \in Cleaners : CleanupStep(n)
             /\ UNCHANGED <<gradingVars, engineVars>>
    BY <2>2, CleanupTypes DEF engineVars
  <2>3. CASE /\ RunnerStops /\ upset' = upset \cup {"stopped"}
             /\ UNCHANGED <<gradingVars, pc, att, calls, failed, late>>
    BY <2>3, CleanupTypes
  <2>4. CASE GradingStep /\ UNCHANGED <<registryVars, engineVars>>
    BY <2>4, HolderReadTypes, AppReplayTypes, RequestTypes, BudgetTypes DEF GradingStep
  <2> QED
    BY <1>3, <2>1, <2>2, <2>3, <2>4, HolderTypes, CallTypes, GoneTypes DEF Runner
<1> QED
  BY <1>1, <1>2, <1>3 DEF Next, Quiet

(* They hold at the start. *)
LEMMA TypeInit ==
  ASSUME Init
  PROVE  TypeInv /\ LockInv
<1> USE WorldAssumption, AttemptsAssumption, CallsAssumption
    DEF Init, WorldInit, GradingInit, RegistryInit
<1>1. WorldTypeOK
  <2>1. busy \in BOOLEAN /\ resetLost \in BOOLEAN /\ ~busy
    BY Zenon
  <2>2. fifo \in Seq(HolderCalls)
    BY EmptySeq
  <2>3. faults \in 0..MaxFaults /\ truth \in Worlds
    BY DEF Worlds
  <2> QED
    BY <2>1, <2>2, <2>3 DEF WorldTypeOK
<1>2. GradingTypeOK
  BY DEF GradingTypeOK, DbSteps, Idle, NoResult
<1>3. RegistryTypeOK /\ LockInv
  BY DEF RegistryTypeOK, NoCleanup, LockInv
<1>4. TypeOK
  <2>1. att \in Attempts /\ calls \in 0..MaxCalls /\ upset = {}
    BY DEF Attempts
  <2>2. failed \in BOOLEAN
    BY Zenon
  <2> QED
    BY <1>1, <1>2, <1>3, <2>1, <2>2 DEF TypeOK
<1>5. HandlerInv /\ QueueInv /\ SnapInv
  BY DEF HandlerInv, QueueInv, SnapInv, Idle
<1> QED
  BY <1>3, <1>4, <1>5 DEF TypeInv

(* Every variable keeps its type, whatever fails and in whatever order: no
   step writes a holder's answer that is an error into the row, restores a
   snapshot that was never taken, resets the holder to nothing or releases the
   tools of no context. *)
THEOREM TypesHold == Spec => []TypeOK
<1>1. Init => TypeInv /\ LockInv
  BY TypeInit
<1>2. TypeInv /\ LockInv /\ [Next]_vars => (TypeInv /\ LockInv)'
  BY TypeStep, LockStep
<1>3. TypeInv => TypeOK
  BY DEF TypeInv
<1> QED
  BY <1>1, <1>2, <1>3, PTL DEF Spec

-----------------------------------------------------------------------------
(* Registrations and cleanups, step by step. *)

(* The types the steps below use. *)
LEMMA RegFacts ==
  ASSUME TypeInv
  PROVE  /\ att \in Nat /\ att >= 1 /\ att <= MaxAttempts /\ MaxAttempts \in Nat
         /\ ctx \in Attempts \cup {None} /\ art \in Attempts \cup {None}
         /\ tools \in Attempts \cup {None} /\ released \subseteq Attempts
         /\ None \notin Attempts /\ Attempts \subseteq Nat
         /\ RegistryTypeOK /\ c \in [Cleaners -> CleanerStates]
         /\ \A n \in Cleaners : c[n].pc \in CleanerSteps /\ c[n].saw \in Attempts \cup {None}
         /\ Stopper \in Cleaners /\ Abandoner \in Cleaners /\ att \in Cleaners
         /\ Stopper # Abandoner /\ Abandoner = 0 /\ Stopper = MaxAttempts
         /\ reg.pc \in {"idle", "extract", "init", "build", "start", "abandon"}
         /\ reg.pc # "idle" => pc = "registering" /\ reg.of = att /\ reg.answer = None
         /\ pc \in {"cleanup", "cleaning"} => att < MaxAttempts
<1> USE AttemptsAssumption, WorldAssumption DEF Attempts, Cleaners
<1>1. TypeOK /\ HandlerInv /\ RegistryTypeOK /\ att \in Attempts
  BY DEF TypeInv, TypeOK
<1>2. c \in [Cleaners -> CleanerStates]
  BY <1>1 DEF RegistryTypeOK, CleanerStates, CleanerSteps
<1>3. \A n \in Cleaners : c[n].pc \in CleanerSteps /\ c[n].saw \in Attempts \cup {None}
  BY <1>2 DEF CleanerStates
<1>4. None \notin Attempts /\ Attempts \subseteq Nat
  OBVIOUS
<1>5. /\ ctx \in Attempts \cup {None} /\ art \in Attempts \cup {None}
      /\ tools \in Attempts \cup {None} /\ released \subseteq Attempts
      /\ reg.pc \in {"idle", "extract", "init", "build", "start", "abandon"}
  BY <1>1 DEF RegistryTypeOK
<1>6. /\ reg.pc # "idle" => pc = "registering" /\ reg.of = att /\ reg.answer = None
      /\ pc \in {"cleanup", "cleaning"} => att < MaxAttempts
  BY <1>1 DEF HandlerInv
<1>7. /\ Stopper \in Cleaners /\ Abandoner \in Cleaners /\ att \in Cleaners
      /\ Stopper # Abandoner /\ Abandoner = 0 /\ Stopper = MaxAttempts
      /\ att \in Nat /\ att >= 1 /\ att <= MaxAttempts /\ MaxAttempts \in Nat
  BY <1>1 DEF Stopper, Abandoner
<1> QED
  BY <1>1, <1>2, <1>3, <1>4, <1>5, <1>6, <1>7

(* A step aside. *)
LEMMA AsideStep ==
  ASSUME RegInv, Aside
  PROVE  CleanersInv' /\ ToolsInv' /\ OwnInv' /\ OverlapInv' /\ RetryInv'
<1>0. /\ TypeInv /\ CleanersInv /\ ToolsInv /\ OwnInv /\ OverlapInv /\ RetryInv
  BY DEF RegInv
<1>1. /\ ctx' = ctx /\ art' = art /\ tools' = tools /\ released' = released
      /\ reg' = reg /\ c' = c /\ att' = att
      /\ ("hurried" \in upset' <=> "hurried" \in upset)
      /\ ("stopped" \in upset' <=> "stopped" \in upset)
      /\ ("gone" \in upset' <=> "gone" \in upset)
  BY DEF Aside, registryVars
<1>2. RowKept
  BY DEF Aside
<1>3. /\ pc' = "register" <=> pc = "register"
      /\ pc' = "cleaning" <=> pc = "cleaning"
      /\ pc' \in UnderWay => pc \in UnderWay \/ (pc = "registering" /\ reg.answer = "ok")
      /\ pc' = "registering" => pc = "registering"
      /\ pc = "registering" /\ reg.pc # "idle" => pc' = "registering"
      /\ pc \in {"registering", "over"} /\ reg.answer \in {"refused", "duplicate"} =>
           pc' \in {"registering", "over"}
  <2>1. reg.pc # "idle" => reg.answer = None
    BY <1>0, RegFacts
  <2> QED
    BY <2>1 DEF Aside, UnderWay
<1>4. Unbuilt' <=> Unbuilt
  BY <1>1, <1>3, <1>0, RegFacts DEF Unbuilt
<1>5. Overtaken' <=> Overtaken
  BY <1>1 DEF Overtaken, Stopper
<1>6. CleanersInv'
  <2>1. \A k : Past(k)' <=> Past(k)
    BY <1>1, <1>4 DEF Past
  <2>2. TracesInv'
    BY <1>0, <1>1, <2>1 DEF CleanersInv, TracesInv
  <2>3. TurnsInv' /\ OneHolder'
    BY <1>0, <1>1, <1>3 DEF CleanersInv, TurnsInv, OneHolder, Active, Abandoner
  <2> QED
    BY <2>2, <2>3 DEF CleanersInv
<1>7. ToolsInv'
  BY <1>0, <1>1, <1>5 DEF ToolsInv
<1>8. OwnInv'
  BY <1>0, <1>1, <1>2, <1>3, <1>5, RegFacts DEF OwnInv, RowKept
<1>9. OverlapInv'
  <2>1. Orderly' <=> Orderly
    BY <1>1 DEF Orderly
  <2>2. \A k : RowIsOf(row', k) <=> RowIsOf(row, k)
    BY <1>2 DEF RowIsOf, RowKept
  <2> QED
    BY <1>0, <1>1, <2>1, <2>2 DEF OverlapInv
<1>10. RetryInv'
  <2>1. upset' \cap {"hurried", "stopped"} = {} => upset \cap {"hurried", "stopped"} = {}
    BY <1>1
  <2> QED
    BY <1>0, <1>1, <1>2, <1>3, <2>1 DEF RetryInv, RowKept, Stopper
<1> QED
  BY <1>6, <1>7, <1>8, <1>9, <1>10

(* The engine starts to register. *)
LEMMA RegistersStep ==
  ASSUME RegInv, EngineRegisters
  PROVE  CleanersInv' /\ ToolsInv' /\ OwnInv' /\ OverlapInv' /\ RetryInv'
<1>0. /\ TypeInv /\ CleanersInv /\ ToolsInv /\ OwnInv /\ OverlapInv /\ RetryInv
  BY DEF RegInv
<1>1. /\ ctx' = ctx /\ art' = art /\ tools' = tools /\ released' = released
      /\ c' = c /\ att' = att /\ upset' = upset /\ row' = row
      /\ pc = "register" /\ pc' = "registering" /\ reg.pc = "idle"
      /\ reg'.pc = "extract" /\ reg'.of = att /\ reg'.answer = None
  BY DEF EngineRegisters, RegisterTrial, worldVars
<1>2. Unbuilt' /\ Unbuilt /\ (Overtaken' <=> Overtaken)
  BY <1>1 DEF Unbuilt, Overtaken, Stopper
<1>3. CleanersInv'
  <2>1. \A k : Past(k)' <=> Past(k)
    BY <1>1, <1>2 DEF Past
  <2>2. TracesInv'
    BY <1>0, <1>1, <2>1 DEF CleanersInv, TracesInv
  <2>3. TurnsInv' /\ OneHolder'
    BY <1>0, <1>1 DEF CleanersInv, TurnsInv, OneHolder, Active, Abandoner
  <2> QED
    BY <2>2, <2>3 DEF CleanersInv
<1>4. ToolsInv'
  BY <1>0, <1>1, <1>2 DEF ToolsInv
<1>5. OwnInv'
  BY <1>0, <1>1, WorldAssumption DEF OwnInv, UnderWay
<1>6. OverlapInv'
  <2>1. (Orderly' <=> Orderly) /\ \A k : RowIsOf(row', k) <=> RowIsOf(row, k)
    BY <1>1 DEF Orderly, RowIsOf
  <2> QED
    BY <1>0, <1>1, <2>1 DEF OverlapInv
<1>7. RetryInv'
  BY <1>0, <1>1, WorldAssumption DEF RetryInv, Stopper
<1> QED
  BY <1>3, <1>4, <1>5, <1>6, <1>7

(* The engine starts a cleanup before the retry. *)
LEMMA CleansUpStep ==
  ASSUME RegInv, EngineCleansUp
  PROVE  CleanersInv' /\ ToolsInv' /\ OwnInv' /\ OverlapInv' /\ RetryInv'
<1>0. /\ TypeInv /\ CleanersInv /\ ToolsInv /\ OwnInv /\ OverlapInv /\ RetryInv
  BY DEF RegInv
<1>1. /\ ctx' = ctx /\ art' = art /\ tools' = tools /\ released' = released
      /\ reg' = reg /\ att' = att /\ upset' = upset /\ row' = row
      /\ pc = "cleanup" /\ pc' = "cleaning" /\ reg.pc = "idle"
      /\ att < MaxAttempts
  BY <1>0, RegFacts DEF EngineCleansUp, worldVars
<1>2. /\ \A n \in Cleaners \ {att} : c'[n] = c[n]
      /\ c'[att].pc = "look" /\ c'[att].saw = None
  BY <1>0, RegFacts DEF EngineCleansUp, Retry
<1>3. c[att].pc = "idle" /\ c[att].saw = None /\ att # Stopper /\ att # Abandoner
  BY <1>0, <1>1, RegFacts DEF CleanersInv, TurnsInv
<1>4. (Unbuilt' <=> Unbuilt) /\ (Overtaken' <=> Overtaken)
  <2>1. c'[Stopper] = c[Stopper]
    BY <1>0, <1>2, <1>3, RegFacts
  <2> QED
    BY <1>1, <2>1 DEF Unbuilt, Overtaken, Stopper
<1>5. CleanersInv'
  <2>1. \A k : Past(k)' <=> Past(k)
    BY <1>1, <1>4 DEF Past
  <2>2. TracesInv'
    BY <1>0, <1>1, <1>2, <2>1 DEF CleanersInv, TracesInv
  <2>3. TurnsInv'
    <3>1. \A n \in att..(MaxAttempts - 1) : n \in Cleaners
      BY <1>0, RegFacts DEF Cleaners
    <3>2. \A n \in 1..(att - 1) : n \in Cleaners \ {att}
      BY <1>0, RegFacts DEF Cleaners
    <3>3. c'[Abandoner] = c[Abandoner]
      BY <1>0, <1>2, <1>3, RegFacts
    <3>4. c[Abandoner].pc = "idle"
      BY <1>0, <1>1 DEF CleanersInv, TurnsInv
    <3>5. \A n \in Cleaners : c'[n].pc \in {"idle", "look"} => c'[n].saw = None
      BY <1>0, <1>2 DEF CleanersInv, TurnsInv
    <3>6. \A n \in att..(MaxAttempts - 1) : c'[n].pc = "idle" \/ (n = att /\ pc' = "cleaning")
      BY <1>0, <1>1, <1>2, <3>1 DEF CleanersInv, TurnsInv
    <3>7. "hurried" \notin upset' => \A n \in 1..(att - 1) : c'[n].pc \in {"done", "failed"}
      BY <1>0, <1>1, <1>2, <3>2 DEF CleanersInv, TurnsInv
    <3> QED
      BY <1>1, <3>3, <3>4, <3>5, <3>6, <3>7 DEF TurnsInv, Abandoner
  <2>4. OneHolder'
    BY <1>0, <1>2, <1>3 DEF CleanersInv, OneHolder
  <2> QED
    BY <2>2, <2>3, <2>4 DEF CleanersInv
<1>6. ToolsInv'
  BY <1>0, <1>1, <1>2, <1>4 DEF ToolsInv
<1>7. OwnInv'
  BY <1>0, <1>1 DEF OwnInv, UnderWay
<1>8. OverlapInv'
  <2>1. (Orderly' => Orderly) /\ \A k : RowIsOf(row', k) <=> RowIsOf(row, k)
    BY <1>1, <1>2, <1>3 DEF Orderly, RowIsOf
  <2> QED
    BY <1>0, <1>1, <1>2, <1>3, <2>1 DEF OverlapInv
<1>9. RetryInv'
  <2>1. c'[Stopper] = c[Stopper] /\ c'[att] # c[att]
    BY <1>0, <1>2, <1>3, RegFacts
  <2> QED
    BY <1>0, <1>1, <1>2, <2>1 DEF RetryInv, Stopper
<1> QED
  BY <1>5, <1>6, <1>7, <1>8, <1>9

(* The next attempt begins. *)
LEMMA NextAttemptStep ==
  ASSUME RegInv, NextAttempt
  PROVE  CleanersInv' /\ ToolsInv' /\ OwnInv' /\ OverlapInv' /\ RetryInv'
<1>0. /\ TypeInv /\ CleanersInv /\ ToolsInv /\ OwnInv /\ OverlapInv /\ RetryInv
  BY DEF RegInv
<1>1. /\ ctx' = ctx /\ art' = art /\ tools' = tools /\ released' = released
      /\ reg' = reg /\ c' = c /\ att' = att + 1 /\ row' = row
      /\ pc = "cleaning" /\ pc' = "register" /\ reg.pc = "idle"
      /\ att < MaxAttempts
  BY <1>0, RegFacts DEF NextAttempt, registryVars
<1>2. \/ c[att].pc \in {"done", "failed"} /\ upset' = upset \cap {"hurried", "stopped"}
      \/ upset' = (upset \cap {"stopped"}) \cup {"hurried"}
  BY DEF NextAttempt, Retry
<1>3. /\ "hurried" \notin upset' =>
           "hurried" \notin upset /\ c[att].pc \in {"done", "failed"}
      /\ "stopped" \notin upset' => "stopped" \notin upset
      /\ ~Overtaken' => ~Overtaken
  BY <1>1, <1>2 DEF Overtaken, Stopper
<1>4. \A k \in Attempts : Past(k) => Past(k)'
  BY <1>0, <1>1, RegFacts DEF Past
<1>5. CleanersInv'
  <2>1. TracesInv'
    BY <1>0, <1>1, <1>4, RegFacts DEF CleanersInv, TracesInv
  <2>2. TurnsInv'
    <3>1. \A n \in (att + 1)..(MaxAttempts - 1) : c[n].pc = "idle"
      BY <1>0, <1>1, RegFacts DEF CleanersInv, TurnsInv
    <3>2. "hurried" \notin upset' => \A n \in 1..att : c[n].pc \in {"done", "failed"}
      <4>1. \A n \in 1..att : n = att \/ n \in 1..(att - 1)
        BY <1>0, RegFacts
      <4> QED
        BY <1>0, <1>3, <4>1 DEF CleanersInv, TurnsInv
    <3>3. c[Abandoner].pc = "idle"
      BY <1>0, <1>1 DEF CleanersInv, TurnsInv
    <3>4. att' - 1 = att
      BY <1>0, <1>1, RegFacts
    <3>5. \A n \in att'..(MaxAttempts - 1) : c'[n].pc = "idle"
      BY <1>1, <3>1
    <3>6. "hurried" \notin upset' => \A n \in 1..(att' - 1) : c'[n].pc \in {"done", "failed"}
      BY <1>1, <3>2, <3>4
    <3>7. \A n \in Cleaners : c'[n].pc \in {"idle", "look"} => c'[n].saw = None
      BY <1>0, <1>1 DEF CleanersInv, TurnsInv
    <3> QED
      BY <1>1, <3>3, <3>5, <3>6, <3>7 DEF TurnsInv, Abandoner
  <2>3. OneHolder'
    BY <1>0, <1>1 DEF CleanersInv, OneHolder
  <2> QED
    BY <2>1, <2>2, <2>3 DEF CleanersInv
<1>6. ToolsInv'
  BY <1>0, <1>1, <1>3 DEF ToolsInv
<1>7. OwnInv'
  BY <1>0, <1>1 DEF OwnInv, UnderWay
<1>8. OverlapInv'
  <2>1. (Orderly' <=> Orderly) /\ \A k : RowIsOf(row', k) <=> RowIsOf(row, k)
    BY <1>1 DEF Orderly, RowIsOf
  <2> QED
    BY <1>0, <1>1, <2>1 DEF OverlapInv
<1>9. RetryInv'
  <2> SUFFICES ASSUME upset' \cap {"hurried", "stopped"} = {}
               PROVE  RetryInv'
    BY DEF RetryInv
  <2>1. upset \cap {"hurried", "stopped"} = {} /\ c[att].pc \in {"done", "failed"}
    BY <1>3
  <2>2. c[Stopper].pc = "idle" /\ (c[att].pc = "done" => row = None)
        /\ reg.answer # "duplicate"
    BY <1>0, <1>1, <2>1 DEF RetryInv
  <2>3. att' > 1 /\ att' - 1 = att
    BY <1>0, <1>1, RegFacts
  <2> QED
    BY <1>1, <2>1, <2>2, <2>3 DEF RetryInv, Stopper
<1> QED
  BY <1>5, <1>6, <1>7, <1>8, <1>9

(* The steps of a registration before its context is stored. *)
LEMMA ExtractStep ==
  ASSUME RegInv, Extract, UNCHANGED engineVars
  PROVE  CleanersInv' /\ ToolsInv' /\ OwnInv' /\ OverlapInv' /\ RetryInv'
<1>0. /\ TypeInv /\ CleanersInv /\ ToolsInv /\ OwnInv /\ OverlapInv /\ RetryInv
  BY DEF RegInv
<1>1. /\ ctx' = ctx /\ tools' = tools /\ released' = released
      /\ c' = c /\ att' = att /\ upset' = upset /\ row' = row /\ pc' = pc
      /\ pc = "registering" /\ reg.pc = "extract" /\ reg.of = att /\ reg.answer = None
  BY <1>0, RegFacts DEF Extract, engineVars
<1>2. /\ reg'.of = att
      /\ \/ reg'.pc = "init" /\ reg'.answer = None /\ art' = att
         \/ reg'.pc = "idle" /\ reg'.answer = "refused"
  BY <1>0, <1>1, RegFacts DEF Extract, RegGoto, RegAnswers, RegistryTypeOK
<1>3. Unbuilt /\ (Unbuilt' => Unbuilt) /\ (Overtaken' <=> Overtaken)
  BY <1>1 DEF Unbuilt, Overtaken, Stopper
<1>4. CleanersInv'
  <2>1. \A k : Past(k) => Past(k)'
    BY <1>1, <1>3 DEF Past
  <2>2. TracesInv'
    BY <1>0, <1>1, <2>1, RegFacts DEF CleanersInv, TracesInv
  <2>3. TurnsInv' /\ OneHolder'
    BY <1>0, <1>1, <1>2 DEF CleanersInv, TurnsInv, OneHolder, Active, Abandoner
  <2> QED
    BY <2>2, <2>3 DEF CleanersInv
<1>5. ToolsInv'
  BY <1>0, <1>1, <1>3 DEF ToolsInv
<1>6. OwnInv'
  BY <1>0, <1>1, <1>2, <1>3, WorldAssumption DEF OwnInv, UnderWay
<1>7. OverlapInv'
  <2>1. (Orderly' <=> Orderly) /\ \A k : RowIsOf(row', k) <=> RowIsOf(row, k)
    BY <1>1 DEF Orderly, RowIsOf
  <2> QED
    BY <1>0, <1>1, <1>2, <2>1 DEF OverlapInv
<1>8. RetryInv'
  BY <1>0, <1>1, <1>2, WorldAssumption DEF RetryInv, Stopper
<1> QED
  BY <1>4, <1>5, <1>6, <1>7, <1>8

(* The row is made, or found to be there already. *)
LEMMA InitTrialStep ==
  ASSUME RegInv, InitTrial, UNCHANGED engineVars
  PROVE  CleanersInv' /\ ToolsInv' /\ OwnInv' /\ OverlapInv' /\ RetryInv'
<1>0. /\ TypeInv /\ CleanersInv /\ ToolsInv /\ OwnInv /\ OverlapInv /\ RetryInv
  BY DEF RegInv
<1>1. /\ ctx' = ctx /\ tools' = tools /\ released' = released /\ art' = art
      /\ c' = c /\ att' = att /\ upset' = upset /\ pc' = pc
      /\ pc = "registering" /\ reg.pc = "init" /\ reg.of = att /\ reg.answer = None
  BY <1>0, RegFacts DEF InitTrial, engineVars
<1>2. /\ reg'.of = att
      /\ \/ reg'.pc = "build" /\ reg'.answer = None /\ row = None /\ row' = NewRow(att)
         \/ reg'.pc = "idle" /\ reg'.answer = "duplicate" /\ row # None /\ row' = row
         \/ /\ reg'.pc = "idle" /\ reg'.answer = "refused"
            /\ row = None /\ row' \in {row, NewRow(att)}
  BY <1>0, <1>1, RegFacts DEF InitTrial, RegGoto, RegAnswers, RegistryTypeOK
<1>r. NewRow(att) # None /\ NewRow(att).of = att
  <2>1. NewRow(att) \in Rows
    BY <1>0, RegFacts DEF NewRow, Rows, Worlds
  <2> QED
    BY <2>1, WorldAssumption DEF NewRow
<1>3. Unbuilt /\ (Unbuilt' => Unbuilt) /\ (Overtaken' <=> Overtaken)
  BY <1>1 DEF Unbuilt, Overtaken, Stopper
<1>4. CleanersInv'
  <2>1. \A k : Past(k) => Past(k)'
    BY <1>1, <1>3 DEF Past
  <2>2. TracesInv'
    BY <1>0, <1>1, <2>1, RegFacts DEF CleanersInv, TracesInv
  <2>3. TurnsInv' /\ OneHolder'
    BY <1>0, <1>1, <1>2 DEF CleanersInv, TurnsInv, OneHolder, Active, Abandoner
  <2> QED
    BY <2>2, <2>3 DEF CleanersInv
<1>5. ToolsInv'
  BY <1>0, <1>1, <1>3 DEF ToolsInv
<1>6. OwnInv'
  BY <1>0, <1>1, <1>2, <1>3, <1>r, WorldAssumption DEF OwnInv, UnderWay
<1>7. OverlapInv'
  <2>1. Orderly' <=> Orderly
    BY <1>1 DEF Orderly
  <2>2. \A k : RowIsOf(row, k) => RowIsOf(row', k)
    BY <1>2 DEF RowIsOf
  <2>3. reg'.pc = "build" => RowIsOf(row', att')
    BY <1>1, <1>2, <1>r DEF RowIsOf
  <2> QED
    BY <1>0, <1>1, <2>1, <2>2, <2>3 DEF OverlapInv
<1>8. RetryInv'
  BY <1>0, <1>1, <1>2, WorldAssumption DEF RetryInv, Stopper
<1> QED
  BY <1>4, <1>5, <1>6, <1>7, <1>8

(* No cleanup runs at this moment. *)
Calm == \A n \in Cleaners : ~Active(n)

(* Where nothing was overtaken, no cleanup runs while an attempt registers or
   is under way. *)
LEMMA CalmHere ==
  ASSUME RegInv, ~Overtaken, pc # "cleaning", reg.pc # "abandon"
  PROVE  Calm
<1>0. TypeInv /\ CleanersInv
  BY DEF RegInv
<1>1. \A n \in Cleaners : \/ n = Abandoner \/ n = Stopper
                          \/ n \in 1..(att - 1) \/ n \in att..(MaxAttempts - 1)
  BY <1>0, RegFacts DEF Cleaners
<1>2. ~Active(Abandoner)
  BY <1>0 DEF CleanersInv, TurnsInv, Active
<1>3. ~Active(Stopper)
  BY DEF Overtaken, Active
<1>4. \A n \in 1..(att - 1) : ~Active(n)
  BY <1>0 DEF CleanersInv, TurnsInv, Overtaken, Active
<1>5. \A n \in att..(MaxAttempts - 1) : ~Active(n)
  BY <1>0 DEF CleanersInv, TurnsInv, Active
<1> QED
  BY <1>1, <1>2, <1>3, <1>4, <1>5 DEF Calm

(* The tools are built and the context is stored. *)
LEMMA BuildStep ==
  ASSUME RegInv, Build(hasHolder), UNCHANGED engineVars
  PROVE  CleanersInv' /\ ToolsInv' /\ OwnInv' /\ OverlapInv' /\ RetryInv'
<1>0. /\ TypeInv /\ CleanersInv /\ ToolsInv /\ OwnInv /\ OverlapInv /\ RetryInv
  BY DEF RegInv
<1>1. /\ released' = released /\ art' = art
      /\ c' = c /\ att' = att /\ upset' = upset /\ pc' = pc /\ row' = row
      /\ pc = "registering" /\ reg.pc = "build" /\ reg.of = att /\ reg.answer = None
      /\ att \in Attempts
  BY <1>0, RegFacts DEF Build, engineVars, Attempts
<1>2. /\ reg'.of = att
      /\ \/ reg'.pc = "start" /\ reg'.answer = None /\ ctx' = att /\ tools' = att
         \/ reg'.pc = "idle" /\ reg'.answer = "refused" /\ ctx' = ctx /\ tools' = tools
  BY <1>0, <1>1, RegFacts DEF Build, RegGoto, RegAnswers, RegistryTypeOK
<1>3. Unbuilt /\ ~Unbuilt' /\ (Overtaken' <=> Overtaken)
  BY <1>1, <1>2 DEF Unbuilt, Overtaken, Stopper
<1>n. att \notin released /\ \A n \in Cleaners : c[n].saw # att
  BY <1>0, <1>1, <1>3, RegFacts DEF CleanersInv, TracesInv, Past
<1>4. CleanersInv'
  <2>1. (\A k : Past(k) => Past(k)') /\ Past(att)'
    BY <1>0, <1>1, <1>3, RegFacts DEF Past
  <2>2. TracesInv'
    BY <1>0, <1>1, <1>2, <2>1, RegFacts DEF CleanersInv, TracesInv
  <2>3. TurnsInv' /\ OneHolder'
    BY <1>0, <1>1, <1>2 DEF CleanersInv, TurnsInv, OneHolder, Active, Abandoner
  <2> QED
    BY <2>2, <2>3 DEF CleanersInv
<1>5. ToolsInv'
  <2> SUFFICES ASSUME ~Overtaken
               PROVE  /\ tools' # None => ctx' = tools' /\ tools' \notin released'
                      /\ \A n \in Cleaners :
                           /\ c'[n].pc = "tools" => ctx' = c'[n].saw
                           /\ c'[n].pc \in {"delete", "forget"} => tools' = None
    BY <1>3 DEF ToolsInv
  <2>1. \A n \in Cleaners : c[n].pc \notin {"tools", "delete", "forget"}
    BY <1>1, CalmHere DEF Calm, Active
  <2> QED
    BY <1>0, <1>1, <1>2, <1>n, <2>1 DEF ToolsInv
<1>6. OwnInv'
  BY <1>0, <1>1, <1>2, <1>3, WorldAssumption DEF OwnInv, UnderWay
<1>7. OverlapInv'
  <2>1. (Orderly' <=> Orderly) /\ \A k : RowIsOf(row', k) <=> RowIsOf(row, k)
    BY <1>1 DEF Orderly, RowIsOf
  <2> QED
    BY <1>0, <1>1, <1>2, <2>1 DEF OverlapInv
<1>8. RetryInv'
  BY <1>0, <1>1, <1>2, WorldAssumption DEF RetryInv, Stopper
<1> QED
  BY <1>4, <1>5, <1>6, <1>7, <1>8

(* The tools are started, or the registration is abandoned. *)
LEMMA StartStep ==
  ASSUME RegInv, Start \/ AbandonRegistration, UNCHANGED engineVars
  PROVE  CleanersInv' /\ ToolsInv' /\ OwnInv' /\ OverlapInv' /\ RetryInv'
<1>0. /\ TypeInv /\ CleanersInv /\ ToolsInv /\ OwnInv /\ OverlapInv /\ RetryInv
  BY DEF RegInv
<1>1. /\ ctx' = ctx /\ tools' = tools /\ released' = released /\ art' = art
      /\ att' = att /\ upset' = upset /\ pc' = pc /\ row' = row
      /\ pc = "registering" /\ reg.pc \in {"start", "abandon"}
      /\ reg.of = att /\ reg.answer = None
  BY <1>0, RegFacts DEF Start, AbandonRegistration, engineVars, worldVars
<1>2. /\ reg'.of = att
      /\ \/ reg.pc = "start" /\ reg'.pc = "idle" /\ reg'.answer = "ok" /\ c' = c
         \/ /\ reg.pc = "abandon" /\ reg'.pc = "idle" /\ reg'.answer = "refused"
            /\ c' = c /\ ~Active(Abandoner)
         \/ /\ reg.pc = "start" /\ reg'.pc = "abandon" /\ reg'.answer = None
            /\ c'[Abandoner].pc = "look" /\ c'[Abandoner].saw = None
            /\ \A n \in Cleaners \ {Abandoner} : c'[n] = c[n]
  <2>0. RegistryTypeOK /\ c \in [Cleaners -> CleanerStates] /\ Abandoner \in Cleaners
    BY <1>0, RegFacts
  <2>1. CASE reg.pc = "start" /\ RegAnswers("ok") /\ c' = c
    BY <1>1, <2>0, <2>1 DEF RegAnswers, RegistryTypeOK
  <2>2. CASE AbandonRegistration
    BY <1>1, <2>0, <2>2 DEF AbandonRegistration, RegAnswers, RegistryTypeOK, Active
  <2>3. CASE /\ reg.pc = "start" /\ RegGoto("abandon")
             /\ c' = [c EXCEPT ![Abandoner] = [pc |-> "look", saw |-> None]]
    <3>1. reg'.of = att /\ reg'.pc = "abandon" /\ reg'.answer = None
      BY <1>1, <2>0, <2>3 DEF RegGoto, RegistryTypeOK
    <3>2. /\ c'[Abandoner].pc = "look" /\ c'[Abandoner].saw = None
          /\ \A n \in Cleaners \ {Abandoner} : c'[n] = c[n]
      BY <2>0, <2>3
    <3> QED
      BY <2>3, <3>1, <3>2
  <2> QED
    BY <2>1, <2>2, <2>3 DEF Start
<1>a. reg.pc = "start" => c[Abandoner].pc = "idle" /\ c[Abandoner].saw = None
  BY <1>0, RegFacts DEF CleanersInv, TurnsInv
<1>s. /\ c'[Stopper] = c[Stopper]
      /\ \A n \in 1..MaxAttempts : n \in Cleaners \ {Abandoner} /\ c'[n] = c[n]
  BY <1>0, <1>2, RegFacts DEF Cleaners
<1>3. ~Unbuilt /\ ~Unbuilt' /\ (Overtaken' <=> Overtaken)
  BY <1>1, <1>2, <1>s DEF Unbuilt, Overtaken, Stopper
<1>4. CleanersInv'
  <2>1. \A k : Past(k) <=> Past(k)'
    BY <1>1, <1>3 DEF Past
  <2>2. TracesInv'
    BY <1>0, <1>1, <1>2, <2>1, RegFacts DEF CleanersInv, TracesInv
  <2>3. TurnsInv'
    <3>1. \A n \in att..(MaxAttempts - 1) : n \in 1..MaxAttempts
      BY <1>0, RegFacts
    <3>2. \A n \in 1..(att - 1) : n \in 1..MaxAttempts
      BY <1>0, RegFacts
    <3>3. \A n \in att'..(MaxAttempts - 1) : c'[n].pc = "idle"
      BY <1>0, <1>1, <1>s, <3>1 DEF CleanersInv, TurnsInv
    <3>4. "hurried" \notin upset' => \A n \in 1..(att' - 1) : c'[n].pc \in {"done", "failed"}
      BY <1>0, <1>1, <1>s, <3>2 DEF CleanersInv, TurnsInv
    <3>5. \A n \in Cleaners : c'[n].pc \in {"idle", "look"} => c'[n].saw = None
      BY <1>0, <1>2 DEF CleanersInv, TurnsInv
    <3>6. c'[Abandoner].pc # "idle" =>
            \/ reg'.pc = "abandon"
            \/ /\ pc' \in {"registering", "over"} /\ reg'.pc = "idle"
               /\ reg'.answer = "refused" /\ ~Active(Abandoner)'
      BY <1>1, <1>2, <1>a DEF Active, Abandoner
    <3> QED
      BY <3>3, <3>4, <3>5, <3>6 DEF TurnsInv, Abandoner
  <2>4. OneHolder'
    BY <1>0, <1>2 DEF CleanersInv, OneHolder
  <2> QED
    BY <2>2, <2>3, <2>4 DEF CleanersInv
<1>5. ToolsInv'
  BY <1>0, <1>1, <1>2, <1>3 DEF ToolsInv
<1>6. OwnInv'
  BY <1>0, <1>1, <1>2, <1>3, WorldAssumption DEF OwnInv, UnderWay
<1>7. OverlapInv'
  <2>1. (Orderly' => Orderly) /\ \A k : RowIsOf(row', k) <=> RowIsOf(row, k)
    BY <1>1, <1>2, <1>a DEF Orderly, RowIsOf
  <2>2. \A n \in Cleaners : c'[n].saw = c[n].saw /\ (c'[n].pc = c[n].pc \/ c[n].saw = None)
    BY <1>2, <1>a
  <2>3. \A n \in Cleaners : c'[n].pc \in {"tools", "delete"} => c'[n] = c[n]
    BY <1>2
  <2> QED
    BY <1>0, <1>1, <1>2, <2>1, <2>2, <2>3 DEF OverlapInv
<1>8. RetryInv'
  <2>1. att > 1 => c'[att - 1] = c[att - 1]
    BY <1>0, <1>s, RegFacts
  <2>2. c'[att] = c[att]
    BY <1>0, <1>s, RegFacts
  <2> QED
    BY <1>0, <1>1, <1>2, <1>s, <2>1, <2>2, WorldAssumption DEF RetryInv, Stopper
<1> QED
  BY <1>4, <1>5, <1>6, <1>7, <1>8

-----------------------------------------------------------------------------
(* A step of one cleanup.  The engine and the registration stand still. *)
CleanupFrame ==
  /\ UNCHANGED reg /\ UNCHANGED <<pc, att, upset>>

(* Where nothing was overtaken only one cleanup runs: the one of a registration
   that gives up, or the one the engine waits for. *)
LEMMA CleanupHere ==
  ASSUME RegInv, NEW n \in Cleaners, Active(n), ~Overtaken
  PROVE  /\ \A m \in Cleaners : Active(m) => m = n
         /\ \/ n = Abandoner /\ reg.pc = "abandon" /\ pc = "registering"
            \/ n = att /\ pc = "cleaning" /\ reg.pc = "idle" /\ att < MaxAttempts
<1>0. TypeInv /\ CleanersInv
  BY DEF RegInv
<1>1. ASSUME NEW m \in Cleaners, Active(m)
      PROVE  \/ m = Abandoner /\ reg.pc = "abandon" /\ pc = "registering"
             \/ m = att /\ pc = "cleaning" /\ reg.pc = "idle" /\ att < MaxAttempts
  <2>1. \/ m = Abandoner \/ m = Stopper
        \/ m \in 1..(att - 1) \/ m \in att..(MaxAttempts - 1)
    BY <1>0, RegFacts DEF Cleaners
  <2>2. CASE m = Abandoner
    BY <1>0, <1>1, <2>2, RegFacts DEF CleanersInv, TurnsInv, Active
  <2>3. m # Stopper /\ m \notin 1..(att - 1)
    BY <1>0, <1>1 DEF CleanersInv, TurnsInv, Active, Overtaken
  <2>4. CASE m \in att..(MaxAttempts - 1)
    BY <1>0, <1>1, <2>4, RegFacts DEF CleanersInv, TurnsInv, Active
  <2> QED
    BY <2>1, <2>2, <2>3, <2>4
<1> QED
  BY <1>1

(* The parts of CleanersInv that do not depend on what the step did. *)
LEMMA CleanupTurns ==
  ASSUME RegInv, CleanupFrame, NEW n \in Cleaners, Active(n),
         c' \in [Cleaners -> CleanerStates],
         \A m \in Cleaners \ {n} : c'[m] = c[m],
         c'[n].pc \notin {"idle", "look"}
  PROVE  /\ TurnsInv' /\ (Overtaken' <=> Overtaken) /\ (Unbuilt' <=> Unbuilt)
         /\ n = Stopper => c'[n].pc # "idle" /\ c[n].pc # "idle"
<1>0. TypeInv /\ CleanersInv
  BY DEF RegInv
<1>1. reg' = reg /\ pc' = pc /\ att' = att /\ upset' = upset
  BY DEF CleanupFrame
<1>2. \A m \in att..(MaxAttempts - 1) : m \in Cleaners
  BY <1>0, RegFacts DEF Cleaners
<1>3. \A m \in 1..(att - 1) : m \in Cleaners
  BY <1>0, RegFacts DEF Cleaners
<1>4. \A m \in Cleaners : c'[m].pc \in {"idle", "look"} => c'[m].saw = None
  BY <1>0 DEF CleanersInv, TurnsInv
<1>5. \A m \in att..(MaxAttempts - 1) : c'[m].pc = "idle" \/ (m = att /\ pc = "cleaning")
  <2> SUFFICES ASSUME NEW m \in att..(MaxAttempts - 1)
               PROVE  c'[m].pc = "idle" \/ (m = att /\ pc = "cleaning")
    OBVIOUS
  <2>1. c[m].pc = "idle" \/ (m = att /\ pc = "cleaning")
    BY <1>0 DEF CleanersInv, TurnsInv
  <2>2. m = n \/ c'[m] = c[m]
    BY <1>2
  <2> QED
    BY <2>1, <2>2 DEF Active
<1>6. "hurried" \notin upset => \A m \in 1..(att - 1) : c'[m].pc \in {"done", "failed"}
  <2> SUFFICES ASSUME NEW m \in 1..(att - 1), "hurried" \notin upset
               PROVE  c'[m].pc \in {"done", "failed"}
    OBVIOUS
  <2>1. c[m].pc \in {"done", "failed"}
    BY <1>0 DEF CleanersInv, TurnsInv
  <2>2. m # n
    BY <2>1 DEF Active
  <2> QED
    BY <1>3, <2>1, <2>2
<1>7. c'[Abandoner].pc # "idle" =>
        \/ reg.pc = "abandon"
        \/ /\ pc \in {"registering", "over"} /\ reg.pc = "idle"
           /\ reg.answer = "refused" /\ ~Active(Abandoner)'
  <2>0. Abandoner \in Cleaners
    BY <1>0, RegFacts
  <2>1. CASE n = Abandoner
    BY <1>0, <2>1 DEF CleanersInv, TurnsInv, Active
  <2>2. CASE n # Abandoner
    BY <1>0, <2>0, <2>2 DEF CleanersInv, TurnsInv, Active, Abandoner
  <2> QED
    BY <2>1, <2>2
<1>8. TurnsInv'
  BY <1>1, <1>4, <1>5, <1>6, <1>7 DEF TurnsInv, Abandoner
<1>9. Overtaken' <=> Overtaken
  <2>0. Stopper \in Cleaners
    BY <1>0, RegFacts
  <2> QED
    BY <1>1, <2>0 DEF Overtaken, Active, Stopper
<1> QED
  BY <1>1, <1>8, <1>9 DEF Unbuilt, Active

(* A cleanup finds its context, or nothing. *)
LEMMA LookStep ==
  ASSUME RegInv, CleanupFrame, NEW n \in Cleaners, CleanupLook(n)
  PROVE  CleanersInv' /\ ToolsInv' /\ OwnInv' /\ OverlapInv' /\ RetryInv'
<1>0. /\ TypeInv /\ CleanersInv /\ ToolsInv /\ OwnInv /\ OverlapInv /\ RetryInv
  BY DEF RegInv
<1>1. /\ ctx' = ctx /\ tools' = tools /\ released' = released /\ art' = art /\ row' = row
      /\ reg' = reg /\ pc' = pc /\ att' = att /\ upset' = upset
      /\ c[n].pc = "look" /\ c[n].saw = None
  BY <1>0 DEF CleanupLook, worldVars, CleanupFrame, CleanersInv, TurnsInv
<1>2. /\ c' \in [Cleaners -> CleanerStates]
      /\ \A m \in Cleaners \ {n} : c'[m] = c[m]
      /\ c'[n].saw = ctx
      /\ c'[n].pc = IF ctx = None THEN "delete" ELSE "lock"
  BY <1>0, RegFacts DEF CleanupLook, CleanerStates, CleanerSteps
<1>3. TurnsInv' /\ (Overtaken' <=> Overtaken) /\ (Unbuilt' <=> Unbuilt)
  BY <1>1, <1>2, CleanupTurns DEF Active
<1>4. CleanersInv'
  <2>1. \A k : Past(k) <=> Past(k)'
    BY <1>1, <1>3 DEF Past
  <2>2. TracesInv'
    BY <1>0, <1>1, <1>2, <2>1, RegFacts DEF CleanersInv, TracesInv
  <2>3. OneHolder'
    BY <1>0, <1>2 DEF CleanersInv, OneHolder
  <2> QED
    BY <1>3, <2>2, <2>3 DEF CleanersInv
<1>5. ToolsInv'
  BY <1>0, <1>1, <1>2, <1>3, RegFacts DEF ToolsInv
<1>6. OwnInv'
  BY <1>0, <1>1, <1>3 DEF OwnInv
<1>7. OverlapInv'
  <2>1. (Orderly' => Orderly) /\ \A k : RowIsOf(row', k) <=> RowIsOf(row, k)
    BY <1>1, <1>2 DEF Orderly, RowIsOf
  <2>2. ASSUME Orderly'
        PROVE  ctx # None /\ c'[n].pc = "lock"
    BY <1>2, <2>2 DEF Orderly
  <2>3. \A m \in Cleaners : c[m].saw = ctx /\ ctx # None => m # n
    BY <1>1
  <2>4. ctx' # None => \/ tools' = ctx'
                       \/ \E m \in Cleaners : c'[m].saw = ctx' /\ c'[m].pc # "lock"
    BY <1>0, <1>1, <1>2, <2>3 DEF OverlapInv
  <2>5. Orderly' =>
          /\ \A m \in Cleaners : c'[m].pc \in {"tools", "delete"} => RowIsOf(row', c'[m].saw)
          /\ ctx' # None => \/ RowIsOf(row', ctx')
                            \/ \E m \in Cleaners : c'[m].saw = ctx' /\ c'[m].pc = "forget"
          /\ reg'.pc = "build" => RowIsOf(row', att')
    BY <1>0, <1>1, <1>2, <2>1, <2>2, <2>3 DEF OverlapInv
  <2> QED
    BY <2>4, <2>5 DEF OverlapInv
<1>8. RetryInv'
  <2>1. n = Stopper \/ c'[Stopper] = c[Stopper]
    BY <1>0, <1>2, RegFacts
  <2>2. upset \cap {"hurried", "stopped"} = {} => c[Stopper].pc = "idle"
    BY <1>0 DEF RetryInv
  <2>3. att > 1 => att - 1 \in Cleaners
    BY <1>0, RegFacts DEF Cleaners
  <2>4. att > 1 /\ c[att - 1].pc = "failed" => c'[att - 1] = c[att - 1]
    BY <1>1, <1>2, <2>3
  <2>5. c'[att] = c[att] \/ (n = att /\ c'[att].saw = ctx /\ c'[att].pc \in {"lock", "delete"})
    BY <1>0, <1>2, RegFacts
  <2> QED
    BY <1>0, <1>1, <2>1, <2>2, <2>4, <2>5 DEF RetryInv, Stopper
<1> QED
  BY <1>4, <1>5, <1>6, <1>7, <1>8

(* A cleanup without the Runner's stop, and none hurried, is not overtaken. *)
LEMMA NotOvertaken ==
  ASSUME RegInv, upset \cap {"hurried", "stopped"} = {}
  PROVE  ~Overtaken
BY DEF RegInv, RetryInv, Overtaken

(* A step of a cleanup leaves what RetryInv says of other cleanups. *)
LEMMA RetryFrame ==
  ASSUME RegInv, CleanupFrame, NEW n \in Cleaners, Active(n),
         \A m \in Cleaners \ {n} : c'[m] = c[m],
         row' \in {row, None},
         /\ pc = "cleaning" /\ n = att /\ upset \cap {"hurried", "stopped"} = {} =>
              /\ c'[att].pc \in {"lock", "tools"} => ctx' = c'[att].saw
              /\ c'[att].pc \in {"forget", "done"} => row' = None
  PROVE  RetryInv'
<1>0. TypeInv /\ RetryInv
  BY DEF RegInv
<1>1. reg' = reg /\ pc' = pc /\ att' = att /\ upset' = upset
  BY DEF CleanupFrame
<1> SUFFICES ASSUME upset \cap {"hurried", "stopped"} = {}
             PROVE  RetryInv'
  BY <1>1 DEF RetryInv
<1>2. ~Overtaken /\ c[Stopper].pc = "idle"
  BY <1>0, NotOvertaken DEF RetryInv
<1>3. Stopper \in Cleaners \ {n} /\ c'[Stopper].pc = "idle"
  BY <1>0, <1>2, RegFacts DEF Active
<1>4. att > 1 /\ c[att - 1].pc = "failed" => c'[att - 1].pc = "failed"
  <2>1. att > 1 => att - 1 \in Cleaners
    BY <1>0, RegFacts DEF Cleaners
  <2> QED
    BY <2>1 DEF Active
<1>5. pc = "cleaning" => n = att
  BY <1>0, <1>2, CleanupHere, RegFacts
<1> QED
  BY <1>0, <1>1, <1>3, <1>4, <1>5 DEF RetryInv, Stopper

(* An attempt that is cleaned up is past its use of the registration. *)
LEMMA OwnFrame ==
  ASSUME RegInv, CleanupFrame, NEW n \in Cleaners, Active(n), Overtaken' <=> Overtaken
  PROVE  OwnInv'
<1>0. TypeInv
  BY DEF RegInv
<1>1. reg' = reg /\ pc' = pc /\ att' = att /\ upset' = upset
  BY DEF CleanupFrame
<1>2. ~Overtaken => \/ reg.pc = "abandon" /\ pc = "registering" /\ reg.answer = None
                    \/ pc = "cleaning" /\ reg.pc = "idle"
  BY <1>0, CleanupHere, RegFacts
<1> QED
  BY <1>1, <1>2, WorldAssumption DEF OwnInv, UnderWay

(* A cleanup gets its context's lock and looks again. *)
LEMMA LockedStep ==
  ASSUME RegInv, CleanupFrame, NEW n \in Cleaners, CleanupLock(n)
  PROVE  CleanersInv' /\ ToolsInv' /\ OwnInv' /\ OverlapInv' /\ RetryInv'
<1>0. /\ TypeInv /\ LockInv /\ CleanersInv /\ ToolsInv /\ OverlapInv /\ RetryInv
  BY DEF RegInv
<1> DEFINE s == CASE ctx # c[n].saw -> "done"
                  [] ctx = c[n].saw /\ ctx \in released -> "delete"
                  [] OTHER -> "tools"
<1>1. /\ ctx' = ctx /\ tools' = tools /\ released' = released /\ art' = art /\ row' = row
      /\ reg' = reg /\ pc' = pc /\ att' = att /\ upset' = upset
      /\ c[n].pc = "lock" /\ ~Locked(c[n].saw) /\ CGoto(n, s)
  BY DEF CleanupLock, worldVars, CleanupFrame
<1>s. /\ s \in {"done", "delete", "tools"}
      /\ s # "done" => ctx = c[n].saw
      /\ s = "delete" => ctx \in released
      /\ s = "done" => ctx # c[n].saw
  OBVIOUS
<1> HIDE DEF s
<1>2. /\ c' \in [Cleaners -> CleanerStates]
      /\ \A m \in Cleaners \ {n} : c'[m] = c[m]
      /\ c'[n].pc = s /\ c'[n].saw = c[n].saw /\ c[n].saw # None
  <2>1. s \in CleanerSteps
    BY <1>s DEF CleanerSteps
  <2> QED
    BY <1>0, <1>1, <2>1, CGotoIs, RegFacts DEF LockInv
<1>n. \A m \in Cleaners : c[m].saw = c[n].saw => c[m].pc \notin {"tools", "delete", "forget"}
  BY <1>1 DEF Locked
<1>3. TurnsInv' /\ (Overtaken' <=> Overtaken) /\ (Unbuilt' <=> Unbuilt) /\ Active(n)
  BY <1>1, <1>2, <1>s, CleanupTurns DEF Active
<1>4. CleanersInv'
  <2>1. \A k : Past(k) <=> Past(k)'
    BY <1>1, <1>3 DEF Past
  <2>2. TracesInv'
    BY <1>0, <1>1, <1>2, <2>1, RegFacts DEF CleanersInv, TracesInv
  <2>3. OneHolder'
    BY <1>0, <1>2, <1>n DEF CleanersInv, OneHolder
  <2> QED
    BY <1>3, <2>2, <2>3 DEF CleanersInv
<1>5. ToolsInv'
  BY <1>0, <1>1, <1>2, <1>3, <1>s, RegFacts DEF ToolsInv
<1>6. OwnInv'
  BY <1>3, OwnFrame
<1>7. OverlapInv'
  <2>1. Orderly' => Orderly
    BY <1>1, <1>2 DEF Orderly
  <2>2. ctx' # None => \/ tools' = ctx'
                       \/ \E m \in Cleaners : c'[m].saw = ctx' /\ c'[m].pc # "lock"
    BY <1>0, <1>1, <1>2, <1>s DEF OverlapInv
  <2>3. ASSUME Orderly
        PROVE  /\ \A m \in Cleaners : c'[m].pc \in {"tools", "delete"} => RowIsOf(row, c'[m].saw)
               /\ ctx # None => \/ RowIsOf(row, ctx)
                                \/ \E m \in Cleaners : c'[m].saw = ctx /\ c'[m].pc = "forget"
               /\ reg.pc = "build" => RowIsOf(row, att)
    <3>1. ctx # None => \/ RowIsOf(row, ctx)
                        \/ \E m \in Cleaners : c[m].saw = ctx /\ c[m].pc = "forget"
      BY <1>0, <2>3 DEF OverlapInv
    <3>2. s # "done" => RowIsOf(row, c[n].saw)
      BY <1>2, <1>n, <1>s, <3>1
    <3>3. \A m \in Cleaners \ {n} : c'[m].pc \in {"tools", "delete"} => RowIsOf(row, c'[m].saw)
      BY <1>0, <1>2, <2>3 DEF OverlapInv
    <3>4. \A m \in Cleaners : c[m].pc = "forget" => m # n
      BY <1>1
    <3> QED
      BY <1>0, <1>2, <1>s, <2>3, <3>1, <3>2, <3>3, <3>4 DEF OverlapInv
  <2> QED
    BY <1>1, <2>1, <2>2, <2>3 DEF OverlapInv
<1>8. RetryInv'
  <2>1. pc = "cleaning" /\ n = att /\ upset \cap {"hurried", "stopped"} = {} => ctx = c[att].saw
    BY <1>0, <1>1 DEF RetryInv
  <2> QED
    BY <1>1, <1>2, <1>3, <1>s, <2>1, RetryFrame
<1> QED
  BY <1>4, <1>5, <1>6, <1>7, <1>8

(* A cleanup stops the tools of its context. *)
LEMMA ToolsStep ==
  ASSUME RegInv, CleanupFrame, NEW n \in Cleaners, CleanupTools(n)
  PROVE  CleanersInv' /\ ToolsInv' /\ OwnInv' /\ OverlapInv' /\ RetryInv'
<1>0. /\ TypeInv /\ LockInv /\ CleanersInv /\ ToolsInv /\ OverlapInv /\ RetryInv
  BY DEF RegInv
<1>1. /\ ctx' = ctx /\ art' = art /\ row' = row
      /\ reg' = reg /\ pc' = pc /\ att' = att /\ upset' = upset
      /\ c[n].pc = "tools" /\ c[n].saw # None
  BY <1>0 DEF CleanupTools, CleanupFrame, LockInv
<1>s. \E s \in {"delete", "failed"} :
        /\ CGoto(n, s)
        /\ tools' = tools \/ (tools = c[n].saw /\ tools' = None)
        /\ s = "delete" => /\ released' = released \cup {c[n].saw}
                           /\ tools = c[n].saw => tools' = None
        /\ s = "failed" => released' = released
  BY DEF CleanupTools
<1>t. PICK s \in {"delete", "failed"} :
        /\ CGoto(n, s)
        /\ tools' = tools \/ (tools = c[n].saw /\ tools' = None)
        /\ s = "delete" => /\ released' = released \cup {c[n].saw}
                           /\ tools = c[n].saw => tools' = None
        /\ s = "failed" => released' = released
  BY <1>s
<1>2. /\ c' \in [Cleaners -> CleanerStates]
      /\ \A m \in Cleaners \ {n} : c'[m] = c[m]
      /\ c'[n].pc = s /\ c'[n].saw = c[n].saw
  <2>1. s \in CleanerSteps
    BY DEF CleanerSteps
  <2> QED
    BY <1>0, <1>t, <2>1, CGotoIs, RegFacts
<1>3. TurnsInv' /\ (Overtaken' <=> Overtaken) /\ (Unbuilt' <=> Unbuilt) /\ Active(n)
  BY <1>1, <1>2, CleanupTurns DEF Active
<1>4. CleanersInv'
  <2>1. \A k : Past(k) <=> Past(k)'
    BY <1>1, <1>3 DEF Past
  <2>2. Past(c[n].saw)
    BY <1>0, <1>1 DEF CleanersInv, TracesInv
  <2>3. \A k \in Attempts : k \in {ctx', tools'} \cup released' =>
                              k \in {ctx, tools} \cup released \/ k = c[n].saw
    BY <1>0, <1>1, <1>t, RegFacts
  <2>4. TracesInv'
    BY <1>0, <1>1, <1>2, <2>1, <2>2, <2>3 DEF CleanersInv, TracesInv
  <2>5. OneHolder'
    BY <1>0, <1>1, <1>2 DEF CleanersInv, OneHolder
  <2> QED
    BY <1>3, <2>4, <2>5 DEF CleanersInv
<1>5. ToolsInv'
  <2> SUFFICES ASSUME ~Overtaken
               PROVE  /\ tools' # None => ctx' = tools' /\ tools' \notin released'
                      /\ \A m \in Cleaners :
                           /\ c'[m].pc = "tools" => ctx' = c'[m].saw
                           /\ c'[m].pc \in {"delete", "forget"} => tools' = None
    BY <1>3 DEF ToolsInv
  <2>1. /\ ctx = c[n].saw
        /\ tools # None => ctx = tools /\ tools \notin released
    BY <1>0, <1>1 DEF ToolsInv
  <2>2. \A m \in Cleaners \ {n} : c'[m].pc \notin {"tools", "delete", "forget"}
    BY <1>2, <1>3, CleanupHere DEF Active
  <2>3. s = "delete" => tools' = None
    BY <1>t, <2>1
  <2> QED
    BY <1>1, <1>2, <1>t, <2>1, <2>2, <2>3
<1>6. OwnInv'
  BY <1>3, OwnFrame
<1>7. OverlapInv'
  <2>1. Orderly' => Orderly
    BY <1>1, <1>2 DEF Orderly
  <2>2. ctx' # None => \/ tools' = ctx'
                       \/ \E m \in Cleaners : c'[m].saw = ctx' /\ c'[m].pc # "lock"
    BY <1>0, <1>1, <1>2, <1>t DEF OverlapInv
  <2>3. ASSUME Orderly
        PROVE  /\ \A m \in Cleaners : c'[m].pc \in {"tools", "delete"} => RowIsOf(row, c'[m].saw)
               /\ ctx # None => \/ RowIsOf(row, ctx)
                                \/ \E m \in Cleaners : c'[m].saw = ctx /\ c'[m].pc = "forget"
               /\ reg.pc = "build" => RowIsOf(row, att)
    <3>1. \A m \in Cleaners : c[m].pc = "forget" => m # n
      BY <1>1
    <3> QED
      BY <1>0, <1>1, <1>2, <2>3, <3>1 DEF OverlapInv
  <2> QED
    BY <1>1, <2>1, <2>2, <2>3 DEF OverlapInv
<1>8. RetryInv'
  BY <1>1, <1>2, <1>3, RetryFrame
<1> QED
  BY <1>4, <1>5, <1>6, <1>7, <1>8

(* A cleanup deletes the trial's row. *)
LEMMA DeleteStep ==
  ASSUME RegInv, CleanupFrame, NEW n \in Cleaners, CleanupDelete(n)
  PROVE  CleanersInv' /\ ToolsInv' /\ OwnInv' /\ OverlapInv' /\ RetryInv'
<1>0. /\ TypeInv /\ CleanersInv /\ ToolsInv /\ OverlapInv /\ RetryInv
  BY DEF RegInv
<1>1. /\ ctx' = ctx /\ art' = art /\ tools' = tools /\ released' = released
      /\ reg' = reg /\ pc' = pc /\ att' = att /\ upset' = upset
      /\ c[n].pc = "delete"
  BY DEF CleanupDelete, CleanupFrame
<1>t. PICK s \in {"forget", "failed"} :
        CGoto(n, s) /\ row' \in {row, None} /\ (s = "forget" => row' = None)
  BY DEF CleanupDelete
<1>2. /\ c' \in [Cleaners -> CleanerStates]
      /\ \A m \in Cleaners \ {n} : c'[m] = c[m]
      /\ c'[n].pc = s /\ c'[n].saw = c[n].saw
  <2>1. s \in CleanerSteps
    BY DEF CleanerSteps
  <2> QED
    BY <1>0, <1>t, <2>1, CGotoIs, RegFacts
<1>3. TurnsInv' /\ (Overtaken' <=> Overtaken) /\ (Unbuilt' <=> Unbuilt) /\ Active(n)
  BY <1>1, <1>2, CleanupTurns DEF Active
<1>4. CleanersInv'
  <2>1. \A k : Past(k) <=> Past(k)'
    BY <1>1, <1>3 DEF Past
  <2>2. TracesInv'
    BY <1>0, <1>1, <1>2, <2>1, RegFacts DEF CleanersInv, TracesInv
  <2>3. OneHolder'
    BY <1>0, <1>1, <1>2 DEF CleanersInv, OneHolder
  <2> QED
    BY <1>3, <2>2, <2>3 DEF CleanersInv
<1>5. ToolsInv'
  BY <1>0, <1>1, <1>2, <1>3 DEF ToolsInv
<1>6. OwnInv'
  BY <1>3, OwnFrame
<1>7. OverlapInv'
  <2>1. Orderly' => Orderly /\ s = "forget" /\ row' = None /\ c[n].saw # None
    BY <1>1, <1>2, <1>t DEF Orderly
  <2>2. ctx' # None => \/ tools' = ctx'
                       \/ \E m \in Cleaners : c'[m].saw = ctx' /\ c'[m].pc # "lock"
    BY <1>0, <1>1, <1>2 DEF OverlapInv
  <2>3. ASSUME Orderly, s = "forget", c[n].saw # None
        PROVE  /\ \A m \in Cleaners : c'[m].pc \notin {"tools", "delete"}
               /\ ctx # None => \E m \in Cleaners : c'[m].saw = ctx /\ c'[m].pc = "forget"
               /\ reg.pc # "build"
    <3>1. RowIsOf(row, c[n].saw)
      BY <1>0, <1>1, <2>3 DEF OverlapInv
    <3>2. \A m \in Cleaners \ {n} : c[m].pc \notin {"tools", "delete"}
      <4> SUFFICES ASSUME NEW m \in Cleaners \ {n}, c[m].pc \in {"tools", "delete"}
                   PROVE  FALSE
        OBVIOUS
      <4>1. RowIsOf(row, c[m].saw)
        BY <1>0, <2>3 DEF OverlapInv
      <4>2. c[m].saw = c[n].saw
        BY <3>1, <4>1 DEF RowIsOf
      <4> QED
        BY <1>0, <1>1, <2>3, <4>2 DEF CleanersInv, OneHolder
    <3>3. ctx # None => \E m \in Cleaners : c'[m].saw = ctx /\ c'[m].pc = "forget"
      <4>1. RowIsOf(row, ctx) => c[n].saw = ctx
        BY <3>1 DEF RowIsOf
      <4>2. \A m \in Cleaners : c[m].pc = "forget" => c'[m] = c[m]
        BY <1>1, <1>2
      <4> QED
        BY <1>0, <1>2, <2>3, <4>1, <4>2 DEF OverlapInv
    <3>4. reg.pc # "build"
      <4>1. Past(c[n].saw)
        BY <1>0, <2>3 DEF CleanersInv, TracesInv
      <4>2. reg.pc = "build" => Unbuilt
        BY <1>0, RegFacts DEF Unbuilt
      <4>3. reg.pc = "build" => c[n].saw = att
        BY <1>0, <2>3, <3>1 DEF OverlapInv, RowIsOf
      <4> QED
        BY <4>1, <4>2, <4>3 DEF Past
    <3> QED
      BY <1>2, <2>3, <3>2, <3>3, <3>4
  <2> QED
    BY <1>1, <2>1, <2>2, <2>3 DEF OverlapInv
<1>8. RetryInv'
  BY <1>1, <1>2, <1>3, <1>t, RetryFrame
<1> QED
  BY <1>4, <1>5, <1>6, <1>7, <1>8

(* A cleanup forgets its context. *)
LEMMA ForgetStep ==
  ASSUME RegInv, CleanupFrame, NEW n \in Cleaners, CleanupForget(n)
  PROVE  CleanersInv' /\ ToolsInv' /\ OwnInv' /\ OverlapInv' /\ RetryInv'
<1>0. /\ TypeInv /\ CleanersInv /\ ToolsInv /\ OverlapInv /\ RetryInv
  BY DEF RegInv
<1>1. /\ tools' = tools /\ released' = released /\ row' = row
      /\ reg' = reg /\ pc' = pc /\ att' = att /\ upset' = upset
      /\ c[n].pc = "forget"
      /\ ctx' = IF c[n].saw = None THEN ctx ELSE None
  BY DEF CleanupForget, CleanupFrame, worldVars
<1>t. PICK s \in {"done", "failed"} : CGoto(n, s)
  BY DEF CleanupForget
<1>2. /\ c' \in [Cleaners -> CleanerStates]
      /\ \A m \in Cleaners \ {n} : c'[m] = c[m]
      /\ c'[n].pc = s /\ c'[n].saw = c[n].saw
  <2>1. s \in CleanerSteps
    BY DEF CleanerSteps
  <2> QED
    BY <1>0, <1>t, <2>1, CGotoIs, RegFacts
<1>3. TurnsInv' /\ (Overtaken' <=> Overtaken) /\ (Unbuilt' <=> Unbuilt) /\ Active(n)
  BY <1>1, <1>2, CleanupTurns DEF Active
<1>4. CleanersInv'
  <2>1. \A k : Past(k) <=> Past(k)'
    BY <1>1, <1>3 DEF Past
  <2>2. TracesInv'
    BY <1>0, <1>1, <1>2, <2>1, RegFacts DEF CleanersInv, TracesInv
  <2>3. OneHolder'
    BY <1>0, <1>1, <1>2 DEF CleanersInv, OneHolder
  <2> QED
    BY <1>3, <2>2, <2>3 DEF CleanersInv
<1>5. ToolsInv'
  <2> SUFFICES ASSUME ~Overtaken
               PROVE  ToolsInv'
    BY <1>3 DEF ToolsInv
  <2>1. tools = None
    BY <1>0, <1>1 DEF ToolsInv
  <2>2. \A m \in Cleaners : c'[m].pc \notin {"tools", "delete", "forget"}
    BY <1>2, <1>3, CleanupHere DEF Active
  <2> QED
    BY <1>1, <2>1, <2>2 DEF ToolsInv
<1>6. OwnInv'
  BY <1>3, OwnFrame
<1>7. OverlapInv'
  <2>1. Orderly' => Orderly /\ ctx' = None
    BY <1>1, <1>2 DEF Orderly
  <2>2. ctx' # None => \/ tools' = ctx'
                       \/ \E m \in Cleaners : c'[m].saw = ctx' /\ c'[m].pc # "lock"
    BY <1>0, <1>1, <1>2 DEF OverlapInv
  <2>3. ASSUME Orderly
        PROVE  /\ \A m \in Cleaners : c'[m].pc \in {"tools", "delete"} => RowIsOf(row, c'[m].saw)
               /\ reg.pc = "build" => RowIsOf(row, att)
    BY <1>0, <1>1, <1>2, <2>3 DEF OverlapInv
  <2> QED
    BY <1>1, <2>1, <2>2, <2>3 DEF OverlapInv
<1>8. RetryInv'
  <2>1. pc = "cleaning" /\ n = att /\ upset \cap {"hurried", "stopped"} = {} => row = None
    BY <1>0, <1>1 DEF RetryInv
  <2> QED
    BY <1>1, <1>2, <1>3, <2>1, RetryFrame
<1> QED
  BY <1>4, <1>5, <1>6, <1>7, <1>8

-----------------------------------------------------------------------------
(* The Runner is told to stop: its cleanup overtakes every other. *)
LEMMA StopsStep ==
  ASSUME RegInv, RunnerStops, upset' = upset \cup {"stopped"}, UNCHANGED <<pc, att>>
  PROVE  CleanersInv' /\ ToolsInv' /\ OwnInv' /\ OverlapInv' /\ RetryInv'
<1>0. /\ TypeInv /\ CleanersInv /\ OverlapInv
  BY DEF RegInv
<1>1. /\ ctx' = ctx /\ art' = art /\ tools' = tools /\ released' = released
      /\ reg' = reg /\ att' = att /\ pc' = pc /\ row' = row
      /\ c[Stopper].pc = "idle"
  BY DEF RunnerStops
<1>2. /\ \A n \in Cleaners \ {Stopper} : c'[n] = c[n]
      /\ c'[Stopper].pc = "look" /\ c'[Stopper].saw = None
  BY <1>0, RegFacts DEF RunnerStops
<1>3. c[Stopper].saw = None /\ c'[Abandoner] = c[Abandoner]
  BY <1>0, <1>1, <1>2, RegFacts DEF CleanersInv, TurnsInv
<1>4. Overtaken' /\ (Unbuilt' <=> Unbuilt)
  BY <1>1, <1>2 DEF Overtaken, Unbuilt, Stopper
<1>5. CleanersInv'
  <2>1. \A k : Past(k)' <=> Past(k)
    BY <1>1, <1>4 DEF Past
  <2>2. TracesInv'
    BY <1>0, <1>1, <1>2, <2>1 DEF CleanersInv, TracesInv
  <2>3. TurnsInv'
    <3>1. \A n \in att..(MaxAttempts - 1) : n \in Cleaners \ {Stopper}
      BY <1>0, RegFacts DEF Cleaners
    <3>2. \A n \in 1..(att - 1) : n \in Cleaners \ {Stopper}
      BY <1>0, RegFacts DEF Cleaners
    <3>3. \A n \in Cleaners : c'[n].pc \in {"idle", "look"} => c'[n].saw = None
      BY <1>0, <1>2 DEF CleanersInv, TurnsInv
    <3>4. \A n \in att..(MaxAttempts - 1) : c'[n].pc = "idle" \/ (n = att /\ pc = "cleaning")
      BY <1>0, <1>2, <3>1 DEF CleanersInv, TurnsInv
    <3>5. "hurried" \notin upset' => \A n \in 1..(att - 1) : c'[n].pc \in {"done", "failed"}
      BY <1>0, <1>2, <3>2 DEF CleanersInv, TurnsInv
    <3>6. c'[Abandoner].pc # "idle" =>
            \/ reg.pc = "abandon"
            \/ /\ pc \in {"registering", "over"} /\ reg.pc = "idle"
               /\ reg.answer = "refused" /\ ~Active(Abandoner)'
      BY <1>0, <1>3 DEF CleanersInv, TurnsInv, Active, Abandoner
    <3> QED
      BY <1>1, <3>3, <3>4, <3>5, <3>6 DEF TurnsInv, Abandoner
  <2>4. OneHolder'
    BY <1>0, <1>2 DEF CleanersInv, OneHolder
  <2> QED
    BY <2>2, <2>3, <2>4 DEF CleanersInv
<1>6. ToolsInv' /\ OwnInv'
  BY <1>4 DEF ToolsInv, OwnInv
<1>7. OverlapInv'
  <2>1. (Orderly' => Orderly) /\ \A k : RowIsOf(row', k) <=> RowIsOf(row, k)
    BY <1>1, <1>2 DEF Orderly, RowIsOf
  <2>2. \A n \in Cleaners : c'[n].pc \in {"tools", "delete"} => c'[n] = c[n]
    BY <1>2
  <2>3. \A n \in Cleaners : c[n].saw = ctx /\ ctx # None => c'[n] = c[n]
    BY <1>2, <1>3
  <2>4. ctx' # None => \/ tools' = ctx'
                       \/ \E m \in Cleaners : c'[m].saw = ctx' /\ c'[m].pc # "lock"
    BY <1>0, <1>1, <2>3 DEF OverlapInv
  <2> QED
    BY <1>0, <1>1, <2>1, <2>2, <2>3, <2>4 DEF OverlapInv
<1>8. RetryInv'
  BY DEF RetryInv
<1> QED
  BY <1>5, <1>6, <1>7, <1>8

(* The Runner process is gone: no cleanup runs and nothing is registered. *)
LEMMA GoneStep ==
  ASSUME RegInv, RunnerGone
  PROVE  CleanersInv' /\ ToolsInv' /\ OwnInv' /\ OverlapInv' /\ RetryInv'
<1>0. /\ TypeInv /\ CleanersInv /\ RetryInv
  BY DEF RegInv
<1>1. /\ ctx' = None /\ art' = None /\ tools' = None /\ released' = released
      /\ row' = row /\ att' = att /\ upset' = upset \cup {"gone"}
      /\ pc' = IF pc = "calling" THEN "agent" ELSE pc
  BY DEF RunnerGone, ProcessGone
<1>2. /\ reg'.pc = "idle"
      /\ \/ reg' = reg
         \/ reg.pc # "idle" /\ reg'.answer = "refused"
  BY <1>0, RegFacts DEF RunnerGone, ProcessGone, RegistryTypeOK
<1>3. /\ c'[Stopper].pc = "idle" /\ c'[Stopper].saw = None
      /\ \A n \in Cleaners \ {Stopper} :
           /\ c'[n].saw = c[n].saw
           /\ c'[n].pc = IF c[n].pc \in {"idle", "done"} THEN c[n].pc ELSE "failed"
  BY <1>0, GoneCleaners DEF NoCleanup
<1>4. \A n \in Cleaners : c'[n].pc \in {"idle", "done", "failed"}
  BY <1>3
<1>5. Unbuilt' => Unbuilt
  BY <1>1, <1>2 DEF Unbuilt
<1>6. CleanersInv'
  <2>1. \A k : Past(k) => Past(k)'
    BY <1>1, <1>5 DEF Past
  <2>2. TracesInv'
    BY <1>0, <1>1, <1>3, <2>1, RegFacts DEF CleanersInv, TracesInv
  <2>3. TurnsInv'
    <3>1. \A n \in att..(MaxAttempts - 1) : n \in Cleaners \ {Stopper}
      BY <1>0, RegFacts DEF Cleaners
    <3>2. \A n \in 1..(att - 1) : n \in Cleaners \ {Stopper}
      BY <1>0, RegFacts DEF Cleaners
    <3>3. \A n \in Cleaners : c'[n].pc \in {"idle", "look"} => c'[n].saw = None
      BY <1>0, <1>3, <1>4 DEF CleanersInv, TurnsInv
    <3>4. \A n \in att..(MaxAttempts - 1) : c'[n].pc = "idle" \/ (n = att /\ pc' = "cleaning")
      BY <1>0, <1>1, <1>3, <3>1 DEF CleanersInv, TurnsInv
    <3>5. "hurried" \notin upset' => \A n \in 1..(att - 1) : c'[n].pc \in {"done", "failed"}
      BY <1>0, <1>1, <1>3, <3>2 DEF CleanersInv, TurnsInv
    <3>6. c'[Abandoner].pc # "idle" =>
            /\ pc' \in {"registering", "over"} /\ reg'.pc = "idle"
            /\ reg'.answer = "refused" /\ ~Active(Abandoner)'
      <4>1. Abandoner \in Cleaners \ {Stopper}
        BY <1>0, RegFacts
      <4>2. ~Active(Abandoner)'
        BY <1>4, <4>1 DEF Active, Abandoner
      <4>3. c'[Abandoner].pc # "idle" => c[Abandoner].pc # "idle"
        BY <1>3, <4>1
      <4>4. reg.pc # "idle" => pc = "registering"
        BY <1>0, RegFacts
      <4> QED
        BY <1>0, <1>1, <1>2, <4>2, <4>3, <4>4 DEF CleanersInv, TurnsInv
    <3> QED
      BY <1>1, <3>3, <3>4, <3>5, <3>6 DEF TurnsInv, Abandoner
  <2>4. OneHolder'
    BY <1>4 DEF OneHolder
  <2> QED
    BY <2>2, <2>3, <2>4 DEF CleanersInv
<1>7. ToolsInv' /\ OwnInv'
  BY <1>1, <1>4 DEF ToolsInv, OwnInv
<1>8. OverlapInv'
  BY <1>1, <1>2, <1>4 DEF OverlapInv
<1>9. RetryInv'
  <2> SUFFICES ASSUME upset' \cap {"hurried", "stopped"} = {}
               PROVE  RetryInv'
    BY DEF RetryInv
  <2>1. upset \cap {"hurried", "stopped"} = {}
    BY <1>1
  <2>2. \A n \in Cleaners : n # Stopper =>
          /\ c[n].pc = "failed" => c'[n].pc = "failed"
          /\ c'[n].pc = "done" => c[n].pc = "done"
          /\ c'[n].pc \notin {"lock", "tools", "forget"}
    BY <1>3, <1>4
  <2>3. att > 1 => att - 1 \in Cleaners /\ att - 1 # Stopper
    BY <1>0, RegFacts DEF Cleaners
  <2>4. pc = "cleaning" => att \in Cleaners /\ att # Stopper
    BY <1>0, RegFacts
  <2>5. pc' = "register" \/ reg'.pc \in {"extract", "init"} => pc = "register"
    BY <1>1, <1>2
  <2>6. reg'.answer = "duplicate" => reg' = reg
    BY <1>2
  <2>7. pc' = "cleaning" => pc = "cleaning"
    BY <1>1
  <2>8. pc \in {"registering", "over"} => pc' = pc
    BY <1>1
  <2> QED
    BY <1>0, <1>1, <1>3, <2>1, <2>2, <2>3, <2>4, <2>5, <2>6, <2>7, <2>8
       DEF RetryInv, Stopper
<1> QED
  BY <1>6, <1>7, <1>8, <1>9

-----------------------------------------------------------------------------
(* The invariant of registrations and cleanups holds at the start. *)
LEMMA RegInit ==
  ASSUME Init
  PROVE  RegInv
<1>1. TypeInv /\ LockInv
  BY TypeInit
<1>2. /\ ctx = None /\ art = None /\ tools = None /\ released = {} /\ row = None
      /\ reg.pc = "idle" /\ reg.answer = None /\ pc = "register" /\ att = 1 /\ upset = {}
      /\ \A n \in Cleaners : c[n].pc = "idle" /\ c[n].saw = None
  BY DEF Init, WorldInit, RegistryInit, NoCleanup
<1>3. CleanersInv
  <2>1. \A n \in att..(MaxAttempts - 1) : n \in Cleaners
    BY <1>1, RegFacts DEF Cleaners
  <2>2. TurnsInv
    <3>1. \A n \in 1..(att - 1) : FALSE
      BY <1>2
    <3>2. c[Abandoner].pc = "idle"
      BY <1>1, <1>2, RegFacts
    <3> QED
      BY <1>2, <2>1, <3>1, <3>2 DEF TurnsInv
  <2>3. TracesInv /\ OneHolder
    BY <1>1, <1>2, RegFacts DEF TracesInv, OneHolder
  <2> QED
    BY <2>2, <2>3 DEF CleanersInv
<1>4. ToolsInv /\ OwnInv /\ OverlapInv
  BY <1>2, WorldAssumption DEF ToolsInv, OwnInv, OverlapInv, UnderWay
<1>5. RetryInv
  BY <1>1, <1>2, RegFacts, WorldAssumption DEF RetryInv
<1> QED
  BY <1>1, <1>3, <1>4, <1>5 DEF RegInv

(* Every step keeps it. *)
LEMMA RegStep ==
  ASSUME RegInv, [Next]_vars
  PROVE  RegInv'
<1>1. TypeInv' /\ LockInv'
  BY TypeStep, LockStep DEF RegInv
<1>2. CleanersInv' /\ ToolsInv' /\ OwnInv' /\ OverlapInv' /\ RetryInv'
  <2>1. CASE Aside
    BY <2>1, AsideStep
  <2>2. CASE EngineRegisters \/ EngineCleansUp \/ NextAttempt
    BY <2>2, RegistersStep, CleansUpStep, NextAttemptStep
  <2>3. CASE /\ Extract \/ InitTrial \/ Build(hasHolder) \/ Start \/ AbandonRegistration
             /\ UNCHANGED <<gradingVars, engineVars>>
    <3>1. UNCHANGED engineVars
      BY <2>3
    <3> QED
      BY <2>3, <3>1, ExtractStep, InitTrialStep, BuildStep, StartStep
  <2>4. CASE /\ \E n \in Cleaners : CleanupStep(n)
             /\ UNCHANGED <<gradingVars, engineVars>>
    <3>1. PICK n \in Cleaners : CleanupStep(n)
      BY <2>4
    <3>2. reg' = reg
      BY <3>1 DEF CleanupStep, CleanupLook, CleanupLock, CleanupTools, CleanupDelete,
         CleanupForget
    <3>3. CleanupFrame
      BY <2>4, <3>2 DEF CleanupFrame, engineVars
    <3> QED
      BY <3>1, <3>3, LookStep, LockedStep, ToolsStep, DeleteStep, ForgetStep
         DEF CleanupStep
  <2>5. CASE /\ RunnerStops /\ upset' = upset \cup {"stopped"}
             /\ UNCHANGED <<gradingVars, pc, att, calls, failed, late>>
    <3>1. UNCHANGED <<pc, att>>
      BY <2>5
    <3> QED
      BY <2>5, <3>1, StopsStep
  <2>6. CASE RunnerGone
    BY <2>6, GoneStep
  <2>7. Aside \/ Touches
    BY AsideOrTouches DEF RegInv
  <2> QED
    BY <2>1, <2>2, <2>3, <2>4, <2>5, <2>6, <2>7 DEF Touches
<1> QED
  BY <1>1, <1>2 DEF RegInv

(* An attempt under way has what the invariant says is its own. *)
LEMMA OwnFromInv ==
  ASSUME RegInv
  PROVE  OwnRegistration
<1>0. TypeInv /\ OwnInv /\ OverlapInv /\ CleanersInv
  BY DEF RegInv
<1> SUFFICES ASSUME pc \in UnderWay
             PROVE  OwnRegistration
  BY DEF OwnRegistration
<1>1. ~Overtaken /\ "gone" \notin upset =>
        {ctx, art, tools} = {att} /\ row # None /\ row.of = att
  BY <1>0 DEF OwnInv
<1>2. ASSUME ctx = att,
             \A n \in Cleaners : \/ c[n].pc = "idle"
                                 \/ c[n].saw \notin {None, att} /\ c[n].pc # "failed"
      PROVE  tools = att /\ row # None /\ row.of = att
  <2>1. Orderly
    BY <1>2 DEF Orderly
  <2>2. ctx # None /\ \A n \in Cleaners : c[n].saw # ctx
    BY <1>0, <1>2, RegFacts DEF CleanersInv, TurnsInv, Attempts
  <2> QED
    BY <1>0, <1>2, <2>1, <2>2 DEF OverlapInv, RowIsOf
<1> QED
  BY <1>1, <1>2 DEF OwnRegistration

(* Tools that are up are known to the Runner, for any number of attempts and
   whatever fails in their registrations and cleanups: while no cleanup was
   overtaken and the Runner was not told to stop, the tools are those of the
   context in self.trials. *)
THEOREM ToolsAreAccountedFor == Spec => []ToolsAccountedFor
<1>1. RegInv => ToolsAccountedFor
  BY DEF RegInv, ToolsInv, ToolsAccountedFor
<1> QED
  BY <1>1, RegInit, RegStep, PTL DEF Spec

(* An attempt under way has its own registration, for any number of attempts:
   all of it while no cleanup was overtaken and the Runner lives; and however
   many cleanups of earlier attempts overlap it, none that found an earlier
   context deletes its row or stops its tools, as long as none failed. *)
THEOREM RegistrationIsOwn == Spec => []OwnRegistration
BY RegInit, RegStep, OwnFromInv, PTL DEF Spec

(* A registration is refused as a duplicate only where a cleanup failed, had
   not answered or met the Runner's own: a CleanupTrial that answered success
   has deleted the row, for any number of attempts. *)
THEOREM RetryIsNotRefused == Spec => []RetryNotRefused
<1>1. ASSUME RegInv
      PROVE  RetryNotRefused
  <2>1. TypeInv /\ RetryInv
    BY <1>1 DEF RegInv
  <2> QED
    BY <2>1 DEF RetryInv, RetryNotRefused, Retry
<1> QED
  BY <1>1, RegInit, RegStep, PTL DEF Spec
=============================================================================
