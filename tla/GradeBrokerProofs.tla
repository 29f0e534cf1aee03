-------------------------- MODULE GradeBrokerProofs --------------------------
(***************************************************************************)
(* Theorems about GradeBroker, for any number of jobs and worker threads,  *)
(* with time-outs and a close at any moment.                               *)
(***************************************************************************)
EXTENDS GradeBroker, TLAPS

-----------------------------------------------------------------------------
(* Every action of a caller, a worker thread or close() keeps the types. *)
LEMMA BrokerTypeStep ==
  ASSUME TypeOK, [Next]_vars
  PROVE  TypeOK'
<1> USE BrokerAssumption DEF TypeOK
<1>1. ASSUME NEW j \in Jobs, Publish(j) PROVE TypeOK'
  <2> USE <1>1 DEF Publish
  <2>1. caller' \in [Jobs -> {"start", "put", "wait", "cancel", "returned", "raised"}]
    OBVIOUS
  <2>2. futures' \subseteq Jobs
    OBVIOUS
  <2>3. CASE closed
    BY <2>1, <2>2, <2>3
  <2>4. CASE ~closed
    <3>1. outcome' \in [Jobs -> Outcomes]
      BY <2>4 DEF Outcomes
    <3> QED
      BY <2>1, <2>2, <3>1
  <2> QED
    BY <2>3, <2>4
<1>2. ASSUME NEW j \in Jobs, Put(j) PROVE TypeOK'
  <2> USE <1>2 DEF Put
  <2>1. caller' \in [Jobs -> {"start", "put", "wait", "cancel", "returned", "raised"}]
    OBVIOUS
  <2>2. q' \in Seq(Jobs \cup {CLOSE})
    OBVIOUS
  <2> QED
    BY <2>1, <2>2
<1>3. ASSUME NEW j \in Jobs, Await(j) \/ TimeOut(j) \/ Cancel(j) PROVE TypeOK'
  BY <1>3 DEF Await, TimeOut, Cancel
<1>4. ASSUME NEW g \in Graders, NextJob(g) PROVE TypeOK'
  <2> USE <1>4 DEF NextJob
  <2>1. Head(q) \in Jobs \cup {CLOSE}
    OBVIOUS
  <2>2. q' \in Seq(Jobs \cup {CLOSE})
    OBVIOUS
  <2>3. CASE Head(q) = CLOSE
    BY <2>1, <2>2, <2>3
  <2>4. CASE Head(q) # CLOSE
    BY <2>1, <2>2, <2>4
  <2> QED
    BY <2>3, <2>4
<1>5. ASSUME NEW g \in Graders, Repost(g) PROVE TypeOK'
  <2> USE <1>5 DEF Repost
  <2>1. q' \in Seq(Jobs \cup {CLOSE})
    OBVIOUS
  <2> QED
    BY <2>1
<1>6. ASSUME NEW g \in Graders, GradeJob(g) PROVE TypeOK'
  BY <1>6 DEF GradeJob
<1>7. ASSUME NEW g \in Graders, PublishResult(g) PROVE TypeOK'
  BY <1>7 DEF PublishResult
<1>8. ASSUME NEW g \in Graders, SetFuture(g) PROVE TypeOK'
  BY <1>8 DEF SetFuture, Outcomes
<1>9. CASE CloseBroker
  BY <1>9 DEF CloseBroker
<1>10. CASE PostSentinel
  <2> USE <1>10 DEF PostSentinel
  <2>1. q' \in Seq(Jobs \cup {CLOSE})
    OBVIOUS
  <2> QED
    BY <2>1
<1>11. CASE FailFuture
  <2> USE <1>11 DEF FailFuture
  <2>1. toFail' \subseteq Jobs
    OBVIOUS
  <2>2. outcome' \in [Jobs -> Outcomes]
    BY DEF Outcomes
  <2> QED
    BY <2>1, <2>2
<1>12. CASE Join
  BY <1>12 DEF Join
<1>13. CASE Finished \/ UNCHANGED vars
  BY <1>13 DEF Finished, vars
<1> QED
  BY <1>1, <1>2, <1>3, <1>4, <1>5, <1>6, <1>7, <1>8, <1>9, <1>10, <1>11, <1>12, <1>13
     DEF Next, Caller, Grader, CarryOutClose

(* The initial state is of the right type. *)
LEMMA BrokerTypeInit == Init => TypeOK
<1> SUFFICES ASSUME Init PROVE TypeOK
  OBVIOUS
<1> USE DEF Init
<1>1. q \in Seq(Jobs \cup {CLOSE})
  OBVIOUS
<1>2. outcome \in [Jobs -> Outcomes] /\ verdict \in [Graders -> Resolutions]
  BY DEF Outcomes, Resolutions
<1>3. closed \in BOOLEAN
  OBVIOUS
<1> QED
  BY <1>1, <1>2, <1>3 DEF TypeOK

(* The threads of the grader keep the broker's state in its types; a worker
   past next_job always has a job in hand. *)
THEOREM BrokerTypeCorrect == Spec => []TypeOK
<1>1. TypeOK /\ [Next]_vars => TypeOK'
  BY BrokerTypeStep
<1> QED
  BY BrokerTypeInit, <1>1, PTL DEF Spec

-----------------------------------------------------------------------------
(* What close() has done: it empties the dictionary in the step that sets the
   flag, and publish_job fills it only while the flag is not set. *)
ClosedIsEmpty ==
  /\ closed => futures = {} /\ closer # "open"
  /\ ~closed => closer = "open" /\ toFail = {}

(* An entry of the dictionary is the future of a call under way, and nobody
   has resolved it. *)
EntryIsOpen ==
  \A j \in futures : outcome[j] = "waiting" /\ caller[j] \notin {"start", "returned", "raised"}

(* A worker about to set a future got it from a call that published it. *)
HandWasPublished ==
  \A j \in Jobs : \A g \in Graders : InHand(j, g) => caller[j] # "start"

(* The inductive invariant: a future is resolved once because it is in one
   place, and it is in one place because taking it from the dictionary and
   closing the dictionary are single steps. *)
BrokerInv ==
  /\ TypeOK /\ ClosedIsEmpty /\ EntryIsOpen /\ HandWasPublished
  /\ OneResolver /\ NoOrphan /\ NoLostJob

(* A step that moves no future and starts no wait keeps every future in its
   one place. *)
LEMMA PlaceFrame ==
  ASSUME ClosedIsEmpty, EntryIsOpen, HandWasPublished, OneResolver, NoOrphan,
         UNCHANGED <<futures, outcome, closed, toFail>>,
         (closed /\ closer' # "open") \/ closer' = closer,
         \A j \in Jobs :
           /\ caller'[j] = "start" => caller[j] = "start"
           /\ caller'[j] \in {"put", "wait"} => caller[j] \in {"put", "wait"}
           /\ j \in futures => caller'[j] \notin {"start", "returned", "raised"},
         \A j \in Jobs : \A g \in Graders : InHand(j, g)' <=> InHand(j, g),
         futures \subseteq Jobs
  PROVE  /\ ClosedIsEmpty' /\ EntryIsOpen' /\ HandWasPublished'
         /\ OneResolver' /\ NoOrphan'
<1>1. ClosedIsEmpty'
  BY DEF ClosedIsEmpty
<1>2. EntryIsOpen'
  BY DEF EntryIsOpen
<1>3. HandWasPublished'
  BY DEF HandWasPublished
<1>4. OneResolver'
  BY DEF OneResolver, InDictionary, InClose
<1>5. NoOrphan'
  BY DEF NoOrphan, InDictionary, InClose
<1> QED
  BY <1>1, <1>2, <1>3, <1>4, <1>5

(* A step that leaves the queue and the workers' hands alone, and makes no
   caller wait for an entry it has not been waiting for, loses no job. *)
LEMMA JobFrame ==
  ASSUME NoLostJob, UNCHANGED <<q, grader, job>>,
         \A j \in Jobs : caller'[j] = "wait" /\ j \in futures' =>
                           caller[j] = "wait" /\ j \in futures
  PROVE  NoLostJob'
BY DEF NoLostJob, InDictionary

(* The initial state satisfies the invariant. *)
LEMMA BrokerInit == Init => BrokerInv
<1> SUFFICES ASSUME Init PROVE BrokerInv
  OBVIOUS
<1>1. TypeOK
  BY BrokerTypeInit
<1> QED
  BY <1>1 DEF Init, BrokerInv, ClosedIsEmpty, EntryIsOpen, HandWasPublished,
     OneResolver, NoOrphan, NoLostJob, InDictionary, InClose, InHand

(* No step of a caller, a worker thread or close() breaks it. *)
LEMMA BrokerStep ==
  ASSUME BrokerInv, [Next]_vars
  PROVE  BrokerInv'
<1>0. /\ TypeOK /\ ClosedIsEmpty /\ EntryIsOpen /\ HandWasPublished
      /\ OneResolver /\ NoOrphan /\ NoLostJob /\ TypeOK'
  BY BrokerTypeStep DEF BrokerInv
<1>t. /\ q \in Seq(Jobs \cup {CLOSE}) /\ futures \subseteq Jobs /\ toFail \subseteq Jobs
      /\ outcome \in [Jobs -> Outcomes]
      /\ caller \in [Jobs -> {"start", "put", "wait", "cancel", "returned", "raised"}]
      /\ grader \in [Graders -> {"next", "repost", "grading", "publish", "set",
                                 "stopped", "dead"}]
      /\ job \in [Graders -> Jobs \cup {None}]
      /\ verdict \in [Graders -> Resolutions]
      /\ \A g \in Graders : grader[g] \in {"grading", "publish", "set"} => job[g] \in Jobs
  BY <1>0 DEF TypeOK
<1> USE BrokerAssumption, <1>0, <1>t
<1>1. ASSUME NEW j \in Jobs, Publish(j) PROVE BrokerInv'
  <2> USE <1>1 DEF Publish, ClosedIsEmpty
  <2>h. \A k \in Jobs : \A g \in Graders : InHand(k, g)' <=> InHand(k, g)
    BY DEF InHand
  <2>l. NoLostJob'
    BY DEF NoLostJob, InDictionary
  <2>1. CASE closed
    BY <2>1, <2>h, <2>l, PlaceFrame DEF BrokerInv
  <2>2. CASE ~closed
    <3> USE <2>2, <2>h
    <3>1. ClosedIsEmpty' /\ EntryIsOpen'
      BY DEF EntryIsOpen
    <3>2. HandWasPublished'
      BY DEF HandWasPublished
    <3>3. OneResolver'
      BY DEF OneResolver, HandWasPublished, InDictionary, InClose
    <3>4. NoOrphan'
      BY DEF NoOrphan, InDictionary, InClose
    <3> QED
      BY <2>l, <3>1, <3>2, <3>3, <3>4 DEF BrokerInv
  <2> QED
    BY <2>1, <2>2
<1>2. ASSUME NEW j \in Jobs, Put(j) PROVE BrokerInv'
  <2> USE <1>2 DEF Put
  <2>1. /\ ClosedIsEmpty' /\ EntryIsOpen' /\ HandWasPublished'
        /\ OneResolver' /\ NoOrphan'
    BY PlaceFrame DEF InHand, EntryIsOpen
  <2>2. NoLostJob'
    <3> SUFFICES ASSUME NEW k \in Jobs, caller'[k] = "wait", k \in futures
                 PROVE  \/ \E i \in DOMAIN q' : q'[i] = k
                        \/ \E g \in Graders : (grader[g] \in {"grading", "publish"} /\ job[g] = k)'
      BY DEF NoLostJob, InDictionary
    <3>1. CASE k = j
      <4>1. Len(q) + 1 \in DOMAIN q' /\ q'[Len(q) + 1] = j
        OBVIOUS
      <4> QED
        BY <3>1, <4>1
    <3>2. CASE k # j
      <4>1. \A i \in DOMAIN q : i \in DOMAIN q' /\ q'[i] = q[i]
        OBVIOUS
      <4>2. caller[k] = "wait"
        BY <3>2
      <4> QED
        BY <4>1, <4>2 DEF NoLostJob, InDictionary
    <3> QED
      BY <3>1, <3>2
  <2> QED
    BY <2>1, <2>2 DEF BrokerInv
<1>3. ASSUME NEW j \in Jobs, Await(j) \/ TimeOut(j) PROVE BrokerInv'
  <2> USE <1>3 DEF Await, TimeOut
  <2>1. /\ ClosedIsEmpty' /\ EntryIsOpen' /\ HandWasPublished'
        /\ OneResolver' /\ NoOrphan'
    BY PlaceFrame DEF InHand, EntryIsOpen
  <2>2. NoLostJob'
    BY JobFrame
  <2> QED
    BY <2>1, <2>2 DEF BrokerInv
<1>4. ASSUME NEW j \in Jobs, Cancel(j) PROVE BrokerInv'
  <2> USE <1>4 DEF Cancel
  <2>h. \A k \in Jobs : \A g \in Graders : InHand(k, g)' <=> InHand(k, g)
    BY DEF InHand
  <2>1. ClosedIsEmpty' /\ EntryIsOpen'
    BY DEF ClosedIsEmpty, EntryIsOpen
  <2>2. HandWasPublished'
    BY <2>h DEF HandWasPublished
  <2>3. OneResolver'
    BY <2>h DEF OneResolver, InDictionary, InClose
  <2>4. NoOrphan'
    BY <2>h DEF NoOrphan, InDictionary, InClose
  <2>5. NoLostJob'
    BY JobFrame
  <2> QED
    BY <2>1, <2>2, <2>3, <2>4, <2>5 DEF BrokerInv
<1>5. ASSUME NEW g \in Graders, NextJob(g) PROVE BrokerInv'
  <2> USE <1>5 DEF NextJob
  <2>1. /\ ClosedIsEmpty' /\ EntryIsOpen' /\ HandWasPublished'
        /\ OneResolver' /\ NoOrphan'
    BY PlaceFrame DEF InHand, EntryIsOpen
  <2>2. NoLostJob'
    <3> SUFFICES ASSUME NEW k \in Jobs, caller[k] = "wait", k \in futures
                 PROVE  \/ \E i \in DOMAIN q' : q'[i] = k
                        \/ \E h \in Graders : (grader[h] \in {"grading", "publish"} /\ job[h] = k)'
      BY DEF NoLostJob, InDictionary
    <3>1. ASSUME NEW h \in Graders, grader[h] \in {"grading", "publish"} /\ job[h] = k
          PROVE  (grader[h] \in {"grading", "publish"} /\ job[h] = k)'
      BY <3>1
    <3>2. ASSUME NEW i \in DOMAIN q, q[i] = k, i = 1
          PROVE  (grader[g] \in {"grading", "publish"} /\ job[g] = k)'
      BY <3>2
    <3>3. ASSUME NEW i \in DOMAIN q, q[i] = k, i # 1
          PROVE  i - 1 \in DOMAIN q' /\ q'[i - 1] = k
      BY <3>3
    <3> QED
      BY <3>1, <3>2, <3>3 DEF NoLostJob, InDictionary
  <2> QED
    BY <2>1, <2>2 DEF BrokerInv
<1>6. ASSUME NEW g \in Graders, Repost(g) PROVE BrokerInv'
  <2> USE <1>6 DEF Repost
  <2>1. /\ ClosedIsEmpty' /\ EntryIsOpen' /\ HandWasPublished'
        /\ OneResolver' /\ NoOrphan'
    BY PlaceFrame DEF InHand, EntryIsOpen
  <2>2. \A i \in DOMAIN q : i \in DOMAIN q' /\ q'[i] = q[i]
    OBVIOUS
  <2>3. NoLostJob'
    BY <2>2 DEF NoLostJob, InDictionary
  <2> QED
    BY <2>1, <2>3 DEF BrokerInv
<1>7. ASSUME NEW g \in Graders, GradeJob(g) PROVE BrokerInv'
  <2> USE <1>7 DEF GradeJob
  <2>1. /\ ClosedIsEmpty' /\ EntryIsOpen' /\ HandWasPublished'
        /\ OneResolver' /\ NoOrphan'
    BY PlaceFrame DEF InHand, EntryIsOpen
  <2>2. NoLostJob'
    BY DEF NoLostJob, InDictionary
  <2> QED
    BY <2>1, <2>2 DEF BrokerInv
<1>8. ASSUME NEW g \in Graders, PublishResult(g) PROVE BrokerInv'
  <2> USE <1>8 DEF PublishResult
  <2>j. job[g] \in Jobs /\ job' = job /\ grader[g] = "publish"
    OBVIOUS
  <2>h. /\ \A k \in Jobs : \A h \in Graders \ {g} : InHand(k, h)' <=> InHand(k, h)
        /\ \A k \in Jobs : ~InHand(k, g)
        /\ \A k \in Jobs : InHand(k, g)' <=> k = job[g] /\ job[g] \in futures
    BY DEF InHand
  <2>1. ClosedIsEmpty' /\ EntryIsOpen'
    BY DEF ClosedIsEmpty, EntryIsOpen
  <2>2. HandWasPublished'
    BY <2>h DEF HandWasPublished, EntryIsOpen
  <2>3. OneResolver'
    BY <2>h DEF OneResolver, InDictionary, InClose, EntryIsOpen
  <2>4. NoOrphan'
    BY <2>h DEF NoOrphan, InDictionary, InClose
  <2>5. NoLostJob'
    BY DEF NoLostJob, InDictionary
  <2> QED
    BY <2>1, <2>2, <2>3, <2>4, <2>5 DEF BrokerInv
<1>9. ASSUME NEW g \in Graders, SetFuture(g) PROVE BrokerInv'
  <2> USE <1>9 DEF SetFuture
  <2>j. job[g] \in Jobs /\ InHand(job[g], g) /\ verdict[g] # "waiting"
    BY DEF InHand, Resolutions
  <2>h. /\ \A k \in Jobs : \A h \in Graders \ {g} : InHand(k, h)' <=> InHand(k, h)
        /\ \A k \in Jobs : ~InHand(k, g)'
    BY DEF InHand
  <2>n. job[g] \notin futures
    BY <2>j DEF OneResolver, InDictionary
  <2>1. ClosedIsEmpty' /\ EntryIsOpen'
    BY <2>n DEF ClosedIsEmpty, EntryIsOpen
  <2>2. HandWasPublished'
    BY <2>h DEF HandWasPublished
  <2>3. OneResolver'
    BY <2>j, <2>h DEF OneResolver, InDictionary, InClose
  <2>4. NoOrphan'
    <3> SUFFICES ASSUME NEW k \in Jobs, caller[k] \in {"put", "wait"},
                        outcome'[k] = "waiting"
                 PROVE  (InDictionary(k) \/ InClose(k) \/ \E h \in Graders : InHand(k, h))'
      BY DEF NoOrphan
    <3>1. k # job[g] /\ outcome[k] = "waiting"
      BY <2>j
    <3>2. ~InHand(k, g)
      BY <3>1 DEF InHand
    <3> QED
      BY <2>h, <3>1, <3>2 DEF NoOrphan, InDictionary, InClose
  <2>5. NoLostJob'
    BY DEF NoLostJob, InDictionary
  <2> QED
    BY <2>1, <2>2, <2>3, <2>4, <2>5 DEF BrokerInv
<1>10. CASE CloseBroker
  <2> USE <1>10 DEF CloseBroker
  <2>h. \A k \in Jobs : \A g \in Graders : InHand(k, g)' <=> InHand(k, g)
    BY DEF InHand
  <2>1. ClosedIsEmpty' /\ EntryIsOpen'
    BY DEF ClosedIsEmpty, EntryIsOpen
  <2>2. HandWasPublished'
    BY <2>h DEF HandWasPublished
  <2>3. OneResolver'
    BY <2>h DEF OneResolver, InDictionary, InClose
  <2>4. NoOrphan'
    <3>1. toFail = {}
      BY DEF ClosedIsEmpty
    <3> QED
      BY <2>h, <3>1 DEF NoOrphan, InDictionary, InClose
  <2>5. NoLostJob'
    BY JobFrame
  <2> QED
    BY <2>1, <2>2, <2>3, <2>4, <2>5 DEF BrokerInv
<1>11. CASE PostSentinel
  <2> USE <1>11 DEF PostSentinel
  <2>1. /\ ClosedIsEmpty' /\ EntryIsOpen' /\ HandWasPublished'
        /\ OneResolver' /\ NoOrphan'
    BY PlaceFrame DEF InHand, EntryIsOpen, ClosedIsEmpty
  <2>2. \A i \in DOMAIN q : i \in DOMAIN q' /\ q'[i] = q[i]
    OBVIOUS
  <2>3. NoLostJob'
    BY <2>2 DEF NoLostJob, InDictionary
  <2> QED
    BY <2>1, <2>3 DEF BrokerInv
<1>12. CASE FailFuture
  <2> USE <1>12 DEF FailFuture
  <2>h. \A k \in Jobs : \A g \in Graders : InHand(k, g)' <=> InHand(k, g)
    BY DEF InHand
  <2> PICK j \in toFail :
        /\ toFail' = toFail \ {j}
        /\ outcome' = [outcome EXCEPT ![j] = IF @ = "waiting" THEN "broker closed" ELSE @]
    OBVIOUS
  <2>j. /\ j \in Jobs /\ outcome'[j] # "waiting"
        /\ \A k \in Jobs \ {j} : outcome'[k] = outcome[k]
    OBVIOUS
  <2>c. closed /\ futures = {}
    BY DEF ClosedIsEmpty
  <2>1. ClosedIsEmpty' /\ EntryIsOpen'
    BY <2>c DEF ClosedIsEmpty, EntryIsOpen
  <2>2. HandWasPublished'
    BY <2>h DEF HandWasPublished
  <2>3. OneResolver'
    <3>1. ASSUME NEW k \in Jobs, NEW g \in Graders, InHand(k, g)
          PROVE  /\ k \notin futures' /\ k \notin toFail' /\ outcome'[k] = "waiting"
                 /\ \A h \in Graders : InHand(k, h) => h = g
      <4>1. /\ k \notin toFail /\ outcome[k] = "waiting"
            /\ \A h \in Graders : InHand(k, h) => h = g
        BY <3>1 DEF OneResolver, InClose
      <4> QED
        BY <2>j, <2>c, <4>1
    <3> QED
      BY <2>h, <2>c, <3>1 DEF OneResolver, InDictionary, InClose
  <2>4. NoOrphan'
    BY <2>h, <2>j DEF NoOrphan, InDictionary, InClose
  <2>5. NoLostJob'
    BY JobFrame
  <2> QED
    BY <2>1, <2>2, <2>3, <2>4, <2>5 DEF BrokerInv
<1>13. CASE Join \/ Finished \/ UNCHANGED vars
  <2> USE <1>13 DEF Join, Finished, vars
  <2>1. /\ ClosedIsEmpty' /\ EntryIsOpen' /\ HandWasPublished'
        /\ OneResolver' /\ NoOrphan'
    BY PlaceFrame DEF InHand, EntryIsOpen, ClosedIsEmpty
  <2>2. NoLostJob'
    BY JobFrame
  <2> QED
    BY <2>1, <2>2 DEF BrokerInv
<1> QED
  BY <1>1, <1>2, <1>3, <1>4, <1>5, <1>6, <1>7, <1>8, <1>9, <1>10, <1>11, <1>12, <1>13
     DEF Next, Caller, Grader, CarryOutClose

(* However calls, time-outs, results and close() interleave, every future has
   exactly one thread or place that will resolve it while its caller waits, a
   call that ended leaves no entry behind, and no job that is waited for gets
   lost between the queue and the workers. *)
THEOREM BrokerSafety == Spec => [](OneResolver /\ NoOrphan /\ NoLeak /\ NoLostJob)
<1>1. BrokerInv /\ [Next]_vars => BrokerInv'
  BY BrokerStep
<1>2. BrokerInv => OneResolver /\ NoOrphan /\ NoLeak /\ NoLostJob
  BY DEF BrokerInv, EntryIsOpen, NoLeak, InDictionary
<1> QED
  BY BrokerInit, <1>1, <1>2, PTL DEF Spec

-----------------------------------------------------------------------------
(* Where a job is: in the queue, or with a worker that has not let go of it. *)
Queued(j) == \E i \in DOMAIN q : q[i] = j
Carries(g) == grader[g] \in {"grading", "publish", "set", "dead"}

(* A job is put once, so there is one copy of it. *)
QueuedOnce ==
  /\ \A i, k \in DOMAIN q : q[i] = q[k] /\ q[i] \in Jobs => i = k
  /\ \A j \in Jobs : Queued(j) => caller[j] \notin {"start", "put"}

CarriedOnce ==
  \A g \in Graders : Carries(g) =>
    /\ job[g] \in Jobs /\ ~Queued(job[g]) /\ caller[job[g]] \notin {"start", "put"}
    /\ \A h \in Graders : Carries(h) /\ job[h] = job[g] => h = g

(* While the broker is open, a job on its way to its result is unresolved, and
   missing in the dictionary only because its caller gave up. *)
OnTheWay(j) ==
  \/ Queued(j) \/ caller[j] = "put"
  \/ \E g \in Graders : grader[g] \in {"grading", "publish"} /\ job[g] = j

Expected ==
  ~closed => \A j \in Jobs : OnTheWay(j) =>
               outcome[j] = "waiting" /\ (j \in futures \/ caller[j] = "raised")

(* The job that ended a worker's loop is nobody's any more. *)
Killed ==
  \A g \in Graders : grader[g] = "dead" =>
    /\ job[g] \notin futures /\ job[g] \notin toFail
    /\ caller[job[g]] = "raised" /\ outcome[job[g]] = "waiting"

LateInv == QueuedOnce /\ CarriedOnce /\ Expected /\ Killed

(* Taking the first element: what is left was there, and the one taken is not
   among it. *)
LEMMA TailOnce ==
  ASSUME TypeOK, QueuedOnce, q # <<>>, q' = Tail(q), UNCHANGED caller
  PROVE  /\ QueuedOnce'
         /\ \A j \in Jobs : Queued(j)' => Queued(j)
         /\ \A j \in Jobs : j = Head(q) => Queued(j) /\ ~Queued(j)'
<1>1. q \in Seq(Jobs \cup {CLOSE})
  BY DEF TypeOK
<1>2. /\ Len(q) \in Nat \ {0} /\ DOMAIN q = 1..Len(q) /\ DOMAIN q' = 1..(Len(q) - 1)
      /\ \A i \in DOMAIN q' : i + 1 \in DOMAIN q /\ q'[i] = q[i + 1]
      /\ Head(q) = q[1] /\ 1 \in DOMAIN q
  BY <1>1
<1>3. \A i, k \in DOMAIN q' : q'[i] = q'[k] /\ q'[i] \in Jobs => i = k
  BY <1>2 DEF QueuedOnce
<1>4. \A j \in Jobs : Queued(j)' => Queued(j)
  BY <1>2 DEF Queued
<1>5. \A j \in Jobs : j = Head(q) => Queued(j) /\ ~Queued(j)'
  BY <1>2 DEF QueuedOnce, Queued
<1>6. QueuedOnce'
  BY <1>3, <1>4 DEF QueuedOnce
<1> QED
  BY <1>4, <1>5, <1>6

(* Appending adds what is appended and nothing else. *)
LEMMA AppendOnce ==
  ASSUME TypeOK, NEW x \in Jobs \cup {CLOSE}, q' = Append(q, x)
  PROVE  /\ \A j \in Jobs : Queued(j)' <=> Queued(j) \/ j = x
         /\ QueuedOnce /\ (x \in Jobs => ~Queued(x)) =>
              \A i, k \in DOMAIN q' : q'[i] = q'[k] /\ q'[i] \in Jobs => i = k
<1>1. q \in Seq(Jobs \cup {CLOSE})
  BY DEF TypeOK
<1>2. /\ Len(q) \in Nat /\ DOMAIN q = 1..Len(q) /\ DOMAIN q' = 1..(Len(q) + 1)
      /\ \A i \in DOMAIN q : q'[i] = q[i]
      /\ q'[Len(q) + 1] = x
  BY <1>1
<1>3. \A j \in Jobs : Queued(j)' <=> Queued(j) \/ j = x
  BY <1>2 DEF Queued
<1>4. QueuedOnce /\ (x \in Jobs => ~Queued(x)) =>
        \A i, k \in DOMAIN q' : q'[i] = q'[k] /\ q'[i] \in Jobs => i = k
  BY <1>2 DEF QueuedOnce, Queued
<1> QED
  BY <1>3, <1>4

(* A step that leaves the queue and the workers' hands alone, resolves no future
   of a job on its way and moves no caller back. *)
LEMMA LateFrame ==
  ASSUME TypeOK, LateInv, UNCHANGED <<q, grader, job>>,
         \A j \in Jobs : /\ caller'[j] \in {"start", "put"} => caller'[j] = caller[j]
                         /\ caller[j] = "raised" => caller'[j] = "raised",
         ~closed' => /\ ~closed
                     /\ \A j \in Jobs : OnTheWay(j) =>
                          /\ outcome[j] = "waiting" => outcome'[j] = "waiting"
                          /\ j \in futures => j \in futures' \/ caller'[j] = "raised",
         \A j \in Jobs : caller[j] = "raised" /\ j \notin futures /\ j \notin toFail =>
                           j \notin futures' /\ j \notin toFail' /\ outcome'[j] = outcome[j]
  PROVE  LateInv'
<1>1. \A j \in Jobs : Queued(j)' = Queued(j)
  BY DEF Queued
<1>2. QueuedOnce'
  BY <1>1 DEF LateInv, QueuedOnce
<1>3. \A g \in Graders : Carries(g)' = Carries(g)
  BY DEF Carries
<1>4. CarriedOnce'
  <2> SUFFICES ASSUME NEW g \in Graders, Carries(g)
               PROVE  /\ job'[g] \in Jobs /\ ~Queued(job[g])' /\ caller'[job'[g]] \notin {"start", "put"}
                      /\ \A h \in Graders : Carries(h)' /\ job'[h] = job'[g] => h = g
    BY <1>3 DEF CarriedOnce
  <2>1. PICK j \in Jobs : j = job[g]
    BY DEF LateInv, CarriedOnce
  <2>2. ~Queued(j) /\ caller[j] \notin {"start", "put"} /\ job'[g] = j
    BY <2>1 DEF LateInv, CarriedOnce
  <2>3. ~Queued(j)' /\ caller'[j] \notin {"start", "put"}
    BY <1>1, <2>2
  <2>4. \A h \in Graders : Carries(h)' /\ job'[h] = job'[g] => h = g
    BY <1>3 DEF LateInv, CarriedOnce
  <2> QED BY <2>1, <2>2, <2>3, <2>4 DEF Queued
<1>5. \A j \in Jobs : OnTheWay(j)' => OnTheWay(j)
  BY <1>1 DEF OnTheWay
<1>6. Expected'
  BY <1>5 DEF LateInv, Expected
<1>7. Killed'
  <2>1. \A g \in Graders : grader[g] = "dead" => job[g] \in Jobs
    BY DEF LateInv, CarriedOnce, Carries
  <2> QED BY <2>1 DEF LateInv, Killed
<1> QED BY <1>2, <1>4, <1>6, <1>7 DEF LateInv

(* No step breaks it: the first caller to give up is the only one whose answer
   finds nothing while the broker is open. *)
LEMMA LateStep ==
  ASSUME BrokerInv, LateInv, [Next]_vars
  PROVE  LateInv'
<1>0. /\ TypeOK /\ ClosedIsEmpty /\ EntryIsOpen
      /\ QueuedOnce /\ CarriedOnce /\ Expected /\ Killed
  BY DEF BrokerInv, LateInv
<1>t. /\ caller \in [Jobs -> {"start", "put", "wait", "cancel", "returned", "raised"}]
      /\ grader \in [Graders -> {"next", "repost", "grading", "publish", "set", "stopped", "dead"}]
      /\ job \in [Graders -> Jobs \cup {None}] /\ outcome \in [Jobs -> Outcomes]
      /\ futures \subseteq Jobs /\ toFail \subseteq Jobs
      /\ q \in Seq(Jobs \cup {CLOSE}) /\ closed \in BOOLEAN
      /\ CLOSE \notin Jobs
  BY <1>0, BrokerAssumption DEF TypeOK
<1>d. \A g \in Graders : grader[g] = "dead" => job[g] \in Jobs
  BY <1>0 DEF CarriedOnce, Carries
<1>1. ASSUME NEW j \in Jobs, Publish(j) PROVE LateInv'
  <2>1. CASE closed
    BY <1>0, <1>t, <1>1, <2>1, LateFrame DEF Publish
  <2>2. CASE ~closed
    <3>1. /\ caller[j] = "start" /\ futures' = futures \cup {j}
          /\ outcome' = [outcome EXCEPT ![j] = "waiting"]
          /\ caller' = [caller EXCEPT ![j] = "put"]
          /\ UNCHANGED <<q, closed, toFail, grader, job>>
      BY <1>1, <2>2 DEF Publish
    <3>2. /\ ~Queued(j) /\ \A g \in Graders : Carries(g) => job[g] # j
          /\ \A k \in Jobs : Queued(k)' = Queued(k)
          /\ \A g \in Graders : Carries(g)' = Carries(g)
      BY <1>0, <3>1 DEF QueuedOnce, CarriedOnce, Queued, Carries
    <3>3. QueuedOnce'
      BY <1>0, <1>t, <3>1, <3>2 DEF QueuedOnce
    <3>4. CarriedOnce'
      <4> SUFFICES ASSUME NEW g \in Graders, Carries(g)
                   PROVE  /\ job'[g] \in Jobs /\ ~Queued(job[g])' /\ caller'[job'[g]] \notin {"start", "put"}
                          /\ \A h \in Graders : Carries(h)' /\ job'[h] = job'[g] => h = g
        BY <3>2 DEF CarriedOnce
      <4>1. PICK k \in Jobs : k = job[g]
        BY <1>0 DEF CarriedOnce
      <4>2. ~Queued(k) /\ caller'[k] \notin {"start", "put"} /\ job'[g] = k
        BY <1>0, <1>t, <3>1, <3>2, <4>1 DEF CarriedOnce
      <4>3. \A h \in Graders : Carries(h)' /\ job'[h] = job'[g] => h = g
        BY <1>0, <3>1, <3>2 DEF CarriedOnce
      <4> QED BY <3>2, <4>1, <4>2, <4>3 DEF Queued
    <3>5. \A k \in Jobs : OnTheWay(k)' => OnTheWay(k) \/ k = j
      BY <1>t, <3>1, <3>2 DEF OnTheWay
    <3>6. Expected'
      BY <1>0, <1>t, <2>2, <3>1, <3>5 DEF Expected
    <3>7. Killed'
      BY <1>0, <1>t, <1>d, <3>1 DEF Killed
    <3> QED BY <3>3, <3>4, <3>6, <3>7 DEF LateInv
  <2> QED BY <2>1, <2>2
<1>2. ASSUME NEW j \in Jobs, Put(j) PROVE LateInv'
  <2>1. /\ caller[j] = "put" /\ q' = Append(q, j) /\ caller' = [caller EXCEPT ![j] = "wait"]
        /\ UNCHANGED <<futures, outcome, closed, toFail, grader, job>>
    BY <1>2 DEF Put
  <2>2. /\ ~Queued(j) /\ \A g \in Graders : Carries(g) => job[g] # j
        /\ \A g \in Graders : Carries(g)' = Carries(g)
    BY <1>0, <2>1 DEF QueuedOnce, CarriedOnce, Carries
  <2>3. /\ \A k \in Jobs : Queued(k)' <=> Queued(k) \/ k = j
        /\ \A i, k \in DOMAIN q' : q'[i] = q'[k] /\ q'[i] \in Jobs => i = k
    BY <1>0, <2>1, <2>2, AppendOnce
  <2>4. QueuedOnce'
    BY <1>0, <1>t, <2>1, <2>3 DEF QueuedOnce
  <2>5. CarriedOnce'
    <3> SUFFICES ASSUME NEW g \in Graders, Carries(g)
                 PROVE  /\ job'[g] \in Jobs /\ ~Queued(job[g])' /\ caller'[job'[g]] \notin {"start", "put"}
                        /\ \A h \in Graders : Carries(h)' /\ job'[h] = job'[g] => h = g
      BY <2>2 DEF CarriedOnce
    <3>1. PICK k \in Jobs : k = job[g]
      BY <1>0 DEF CarriedOnce
    <3>2. ~Queued(k)' /\ caller'[k] \notin {"start", "put"} /\ job'[g] = k
      BY <1>0, <1>t, <2>1, <2>2, <2>3, <3>1 DEF CarriedOnce
    <3>3. \A h \in Graders : Carries(h)' /\ job'[h] = job'[g] => h = g
      BY <1>0, <2>1, <2>2 DEF CarriedOnce
    <3> QED BY <3>1, <3>2, <3>3 DEF Queued
  <2>6. \A k \in Jobs : OnTheWay(k)' => OnTheWay(k)
    BY <1>t, <2>1, <2>3 DEF OnTheWay
  <2>7. Expected'
    BY <1>0, <1>t, <2>1, <2>6 DEF Expected
  <2>8. Killed'
    BY <1>0, <1>t, <1>d, <2>1 DEF Killed
  <2> QED BY <2>4, <2>5, <2>7, <2>8 DEF LateInv
<1>3. ASSUME NEW j \in Jobs, Await(j) \/ TimeOut(j) PROVE LateInv'
  BY <1>0, <1>t, <1>3, LateFrame DEF Await, TimeOut
<1>4. ASSUME NEW j \in Jobs, Cancel(j) PROVE LateInv'
  BY <1>0, <1>t, <1>4, LateFrame DEF Cancel
<1>5. CASE CloseBroker
  BY <1>0, <1>t, <1>5, LateFrame DEF CloseBroker
<1>6. CASE FailFuture
  <2>1. closed /\ closed' = closed
    BY <1>0, <1>6 DEF FailFuture, ClosedIsEmpty
  <2>2. PICK j \in toFail :
          /\ toFail' = toFail \ {j}
          /\ outcome' = [outcome EXCEPT ![j] = IF @ = "waiting" THEN "broker closed" ELSE @]
    BY <1>6 DEF FailFuture
  <2>3. \A k \in Jobs : k \notin toFail => outcome'[k] = outcome[k]
    BY <1>t, <2>2
  <2>4. UNCHANGED <<q, grader, job, caller, futures>>
    BY <1>6 DEF FailFuture
  <2> QED BY <1>0, <2>1, <2>2, <2>3, <2>4, LateFrame
<1>7. CASE Join \/ Finished \/ UNCHANGED vars
  BY <1>0, <1>t, <1>7, LateFrame DEF Join, Finished, vars
<1>8. ASSUME q' = Append(q, CLOSE), UNCHANGED <<futures, outcome, closed, toFail, caller, job>>,
             \A g \in Graders : /\ Carries(g)' <=> Carries(g)
                                /\ Carries(g) => grader'[g] = grader[g]
      PROVE  LateInv'
  <2>1. /\ \A k \in Jobs : Queued(k)' <=> Queued(k)
        /\ \A i, k \in DOMAIN q' : q'[i] = q'[k] /\ q'[i] \in Jobs => i = k
    BY <1>0, <1>t, <1>8, AppendOnce
  <2>2. QueuedOnce'
    BY <1>0, <1>8, <2>1 DEF QueuedOnce
  <2>3. CarriedOnce'
    <3> SUFFICES ASSUME NEW g \in Graders, Carries(g)
                 PROVE  /\ job'[g] \in Jobs /\ ~Queued(job[g])' /\ caller'[job'[g]] \notin {"start", "put"}
                        /\ \A h \in Graders : Carries(h)' /\ job'[h] = job'[g] => h = g
      BY <1>8 DEF CarriedOnce
    <3>1. PICK k \in Jobs : k = job[g]
      BY <1>0 DEF CarriedOnce
    <3>2. ~Queued(k)' /\ caller'[k] \notin {"start", "put"} /\ job'[g] = k
      BY <1>0, <1>8, <2>1, <3>1 DEF CarriedOnce
    <3>3. \A h \in Graders : Carries(h)' /\ job'[h] = job'[g] => h = g
      BY <1>0, <1>8 DEF CarriedOnce
    <3> QED BY <3>1, <3>2, <3>3 DEF Queued
  <2>4. \A k \in Jobs : OnTheWay(k)' => OnTheWay(k)
    BY <1>8, <2>1 DEF OnTheWay, Carries
  <2>5. Expected'
    BY <1>0, <1>8, <2>4 DEF Expected
  <2>6. Killed'
    BY <1>0, <1>8 DEF Killed, Carries
  <2> QED BY <2>2, <2>3, <2>5, <2>6 DEF LateInv
<1>9. CASE PostSentinel
  BY <1>8, <1>9 DEF PostSentinel, Carries
<1>10. ASSUME NEW g \in Graders, Repost(g) PROVE LateInv'
  BY <1>t, <1>8, <1>10 DEF Repost, Carries
<1>11. ASSUME NEW g \in Graders, NextJob(g) PROVE LateInv'
  <2>1. /\ grader[g] = "next" /\ q # <<>> /\ q' = Tail(q)
        /\ UNCHANGED <<futures, outcome, closed, toFail, caller>>
    BY <1>11 DEF NextJob
  <2>2. /\ QueuedOnce' /\ \A j \in Jobs : Queued(j)' => Queued(j)
        /\ \A j \in Jobs : j = Head(q) => Queued(j) /\ ~Queued(j)'
    BY <1>0, <2>1, TailOnce
  <2>3. \A h \in Graders \ {g} : grader'[h] = grader[h] /\ job'[h] = job[h]
    BY <1>t, <1>11 DEF NextJob
  <2>4. \/ grader'[g] = "repost"
        \/ grader'[g] = "grading" /\ job'[g] = Head(q) /\ Head(q) \in Jobs
    BY <1>t, <1>11 DEF NextJob
  <2>5. CarriedOnce'
    <3> SUFFICES ASSUME NEW h \in Graders, Carries(h)'
                 PROVE  /\ job'[h] \in Jobs /\ ~Queued(job[h])' /\ caller'[job'[h]] \notin {"start", "put"}
                        /\ \A i \in Graders : Carries(i)' /\ job'[i] = job'[h] => i = h
      BY DEF CarriedOnce
    <3>1. PICK k \in Jobs : k = job'[h]
      BY <1>0, <2>3, <2>4 DEF CarriedOnce, Carries
    <3>2. ~Queued(k)' /\ caller'[k] \notin {"start", "put"}
      BY <1>0, <2>1, <2>2, <2>3, <2>4, <3>1 DEF CarriedOnce, QueuedOnce, Carries
    <3>3. \A i \in Graders : Carries(i)' /\ job'[i] = job'[h] => i = h
      BY <1>0, <2>2, <2>3, <2>4, <3>1 DEF CarriedOnce, Carries
    <3> QED BY <3>1, <3>2, <3>3 DEF Queued
  <2>6. \A k \in Jobs : OnTheWay(k)' => OnTheWay(k)
    BY <2>1, <2>2, <2>3, <2>4 DEF OnTheWay
  <2>7. Expected'
    BY <1>0, <2>1, <2>6 DEF Expected
  <2>8. Killed'
    BY <1>0, <2>1, <2>3, <2>4 DEF Killed
  <2> QED BY <2>2, <2>5, <2>7, <2>8 DEF LateInv
<1>12. ASSUME NEW g \in Graders, GradeJob(g) \/ PublishResult(g) \/ SetFuture(g)
       PROVE  LateInv'
  <2>1. /\ UNCHANGED <<q, closed, toFail, caller, job>> /\ Carries(g)
        /\ \A h \in Graders \ {g} : grader'[h] = grader[h]
    BY <1>t, <1>12 DEF GradeJob, PublishResult, SetFuture, Carries
  <2>2. PICK j \in Jobs : j = job[g]
    BY <1>0, <2>1 DEF CarriedOnce
  <2>3. \A k \in Jobs : Queued(k)' = Queued(k)
    BY <2>1 DEF Queued
  <2>4. QueuedOnce'
    BY <1>0, <2>1, <2>3 DEF QueuedOnce
  <2>5. \A h \in Graders : Carries(h)' => Carries(h)
    BY <2>1 DEF Carries
  <2>6. CarriedOnce'
    <3> SUFFICES ASSUME NEW h \in Graders, Carries(h)
                 PROVE  /\ job'[h] \in Jobs /\ ~Queued(job[h])' /\ caller'[job'[h]] \notin {"start", "put"}
                        /\ \A i \in Graders : Carries(i)' /\ job'[i] = job'[h] => i = h
      BY <2>5 DEF CarriedOnce
    <3>1. PICK k \in Jobs : k = job[h]
      BY <1>0 DEF CarriedOnce
    <3>2. ~Queued(k)' /\ caller'[k] \notin {"start", "put"} /\ job'[h] = k
      BY <1>0, <2>1, <2>3, <3>1 DEF CarriedOnce
    <3>3. \A i \in Graders : Carries(i)' /\ job'[i] = job'[h] => i = h
      BY <1>0, <2>1, <2>5 DEF CarriedOnce
    <3> QED BY <3>1, <3>2, <3>3 DEF Queued
  <2>7. /\ ~Queued(j) /\ caller[j] # "put"
        /\ \A h \in Graders \ {g} : Carries(h) => job[h] # j
    BY <1>0, <2>1, <2>2 DEF CarriedOnce
  <2>8. \A h \in Graders \ {g} : grader[h] = "dead" => job[h] # j
    BY <2>7 DEF Carries
  <2>9. CASE GradeJob(g)
    <3>1. grader[g] = "grading" /\ grader'[g] = "publish" /\ UNCHANGED <<futures, outcome>>
      BY <1>t, <2>9 DEF GradeJob
    <3>2. \A k \in Jobs : OnTheWay(k)' => OnTheWay(k)
      BY <2>1, <2>3, <3>1 DEF OnTheWay
    <3>3. Expected'
      BY <1>0, <2>1, <3>1, <3>2 DEF Expected
    <3>4. Killed'
      BY <1>0, <2>1, <3>1 DEF Killed
    <3> QED BY <2>4, <2>6, <3>3, <3>4 DEF LateInv
  <2>10. CASE PublishResult(g)
    <3>1. /\ grader[g] = "publish" /\ futures' = futures \ {j} /\ outcome' = outcome
          /\ grader'[g] \in {"set", "next", "dead"}
          /\ grader'[g] = "dead" => j \notin futures /\ ~closed
      BY <1>t, <2>2, <2>10 DEF PublishResult
    <3>2. \A k \in Jobs : OnTheWay(k)' => OnTheWay(k) /\ k # j
      BY <2>1, <2>3, <2>7, <3>1 DEF OnTheWay, Carries
    <3>3. Expected'
      BY <1>0, <2>1, <3>1, <3>2 DEF Expected
    <3>4. OnTheWay(j)
      BY <2>2, <3>1 DEF OnTheWay
    <3>5. grader'[g] = "dead" => caller[j] = "raised" /\ outcome[j] = "waiting" /\ j \notin toFail
      BY <1>0, <3>1, <3>4 DEF Expected, ClosedIsEmpty
    <3>6. Killed'
      BY <1>0, <2>1, <2>2, <3>1, <3>5 DEF Killed
    <3> QED BY <2>4, <2>6, <3>3, <3>6 DEF LateInv
  <2>11. CASE SetFuture(g)
    <3>1. /\ grader[g] = "set" /\ grader'[g] = "next" /\ futures' = futures
          /\ \A k \in Jobs \ {j} : outcome'[k] = outcome[k]
      BY <1>t, <2>2, <2>11 DEF SetFuture
    <3>2. \A k \in Jobs : OnTheWay(k)' => OnTheWay(k) /\ k # j
      BY <2>1, <2>3, <2>7, <3>1 DEF OnTheWay, Carries
    <3>3. Expected'
      BY <1>0, <2>1, <3>1, <3>2 DEF Expected
    <3>4. Killed'
      BY <1>0, <1>d, <2>1, <2>8, <3>1 DEF Killed
    <3> QED BY <2>4, <2>6, <3>3, <3>4 DEF LateInv
  <2> QED BY <1>12, <2>9, <2>10, <2>11
<1> QED
  BY <1>1, <1>2, <1>3, <1>4, <1>5, <1>6, <1>7, <1>9, <1>10, <1>11, <1>12
  DEF Next, Caller, Grader, CarryOutClose

(* The answer to a job whose caller gave up waiting is the only thing that ends
   a worker's loop: for any number of callers, workers and jobs, whatever the
   order of results, time-outs and close(). *)
THEOREM OnlyLateResults == Spec => []OnlyLateResultKills
<1>1. Init => LateInv
  BY DEF Init, LateInv, QueuedOnce, CarriedOnce, Queued, Carries, Expected, OnTheWay, Killed
<1>2. BrokerInv /\ LateInv /\ [Next]_vars => BrokerInv' /\ LateInv'
  BY BrokerStep, LateStep
<1>3. LateInv => OnlyLateResultKills
  BY DEF LateInv, Killed, OnlyLateResultKills
<1> QED
  BY BrokerInit, <1>1, <1>2, <1>3, PTL DEF Spec
=============================================================================
