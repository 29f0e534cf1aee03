---------------------------- MODULE GradeBroker -----------------------------
(***************************************************************************)
(* The queue-backed grader: InMemoryGradeBroker (grader/queue.py), the     *)
(* trial threads that call QueueTrialGrader.grade, the pool of worker      *)
(* threads in _queue_worker_loop, and QueueTrialGrader.close               *)
(* (core/trial_grader.py).                                                 *)
(*                                                                         *)
(* Threads of one process share the job queue, the dictionary of futures   *)
(* and the closed flag.  What happens under _futures_lock is one step;     *)
(* queue.Queue's put and get and Future's set_* are one step each.         *)
(***************************************************************************)
EXTENDS Naturals, Sequences, FiniteSets

CONSTANTS
  Jobs,         \* grade jobs; job_id is a fresh uuid, so each is published once
  Graders,      \* worker threads of the pool
  CLOSE,        \* _CLOSE_SENTINEL
  None

ASSUME BrokerAssumption ==
  /\ CLOSE \notin Jobs
  /\ None \notin Jobs

VARIABLES
  q,         \* _q: jobs, and the sentinel once closed
  futures,   \* keys of _futures
  outcome,   \* of each job's Future: none (not created), waiting, or its outcome
  closed,    \* _closed
  closer,    \* where close() is: open, sentinel, fail, done
  toFail,    \* close()'s local list of futures
  caller,    \* of each job: where its grade() call is
  grader,    \* of each worker thread: where its loop is
  job,       \* of each worker thread: the job in hand
  verdict    \* of each worker thread: what it is about to publish

vars == <<q, futures, outcome, closed, closer, toFail, caller, grader, job, verdict>>

Resolutions == {"graded", "failed"}
Outcomes == {"none", "waiting", "broker closed"} \cup Resolutions

TypeOK ==
  /\ q \in Seq(Jobs \cup {CLOSE})
  /\ futures \subseteq Jobs
  /\ outcome \in [Jobs -> Outcomes]
  /\ closed \in BOOLEAN
  /\ closer \in {"open", "sentinel", "fail", "done"}
  /\ toFail \subseteq Jobs
  /\ caller \in [Jobs -> {"start", "put", "wait", "cancel", "returned", "raised"}]
  /\ grader \in [Graders -> {"next", "repost", "grading", "publish", "set",
                             "stopped", "dead"}]
  /\ job \in [Graders -> Jobs \cup {None}]
  /\ \A g \in Graders : grader[g] \in {"grading", "publish", "set"} => job[g] \in Jobs
  /\ verdict \in [Graders -> Resolutions]

Init ==
  /\ q = <<>>
  /\ futures = {}
  /\ outcome = [j \in Jobs |-> "none"]
  /\ closed = FALSE
  /\ closer = "open"
  /\ toFail = {}
  /\ caller = [j \in Jobs |-> "start"]
  /\ grader = [g \in Graders |-> "next"]
  /\ job = [g \in Graders |-> None]
  /\ verdict = [g \in Graders |-> "failed"]

-----------------------------------------------------------------------------
(* A trial thread in QueueTrialGrader.grade. *)

(* A slip: the check of _closed is not in the critical section of the insert. *)
PublishUnchecked(j) ==
  /\ caller[j] = "start"
  /\ futures' = futures \cup {j}
  /\ outcome' = [outcome EXCEPT ![j] = "waiting"]
  /\ caller' = [caller EXCEPT ![j] = "put"]
  /\ UNCHANGED <<q, closed, closer, toFail, grader, job, verdict>>

(* publish_job up to the release of the lock; a closed broker raises. *)
Publish(j) ==
  /\ caller[j] = "start"
  /\ IF closed
     THEN /\ caller' = [caller EXCEPT ![j] = "raised"]
          /\ UNCHANGED <<futures, outcome>>
     ELSE /\ futures' = futures \cup {j}
          /\ outcome' = [outcome EXCEPT ![j] = "waiting"]
          /\ caller' = [caller EXCEPT ![j] = "put"]
  /\ UNCHANGED <<q, closed, closer, toFail, grader, job, verdict>>

(* self._q.put(job), outside the lock. *)
Put(j) ==
  /\ caller[j] = "put"
  /\ q' = Append(q, j)
  /\ caller' = [caller EXCEPT ![j] = "wait"]
  /\ UNCHANGED <<futures, outcome, closed, closer, toFail, grader, job, verdict>>

(* future.result returns the grade, or raises what the future was failed with. *)
Await(j) ==
  /\ caller[j] = "wait"
  /\ outcome[j] # "waiting"
  /\ caller' = [caller EXCEPT ![j] = IF outcome[j] = "graded" THEN "returned"
                                     ELSE "cancel"]
  /\ UNCHANGED <<q, futures, outcome, closed, closer, toFail, grader, job, verdict>>

TimeOut(j) ==
  /\ caller[j] = "wait"
  /\ outcome[j] = "waiting"
  /\ caller' = [caller EXCEPT ![j] = "cancel"]
  /\ UNCHANGED <<q, futures, outcome, closed, closer, toFail, grader, job, verdict>>

(* A slip: grade() gives up without telling the broker. *)
ForgetCancel(j) ==
  /\ caller[j] = "cancel"
  /\ caller' = [caller EXCEPT ![j] = "raised"]
  /\ UNCHANGED <<q, futures, outcome, closed, closer, toFail, grader, job, verdict>>

(* cancel_job, then GradingFailedError. *)
Cancel(j) ==
  /\ caller[j] = "cancel"
  /\ futures' = futures \ {j}
  /\ caller' = [caller EXCEPT ![j] = "raised"]
  /\ UNCHANGED <<q, outcome, closed, closer, toFail, grader, job, verdict>>

Caller(j) == Publish(j) \/ Put(j) \/ Await(j) \/ Cancel(j)

-----------------------------------------------------------------------------
(* A worker thread in _queue_worker_loop. *)

(* A slip: the job is taken off the queue and not kept. *)
NextJobDropped(g) ==
  /\ grader[g] = "next"
  /\ q # <<>>
  /\ q' = Tail(q)
  /\ grader' = [grader EXCEPT ![g] = IF Head(q) = CLOSE THEN "repost" ELSE "grading"]
  /\ UNCHANGED <<futures, outcome, closed, closer, toFail, caller, job, verdict>>

(* next_job: the blocking get.  The sentinel is put back in a step of its
   own. *)
NextJob(g) ==
  /\ grader[g] = "next"
  /\ q # <<>>
  /\ q' = Tail(q)
  /\ IF Head(q) = CLOSE
     THEN /\ grader' = [grader EXCEPT ![g] = "repost"]
          /\ UNCHANGED job
     ELSE /\ grader' = [grader EXCEPT ![g] = "grading"]
          /\ job' = [job EXCEPT ![g] = Head(q)]
  /\ UNCHANGED <<futures, outcome, closed, closer, toFail, caller, verdict>>

(* A slip: the sentinel stops one worker only. *)
RepostNothing(g) ==
  /\ grader[g] = "repost"
  /\ grader' = [grader EXCEPT ![g] = "stopped"]
  /\ UNCHANGED <<q, futures, outcome, closed, closer, toFail, caller, job, verdict>>

(* The sentinel goes back for the next worker; BrokerClosed ends this one. *)
Repost(g) ==
  /\ grader[g] = "repost"
  /\ q' = Append(q, CLOSE)
  /\ grader' = [grader EXCEPT ![g] = "stopped"]
  /\ UNCHANGED <<futures, outcome, closed, closer, toFail, caller, job, verdict>>

(* client.grade, its response or its exception turned into a GradeResult. *)
GradeJob(g) ==
  /\ grader[g] = "grading"
  /\ \E r \in Resolutions : verdict' = [verdict EXCEPT ![g] = r]
  /\ grader' = [grader EXCEPT ![g] = "publish"]
  /\ UNCHANGED <<q, futures, outcome, closed, closer, toFail, caller, job>>

(* Slips: the future is looked up but left in the dictionary; and a miss that
   is always an error. *)
PublishResultNoPop(g) ==
  /\ grader[g] = "publish"
  /\ grader' = [grader EXCEPT ![g] =
                  CASE job[g] \in futures -> "set"
                    [] job[g] \notin futures /\ closed -> "next"
                    [] OTHER -> "dead"]
  /\ UNCHANGED <<q, futures, outcome, closed, closer, toFail, caller, job, verdict>>

PublishResultStrict(g) ==
  /\ grader[g] = "publish"
  /\ futures' = futures \ {job[g]}
  /\ grader' = [grader EXCEPT ![g] = IF job[g] \in futures THEN "set" ELSE "dead"]
  /\ UNCHANGED <<q, outcome, closed, closer, toFail, caller, job, verdict>>

(* publish_result up to the pop.  Nothing outstanding under the id: a no-op on
   a closed broker, otherwise a KeyError, which nothing in the worker's loop
   catches. *)
PublishResult(g) ==
  /\ grader[g] = "publish"
  /\ futures' = futures \ {job[g]}
  /\ grader' = [grader EXCEPT ![g] =
                  CASE job[g] \in futures -> "set"
                    [] job[g] \notin futures /\ closed -> "next"
                    [] OTHER -> "dead"]
  /\ UNCHANGED <<q, outcome, closed, closer, toFail, caller, job, verdict>>

(* future.set_result or future.set_exception. *)
SetFuture(g) ==
  /\ grader[g] = "set"
  /\ outcome' = [outcome EXCEPT ![job[g]] = verdict[g]]
  /\ grader' = [grader EXCEPT ![g] = "next"]
  /\ UNCHANGED <<q, futures, closed, closer, toFail, caller, job, verdict>>

Grader(g) ==
  NextJob(g) \/ Repost(g) \/ GradeJob(g) \/ PublishResult(g) \/ SetFuture(g)

-----------------------------------------------------------------------------
(* QueueTrialGrader.close: broker.close, then join with a timeout. *)

(* A slip: the outstanding futures are dropped, not failed. *)
CloseForgets ==
  /\ closer = "open"
  /\ closed' = TRUE
  /\ futures' = {}
  /\ closer' = "sentinel"
  /\ UNCHANGED <<q, outcome, toFail, caller, grader, job, verdict>>

CloseBroker ==
  /\ closer = "open"
  /\ closed' = TRUE
  /\ toFail' = futures
  /\ futures' = {}
  /\ closer' = "sentinel"
  /\ UNCHANGED <<q, outcome, caller, grader, job, verdict>>

PostSentinel ==
  /\ closer = "sentinel"
  /\ q' = Append(q, CLOSE)
  /\ closer' = "fail"
  /\ UNCHANGED <<futures, outcome, closed, toFail, caller, grader, job, verdict>>

(* if not future.done(): future.set_exception(...), one future at a time. *)
FailFuture ==
  /\ closer = "fail"
  /\ \E j \in toFail :
       /\ toFail' = toFail \ {j}
       /\ outcome' = [outcome EXCEPT ![j] = IF @ = "waiting" THEN "broker closed" ELSE @]
  /\ UNCHANGED <<q, futures, closed, closer, caller, grader, job, verdict>>

(* worker.join(timeout=5.0): whether or not the threads have ended. *)
Join ==
  /\ closer = "fail" /\ toFail = {}
  /\ closer' = "done"
  /\ UNCHANGED <<q, futures, outcome, closed, toFail, caller, grader, job, verdict>>

CarryOutClose == PostSentinel \/ FailFuture \/ Join

-----------------------------------------------------------------------------
(* All threads have ended, or the run is over. *)
Finished ==
  /\ closer = "done"
  /\ \A j \in Jobs : caller[j] \in {"returned", "raised"}
  /\ \A g \in Graders : grader[g] \in {"stopped", "dead"}
  /\ UNCHANGED vars

Next ==
  \/ \E j \in Jobs : Caller(j) \/ TimeOut(j)
  \/ \E g \in Graders : Grader(g)
  \/ CloseBroker \/ CarryOutClose
  \/ Finished

Spec == Init /\ [][Next]_vars

(* What a worker thread does between two jobs and with an answer.  client.grade
   is not among it: the gRPC call it makes has no deadline. *)
GraderMoves(g) == NextJob(g) \/ Repost(g) \/ PublishResult(g) \/ SetFuture(g)

(* Threads run, and a close() that was begun is carried through.  Nothing
   obliges client.grade to return, a wait to time out or the broker to be
   closed. *)
FairSpec ==
  /\ Spec
  /\ \A j \in Jobs : WF_vars(Caller(j))
  /\ \A g \in Graders : WF_vars(GraderMoves(g))
  /\ WF_vars(CarryOutClose)

-----------------------------------------------------------------------------
(* Whoever may still resolve the future of job j. *)
InDictionary(j) == j \in futures
InClose(j) == j \in toFail
InHand(j, g) == grader[g] = "set" /\ job[g] = j

(* A future is resolved once (a second set_result would raise in the thread
   that makes it): the dictionary, close()'s list and the workers about to
   set it never have it at the same time. *)
OneResolver ==
  \A j \in Jobs :
    /\ ~(InDictionary(j) /\ InClose(j))
    /\ \A g \in Graders : InHand(j, g) =>
         /\ ~InDictionary(j) /\ ~InClose(j)
         /\ outcome[j] = "waiting"
         /\ \A h \in Graders : InHand(j, h) => h = g

(* Every future a caller waits on can still be resolved: publish_result or
   close() will come to it ("Every future the caller ever receives is either
   resolved by publish_result or failed by close", grader/queue.py). *)
NoOrphan ==
  \A j \in Jobs :
    caller[j] \in {"put", "wait"} /\ outcome[j] = "waiting" =>
      InDictionary(j) \/ InClose(j) \/ \E g \in Graders : InHand(j, g)

(* A grade() call that has ended leaves no entry behind in the dictionary. *)
NoLeak ==
  \A j \in Jobs : caller[j] \in {"returned", "raised"} => ~InDictionary(j)

(* A job whose caller still waits for a grader is not lost: it is queued, or a
   worker has it. *)
NoLostJob ==
  \A j \in Jobs : caller[j] = "wait" /\ InDictionary(j) =>
    \/ \E i \in DOMAIN q : q[i] = j
    \/ \E g \in Graders : grader[g] \in {"grading", "publish"} /\ job[g] = j

(* A worker thread survives every job: nothing a caller does ends its loop. *)
WorkersSurvive == \A g \in Graders : grader[g] # "dead"

(* The one thing that ends a worker's loop is the answer to a job whose caller
   gave up waiting: no other order of calls, results and close() does. *)
OnlyLateResultKills ==
  \A g \in Graders : grader[g] = "dead" =>
    caller[job[g]] = "raised" /\ outcome[job[g]] = "waiting"

(* A worker is in a client.grade that may never return. *)
Hung(g) == grader[g] = "grading"

(* Nobody is there for job j: its own client.grade hangs, or no worker of the
   pool is left that is not hung or dead. *)
Unserved(j) ==
  \/ \E g \in Graders : Hung(g) /\ job[g] = j
  \/ \A g \in Graders : Hung(g) \/ grader[g] = "dead"

(* Without any time-out of its own, every grade() call comes to an end, unless
   client.grade hangs for ever, with its own job or with every worker that is
   left.  A broker that is closed under it ends it in any case: close() waits
   for no grader. *)
CallersReturn ==
  \A j \in Jobs : caller[j] = "put" ~>
    caller[j] \in {"returned", "raised"} \/ [](~closed /\ Unserved(j))

(* After close() every worker thread of the pool ends, but for one whose
   client.grade hangs for ever, which keeps none of the others. *)
WorkersStop ==
  \A g \in Graders : closed ~> grader[g] \in {"stopped", "dead"} \/ []Hung(g)
=============================================================================
