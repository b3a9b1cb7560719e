------------------------------ MODULE ThreadPool ------------------------------
(***************************************************************************)
(* The thread pool of the HTTP server (include/httplib.h, class            *)
(* ThreadPool): enqueue() appends a job and may spawn a dynamic thread,    *)
(* worker() is what base and dynamic threads run, shutdown() lets them     *)
(* drain the queue and joins them.                                         *)
(*                                                                         *)
(* Granularity.  mutex_ protects all the state, so a critical section is   *)
(* one step; notify_one() and notify_all() come after it, and a notified   *)
(* thread ("woken") takes the mutex in a later step, before or after other *)
(* threads.  max_queued_requests_ is 0 here, no limit (10684-10687).       *)
(***************************************************************************)
EXTENDS Integers, Sequences, FiniteSets

CONSTANTS
  Jobs,        \* what may be enqueued
  NoJob,       \* the task of a thread that runs none
  Threads,     \* identities of std::thread objects
  BaseThreads, \* those of threads_, started by the constructor
  MaxThreads   \* max_thread_count_

ASSUME JobsAssumption == IsFiniteSet(Jobs) /\ NoJob \notin Jobs
ASSUME ThreadsAssumption ==
  /\ IsFiniteSet(Threads) /\ BaseThreads \subseteq Threads /\ BaseThreads # {}
  /\ MaxThreads \in Nat /\ Cardinality(BaseThreads) <= MaxThreads

VARIABLES
  jobs,       \* jobs_
  stop,       \* shutdown_
  idle,       \* idle_thread_count_
  dynamic,    \* dynamic_threads_
  finished,   \* finished_threads_
  remaining,  \* remaining_dynamic, the local list of shutdown()
  worker,     \* worker[t]: where thread t is in worker()
  task,       \* task[t]: the job thread t runs
  done,       \* the jobs that returned
  poster,     \* poster[j]: where the thread submitting j is in enqueue()
  closer      \* where the thread calling shutdown() is

listVars == <<dynamic, finished, remaining>>
vars == <<jobs, stop, idle, listVars, worker, task, done, poster, closer>>

Init ==
  /\ jobs = <<>>
  /\ stop = FALSE
  /\ idle = 0
  /\ dynamic = {}
  /\ finished = {}
  /\ remaining = {}
  /\ worker = [t \in Threads |-> IF t \in BaseThreads THEN "ready" ELSE "none"]
  /\ task = [t \in Threads |-> NoJob]
  /\ done = {}
  /\ poster = [j \in Jobs |-> "new"]
  /\ closer = "open"

-----------------------------------------------------------------------------
(* enqueue. *)

\* Mutant: the size of the pool is not looked at.
MutMaySpawn == idle = 0
\* No thread counts as idle and the pool is under its maximum.
MaySpawn    == /\ idle = 0
               /\ Cardinality(BaseThreads) + Cardinality(dynamic) < MaxThreads

\* cleanup_finished_threads(), then a new dynamic thread.
Spawn ==
  \E t \in {u \in Threads \ BaseThreads : worker[u] = "none" \/ u \in finished} :
    /\ worker' = [u \in Threads |-> IF u = t THEN "ready"
                                    ELSE IF u \in finished THEN "none"
                                    ELSE worker[u]]
    /\ dynamic' = dynamic \cup {t}
    /\ finished' = {}

\* enqueue(), up to the unlock.
Enqueue(j) ==
  /\ poster[j] = "new" /\ ~stop
  /\ jobs' = Append(jobs, j)
  /\ IF MaySpawn THEN Spawn ELSE UNCHANGED <<worker, dynamic, finished>>
  /\ poster' = [poster EXCEPT ![j] = "pushed"]
  /\ UNCHANGED <<stop, idle, remaining, task, done, closer>>

\* if (shutdown_) return false
Refuse(j) ==
  /\ poster[j] = "new" /\ stop
  /\ poster' = [poster EXCEPT ![j] = "refused"]
  /\ UNCHANGED <<jobs, stop, idle, listVars, worker, task, done, closer>>

Sleeping == {t \in Threads : worker[t] = "waiting"}

\* Mutant: notify_one() is forgotten.
MutNotified == {}
\* The threads notify_one() chooses from.
Notified    == Sleeping

\* cond_.notify_one(), after the unlock.
NotifyOne(j) ==
  /\ poster[j] = "pushed"
  /\ poster' = [poster EXCEPT ![j] = "accepted"]
  /\ IF Notified = {}
       THEN UNCHANGED worker
       ELSE \E t \in Notified : worker' = [worker EXCEPT ![t] = "woken"]
  /\ UNCHANGED <<jobs, stop, idle, listVars, task, done, closer>>

-----------------------------------------------------------------------------
(* worker. *)

\* Thread t is about to hold the mutex, at the top of its loop ("ready") or
\* back from the wait ("woken"), where it is counted as idle.
Awake(t) == worker[t] \in {"ready", "woken"}

\* Mutant: a thread that never slept is taken off the count as well.
MutIdleWithout(t) == idle - 1
\* idle_thread_count_ once t has left the wait, or passed it without sleeping.
IdleWithout(t)    == IF worker[t] = "ready" THEN idle ELSE idle - 1

\* It takes the oldest job.
TakeJob(t) ==
  /\ Awake(t) /\ jobs # <<>>
  /\ task' = [task EXCEPT ![t] = Head(jobs)]
  /\ jobs' = Tail(jobs)
  /\ worker' = [worker EXCEPT ![t] = "running"]
  /\ idle' = IdleWithout(t)
  /\ UNCHANGED <<stop, listVars, done, poster, closer>>

\* Mutant: a thread leaves at once when the pool shuts down.
MutMayLeave == stop
\* shutdown_ && jobs_.empty()
MayLeave    == stop /\ jobs = <<>>

Leave(t) ==
  /\ Awake(t) /\ MayLeave
  /\ worker' = [worker EXCEPT ![t] = "left"]
  /\ idle' = IdleWithout(t)
  /\ UNCHANGED <<jobs, stop, listVars, task, done, poster, closer>>

\* Mutant: the predicate of the wait looks at the queue only.
MutNothingToDo == jobs = <<>>
\* The predicate of the wait is false.
NothingToDo    == jobs = <<>> /\ ~stop

\* It sleeps on cond_.
Sleep(t) ==
  /\ Awake(t) /\ NothingToDo
  /\ worker' = [worker EXCEPT ![t] = "waiting"]
  /\ idle' = IF worker[t] = "ready" THEN idle + 1 ELSE idle
  /\ UNCHANGED <<jobs, stop, listVars, task, done, poster, closer>>

IdleAfterTimeout == idle - 1

\* break
AfterTimeout == "left"

\* A dynamic thread has waited for its time and finds nothing to do:
\* move_to_finished(), and its end.
TimesOut(t) ==
  /\ worker[t] \in {"waiting", "woken"} /\ t \notin BaseThreads
  /\ NothingToDo
  /\ worker' = [worker EXCEPT ![t] = AfterTimeout]
  /\ idle' = IdleAfterTimeout
  /\ dynamic' = dynamic \ {t}
  /\ finished' = finished \cup {t}
  /\ UNCHANGED <<jobs, stop, remaining, task, done, poster, closer>>

\* A condition variable may wake without a notification.
SpuriousWake(t) ==
  /\ worker[t] = "waiting"
  /\ worker' = [worker EXCEPT ![t] = "woken"]
  /\ UNCHANGED <<jobs, stop, idle, listVars, task, done, poster, closer>>

\* fn() returns.
FinishJob(t) ==
  /\ worker[t] = "running"
  /\ worker' = [worker EXCEPT ![t] = "ready"]
  /\ done' = done \cup {task[t]}
  /\ task' = [task EXCEPT ![t] = NoJob]
  /\ UNCHANGED <<jobs, stop, idle, listVars, poster, closer>>

-----------------------------------------------------------------------------
(* shutdown. *)

\* shutdown_ = true, with the mutex.
SetShutdown ==
  /\ closer = "open"
  /\ stop' = TRUE
  /\ closer' = "set"
  /\ UNCHANGED <<jobs, idle, listVars, worker, task, done, poster>>

NotifyAll ==
  /\ closer = "set"
  /\ worker' = [t \in Threads |-> IF t \in Notified THEN "woken" ELSE worker[t]]
  /\ closer' = "joining"
  /\ UNCHANGED <<jobs, stop, idle, listVars, task, done, poster>>

\* The base threads are joined; then the dynamic ones are taken off the list.
JoinBase ==
  /\ closer = "joining"
  /\ \A t \in BaseThreads : worker[t] = "left"
  /\ remaining' = dynamic
  /\ dynamic' = {}
  /\ closer' = "joining_dynamic"
  /\ UNCHANGED <<jobs, stop, idle, finished, worker, task, done, poster>>

\* Mutant: the dynamic threads are not waited for.
MutJoinable == finished
\* The threads the end of shutdown() joins.
Joinable    == remaining \cup finished

\* They are joined, and those that had timed out.
JoinDynamic ==
  /\ closer = "joining_dynamic"
  /\ \A t \in Joinable : worker[t] = "left"
  /\ worker' = [t \in Threads |-> IF t \in BaseThreads \cup Joinable THEN "none"
                                                         ELSE worker[t]]
  /\ remaining' = {}
  /\ finished' = {}
  /\ closer' = "closed"
  /\ UNCHANGED <<jobs, stop, idle, dynamic, task, done, poster>>

-----------------------------------------------------------------------------

ThreadStep(t) == TakeJob(t) \/ Leave(t) \/ Sleep(t)

Next ==
  \/ \E j \in Jobs : Enqueue(j) \/ Refuse(j) \/ NotifyOne(j)
  \/ \E t \in Threads : \/ ThreadStep(t) \/ FinishJob(t)
                        \/ TimesOut(t) \/ SpuriousWake(t)
  \/ SetShutdown
  \/ NotifyAll
  \/ JoinBase
  \/ JoinDynamic

Spec == Init /\ [][Next]_vars

\* The scheduler runs every thread that waits for nothing but the mutex, jobs
\* return, and a caller inside enqueue() or shutdown() goes on.
Fairness ==
  /\ \A t \in Threads : WF_vars(ThreadStep(t)) /\ WF_vars(FinishJob(t))
  /\ \A j \in Jobs : WF_vars(NotifyOne(j))
  /\ WF_vars(NotifyAll) /\ WF_vars(JoinBase) /\ WF_vars(JoinDynamic)

FairSpec == Spec /\ Fairness
=============================================================================
