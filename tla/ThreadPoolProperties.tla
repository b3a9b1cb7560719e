------------------------ MODULE ThreadPoolProperties ------------------------
(***************************************************************************)
(* What makes the thread pool of include/httplib.h correct.  Line numbers  *)
(* are those of that file.                                                 *)
(***************************************************************************)
EXTENDS ThreadPool

\* Types of the pool's state (1489-1503).
TypeOK ==
  /\ jobs \in Seq(Jobs)
  /\ stop \in BOOLEAN
  /\ idle \in Nat
  /\ dynamic \in SUBSET (Threads \ BaseThreads)
  /\ finished \in SUBSET (Threads \ BaseThreads)
  /\ remaining \in SUBSET (Threads \ BaseThreads)
  /\ worker \in [Threads -> {"none", "ready", "waiting", "woken", "running",
                             "left"}]
  /\ task \in [Threads -> Jobs \cup {NoJob}]
  /\ done \in SUBSET Jobs
  /\ poster \in [Jobs -> {"new", "pushed", "accepted", "refused"}]
  /\ closer \in {"open", "set", "joining", "joining_dynamic", "closed"}

\* The threads that exist, whatever they do.
Alive == {t \in Threads : worker[t] \notin {"none", "left"}}

\* idle_thread_count_ is what decides whether the pool grows: it counts the
\* threads inside the wait, on every way into and out of it (10150-10167).
IdleExact ==
  idle = Cardinality({t \in Threads : worker[t] \in {"waiting", "woken"}})

\* No thread runs that no list owns, and no more run than the maximum, through
\* growth, time-outs and shutdown (10088-10093, 10108-10121).
PoolBounded ==
  /\ Alive \subseteq BaseThreads \cup dynamic \cup remaining
  /\ Cardinality(Alive) <= MaxThreads

\* cleanup_finished_threads() joins with the mutex held (10138-10144): every
\* thread on that list has ended, and so does not need the mutex.
CleanupNeverBlocks == \A t \in finished : worker[t] = "left"

\* No thread sleeps while there is a job for it: the jobs still queued are
\* matched by callers about to notify and by threads on their way to the mutex
\* (10096, 10153-10165).
NobodySleepsOnWork ==
  Sleeping # {} =>
    Len(jobs) <= Cardinality({j \in Jobs : poster[j] = "pushed"})
                   + Cardinality({t \in Threads : Awake(t)})

\* Somebody who waits for nothing but the mutex, or for a job to return.
Moving(t) == Awake(t) \/ worker[t] = "running"

\* Nobody waits for what will not come. While a job is queued, a thread is on its
\* way to the queue or a caller is about to notify one; and where shutdown() joins,
\* the threads have ended or one of them still moves: the flag, set with the mutex
\* held, and the notification that follows reach each of them (10096, 10100-10124,
\* 10153-10169).
NobodyIsStranded ==
  /\ jobs # <<>> => \/ \E j \in Jobs : poster[j] = "pushed"
                    \/ \E t \in Threads : Moving(t)
  /\ closer = "joining" => \/ \A t \in BaseThreads : worker[t] = "left"
                           \/ \E t \in Threads : Moving(t)
  /\ closer = "joining_dynamic" => \/ \A t \in Joinable : worker[t] = "left"
                                   \/ \E t \in Joinable : Moving(t)

-----------------------------------------------------------------------------

Running == {t \in Threads : worker[t] = "running"}
Serving == {task[t] : t \in Running}
Gate    == CASE closer = "open"   -> "open"
             [] closer = "closed" -> "closed"
             [] OTHER             -> "closing"

\* The pool implements the abstract queue: jobs start in order, none twice, at
\* most the maximum at a time, and shutdown() returns once all have run.
Queue == INSTANCE WorkQueue WITH queue <- jobs, serving <- Serving, gate <- Gate

QueueSpec == Queue!Spec

-----------------------------------------------------------------------------
(* Why it holds. *)

\* Every dynamic thread that exists is on one of the three lists, and shutdown()
\* holds them one after the other (10092, 10117, 10127-10136).
ThreadsOwned ==
  /\ \A t \in Threads \ BaseThreads :
       worker[t] # "none" => t \in dynamic \cup finished \cup remaining
  /\ Cardinality(BaseThreads) + Cardinality(dynamic) <= MaxThreads
  /\ Cardinality(BaseThreads) + Cardinality(remaining) <= MaxThreads

\* How far shutdown() is, and what the threads that ended have left behind.
ShutdownOrdered ==
  /\ stop <=> closer # "open"
  /\ remaining # {} => closer = "joining_dynamic"
  /\ closer \in {"joining_dynamic", "closed"} => dynamic = {}
  /\ closer = "joining_dynamic" => \A t \in BaseThreads : worker[t] = "left"
  /\ \A t \in BaseThreads : worker[t] = "left" => stop /\ jobs = <<>>

\* The flag, and the notification after it, reach every thread, and no thread is
\* forgotten before it is joined (10106-10124).
ShutdownReaches ==
  /\ closer \notin {"open", "set"} => Sleeping = {}
  /\ \A t \in BaseThreads : worker[t] = "none" => closer = "closed"
  /\ closer = "closed" => jobs = <<>>
  /\ \A t \in dynamic \cup remaining : worker[t] # "none" /\ t \notin finished

\* A job is in one place: with its caller, queued once, on one thread, or done.
JobsOnce ==
  /\ \A i, k \in DOMAIN jobs : jobs[i] = jobs[k] => i = k
  /\ \A t \in Running :
       /\ task[t] \in Jobs \ done
       /\ \A i \in DOMAIN jobs : jobs[i] # task[t]
       /\ \A u \in Running : task[u] = task[t] => u = t
  /\ \A i \in DOMAIN jobs : jobs[i] \notin done
  /\ \A j \in Jobs : poster[j] \in {"new", "refused"} =>
       /\ j \notin done /\ \A t \in Running : task[t] # j
       /\ \A i \in DOMAIN jobs : jobs[i] # j

\* The inductive invariant: a job is on its way through the pool in one piece,
\* and every thread is where the list that owns it says (10079-10183).
PoolInv ==
  /\ TypeOK
  /\ IdleExact
  /\ CleanupNeverBlocks
  /\ ThreadsOwned
  /\ ShutdownOrdered
  /\ ShutdownReaches
  /\ JobsOnce
  /\ NobodySleepsOnWork

-----------------------------------------------------------------------------
(* What shutdown() still waits for, as a number. *)

\* The steps of shutdown() itself that are left.
StepsLeft ==
  CASE closer = "open" -> 4 [] closer = "set" -> 3 [] closer = "joining" -> 2
    [] closer = "joining_dynamic" -> 1 [] closer = "closed" -> 0

\* A queued job is to be taken and to return, a thread to end; one that sleeps is
\* to wake first; a caller inside enqueue() is to leave it.
ShutdownWork ==
  2 * Len(jobs)
  + Cardinality(Alive)
  + Cardinality({t \in Threads : worker[t] \in {"waiting", "running"}})
  + Cardinality({j \in Jobs : poster[j] \in {"new", "pushed"}})
  + StepsLeft

\* Once the flag is set, every step of anybody brings the end of shutdown() nearer:
\* no thread goes back to sleep, none is added, no job is accepted (10082, 10169).
\* So it takes no more steps than there is work when it begins.
ShutdownProgresses == [][stop => ShutdownWork' < ShutdownWork]_vars

-----------------------------------------------------------------------------

\* An accepted job runs, also if shutdown() comes first (10169).
AcceptedJobsRun ==
  \A j \in Jobs : (poster[j] = "accepted") ~> (j \in done)

\* shutdown() returns when the jobs do (10100-10125).
ShutdownEnds == (closer # "open") ~> (closer = "closed")
=============================================================================
