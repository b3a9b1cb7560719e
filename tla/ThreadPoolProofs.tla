--------------------------- MODULE ThreadPoolProofs ---------------------------
(***************************************************************************)
(* The thread pool is correct for any number of jobs and threads: PoolInv  *)
(* is inductive, and the pool implements the work queue the front ends     *)
(* rely on.                                                                *)
(***************************************************************************)
EXTENDS ThreadPoolProperties, FunctionTheorems, FiniteSetTheorems, TLAPS

-----------------------------------------------------------------------------
(* Counting the elements that a function maps into a set. *)

At(D, f, S) == {x \in D : f[x] \in S}

LEMMA AtFinite ==
  ASSUME NEW D, NEW f, NEW S, IsFiniteSet(D)
  PROVE  /\ At(D, f, S) \subseteq D
         /\ IsFiniteSet(At(D, f, S))
         /\ Cardinality(At(D, f, S)) \in Nat
<1>1. At(D, f, S) \in SUBSET D
  BY DEF At
<1> QED
  BY <1>1, FS_Subset, FS_CardinalityType

\* One element moves.
LEMMA AtMoved ==
  ASSUME NEW D, NEW f, NEW S, IsFiniteSet(D), NEW x \in D, NEW w,
         f = [y \in D |-> f[y]]
  PROVE  Cardinality(At(D, [f EXCEPT ![x] = w], S)) =
           Cardinality(At(D, f, S)) - (IF f[x] \in S THEN 1 ELSE 0)
                                    + (IF w \in S THEN 1 ELSE 0)
<1> DEFINE g == [f EXCEPT ![x] = w]
           R == At(D, f, S) \ {x}
<1>1. /\ IsFiniteSet(R)
      /\ Cardinality(R) = Cardinality(At(D, f, S)) - (IF f[x] \in S THEN 1 ELSE 0)
  <2>1. x \in At(D, f, S) <=> f[x] \in S
    BY DEF At
  <2> QED
    BY <2>1, AtFinite, FS_RemoveElement
<1>2. At(D, g, S) = IF w \in S THEN R \cup {x} ELSE R
  BY DEF At
<1>3. Cardinality(R \cup {x}) = Cardinality(R) + 1
  BY <1>1, FS_AddElement
<1>4. Cardinality(R) \in Nat
  BY <1>1, FS_CardinalityType
<1> HIDE DEF R
<1> QED
  BY <1>1, <1>2, <1>3, <1>4, AtFinite

LEMMA ListsFinite ==
  ASSUME TypeOK
  PROVE  /\ IsFiniteSet(BaseThreads) /\ Cardinality(BaseThreads) \in Nat
         /\ IsFiniteSet(dynamic) /\ Cardinality(dynamic) \in Nat
         /\ IsFiniteSet(remaining) /\ Cardinality(remaining) \in Nat
         /\ IsFiniteSet(finished)
<1>1. BaseThreads \in SUBSET Threads /\ dynamic \in SUBSET Threads
      /\ remaining \in SUBSET Threads /\ finished \in SUBSET Threads
  BY ThreadsAssumption DEF TypeOK
<1> QED
  BY <1>1, ThreadsAssumption, FS_Subset, FS_CardinalityType

-----------------------------------------------------------------------------
(* The types and the idle count. *)

LEMMA TypeInit == ASSUME Init PROVE TypeOK
<1>1. jobs \in Seq(Jobs)
  BY DEF Init
<1> QED
  BY <1>1 DEF Init, TypeOK

Waits == {"waiting", "woken"}

LEMMA IdleIs == IdleExact <=> idle = Cardinality(At(Threads, worker, Waits))
  BY DEF IdleExact, At, Waits

LEMMA IdleInit == Init => IdleExact
<1>1. Init => At(Threads, worker, Waits) = {}
  BY DEF Init, At, Waits
<1> QED
  BY <1>1, IdleIs, FS_EmptySet DEF Init

\* A thread that moves takes the count with it.
LEMMA IdleMoved ==
  ASSUME TypeOK, IdleExact, NEW t \in Threads, NEW w,
         worker' = [worker EXCEPT ![t] = w],
         idle' = idle - (IF worker[t] \in Waits THEN 1 ELSE 0)
                      + (IF w \in Waits THEN 1 ELSE 0)
  PROVE  IdleExact' /\ idle' \in Nat
<1>1. worker = [u \in Threads |-> worker[u]]
  BY DEF TypeOK
<1>2. Cardinality(At(Threads, worker', Waits)) = idle'
  BY <1>1, IdleIs, AtMoved, ThreadsAssumption
<1>3. IdleExact' <=> idle' = Cardinality(At(Threads, worker', Waits))
  BY DEF IdleExact, At, Waits
<1> QED
  BY <1>2, <1>3, AtFinite, ThreadsAssumption

\* The threads that wait are the same, and so is the count.
LEMMA IdleSame ==
  ASSUME TypeOK, IdleExact, UNCHANGED idle,
         \A t \in Threads : worker'[t] \in Waits <=> worker[t] \in Waits
  PROVE  IdleExact' /\ idle' \in Nat
<1>1. At(Threads, worker', Waits) = At(Threads, worker, Waits)
  BY DEF At
<1>2. IdleExact' <=> idle' = Cardinality(At(Threads, worker', Waits))
  BY DEF IdleExact, At, Waits
<1> QED
  BY <1>1, <1>2, IdleIs DEF TypeOK

\* idle_thread_count_ on every way into and out of the wait (10150-10167).
LEMMA IdleNext == PoolInv /\ [Next]_vars => IdleExact' /\ idle' \in Nat
<1> SUFFICES ASSUME PoolInv, [Next]_vars
             PROVE  IdleExact' /\ idle' \in Nat
  OBVIOUS
<1> USE DEF PoolInv
<1>1. CASE UNCHANGED <<worker, idle>>
  BY <1>1, IdleSame
<1>2. ASSUME NEW j \in Jobs, Enqueue(j) PROVE IdleExact' /\ idle' \in Nat
  <2>1. CASE UNCHANGED worker
    BY <1>2, <2>1, IdleSame DEF Enqueue
  <2>2. CASE Spawn
    <3>1. \A t \in Threads : worker'[t] \in Waits <=> worker[t] \in Waits
      BY <2>2 DEF Spawn, CleanupNeverBlocks, Waits
    <3> QED
      BY <1>2, <3>1, IdleSame DEF Enqueue
  <2> QED
    BY <1>2, <2>1, <2>2 DEF Enqueue
<1>3. ASSUME NEW j \in Jobs, NotifyOne(j) PROVE IdleExact' /\ idle' \in Nat
  <2>1. \A t \in Threads : worker'[t] \in Waits <=> worker[t] \in Waits
    BY <1>3 DEF NotifyOne, Notified, Sleeping, Waits, TypeOK
  <2> QED
    BY <1>3, <2>1, IdleSame DEF NotifyOne
<1>4. ASSUME NEW t \in Threads, TakeJob(t) \/ Leave(t) PROVE IdleExact' /\ idle' \in Nat
  <2> DEFINE w == IF TakeJob(t) THEN "running" ELSE "left"
  <2>1. worker' = [worker EXCEPT ![t] = w] /\ w \notin Waits
    BY <1>4 DEF TakeJob, Leave, Waits
  <2>2. idle' = idle - (IF worker[t] \in Waits THEN 1 ELSE 0)
    BY <1>4 DEF TakeJob, Leave, Awake, IdleWithout, Waits, TypeOK
  <2> HIDE DEF w
  <2>3. idle' = idle - (IF worker[t] \in Waits THEN 1 ELSE 0)
                    + (IF w \in Waits THEN 1 ELSE 0)
    BY <2>1, <2>2 DEF TypeOK
  <2> QED
    BY <2>1, <2>3, IdleMoved
<1>5. ASSUME NEW t \in Threads, Sleep(t) PROVE IdleExact' /\ idle' \in Nat
  <2>1. idle' = idle - (IF worker[t] \in Waits THEN 1 ELSE 0)
                    + (IF "waiting" \in Waits THEN 1 ELSE 0)
    BY <1>5 DEF Sleep, Awake, Waits, TypeOK
  <2>2. worker' = [worker EXCEPT ![t] = "waiting"]
    BY <1>5 DEF Sleep
  <2> QED
    BY <2>1, <2>2, IdleMoved
<1>6. ASSUME NEW t \in Threads, TimesOut(t) PROVE IdleExact' /\ idle' \in Nat
  <2>1. idle' = idle - (IF worker[t] \in Waits THEN 1 ELSE 0)
                    + (IF "left" \in Waits THEN 1 ELSE 0)
    BY <1>6 DEF TimesOut, IdleAfterTimeout, Waits, TypeOK
  <2>2. worker' = [worker EXCEPT ![t] = "left"]
    BY <1>6 DEF TimesOut, AfterTimeout
  <2> QED
    BY <2>1, <2>2, IdleMoved
<1>7. ASSUME NEW t \in Threads, SpuriousWake(t) \/ FinishJob(t)
      PROVE  IdleExact' /\ idle' \in Nat
  <2>1. \A u \in Threads : worker'[u] \in Waits <=> worker[u] \in Waits
    BY <1>7 DEF SpuriousWake, FinishJob, Waits, TypeOK
  <2> QED
    BY <1>7, <2>1, IdleSame DEF SpuriousWake, FinishJob
<1>8. CASE NotifyAll
  <2>1. \A u \in Threads : worker'[u] \in Waits <=> worker[u] \in Waits
    BY <1>8 DEF NotifyAll, Notified, Sleeping, Waits
  <2> QED
    BY <1>8, <2>1, IdleSame DEF NotifyAll
<1>9. CASE JoinDynamic
  <2>1. \A t \in BaseThreads \cup Joinable : worker[t] = "left"
    BY <1>9 DEF JoinDynamic, ShutdownOrdered
  <2>2. \A u \in Threads : worker'[u] \in Waits <=> worker[u] \in Waits
    BY <1>9, <2>1 DEF JoinDynamic, Waits
  <2> QED
    BY <1>9, <2>2, IdleSame DEF JoinDynamic
<1> QED
  BY <1>1, <1>2, <1>3, <1>4, <1>5, <1>6, <1>7, <1>8, <1>9
  DEF Next, ThreadStep, Refuse, SetShutdown, JoinBase, vars

LEMMA TypeNext == PoolInv /\ [Next]_vars => TypeOK'
<1> SUFFICES ASSUME PoolInv, [Next]_vars PROVE TypeOK'
  OBVIOUS
<1> USE DEF TypeOK
<1>1. TypeOK /\ idle' \in Nat
  BY IdleNext DEF PoolInv
<1>2. ASSUME NEW j \in Jobs, Enqueue(j) \/ Refuse(j) \/ NotifyOne(j) PROVE TypeOK'
  <2>1. CASE Enqueue(j)
    <3>1. jobs' \in Seq(Jobs)
      BY <1>1, <2>1 DEF Enqueue
    <3>2. CASE Spawn
      BY <1>1, <2>1, <3>1, <3>2 DEF Enqueue, Spawn
    <3>3. CASE UNCHANGED <<worker, dynamic, finished>>
      BY <1>1, <2>1, <3>1, <3>3 DEF Enqueue
    <3> QED
      BY <2>1, <3>2, <3>3 DEF Enqueue
  <2>2. CASE Refuse(j)
    BY <1>1, <2>2 DEF Refuse, listVars
  <2>3. CASE NotifyOne(j)
    BY <1>1, <2>3 DEF NotifyOne, listVars
  <2> QED
    BY <1>2, <2>1, <2>2, <2>3
<1>3. ASSUME NEW t \in Threads, TakeJob(t) PROVE TypeOK'
  <2>1. Head(jobs) \in Jobs /\ jobs' \in Seq(Jobs)
    BY <1>1, <1>3 DEF TakeJob
  <2> QED
    BY <1>1, <1>3, <2>1 DEF TakeJob, listVars
<1>4. ASSUME NEW t \in Threads, Leave(t) \/ Sleep(t) \/ SpuriousWake(t) PROVE TypeOK'
  BY <1>1, <1>4 DEF Leave, Sleep, SpuriousWake, listVars
<1>5. ASSUME NEW t \in Threads, TimesOut(t) PROVE TypeOK'
  BY <1>1, <1>5 DEF TimesOut, AfterTimeout
<1>6. ASSUME NEW t \in Threads, FinishJob(t) PROVE TypeOK'
  <2>1. task[t] \in Jobs
    BY <1>6 DEF PoolInv, JobsOnce, Running, FinishJob
  <2> QED
    BY <1>1, <1>6, <2>1 DEF FinishJob, listVars
<1>7. CASE SetShutdown \/ NotifyAll
  BY <1>1, <1>7 DEF SetShutdown, NotifyAll, listVars
<1>8. CASE JoinBase \/ JoinDynamic
  BY <1>1, <1>8 DEF JoinBase, JoinDynamic
<1>9. CASE UNCHANGED vars
  BY <1>1, <1>9 DEF vars, listVars
<1> QED
  BY <1>2, <1>3, <1>4, <1>5, <1>6, <1>7, <1>8, <1>9 DEF Next, ThreadStep

-----------------------------------------------------------------------------
(* The threads and their lists. *)

\* A thread that ended stays so until it has been joined (10138-10144).
LEMMA FinishedNext == PoolInv /\ [Next]_vars => CleanupNeverBlocks'
<1> SUFFICES ASSUME PoolInv, [Next]_vars PROVE CleanupNeverBlocks'
  OBVIOUS
<1> USE DEF CleanupNeverBlocks
<1>1. /\ \A t \in finished : worker[t] = "left"
      /\ worker \in [Threads -> {"none", "ready", "waiting", "woken", "running", "left"}]
      /\ finished \subseteq Threads
  BY DEF PoolInv, TypeOK
<1>2. ASSUME NEW j \in Jobs, Enqueue(j) PROVE CleanupNeverBlocks'
  BY <1>1, <1>2 DEF Enqueue, Spawn
<1>3. ASSUME NEW j \in Jobs, NotifyOne(j) PROVE CleanupNeverBlocks'
  BY <1>1, <1>3 DEF NotifyOne, Notified, Sleeping, listVars
<1>4. ASSUME NEW t \in Threads,
             TakeJob(t) \/ Leave(t) \/ Sleep(t) \/ SpuriousWake(t) \/ FinishJob(t)
      PROVE  CleanupNeverBlocks'
  BY <1>1, <1>4 DEF TakeJob, Leave, Sleep, SpuriousWake, FinishJob, Awake, listVars
<1>5. ASSUME NEW t \in Threads, TimesOut(t) PROVE CleanupNeverBlocks'
  BY <1>1, <1>5 DEF TimesOut, AfterTimeout
<1>6. CASE NotifyAll
  BY <1>1, <1>6 DEF NotifyAll, Notified, Sleeping, listVars
<1>7. CASE JoinDynamic
  BY <1>7 DEF JoinDynamic
<1>8. CASE UNCHANGED <<worker, finished>>
  BY <1>1, <1>8
<1> QED
  BY <1>2, <1>3, <1>4, <1>5, <1>6, <1>7, <1>8
  DEF Next, ThreadStep, Refuse, SetShutdown, JoinBase, vars, listVars

\* How shutdown() proceeds (10100-10125).
LEMMA OrderedNext == PoolInv /\ [Next]_vars => ShutdownOrdered'
<1> SUFFICES ASSUME PoolInv, [Next]_vars PROVE ShutdownOrdered'
  OBVIOUS
<1> USE DEF ShutdownOrdered
<1>1. TypeOK /\ ShutdownOrdered /\ CleanupNeverBlocks
  BY DEF PoolInv
<1>2. ASSUME NEW j \in Jobs, Enqueue(j) PROVE ShutdownOrdered'
  <2>1. CASE UNCHANGED <<worker, dynamic, finished>>
    BY <1>1, <1>2, <2>1 DEF Enqueue, TypeOK
  <2>2. CASE Spawn
    <3>1. \A t \in BaseThreads : worker'[t] = "left" => worker[t] = "left"
      BY <2>2, ThreadsAssumption DEF Spawn
    <3> QED
      BY <1>1, <1>2, <2>2, <3>1 DEF Enqueue, TypeOK
  <2> QED
    BY <1>2, <2>1, <2>2 DEF Enqueue
<1>3. ASSUME NEW j \in Jobs, NotifyOne(j) PROVE ShutdownOrdered'
  BY <1>1, <1>3, ThreadsAssumption DEF NotifyOne, Notified, Sleeping, listVars, TypeOK
<1>4. ASSUME NEW t \in Threads,
             TakeJob(t) \/ Leave(t) \/ Sleep(t) \/ SpuriousWake(t) \/ FinishJob(t)
      PROVE  ShutdownOrdered'
  <2>1. \A u \in BaseThreads : worker[u] = "left" => worker'[u] = "left"
    BY <1>1, <1>4, ThreadsAssumption
    DEF TakeJob, Leave, Sleep, SpuriousWake, FinishJob, Awake, TypeOK
  <2>2. \A u \in BaseThreads : worker'[u] = "left" => stop' /\ jobs' = <<>>
    BY <1>1, <1>4, ThreadsAssumption
    DEF TakeJob, Leave, Sleep, SpuriousWake, FinishJob, Awake, MayLeave, TypeOK
  <2> QED
    BY <1>1, <1>4, <2>1, <2>2
    DEF TakeJob, Leave, Sleep, SpuriousWake, FinishJob, listVars
<1>5. ASSUME NEW t \in Threads, TimesOut(t) PROVE ShutdownOrdered'
  BY <1>1, <1>5, ThreadsAssumption DEF TimesOut, TypeOK
<1>6. CASE SetShutdown
  BY <1>1, <1>6 DEF SetShutdown, listVars
<1>7. CASE NotifyAll
  BY <1>1, <1>7, ThreadsAssumption DEF NotifyAll, Notified, Sleeping, listVars
<1>8. CASE JoinBase
  BY <1>1, <1>8 DEF JoinBase
<1>9. CASE JoinDynamic
  BY <1>1, <1>9, ThreadsAssumption DEF JoinDynamic
<1>10. CASE UNCHANGED <<stop, closer, jobs, listVars, worker>>
  BY <1>1, <1>10 DEF listVars
<1> QED
  BY <1>2, <1>3, <1>4, <1>5, <1>6, <1>7, <1>8, <1>9, <1>10
  DEF Next, ThreadStep, Refuse, vars, listVars

\* The flag and the notification reach every thread (10106-10124, 10169).
LEMMA ReachesNext == PoolInv /\ [Next]_vars => ShutdownReaches'
<1> SUFFICES ASSUME PoolInv, [Next]_vars PROVE ShutdownReaches'
  OBVIOUS
<1> USE DEF ShutdownReaches, Sleeping
<1>1. TypeOK /\ ShutdownOrdered /\ ShutdownReaches /\ CleanupNeverBlocks
  BY DEF PoolInv
<1>2. ASSUME NEW j \in Jobs, Enqueue(j) PROVE ShutdownReaches'
  <2>1. closer = "open" /\ closer' = "open" /\ remaining = {} /\ remaining' = {}
    BY <1>1, <1>2 DEF Enqueue, ShutdownOrdered
  <2>2. CASE UNCHANGED <<worker, dynamic, finished>>
    BY <1>1, <2>1, <2>2
  <2>3. CASE Spawn
    <3> PICK t \in Threads \ BaseThreads :
          /\ worker' = [u \in Threads |-> IF u = t THEN "ready"
                                          ELSE IF u \in finished THEN "none"
                                          ELSE worker[u]]
          /\ dynamic' = dynamic \cup {t}
          /\ finished' = {}
      BY <2>3 DEF Spawn
    <3>1. \A u \in BaseThreads : worker'[u] = worker[u]
      BY <1>1, ThreadsAssumption DEF TypeOK
    <3>2. \A u \in dynamic' : worker'[u] # "none"
      BY <1>1 DEF TypeOK
    <3> QED
      BY <1>1, <2>1, <3>1, <3>2
  <2> QED
    BY <1>2, <2>2, <2>3 DEF Enqueue
<1>3. ASSUME NEW j \in Jobs, NotifyOne(j) PROVE ShutdownReaches'
  BY <1>1, <1>3, ThreadsAssumption DEF NotifyOne, Notified, listVars, TypeOK
<1>4. ASSUME NEW t \in Threads,
             TakeJob(t) \/ Leave(t) \/ SpuriousWake(t) \/ FinishJob(t)
      PROVE  ShutdownReaches'
  <2>1. /\ UNCHANGED <<closer, dynamic, remaining, finished>>
        /\ jobs = <<>> => jobs' = <<>>
    BY <1>4 DEF TakeJob, Leave, SpuriousWake, FinishJob, listVars
  <2>2. \A u \in Threads : worker'[u] # worker[u] =>
          worker[u] # "none" /\ worker'[u] # "none" /\ worker'[u] # "waiting"
    BY <1>1, <1>4
    DEF TakeJob, Leave, SpuriousWake, FinishJob, Awake, TypeOK
  <2> QED
    BY <1>1, <2>1, <2>2, ThreadsAssumption DEF TypeOK
<1>5. ASSUME NEW t \in Threads, Sleep(t) \/ TimesOut(t) PROVE ShutdownReaches'
  <2>1. closer = "open" /\ closer' = "open" /\ remaining = {} /\ remaining' = {}
    BY <1>1, <1>5 DEF Sleep, TimesOut, NothingToDo, ShutdownOrdered, listVars
  <2>2. \A u \in Threads : worker'[u] # worker[u] => worker'[u] # "none"
    BY <1>1, <1>5 DEF Sleep, TimesOut, AfterTimeout, TypeOK
  <2>3. \A u \in dynamic' : u \in dynamic /\ u \notin finished'
    BY <1>1, <1>5 DEF Sleep, TimesOut, listVars
  <2> QED
    BY <1>1, <2>1, <2>2, <2>3, ThreadsAssumption DEF TypeOK
<1>6. CASE SetShutdown
  BY <1>1, <1>6 DEF SetShutdown, ShutdownOrdered, listVars
<1>7. CASE NotifyAll
  BY <1>1, <1>7, ThreadsAssumption DEF NotifyAll, Notified, listVars, TypeOK
<1>8. CASE JoinBase
  BY <1>1, <1>8 DEF JoinBase, ShutdownOrdered
<1>9. CASE JoinDynamic
  <2>1. jobs' = <<>>
    BY <1>1, <1>9, ThreadsAssumption DEF JoinDynamic, ShutdownOrdered
  <2>2. \A u \in Threads : worker'[u] = "waiting" => worker[u] = "waiting"
    BY <1>9 DEF JoinDynamic
  <2> QED
    BY <1>1, <1>9, <2>1, <2>2 DEF JoinDynamic, ShutdownOrdered
<1>10. CASE UNCHANGED <<jobs, closer, listVars, worker>>
  BY <1>1, <1>10 DEF listVars
<1> QED
  BY <1>2, <1>3, <1>4, <1>5, <1>6, <1>7, <1>8, <1>9, <1>10
  DEF Next, ThreadStep, Refuse, vars

\* Every thread has an owner (10092, 10117, 10127-10136).
LEMMA OwnedNext == PoolInv /\ [Next]_vars => ThreadsOwned'
<1> SUFFICES ASSUME PoolInv, [Next]_vars PROVE ThreadsOwned'
  OBVIOUS
<1> USE DEF ThreadsOwned
<1>1. TypeOK /\ ShutdownOrdered /\ CleanupNeverBlocks /\ ThreadsOwned
  BY DEF PoolInv
<1>2. ASSUME NEW j \in Jobs, Enqueue(j) PROVE ThreadsOwned'
  <2>1. CASE UNCHANGED <<worker, dynamic, finished>>
    BY <1>1, <1>2, <2>1 DEF Enqueue
  <2>2. CASE MaySpawn /\ Spawn
    <3> PICK t \in Threads \ BaseThreads :
          /\ worker' = [u \in Threads |-> IF u = t THEN "ready"
                                          ELSE IF u \in finished THEN "none"
                                          ELSE worker[u]]
          /\ dynamic' = dynamic \cup {t}
          /\ finished' = {}
      BY <2>2 DEF Spawn
    <3>1. \A u \in Threads \ BaseThreads : worker'[u] # "none" =>
            u \in dynamic' \cup finished' \cup remaining'
      BY <1>1, <1>2 DEF Enqueue
    <3>2. /\ IsFiniteSet(dynamic \cup {t})
          /\ Cardinality(dynamic \cup {t}) <= Cardinality(dynamic) + 1
      <4>1. IsFiniteSet(dynamic) /\ Cardinality(dynamic) \in Nat
        BY <1>1, ListsFinite
      <4>2. /\ IsFiniteSet(dynamic \cup {t})
            /\ Cardinality(dynamic \cup {t}) =
                 IF t \in dynamic THEN Cardinality(dynamic) ELSE Cardinality(dynamic) + 1
        BY <4>1, FS_AddElement, Zenon
      <4> QED
        BY <4>1, <4>2
    <3>3. Cardinality(dynamic') <= Cardinality(dynamic) + 1 /\ Cardinality(dynamic') \in Nat
      BY <3>2, FS_CardinalityType
    <3>4. Cardinality(BaseThreads) + Cardinality(dynamic') <= MaxThreads
      BY <1>1, <2>2, <3>3, ListsFinite, ThreadsAssumption DEF MaySpawn
    <3> QED
      BY <1>1, <1>2, <3>1, <3>4 DEF Enqueue
  <2> QED
    BY <1>2, <2>1, <2>2 DEF Enqueue
<1>3. ASSUME NEW j \in Jobs, NotifyOne(j) PROVE ThreadsOwned'
  BY <1>1, <1>3 DEF NotifyOne, Notified, Sleeping, listVars, TypeOK
<1>4. ASSUME NEW t \in Threads,
             TakeJob(t) \/ Leave(t) \/ Sleep(t) \/ SpuriousWake(t) \/ FinishJob(t)
      PROVE  ThreadsOwned'
  BY <1>1, <1>4
  DEF TakeJob, Leave, Sleep, SpuriousWake, FinishJob, Awake, listVars, TypeOK
<1>5. ASSUME NEW t \in Threads, TimesOut(t) PROVE ThreadsOwned'
  <2>1. Cardinality(dynamic') <= Cardinality(dynamic) /\ Cardinality(dynamic') \in Nat
    BY <1>1, <1>5, ListsFinite, FS_Subset, FS_CardinalityType DEF TimesOut
  <2>2. Cardinality(BaseThreads) + Cardinality(dynamic') <= MaxThreads
    BY <1>1, <2>1, ListsFinite, ThreadsAssumption
  <2> QED
    BY <1>1, <1>5, <2>2 DEF TimesOut, AfterTimeout, TypeOK
<1>6. CASE NotifyAll
  BY <1>1, <1>6 DEF NotifyAll, Notified, Sleeping, listVars
<1>7. CASE JoinBase
  <2>1. Cardinality(dynamic') = 0 /\ remaining' = dynamic /\ remaining = {}
    BY <1>1, <1>7, FS_EmptySet DEF JoinBase, ShutdownOrdered
  <2> QED
    BY <1>1, <1>7, <2>1, ListsFinite, ThreadsAssumption DEF JoinBase
<1>8. CASE JoinDynamic
  <2>1. Cardinality(remaining') = 0
    BY <1>8, FS_EmptySet DEF JoinDynamic
  <2>2. \A t \in Threads \ BaseThreads : worker'[t] # "none" => t \in dynamic'
    BY <1>1, <1>8 DEF JoinDynamic, Joinable
  <2> QED
    BY <1>1, <1>8, <2>1, <2>2, ListsFinite, ThreadsAssumption DEF JoinDynamic
<1>9. CASE UNCHANGED <<listVars, worker>>
  BY <1>1, <1>9 DEF listVars
<1> QED
  BY <1>2, <1>3, <1>4, <1>5, <1>6, <1>7, <1>8, <1>9
  DEF Next, ThreadStep, Refuse, SetShutdown, vars, listVars

-----------------------------------------------------------------------------
(* The jobs. *)

\* No job moves, and no caller goes back.
LEMMA OnceSame ==
  ASSUME JobsOnce, UNCHANGED <<jobs, task, done>>,
         \A t \in Threads : worker'[t] = "running" => worker[t] = "running",
         \A j \in Jobs : poster'[j] \in {"new", "refused"}
                           => poster[j] \in {"new", "refused"}
  PROVE  JobsOnce'
<1>1. Running' \subseteq Running
  BY DEF Running
<1> QED
  BY <1>1 DEF JobsOnce

\* A job passes from its caller to the queue, to one thread, and is done.
LEMMA OnceNext == PoolInv /\ [Next]_vars => JobsOnce'
<1> SUFFICES ASSUME PoolInv, [Next]_vars PROVE JobsOnce'
  OBVIOUS
<1>1. TypeOK /\ JobsOnce /\ CleanupNeverBlocks
  BY DEF PoolInv
<1>2. ASSUME NEW j \in Jobs, Enqueue(j) PROVE JobsOnce'
  <2>1. Running' = Running
    <3>1. CASE UNCHANGED worker
      BY <3>1 DEF Running
    <3>2. CASE Spawn
      BY <1>1, <3>2 DEF Spawn, Running, CleanupNeverBlocks
    <3> QED
      BY <1>2, <3>1, <3>2 DEF Enqueue
  <2>2. /\ \A i \in DOMAIN jobs : jobs[i] # j
        /\ j \notin done /\ \A t \in Running : task[t] # j
    BY <1>1, <1>2 DEF Enqueue, JobsOnce
  <2>3. /\ DOMAIN jobs = 1 .. Len(jobs) /\ DOMAIN jobs' = 1 .. (Len(jobs) + 1)
        /\ Len(jobs) \in Nat /\ jobs'[Len(jobs) + 1] = j
        /\ \A i \in DOMAIN jobs : jobs'[i] = jobs[i]
    BY <1>1, <1>2 DEF Enqueue, TypeOK
  <2>4. UNCHANGED <<task, done>> /\ poster' = [poster EXCEPT ![j] = "pushed"]
    BY <1>2 DEF Enqueue
  <2>5. \A i \in DOMAIN jobs' : i \in DOMAIN jobs \/ i = Len(jobs) + 1
    BY <2>3
  <2>6. \A i, k \in DOMAIN jobs' : jobs'[i] = jobs'[k] => i = k
    BY <1>1, <2>2, <2>3, <2>5 DEF JobsOnce
  <2>7. \A i \in DOMAIN jobs' : jobs'[i] \notin done'
    BY <1>1, <2>2, <2>3, <2>4, <2>5 DEF JobsOnce
  <2>8. \A t \in Running' :
          /\ task'[t] \in Jobs \ done'
          /\ \A i \in DOMAIN jobs' : jobs'[i] # task'[t]
          /\ \A u \in Running' : task'[u] = task'[t] => u = t
    BY <1>1, <2>1, <2>2, <2>3, <2>4, <2>5 DEF JobsOnce
  <2>9. \A k \in Jobs : poster'[k] \in {"new", "refused"} =>
          /\ k \notin done' /\ \A t \in Running' : task'[t] # k
          /\ \A i \in DOMAIN jobs' : jobs'[i] # k
    <3> SUFFICES ASSUME NEW k \in Jobs, poster'[k] \in {"new", "refused"}
                 PROVE  /\ k \notin done' /\ \A t \in Running' : task'[t] # k
                        /\ \A i \in DOMAIN jobs' : jobs'[i] # k
      OBVIOUS
    <3>1. k # j /\ poster[k] \in {"new", "refused"}
      BY <1>1, <2>4 DEF TypeOK
    <3> QED
      BY <1>1, <2>1, <2>3, <2>4, <2>5, <3>1 DEF JobsOnce
  <2> QED
    BY <2>6, <2>7, <2>8, <2>9 DEF JobsOnce
<1>3. ASSUME NEW t \in Threads, TakeJob(t) PROVE JobsOnce'
  <2>1. /\ DOMAIN jobs = 1 .. Len(jobs) /\ Len(jobs) \in Nat \ {0}
        /\ DOMAIN jobs' = 1 .. (Len(jobs) - 1)
        /\ \A i \in DOMAIN jobs' : i + 1 \in DOMAIN jobs /\ jobs'[i] = jobs[i + 1]
        /\ Head(jobs) = jobs[1] /\ 1 \in DOMAIN jobs /\ jobs[1] \in Jobs
    BY <1>1, <1>3 DEF TakeJob, TypeOK
  <2>2. /\ Running' = Running \cup {t} /\ t \notin Running
        /\ task'[t] = jobs[1] /\ \A u \in Running : task'[u] = task[u]
        /\ UNCHANGED <<done, poster>>
    BY <1>1, <1>3, <2>1 DEF TakeJob, Awake, Running, TypeOK
  <2>3. \A i \in DOMAIN jobs' : jobs'[i] # jobs[1]
    BY <1>1, <2>1 DEF JobsOnce
  <2>4. \A i, k \in DOMAIN jobs' : jobs'[i] = jobs'[k] => i = k
    <3> SUFFICES ASSUME NEW i \in DOMAIN jobs', NEW k \in DOMAIN jobs',
                        jobs'[i] = jobs'[k]
                 PROVE  i = k
      OBVIOUS
    <3>1. i + 1 = k + 1
      BY <1>1, <2>1 DEF JobsOnce
    <3> QED
      BY <2>1, <3>1
  <2>5. \A u \in Running' :
          /\ task'[u] \in Jobs \ done'
          /\ \A i \in DOMAIN jobs' : jobs'[i] # task'[u]
          /\ \A v \in Running' : task'[v] = task'[u] => v = u
    BY <1>1, <2>1, <2>2, <2>3 DEF JobsOnce
  <2>6. \A i \in DOMAIN jobs' : jobs'[i] \notin done'
    BY <1>1, <2>1, <2>2 DEF JobsOnce
  <2>7. \A k \in Jobs : poster'[k] \in {"new", "refused"} =>
          /\ k \notin done' /\ \A u \in Running' : task'[u] # k
          /\ \A i \in DOMAIN jobs' : jobs'[i] # k
    BY <1>1, <2>1, <2>2 DEF JobsOnce
  <2> QED
    BY <2>4, <2>5, <2>6, <2>7 DEF JobsOnce
<1>4. ASSUME NEW t \in Threads, FinishJob(t) PROVE JobsOnce'
  <2>1. /\ Running' = Running \ {t} /\ t \in Running
        /\ \A u \in Running' : task'[u] = task[u]
        /\ done' = done \cup {task[t]} /\ UNCHANGED <<jobs, poster>>
    BY <1>1, <1>4 DEF FinishJob, Running, TypeOK
  <2> QED
    BY <1>1, <2>1 DEF JobsOnce
<1>5. ASSUME NEW t \in Threads, Leave(t) \/ Sleep(t) \/ SpuriousWake(t)
      PROVE  JobsOnce'
  <2>1. \A u \in Threads : worker'[u] = "running" => worker[u] = "running"
    BY <1>1, <1>5 DEF Leave, Sleep, SpuriousWake, TypeOK
  <2> QED
    BY <1>1, <1>5, <2>1, OnceSame DEF Leave, Sleep, SpuriousWake
<1>6. ASSUME NEW t \in Threads, TimesOut(t) PROVE JobsOnce'
  <2>1. \A u \in Threads : worker'[u] = "running" => worker[u] = "running"
    BY <1>1, <1>6 DEF TimesOut, AfterTimeout, TypeOK
  <2> QED
    BY <1>1, <1>6, <2>1, OnceSame DEF TimesOut
<1>7. ASSUME NEW j \in Jobs, Refuse(j) \/ NotifyOne(j) PROVE JobsOnce'
  <2>1. \A u \in Threads : worker'[u] = "running" => worker[u] = "running"
    BY <1>1, <1>7 DEF Refuse, NotifyOne, TypeOK
  <2>2. \A k \in Jobs : poster'[k] \in {"new", "refused"}
                          => poster[k] \in {"new", "refused"}
    BY <1>1, <1>7 DEF Refuse, NotifyOne, TypeOK
  <2> QED
    BY <1>1, <1>7, <2>1, <2>2, OnceSame DEF Refuse, NotifyOne
<1>8. CASE SetShutdown \/ NotifyAll \/ JoinBase \/ JoinDynamic
  <2>1. \A u \in Threads : worker'[u] = "running" => worker[u] = "running"
    BY <1>1, <1>8 DEF SetShutdown, NotifyAll, JoinBase, JoinDynamic
  <2> QED
    BY <1>1, <1>8, <2>1, OnceSame DEF SetShutdown, NotifyAll, JoinBase, JoinDynamic
<1>9. CASE UNCHANGED vars
  BY <1>1, <1>9, OnceSame DEF vars
<1> QED
  BY <1>2, <1>3, <1>4, <1>5, <1>6, <1>7, <1>8, <1>9 DEF Next, ThreadStep

-----------------------------------------------------------------------------
(* Nobody sleeps while there is work. *)

OnTheWay == {"ready", "woken"}

AwakeNow == At(Threads, worker, OnTheWay)
Owed == {"pushed"}

PushedNow == At(Jobs, poster, Owed)

LEMMA SleepIs ==
  /\ IsFiniteSet(AwakeNow) /\ Cardinality(AwakeNow) \in Nat
  /\ IsFiniteSet(PushedNow) /\ Cardinality(PushedNow) \in Nat
  /\ NobodySleepsOnWork <=>
       (Sleeping # {} => Len(jobs) <= Cardinality(PushedNow) + Cardinality(AwakeNow))
<1>1. PushedNow = {j \in Jobs : poster[j] = "pushed"}
  BY DEF PushedNow, At, Owed
<1>2. AwakeNow = {t \in Threads : Awake(t)}
  BY DEF AwakeNow, At, Awake, OnTheWay
<1> QED
  BY <1>1, <1>2, AtFinite, ThreadsAssumption, JobsAssumption
  DEF NobodySleepsOnWork, AwakeNow, PushedNow

LEMMA SleepIsNext ==
  /\ IsFiniteSet(AwakeNow') /\ Cardinality(AwakeNow') \in Nat
  /\ Cardinality(PushedNow') \in Nat
  /\ NobodySleepsOnWork' <=>
       (Sleeping' # {} => Len(jobs') <= Cardinality(PushedNow') + Cardinality(AwakeNow'))
<1>1. PushedNow' = {j \in Jobs : poster'[j] = "pushed"}
  BY DEF PushedNow, At, Owed
<1>2. AwakeNow' = {t \in Threads : Awake(t)'}
  BY DEF AwakeNow, At, Awake, OnTheWay
<1> QED
  BY <1>1, <1>2, AtFinite, ThreadsAssumption, JobsAssumption
  DEF NobodySleepsOnWork, AwakeNow, PushedNow

\* What the step of one thread does to the number of threads on their way.
LEMMA AwakeMoved ==
  ASSUME TypeOK, NEW t \in Threads, NEW w, worker' = [worker EXCEPT ![t] = w]
  PROVE  /\ worker[t] \in OnTheWay /\ w \notin OnTheWay
              => Cardinality(AwakeNow') = Cardinality(AwakeNow) - 1
         /\ worker[t] \notin OnTheWay /\ w \in OnTheWay
              => Cardinality(AwakeNow') = Cardinality(AwakeNow) + 1
<1>1. worker = [u \in Threads |-> worker[u]]
  BY DEF TypeOK
<1>2. AwakeNow' = At(Threads, [worker EXCEPT ![t] = w], OnTheWay)
  BY DEF AwakeNow, At
<1>3. Cardinality(AwakeNow') =
        Cardinality(AwakeNow) - (IF worker[t] \in OnTheWay THEN 1 ELSE 0)
                              + (IF w \in OnTheWay THEN 1 ELSE 0)
  BY <1>1, <1>2, AtMoved, ThreadsAssumption DEF AwakeNow
<1> QED
  BY <1>3, SleepIs

LEMMA PushedMoved ==
  ASSUME TypeOK, NEW j \in Jobs, NEW p, poster' = [poster EXCEPT ![j] = p]
  PROVE  /\ poster[j] \in Owed /\ p \notin Owed
              => Cardinality(PushedNow') = Cardinality(PushedNow) - 1
         /\ poster[j] \notin Owed /\ p \in Owed
              => Cardinality(PushedNow') = Cardinality(PushedNow) + 1
         /\ poster[j] \notin Owed /\ p \notin Owed
              => Cardinality(PushedNow') = Cardinality(PushedNow)
<1>1. poster = [k \in Jobs |-> poster[k]]
  BY DEF TypeOK
<1>2. PushedNow' = At(Jobs, [poster EXCEPT ![j] = p], Owed)
  BY DEF PushedNow, At, Owed
<1>3. Cardinality(PushedNow') =
        Cardinality(PushedNow) - (IF poster[j] \in Owed THEN 1 ELSE 0)
                               + (IF p \in Owed THEN 1 ELSE 0)
  BY <1>1, <1>2, AtMoved, JobsAssumption DEF PushedNow
<1> QED
  BY <1>3, SleepIs

\* A notification is owed for every job that sleeping threads might take, or a
\* thread is on its way (10096, 10153-10165).
LEMMA SleepNext == PoolInv /\ [Next]_vars => NobodySleepsOnWork'
<1> SUFFICES ASSUME PoolInv, [Next]_vars PROVE NobodySleepsOnWork'
  OBVIOUS
<1>1. TypeOK /\ NobodySleepsOnWork /\ CleanupNeverBlocks
  BY DEF PoolInv
<1>2. /\ Cardinality(AwakeNow) \in Nat /\ Cardinality(AwakeNow') \in Nat
      /\ Cardinality(PushedNow) \in Nat /\ Cardinality(PushedNow') \in Nat
      /\ Sleeping # {} => Len(jobs) <= Cardinality(PushedNow) + Cardinality(AwakeNow)
  BY <1>1, SleepIs, SleepIsNext
<1>3. Len(jobs) \in Nat
  BY <1>1 DEF TypeOK
<1>4. SUFFICES ASSUME Sleeping' # {}
               PROVE  Len(jobs') <= Cardinality(PushedNow') + Cardinality(AwakeNow')
  BY SleepIsNext
<1> DEFINE Goal == Len(jobs') <= Cardinality(PushedNow') + Cardinality(AwakeNow')
<1>5. ASSUME NEW j \in Jobs, Enqueue(j) PROVE Goal
  <2>1. Len(jobs') = Len(jobs) + 1
    BY <1>1, <1>5 DEF Enqueue, TypeOK
  <2>2. Cardinality(PushedNow') = Cardinality(PushedNow) + 1
    BY <1>1, <1>5, PushedMoved DEF Enqueue, Owed
  <2>3. Sleeping' = Sleeping /\ AwakeNow \subseteq AwakeNow'
    <3>1. CASE UNCHANGED worker
      BY <3>1 DEF Sleeping, AwakeNow, At, OnTheWay
    <3>2. CASE Spawn
      BY <1>1, <3>2 DEF Spawn, CleanupNeverBlocks, Sleeping, AwakeNow, At, OnTheWay
    <3> QED
      BY <1>5, <3>1, <3>2 DEF Enqueue
  <2>4. Cardinality(AwakeNow) <= Cardinality(AwakeNow')
    BY <2>3, SleepIsNext, FS_Subset
  <2> QED
    BY <1>2, <1>3, <1>4, <2>1, <2>2, <2>3, <2>4
<1>6. ASSUME NEW j \in Jobs, Refuse(j) PROVE Goal
  <2>1. Cardinality(PushedNow') = Cardinality(PushedNow)
    <3>1. /\ poster[j] \notin Owed /\ "refused" \notin Owed
          /\ poster' = [poster EXCEPT ![j] = "refused"]
      BY <1>6 DEF Refuse, Owed
    <3> QED
      BY <1>1, <3>1, PushedMoved
  <2>2. UNCHANGED <<jobs, Sleeping, AwakeNow>>
    BY <1>6 DEF Refuse, Sleeping, AwakeNow, At, OnTheWay
  <2> QED
    BY <1>2, <1>4, <2>1, <2>2
<1>7. ASSUME NEW j \in Jobs, NotifyOne(j) PROVE Goal
  <2>1. Sleeping # {}
    BY <1>1, <1>4, <1>7 DEF NotifyOne, Notified, Sleeping, TypeOK
  <2>2. PICK t \in Threads : worker[t] = "waiting" /\ worker' = [worker EXCEPT ![t] = "woken"]
    BY <1>7, <2>1 DEF NotifyOne, Notified, Sleeping
  <2>3. Cardinality(AwakeNow') = Cardinality(AwakeNow) + 1
    BY <1>1, <2>2, AwakeMoved DEF OnTheWay
  <2>4. Cardinality(PushedNow') = Cardinality(PushedNow) - 1
    <3>1. /\ poster[j] \in Owed /\ "accepted" \notin Owed
          /\ poster' = [poster EXCEPT ![j] = "accepted"]
      BY <1>7 DEF NotifyOne, Owed
    <3> QED
      BY <1>1, <3>1, PushedMoved
  <2> QED
    BY <1>2, <1>3, <1>7, <2>1, <2>3, <2>4 DEF NotifyOne
<1>8. ASSUME NEW t \in Threads, TakeJob(t) PROVE Goal
  <2>1. Len(jobs') = Len(jobs) - 1
    BY <1>1, <1>8 DEF TakeJob, TypeOK
  <2>2. Cardinality(AwakeNow') = Cardinality(AwakeNow) - 1
    <3>1. /\ worker[t] \in OnTheWay /\ "running" \notin OnTheWay
          /\ worker' = [worker EXCEPT ![t] = "running"]
      BY <1>8 DEF TakeJob, Awake, OnTheWay
    <3> QED
      BY <1>1, <3>1, AwakeMoved
  <2>3. Sleeping # {} /\ PushedNow' = PushedNow
    BY <1>1, <1>4, <1>8 DEF TakeJob, Sleeping, PushedNow, At, Owed, TypeOK
  <2> QED
    BY <1>2, <1>3, <2>1, <2>2, <2>3
<1>9. ASSUME NEW t \in Threads, Leave(t) \/ Sleep(t) \/ TimesOut(t) PROVE Goal
  <2>1. jobs' = <<>>
    BY <1>9 DEF Leave, MayLeave, Sleep, TimesOut, NothingToDo
  <2> QED
    BY <1>2, <2>1
<1>10. ASSUME NEW t \in Threads, SpuriousWake(t) \/ FinishJob(t) PROVE Goal
  <2>1. Sleeping # {} /\ PushedNow' = PushedNow /\ jobs' = jobs
    BY <1>1, <1>4, <1>10
    DEF SpuriousWake, FinishJob, Sleeping, PushedNow, At, Owed, TypeOK
  <2>2. Cardinality(AwakeNow') = Cardinality(AwakeNow) + 1
    <3>1. CASE SpuriousWake(t)
      BY <1>1, <3>1, AwakeMoved DEF SpuriousWake, OnTheWay
    <3>2. CASE FinishJob(t)
      BY <1>1, <3>2, AwakeMoved DEF FinishJob, OnTheWay
    <3> QED
      BY <1>10, <3>1, <3>2
  <2> QED
    BY <1>2, <1>3, <2>1, <2>2
<1>11. CASE NotifyAll
  BY <1>4, <1>11 DEF NotifyAll, Notified, Sleeping
<1>12. CASE JoinDynamic
  <2>1. \A t \in BaseThreads \cup Joinable : worker[t] = "left"
    BY <1>12 DEF JoinDynamic, PoolInv, ShutdownOrdered
  <2>2. Sleeping' = Sleeping /\ AwakeNow' = AwakeNow
    BY <1>12, <2>1 DEF JoinDynamic, Sleeping, AwakeNow, At, OnTheWay
  <2>3. PushedNow' = PushedNow /\ jobs' = jobs
    BY <1>12 DEF JoinDynamic, PushedNow, At
  <2> QED
    BY <1>2, <1>4, <2>2, <2>3
<1>13. CASE UNCHANGED <<jobs, worker, poster>>
  BY <1>2, <1>4, <1>13 DEF Sleeping, AwakeNow, PushedNow, At
<1> QED
  BY <1>5, <1>6, <1>7, <1>8, <1>9, <1>10, <1>11, <1>12, <1>13
  DEF Next, ThreadStep, SetShutdown, JoinBase, vars

-----------------------------------------------------------------------------
(* The invariants. *)

LEMMA PoolInvInit == Init => PoolInv
<1> SUFFICES ASSUME Init PROVE PoolInv
  OBVIOUS
<1>1. TypeOK /\ IdleExact
  BY TypeInit, IdleInit
<1>2. CleanupNeverBlocks /\ ShutdownOrdered /\ Sleeping = {}
  BY ThreadsAssumption DEF Init, CleanupNeverBlocks, ShutdownOrdered, Sleeping
<1>3. Cardinality(dynamic) = 0 /\ Cardinality(remaining) = 0
  BY FS_EmptySet DEF Init
<1>4. \A t \in Threads \ BaseThreads : worker[t] = "none"
  BY DEF Init
<1>5. Cardinality(BaseThreads) \in Nat
  BY <1>1, ListsFinite
<1>6. ThreadsOwned
  BY <1>3, <1>4, <1>5, ThreadsAssumption DEF ThreadsOwned
<1>7. JobsOnce
  BY DEF Init, JobsOnce, Running
<1>8. ShutdownReaches
  BY ThreadsAssumption DEF Init, ShutdownReaches
<1> QED
  BY <1>1, <1>2, <1>6, <1>7, <1>8 DEF PoolInv, NobodySleepsOnWork

\* The inductive invariant of the pool holds for any number of jobs, base and
\* dynamic threads (10043-10183).
THEOREM PoolInvHolds == Spec => []PoolInv
<1>1. PoolInv /\ [Next]_vars => PoolInv'
  BY TypeNext, IdleNext, FinishedNext, OwnedNext, OrderedNext, ReachesNext,
     OnceNext, SleepNext DEF PoolInv
<1> QED
  BY PoolInvInit, <1>1, PTL DEF Spec

\* idle_thread_count_ counts the threads inside the wait (10150-10167).
THEOREM IdleCountExact == Spec => []IdleExact
<1>1. PoolInv => IdleExact
  BY DEF PoolInv
<1> QED
  BY <1>1, PoolInvHolds, PTL

\* cleanup_finished_threads() joins threads that have ended (10138-10144).
THEOREM CleanupDoesNotBlock == Spec => []CleanupNeverBlocks
<1>1. PoolInv => CleanupNeverBlocks
  BY DEF PoolInv
<1> QED
  BY <1>1, PoolInvHolds, PTL

\* No job waits beside sleeping threads that nobody will wake (10096, 10153-10165).
THEOREM NoJobForgotten == Spec => []NobodySleepsOnWork
<1>1. PoolInv => NobodySleepsOnWork
  BY DEF PoolInv
<1> QED
  BY <1>1, PoolInvHolds, PTL

LEMMA Bounded ==
  ASSUME PoolInv
  PROVE  PoolBounded /\ IsFiniteSet(Alive) /\ Cardinality(Alive) \in Nat
<1> DEFINE Owned == BaseThreads \cup (dynamic \cup remaining)
<1>1. TypeOK /\ ThreadsOwned /\ CleanupNeverBlocks /\ ShutdownOrdered
  BY DEF PoolInv
<1>2. Alive \subseteq Owned
  BY <1>1 DEF Alive, ThreadsOwned, CleanupNeverBlocks
<1>3. dynamic = {} \/ remaining = {}
  BY <1>1 DEF ShutdownOrdered
<1>4. dynamic \cup remaining = dynamic \/ dynamic \cup remaining = remaining
  BY <1>3
<1>5. /\ IsFiniteSet(dynamic \cup remaining)
      /\ Cardinality(dynamic \cup remaining) \in Nat
      /\ Cardinality(BaseThreads) + Cardinality(dynamic \cup remaining) <= MaxThreads
  BY <1>1, <1>4, ListsFinite DEF ThreadsOwned
<1>6. BaseThreads \cap (dynamic \cup remaining) = {}
  BY <1>1 DEF TypeOK
<1>7. /\ IsFiniteSet(Owned)
      /\ Cardinality(Owned) = Cardinality(BaseThreads) + Cardinality(dynamic \cup remaining)
                                - Cardinality({})
  BY <1>1, <1>5, <1>6, ListsFinite, FS_Union
<1>8. Cardinality(Owned) <= MaxThreads /\ Cardinality(Owned) \in Nat
  BY <1>1, <1>5, <1>7, ListsFinite, FS_EmptySet
<1> HIDE DEF Owned
<1>9. IsFiniteSet(Alive) /\ Cardinality(Alive) <= Cardinality(Owned)
  BY <1>2, <1>7, FS_Subset
<1>10. Cardinality(Alive) \in Nat
  BY <1>9, FS_CardinalityType
<1>11. Alive \subseteq BaseThreads \cup dynamic \cup remaining
  BY <1>2 DEF Owned
<1> QED
  BY <1>8, <1>9, <1>10, <1>11, ThreadsAssumption DEF PoolBounded

\* No thread runs unowned, and never more than the maximum (10088-10121).
THEOREM PoolStaysBounded == Spec => []PoolBounded
<1>1. PoolInv => PoolBounded
  BY Bounded
<1> QED
  BY <1>1, PoolInvHolds, PTL

-----------------------------------------------------------------------------
(* What waits has somebody to wait for. *)

LEMMA QueuedMoves ==
  ASSUME PoolInv, jobs # <<>>,
         ~ \E j \in Jobs : poster[j] = "pushed"
  PROVE  \E t \in Threads : Moving(t)
<1>1. /\ TypeOK /\ ShutdownOrdered /\ ShutdownReaches /\ NobodySleepsOnWork
      /\ Len(jobs) \in Nat \ {0}
  BY DEF PoolInv, TypeOK
<1>2. SUFFICES ASSUME \A t \in Threads : ~ Moving(t) PROVE FALSE
  OBVIOUS
<1>3. AwakeNow = {} /\ PushedNow = {}
  BY <1>2 DEF AwakeNow, PushedNow, At, OnTheWay, Owed, Moving, Awake
<1>4. Cardinality(PushedNow) + Cardinality(AwakeNow) = 0
  BY <1>3, FS_EmptySet
<1>5. Sleeping = {}
  BY <1>1, <1>4, SleepIs
<1>6. closer # "closed"
  BY <1>1 DEF ShutdownReaches
<1>7. PICK t \in BaseThreads : TRUE
  BY ThreadsAssumption
<1>8. t \in Threads /\ worker[t] \notin {"none", "left"}
  BY <1>1, <1>6, <1>7, ThreadsAssumption DEF ShutdownOrdered, ShutdownReaches
<1> QED
  BY <1>1, <1>2, <1>5, <1>8 DEF Moving, Awake, Sleeping, TypeOK

\* A queued job has a thread or a notification on its way, and shutdown() waits
\* for threads that move (10096, 10100-10124, 10153-10169), for any number of
\* threads and jobs: what the liveness of the pool needs besides a fair scheduler.
THEOREM NobodyStranded == Spec => []NobodyIsStranded
<1> SUFFICES PoolInv => NobodyIsStranded
  BY PoolInvHolds, PTL
<1> SUFFICES ASSUME PoolInv PROVE NobodyIsStranded
  OBVIOUS
<1>1. TypeOK /\ ShutdownOrdered /\ ShutdownReaches /\ CleanupNeverBlocks
  BY DEF PoolInv
<1>2. \A t \in Threads : worker[t] \in {"none", "left", "waiting"} \/ Moving(t)
  BY <1>1 DEF Moving, Awake, TypeOK
<1>3. ASSUME closer = "joining", NEW b \in BaseThreads, worker[b] # "left"
      PROVE  Moving(b) /\ b \in Threads
  BY <1>1, <1>2, <1>3, ThreadsAssumption DEF ShutdownReaches, Sleeping
<1>4. ASSUME closer = "joining_dynamic", NEW t \in Joinable, worker[t] # "left"
      PROVE  Moving(t)
  <2>1. t \in remaining /\ t \in Threads
    BY <1>1, <1>4 DEF Joinable, CleanupNeverBlocks, TypeOK
  <2> QED
    BY <1>1, <1>2, <1>4, <2>1 DEF ShutdownReaches, Sleeping
<1>5. jobs # <<>> => \/ \E j \in Jobs : poster[j] = "pushed"
                     \/ \E t \in Threads : Moving(t)
  BY QueuedMoves
<1> QED
  BY <1>3, <1>4, <1>5 DEF NobodyIsStranded

-----------------------------------------------------------------------------
(* What is left of shutdown() decreases. *)

Existing == {"ready", "waiting", "woken", "running"}
Held     == {"waiting", "running"}
Inside   == {"new", "pushed"}

AliveNow   == At(Threads, worker, Existing)
HeldNow    == At(Threads, worker, Held)
CallersNow == At(Jobs, poster, Inside)

LEMMA WorkIs ==
  ASSUME TypeOK
  PROVE  /\ IsFiniteSet(AliveNow) /\ Cardinality(AliveNow) \in Nat
         /\ IsFiniteSet(HeldNow) /\ Cardinality(HeldNow) \in Nat
         /\ Cardinality(CallersNow) \in Nat
         /\ Len(jobs) \in Nat /\ StepsLeft \in Nat
         /\ ShutdownWork = 2 * Len(jobs) + Cardinality(AliveNow) + Cardinality(HeldNow)
                             + Cardinality(CallersNow) + StepsLeft
<1>1. Alive = AliveNow
  BY DEF Alive, AliveNow, At, Existing, TypeOK
<1>2. {t \in Threads : worker[t] \in {"waiting", "running"}} = HeldNow
  BY DEF HeldNow, At, Held
<1>3. {j \in Jobs : poster[j] \in {"new", "pushed"}} = CallersNow
  BY DEF CallersNow, At, Inside
<1>4. StepsLeft \in Nat /\ Len(jobs) \in Nat
  BY DEF StepsLeft, TypeOK
<1> QED
  BY <1>1, <1>2, <1>3, <1>4, AtFinite, ThreadsAssumption, JobsAssumption
  DEF ShutdownWork, AliveNow, HeldNow, CallersNow

LEMMA WorkIsNext ==
  ASSUME TypeOK'
  PROVE  /\ Cardinality(AliveNow') \in Nat /\ Cardinality(HeldNow') \in Nat
         /\ Cardinality(CallersNow') \in Nat
         /\ Len(jobs)' \in Nat /\ StepsLeft' \in Nat
         /\ ShutdownWork' = 2 * Len(jobs') + Cardinality(AliveNow') + Cardinality(HeldNow')
                              + Cardinality(CallersNow') + StepsLeft'
<1>1. Alive' = AliveNow'
  BY DEF Alive, AliveNow, At, Existing, TypeOK
<1>2. {t \in Threads : worker'[t] \in {"waiting", "running"}} = HeldNow'
  BY DEF HeldNow, At, Held
<1>3. {j \in Jobs : poster'[j] \in {"new", "pushed"}} = CallersNow'
  BY DEF CallersNow, At, Inside
<1>4. StepsLeft' \in Nat /\ Len(jobs)' \in Nat
  BY DEF StepsLeft, TypeOK
<1> QED
  BY <1>1, <1>2, <1>3, <1>4, AtFinite, ThreadsAssumption, JobsAssumption
  DEF ShutdownWork, AliveNow, HeldNow, CallersNow

\* What the step of one thread does to the two numbers of threads.
LEMMA ThreadsMoved ==
  ASSUME TypeOK, NEW t \in Threads, NEW w, worker' = [worker EXCEPT ![t] = w]
  PROVE  /\ worker[t] \in Existing /\ w \in Existing
              => Cardinality(AliveNow') = Cardinality(AliveNow)
         /\ worker[t] \in Existing /\ w \notin Existing
              => Cardinality(AliveNow') < Cardinality(AliveNow)
         /\ worker[t] \in Held /\ w \notin Held
              => Cardinality(HeldNow') < Cardinality(HeldNow)
         /\ worker[t] \notin Held /\ w \in Held
              => Cardinality(HeldNow') = Cardinality(HeldNow) + 1
         /\ worker[t] \notin Held /\ w \notin Held
              => Cardinality(HeldNow') = Cardinality(HeldNow)
<1>1. worker = [u \in Threads |-> worker[u]]
  BY DEF TypeOK
<1>2. /\ AliveNow' = At(Threads, [worker EXCEPT ![t] = w], Existing)
      /\ HeldNow' = At(Threads, [worker EXCEPT ![t] = w], Held)
  BY DEF AliveNow, HeldNow, At
<1>3. Cardinality(AliveNow') = Cardinality(AliveNow)
                                 - (IF worker[t] \in Existing THEN 1 ELSE 0)
                                 + (IF w \in Existing THEN 1 ELSE 0)
  BY <1>1, <1>2, AtMoved, ThreadsAssumption DEF AliveNow
<1>4. Cardinality(HeldNow') = Cardinality(HeldNow)
                                - (IF worker[t] \in Held THEN 1 ELSE 0)
                                + (IF w \in Held THEN 1 ELSE 0)
  BY <1>1, <1>2, AtMoved, ThreadsAssumption DEF HeldNow
<1>5. Cardinality(AliveNow) \in Nat /\ Cardinality(HeldNow) \in Nat
  BY WorkIs
<1> QED
  BY <1>3, <1>4, <1>5

LEMMA CallersMoved ==
  ASSUME TypeOK, NEW j \in Jobs, NEW p, poster' = [poster EXCEPT ![j] = p],
         poster[j] \in Inside, p \notin Inside
  PROVE  Cardinality(CallersNow') < Cardinality(CallersNow)
<1>1. poster = [k \in Jobs |-> poster[k]]
  BY DEF TypeOK
<1>2. CallersNow' = At(Jobs, [poster EXCEPT ![j] = p], Inside)
  BY DEF CallersNow, At
<1>3. Cardinality(CallersNow') =
        Cardinality(CallersNow) - (IF poster[j] \in Inside THEN 1 ELSE 0)
                                + (IF p \in Inside THEN 1 ELSE 0)
  BY <1>1, <1>2, AtMoved, JobsAssumption DEF CallersNow
<1> QED
  BY <1>3, WorkIs

SameOrLess(m, n) == m = n \/ m < n

LEMMA SumsFall ==
  ASSUME NEW x \in Nat, NEW y \in Nat, NEW p \in Nat, NEW q \in Nat, x <= y, p <= q
  PROVE  /\ x + p \in Nat /\ y + q \in Nat /\ x + p <= y + q
         /\ x < y \/ p < q => x + p < y + q
  OBVIOUS

\* One number falls and none grows; or a job moves from the queue to a thread.
LEMMA WorkFalls ==
  ASSUME TypeOK, TypeOK',
         \/ /\ Len(jobs') = Len(jobs)
            /\ SameOrLess(Cardinality(AliveNow'), Cardinality(AliveNow))
            /\ SameOrLess(Cardinality(HeldNow'), Cardinality(HeldNow))
            /\ SameOrLess(Cardinality(CallersNow'), Cardinality(CallersNow))
            /\ SameOrLess(StepsLeft', StepsLeft)
            /\ \/ Cardinality(AliveNow') < Cardinality(AliveNow)
               \/ Cardinality(HeldNow') < Cardinality(HeldNow)
               \/ Cardinality(CallersNow') < Cardinality(CallersNow)
               \/ StepsLeft' < StepsLeft
         \/ /\ Len(jobs') = Len(jobs) - 1
            /\ Cardinality(AliveNow') = Cardinality(AliveNow)
            /\ Cardinality(HeldNow') = Cardinality(HeldNow) + 1
            /\ Cardinality(CallersNow') = Cardinality(CallersNow)
            /\ StepsLeft' = StepsLeft
  PROVE  ShutdownWork' < ShutdownWork
<1> DEFINE l == Len(jobs)               m == Len(jobs')
           a == Cardinality(AliveNow)   b == Cardinality(AliveNow')
           h == Cardinality(HeldNow)    i == Cardinality(HeldNow')
           c == Cardinality(CallersNow) d == Cardinality(CallersNow')
           k == StepsLeft               n == StepsLeft'
<1>1. /\ l \in Nat /\ a \in Nat /\ h \in Nat /\ c \in Nat /\ k \in Nat
      /\ ShutdownWork = 2 * l + a + h + c + k
  BY WorkIs
<1>2. /\ m \in Nat /\ b \in Nat /\ i \in Nat /\ d \in Nat /\ n \in Nat
      /\ ShutdownWork' = 2 * m + b + i + d + n
  BY WorkIsNext
<1>3. \/ /\ m = l /\ SameOrLess(b, a) /\ SameOrLess(i, h) /\ SameOrLess(d, c)
         /\ SameOrLess(n, k)
         /\ b < a \/ i < h \/ d < c \/ n < k
      \/ m = l - 1 /\ b = a /\ i = h + 1 /\ d = c /\ n = k
  OBVIOUS
<1> HIDE DEF l, m, a, b, h, i, c, d, k, n
<1>4. 2 * m + b + i + d + n < 2 * l + a + h + c + k
  <2>1. CASE m = l /\ SameOrLess(b, a) /\ SameOrLess(i, h) /\ SameOrLess(d, c)
             /\ SameOrLess(n, k) /\ (b < a \/ i < h \/ d < c \/ n < k)
    <3>1. /\ b <= a /\ i <= h /\ d <= c /\ n <= k
          /\ b < a \/ i < h \/ d < c \/ n < k
      BY <1>1, <1>2, <2>1 DEF SameOrLess
    <3>2. 2 * m \in Nat /\ 2 * l \in Nat /\ 2 * m <= 2 * l
      BY <1>1, <1>2, <2>1
    <3>3. /\ 2 * m + b \in Nat /\ 2 * l + a \in Nat /\ 2 * m + b <= 2 * l + a
          /\ b < a => 2 * m + b < 2 * l + a
      BY <1>1, <1>2, <3>1, <3>2, SumsFall
    <3>4. /\ 2 * m + b + i \in Nat /\ 2 * l + a + h \in Nat
          /\ 2 * m + b + i <= 2 * l + a + h
          /\ b < a \/ i < h => 2 * m + b + i < 2 * l + a + h
      BY <1>1, <1>2, <3>1, <3>3, SumsFall
    <3>5. /\ 2 * m + b + i + d \in Nat /\ 2 * l + a + h + c \in Nat
          /\ 2 * m + b + i + d <= 2 * l + a + h + c
          /\ b < a \/ i < h \/ d < c => 2 * m + b + i + d < 2 * l + a + h + c
      BY <1>1, <1>2, <3>1, <3>4, SumsFall
    <3> QED
      BY <1>1, <1>2, <3>1, <3>5, SumsFall
  <2>2. CASE m = l - 1 /\ b = a /\ i = h + 1 /\ d = c /\ n = k
    BY <1>1, <1>2, <2>2
  <2> QED  BY <1>3, <2>1, <2>2
<1> QED
  BY <1>1, <1>2, <1>4

LEMMA ProgressStep ==
  ASSUME PoolInv, TypeOK', Next, stop
  PROVE  ShutdownWork' < ShutdownWork
<1>1. TypeOK /\ closer # "open"
  BY DEF PoolInv, ShutdownOrdered
<1>2. /\ Cardinality(AliveNow) \in Nat /\ Cardinality(HeldNow) \in Nat
      /\ Cardinality(CallersNow) \in Nat /\ Len(jobs) \in Nat /\ StepsLeft \in Nat
      /\ IsFiniteSet(AliveNow) /\ IsFiniteSet(HeldNow)
      /\ ShutdownWork = 2 * Len(jobs) + Cardinality(AliveNow) + Cardinality(HeldNow)
                          + Cardinality(CallersNow) + StepsLeft
  BY <1>1, WorkIs
<1>3. /\ Cardinality(AliveNow') \in Nat /\ Cardinality(HeldNow') \in Nat
      /\ Cardinality(CallersNow') \in Nat /\ Len(jobs') \in Nat /\ StepsLeft' \in Nat
      /\ ShutdownWork' = 2 * Len(jobs') + Cardinality(AliveNow') + Cardinality(HeldNow')
                           + Cardinality(CallersNow') + StepsLeft'
  BY WorkIsNext
<1> DEFINE Goal == ShutdownWork' < ShutdownWork
<1>4. ASSUME NEW j \in Jobs, Refuse(j) PROVE Goal
  <2>1. UNCHANGED <<AliveNow, HeldNow, jobs, StepsLeft>>
    BY <1>4 DEF Refuse, AliveNow, HeldNow, At, StepsLeft
  <2>2. /\ poster[j] \in Inside /\ "refused" \notin Inside
        /\ poster' = [poster EXCEPT ![j] = "refused"]
    BY <1>4 DEF Refuse, Inside
  <2>3. Cardinality(CallersNow') < Cardinality(CallersNow)
    BY <1>1, <2>2, CallersMoved
  <2> QED
    BY <1>1, <2>1, <2>3, WorkFalls DEF SameOrLess
<1>5. ASSUME NEW j \in Jobs, NotifyOne(j) PROVE Goal
  <2>1. UNCHANGED <<jobs, StepsLeft>>
    BY <1>5 DEF NotifyOne, StepsLeft
  <2>2. /\ poster[j] \in Inside /\ "accepted" \notin Inside
        /\ poster' = [poster EXCEPT ![j] = "accepted"]
    BY <1>5 DEF NotifyOne, Inside
  <2>3. Cardinality(CallersNow') < Cardinality(CallersNow)
    BY <1>1, <2>2, CallersMoved
  <2>4. /\ Cardinality(AliveNow') = Cardinality(AliveNow)
        /\ \/ Cardinality(HeldNow') = Cardinality(HeldNow)
           \/ Cardinality(HeldNow') < Cardinality(HeldNow)
    <3>1. CASE UNCHANGED worker
      <4>1. UNCHANGED <<AliveNow, HeldNow>>
        BY <3>1 DEF AliveNow, HeldNow, At
      <4> QED
        BY <4>1
    <3>2. CASE Notified # {}
      <4>1. PICK t \in Threads : /\ worker[t] = "waiting"
                                 /\ worker' = [worker EXCEPT ![t] = "woken"]
        BY <1>5, <3>2 DEF NotifyOne, Notified, Sleeping
      <4>2. /\ worker[t] \in Existing /\ "woken" \in Existing
            /\ worker[t] \in Held /\ "woken" \notin Held
        BY <4>1 DEF Existing, Held
      <4> QED
        BY <1>1, <4>1, <4>2, ThreadsMoved
    <3> QED
      BY <1>5, <3>1, <3>2 DEF NotifyOne
  <2>5. Len(jobs') = Len(jobs) /\ StepsLeft' = StepsLeft
    BY <2>1
  <2> QED
    BY <1>1, <2>3, <2>4, <2>5, WorkFalls DEF SameOrLess
<1>6. ASSUME NEW t \in Threads, TakeJob(t) PROVE Goal
  <2>1. UNCHANGED <<CallersNow, StepsLeft>> /\ Len(jobs') = Len(jobs) - 1
    BY <1>1, <1>6 DEF TakeJob, CallersNow, At, StepsLeft, TypeOK
  <2>2. /\ worker' = [worker EXCEPT ![t] = "running"]
        /\ worker[t] \in Existing /\ "running" \in Existing
        /\ worker[t] \notin Held /\ "running" \in Held
    BY <1>6 DEF TakeJob, Awake, Existing, Held
  <2>3. /\ Cardinality(AliveNow') = Cardinality(AliveNow)
        /\ Cardinality(HeldNow') = Cardinality(HeldNow) + 1
    BY <1>1, <2>2, ThreadsMoved
  <2>4. /\ Cardinality(CallersNow') = Cardinality(CallersNow)
        /\ StepsLeft' = StepsLeft /\ Len(jobs') = Len(jobs) - 1
    BY <2>1
  <2> QED
    BY <1>1, <2>3, <2>4, WorkFalls DEF SameOrLess
<1>7. ASSUME NEW t \in Threads, Leave(t) PROVE Goal
  <2>1. UNCHANGED <<CallersNow, StepsLeft, jobs>>
    BY <1>7 DEF Leave, CallersNow, At, StepsLeft
  <2>2. /\ worker' = [worker EXCEPT ![t] = "left"]
        /\ worker[t] \in Existing /\ "left" \notin Existing
        /\ worker[t] \notin Held /\ "left" \notin Held
    BY <1>7 DEF Leave, Awake, Existing, Held
  <2>3. /\ Cardinality(AliveNow') < Cardinality(AliveNow)
        /\ Cardinality(HeldNow') = Cardinality(HeldNow)
    BY <1>1, <2>2, ThreadsMoved
  <2>4. /\ Cardinality(CallersNow') = Cardinality(CallersNow)
        /\ StepsLeft' = StepsLeft /\ Len(jobs') = Len(jobs)
    BY <2>1
  <2> QED
    BY <1>1, <2>3, <2>4, WorkFalls DEF SameOrLess
<1>8. ASSUME NEW t \in Threads, SpuriousWake(t) \/ FinishJob(t) PROVE Goal
  <2> DEFINE w == IF SpuriousWake(t) THEN "woken" ELSE "ready"
  <2>1. UNCHANGED <<CallersNow, StepsLeft, jobs>>
    BY <1>8 DEF SpuriousWake, FinishJob, CallersNow, At, StepsLeft
  <2>2. /\ worker' = [worker EXCEPT ![t] = w] /\ worker[t] \in Held
        /\ worker[t] \in Existing /\ w \in Existing /\ w \notin Held
    BY <1>8 DEF SpuriousWake, FinishJob, Held, Existing
  <2> HIDE DEF w
  <2>3. /\ Cardinality(AliveNow') = Cardinality(AliveNow)
        /\ Cardinality(HeldNow') < Cardinality(HeldNow)
    BY <1>1, <2>2, ThreadsMoved
  <2>4. /\ Cardinality(CallersNow') = Cardinality(CallersNow)
        /\ StepsLeft' = StepsLeft /\ Len(jobs') = Len(jobs)
    BY <2>1
  <2> QED
    BY <1>1, <2>3, <2>4, WorkFalls DEF SameOrLess
<1>9. CASE NotifyAll
  <2>1. AliveNow' = AliveNow /\ HeldNow' \subseteq HeldNow
    BY <1>9 DEF NotifyAll, Notified, Sleeping, AliveNow, HeldNow, At, Existing, Held
  <2>2. SameOrLess(Cardinality(HeldNow'), Cardinality(HeldNow))
    <3> DEFINE i == Cardinality(HeldNow')   h == Cardinality(HeldNow)
    <3>1. i <= h /\ i \in Nat /\ h \in Nat
      BY <1>2, <1>3, <2>1, FS_Subset
    <3> HIDE DEF i, h
    <3>2. i = h \/ i < h
      BY <3>1
    <3> QED
      BY <3>2 DEF SameOrLess, i, h
  <2>3. UNCHANGED <<CallersNow, jobs>> /\ StepsLeft' < StepsLeft
    BY <1>9 DEF NotifyAll, CallersNow, At, StepsLeft
  <2> QED
    BY <1>1, <2>1, <2>2, <2>3, WorkFalls DEF SameOrLess
<1>10. CASE JoinBase
  <2>1. UNCHANGED <<AliveNow, HeldNow, CallersNow, jobs>> /\ StepsLeft' < StepsLeft
    BY <1>10 DEF JoinBase, AliveNow, HeldNow, CallersNow, At, StepsLeft
  <2> QED
    BY <1>1, <2>1, WorkFalls DEF SameOrLess
<1>11. CASE JoinDynamic
  <2>1. \A t \in BaseThreads \cup Joinable : worker[t] = "left"
    BY <1>11 DEF JoinDynamic, PoolInv, ShutdownOrdered
  <2>2. UNCHANGED <<AliveNow, HeldNow>>
    BY <1>11, <2>1 DEF JoinDynamic, AliveNow, HeldNow, At, Existing, Held
  <2>3. UNCHANGED <<CallersNow, jobs>> /\ StepsLeft' < StepsLeft
    BY <1>11 DEF JoinDynamic, CallersNow, At, StepsLeft
  <2> QED
    BY <1>1, <2>2, <2>3, WorkFalls DEF SameOrLess
<1> QED
  BY <1>1, <1>4, <1>5, <1>6, <1>7, <1>8, <1>9, <1>10, <1>11
  DEF Next, Enqueue, ThreadStep, Sleep, TimesOut, NothingToDo, SetShutdown

\* Once the flag is set, shutdown() is over after a bounded number of steps, in
\* whatever order threads, jobs and callers take them (10082, 10100-10124, 10169).
THEOREM ShutdownIsBounded == Spec => ShutdownProgresses /\ [](ShutdownWork \in Nat)
<1>1. PoolInv /\ PoolInv' /\ [Next]_vars => [stop => ShutdownWork' < ShutdownWork]_vars
  BY ProgressStep DEF PoolInv
<1>2. PoolInv => ShutdownWork \in Nat
  BY WorkIs DEF PoolInv
<1> QED
  BY <1>1, <1>2, PoolInvHolds, PTL DEF Spec, ShutdownProgresses

-----------------------------------------------------------------------------
(* The pool implements the work queue. *)

LEMMA ServingBounded ==
  ASSUME PoolInv, NEW t \in Alive, t \notin Running
  PROVE  Cardinality(Serving) < MaxThreads
<1>1. /\ IsFiniteSet(Alive) /\ Cardinality(Alive) \in Nat
      /\ Cardinality(Alive) <= MaxThreads
  BY Bounded DEF PoolBounded
<1>2. IsFiniteSet(Alive \ {t}) /\ Cardinality(Alive \ {t}) = Cardinality(Alive) - 1
  BY <1>1, FS_RemoveElement
<1>3. Running \subseteq Alive \ {t}
  BY DEF Running, Alive
<1>4. IsFiniteSet(Running) /\ Cardinality(Running) <= Cardinality(Alive \ {t})
  BY <1>2, <1>3, FS_Subset
<1> DEFINE f == [u \in Running |-> task[u]]
<1>5. f \in Surjection(Running, Serving)
  BY DEF Surjection, Serving
<1>6. IsFiniteSet(Serving) /\ Cardinality(Serving) <= Cardinality(Running)
  BY <1>4, <1>5, FS_Surjection
<1>7. Cardinality(Serving) \in Nat /\ Cardinality(Running) \in Nat
  BY <1>4, <1>6, FS_CardinalityType
<1> QED
  BY <1>1, <1>2, <1>4, <1>6, <1>7, ThreadsAssumption

\* The instance brings a copy of Cardinality of its own.
LEMMA SameCardinality == Queue!Cardinality(Serving) = Cardinality(Serving)
  BY Zenon DEF Queue!Cardinality, Cardinality

LEMMA QueueInit == Init => Queue!Init
  BY DEF Init, Queue!Init, Serving, Running, Gate

\* Nothing that the work queue sees has changed.
LEMMA QueueStutters ==
  ASSUME UNCHANGED <<jobs, task, done, Running>>, Gate' = Gate
  PROVE  UNCHANGED Queue!vars
<1>1. Serving' = Serving
  BY DEF Serving
<1> QED
  BY <1>1 DEF Queue!vars

LEMMA QueueStep == PoolInv /\ [Next]_vars => [Queue!Next]_(Queue!vars)
<1> SUFFICES ASSUME PoolInv, [Next]_vars PROVE Queue!Next \/ UNCHANGED Queue!vars
  OBVIOUS
<1>1. TypeOK /\ JobsOnce /\ CleanupNeverBlocks /\ ShutdownOrdered /\ ThreadsOwned
  BY DEF PoolInv
<1>2. ASSUME NEW j \in Jobs, Enqueue(j) PROVE Queue!Accept(j)
  <2>1. Running' = Running
    <3>1. CASE UNCHANGED worker
      BY <3>1 DEF Running
    <3>2. CASE Spawn
      BY <1>1, <3>2 DEF Spawn, Running, CleanupNeverBlocks
    <3> QED
      BY <1>2, <3>1, <3>2 DEF Enqueue
  <2>2. Serving' = Serving
    BY <1>2, <2>1 DEF Enqueue, Serving
  <2>3. Gate = "open" /\ Gate' = "open"
    BY <1>1, <1>2 DEF Enqueue, Gate, ShutdownOrdered
  <2>4. Queue!New(j)
    BY <1>1, <1>2 DEF Enqueue, JobsOnce, Queue!New, Serving
  <2> QED
    BY <1>2, <2>2, <2>3, <2>4 DEF Enqueue, Queue!Accept
<1>3. ASSUME NEW t \in Threads, TakeJob(t) PROVE Queue!Start
  <2>1. /\ Running' = Running \cup {t} /\ t \notin Running /\ t \in Alive
        /\ task'[t] = Head(jobs) /\ \A u \in Running : task'[u] = task[u]
    BY <1>1, <1>3 DEF TakeJob, Awake, Running, Alive, TypeOK
  <2> DEFINE h == Head(jobs)
  <2>2. Serving' = Serving \cup {h}
    <3> HIDE DEF h
    <3>1. \A x : x \in Serving' <=> \E u \in Running \cup {t} : x = task'[u]
      BY <2>1 DEF Serving
    <3>2. \A x : x \in Serving <=> \E u \in Running : x = task[u]
      BY DEF Serving
    <3>3. task'[t] = h
      BY <2>1 DEF h
    <3> QED
      BY <2>1, <3>1, <3>2, <3>3
  <2>3. Cardinality(Serving) < MaxThreads
    BY <2>1, ServingBounded
  <2>4. jobs # <<>> /\ jobs' = Tail(jobs) /\ UNCHANGED <<done, closer>>
    BY <1>3 DEF TakeJob
  <2>5. Gate' = Gate
    BY <2>4 DEF Gate
  <2> QED
    BY <2>2, <2>3, <2>4, <2>5, SameCardinality DEF Queue!Start
<1>4. ASSUME NEW t \in Threads, FinishJob(t) PROVE Queue!Finish(task[t])
  <2>1. /\ Running' = Running \ {t} /\ t \in Running
        /\ \A u \in Running' : task'[u] = task[u]
    BY <1>1, <1>4 DEF FinishJob, Running, TypeOK
  <2>2. \A u \in Running : task[u] = task[t] => u = t
    BY <1>1, <2>1 DEF JobsOnce
  <2>3. Serving' = Serving \ {task[t]} /\ task[t] \in Serving
    BY <2>1, <2>2 DEF Serving
  <2> QED
    BY <1>4, <2>3 DEF FinishJob, Queue!Finish, Gate
<1>5. ASSUME NEW t \in Threads, Leave(t) \/ Sleep(t) \/ SpuriousWake(t) \/ TimesOut(t)
      PROVE  UNCHANGED Queue!vars
  <2>1. Running' = Running
    BY <1>1, <1>5
    DEF Leave, Sleep, SpuriousWake, TimesOut, AfterTimeout, Awake, Running, TypeOK
  <2> QED
    BY <1>5, <2>1, QueueStutters DEF Leave, Sleep, SpuriousWake, TimesOut, Gate
<1>6. ASSUME NEW j \in Jobs, Refuse(j) \/ NotifyOne(j) PROVE UNCHANGED Queue!vars
  <2>1. Running' = Running
    BY <1>1, <1>6 DEF Refuse, NotifyOne, Notified, Sleeping, Running, TypeOK
  <2> QED
    BY <1>6, <2>1, QueueStutters DEF Refuse, NotifyOne, Gate
<1>7. CASE SetShutdown
  <2>1. Gate = "open" /\ Gate' = "closing" /\ Serving' = Serving
    BY <1>7 DEF SetShutdown, Gate, Serving, Running
  <2> QED
    BY <1>7, <2>1 DEF SetShutdown, Queue!Next, Queue!Close
<1>8. CASE NotifyAll \/ JoinBase
  <2>1. Running' = Running
    BY <1>1, <1>8 DEF NotifyAll, JoinBase, Notified, Sleeping, Running, TypeOK
  <2> QED
    BY <1>8, <2>1, QueueStutters DEF NotifyAll, JoinBase, Gate
<1>9. CASE JoinDynamic
  <2>1. \A t \in BaseThreads \cup Joinable : worker[t] = "left"
    BY <1>1, <1>9 DEF JoinDynamic, ShutdownOrdered
  <2>2. Running = {} /\ Running' = {}
    BY <1>1, <1>9, <2>1
    DEF JoinDynamic, ShutdownOrdered, ThreadsOwned, Joinable, Running
  <2>3. jobs = <<>>
    BY <1>1, <2>1, ThreadsAssumption DEF ShutdownOrdered
  <2>4. Serving = {} /\ Serving' = {}
    BY <2>2 DEF Serving
  <2>5. Gate = "closing" /\ Gate' = "closed"
    BY <1>9 DEF JoinDynamic, Gate
  <2> QED
    BY <1>9, <2>3, <2>4, <2>5 DEF JoinDynamic, Queue!Next, Queue!Closed
<1>10. CASE UNCHANGED vars
  BY <1>10 DEF vars, Queue!vars, Serving, Running, Gate
<1>11. \A j \in Jobs : Queue!Accept(j) => Queue!Next
  BY DEF Queue!Next
<1>12. Queue!Start => Queue!Next
  BY DEF Queue!Next
<1>13. ASSUME NEW t \in Threads, FinishJob(t) PROVE Queue!Next
  <2>1. task[t] \in Jobs
    BY <1>1, <1>13 DEF FinishJob, JobsOnce, Running
  <2> QED
    BY <1>4, <1>13, <2>1 DEF Queue!Next
<1> QED
  BY <1>2, <1>3, <1>5, <1>6, <1>7, <1>8, <1>9, <1>10, <1>11, <1>12, <1>13
  DEF Next, ThreadStep

\* Jobs start in the order in which they were accepted, none twice, at most the
\* maximum at a time, and shutdown() returns when all have run (10079-10125).
THEOREM PoolImplementsQueue == Spec => QueueSpec
<1>1. PoolInv /\ [Next]_vars => [Queue!Next]_(Queue!vars)
  BY QueueStep
<1> QED
  BY QueueInit, <1>1, PoolInvHolds, PTL DEF Spec, QueueSpec, Queue!Spec
=============================================================================
