------------------------------ MODULE WorkQueue ------------------------------
(***************************************************************************)
(* What the thread pool of the HTTP server promises to the accept loop     *)
(* (include/httplib.h, TaskQueue): jobs start in the order in which they   *)
(* were accepted, at most MaxThreads run at a time, each runs once, and    *)
(* shutdown() returns when all that were accepted have run.  ThreadPool    *)
(* implements this specification.                                          *)
(***************************************************************************)
EXTENDS Integers, Sequences, FiniteSets

CONSTANTS
  Jobs,       \* the jobs that may be submitted
  MaxThreads  \* how many run at a time

VARIABLES
  queue,    \* accepted, not started, oldest first
  serving,  \* running
  done,     \* run
  gate      \* "open", "closing" (no job is accepted any more), "closed"

vars == <<queue, serving, done, gate>>

New(j) ==
  /\ j \notin serving \cup done
  /\ \A i \in DOMAIN queue : queue[i] # j

Init ==
  /\ queue = <<>>
  /\ serving = {}
  /\ done = {}
  /\ gate = "open"

Accept(j) ==
  /\ gate = "open" /\ New(j)
  /\ queue' = Append(queue, j)
  /\ UNCHANGED <<serving, done, gate>>

\* A thread takes the oldest job.
Start ==
  /\ queue # <<>>
  /\ Cardinality(serving) < MaxThreads
  /\ serving' = serving \cup {Head(queue)}
  /\ queue' = Tail(queue)
  /\ UNCHANGED <<done, gate>>

Finish(j) ==
  /\ j \in serving
  /\ serving' = serving \ {j}
  /\ done' = done \cup {j}
  /\ UNCHANGED <<queue, gate>>

\* shutdown() is called ...
Close ==
  /\ gate = "open"
  /\ gate' = "closing"
  /\ UNCHANGED <<queue, serving, done>>

\* ... and returns.
Closed ==
  /\ gate = "closing" /\ queue = <<>> /\ serving = {}
  /\ gate' = "closed"
  /\ UNCHANGED <<queue, serving, done>>

Next ==
  \/ \E j \in Jobs : Accept(j) \/ Finish(j)
  \/ Start
  \/ Close
  \/ Closed

Spec == Init /\ [][Next]_vars
=============================================================================
