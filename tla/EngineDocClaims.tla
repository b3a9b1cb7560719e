--------------------------- MODULE EngineDocClaims ---------------------------
(***************************************************************************)
(* What the repository says of the engine and the code does not do.        *)
(***************************************************************************)
EXTENDS EngineProperties

\* Priority[r]: Request::priority (include/request.h:6, 12), 0, 1 or 2, which the
\* front ends set and the engine never reads.
CONSTANT Priority

\* src/main.cpp:64, "Send SIGINT or SIGTERM to shut down cleanly": a shutdown()
\* that started returns.  running_ is cleared and notified without the mutex
\* (73-74), between the test of the predicate and the sleep (167-169).
ShutdownReturns == (stopper = "stopping") ~> (stopper = "joined")

InQueue(r) == \E i \in DOMAIN pending : pending[i] = r

\* The drain loop takes r, or leaves it where it is.
Taken(r) == InQueue(r) /\ ~InQueue(r)'
Left(r)  == InQueue(r) /\ InQueue(r)'

\* README.md:19, "any free KV slots are filled from the waiting queue, highest priority
\* / soonest deadline first": none that is left in the queue has a higher priority
\* than one that is taken.  The loop takes them in the order of arrival (86-90).
PriorityFirst ==
  [][\A r, q \in Requests : Taken(r) /\ Left(q) => Priority[r] >= Priority[q]]_vars
=============================================================================
