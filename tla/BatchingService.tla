--------------------------- MODULE BatchingService ---------------------------
(***************************************************************************)
(* What the engine gives the threads that call enqueue(), without its      *)
(* thread, locks, arrays or KV cache: requests wait in one queue, are      *)
(* served in the order of their submission (continuous_batch_engine.cpp:   *)
(* 86-90), at most MaxSlots of them at a time, and each gets exactly one   *)
(* verdict, which never changes.  ContinuousBatchEngine implements this    *)
(* specification.                                                          *)
(*                                                                         *)
(* The order is the code's.  README.md:19 promises another, "highest       *)
(* priority / soonest deadline first", which the code does not keep: see   *)
(* PriorityFirst in EngineDocClaims.                                       *)
(***************************************************************************)
EXTENDS Integers, Sequences, FiniteSets

CONSTANTS
  Requests,  \* the requests callers may submit
  MaxSlots   \* how many are served at a time

VARIABLES
  waiting,   \* submitted, not yet in service, in submission order
  serving,   \* in service
  verdict    \* verdict[r]: how r was answered, or "none"

vars == <<waiting, serving, verdict>>

\* The payloads a callback may receive (continuous_batch_engine.cpp:119, 140,
\* 237, 271).
Verdicts == {"ok", "tokenization_failed", "deadline_exceeded", "decode_failed"}

New(r) ==
  /\ verdict[r] = "none"
  /\ r \notin serving
  /\ \A i \in DOMAIN waiting : waiting[i] # r

Init ==
  /\ waiting = <<>>
  /\ serving = {}
  /\ verdict = [r \in Requests |-> "none"]

Submit(r) ==
  /\ New(r)
  /\ waiting' = Append(waiting, r)
  /\ UNCHANGED <<serving, verdict>>

\* The oldest waiting request enters service, if there is room.
Start ==
  /\ waiting # <<>>
  /\ Cardinality(serving) < MaxSlots
  /\ serving' = serving \cup {Head(waiting)}
  /\ waiting' = Tail(waiting)
  /\ UNCHANGED verdict

\* The oldest waiting request had its turn but its prompt was no good.
Reject ==
  /\ waiting # <<>>
  /\ Cardinality(serving) < MaxSlots
  /\ verdict' = [verdict EXCEPT ![Head(waiting)] = "tokenization_failed"]
  /\ waiting' = Tail(waiting)
  /\ UNCHANGED serving

\* The requests of S leave service together; a failed decode spares nobody.
Finish(S, v) ==
  /\ S # {} /\ S \subseteq serving
  /\ v = "decode_failed" => S = serving
  /\ serving' = serving \ S
  /\ verdict' = [r \in Requests |-> IF r \in S THEN v ELSE verdict[r]]
  /\ UNCHANGED waiting

Next ==
  \/ \E r \in Requests : Submit(r)
  \/ Start
  \/ Reject
  \/ \E S \in SUBSET serving, v \in Verdicts \ {"tokenization_failed"} :
       Finish(S, v)

Spec == Init /\ [][Next]_vars
=============================================================================
