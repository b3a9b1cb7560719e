-------------------------------- MODULE Traffic --------------------------------
(***************************************************************************)
(* What the front ends are to the rest of the process: calls arrive, on    *)
(* HTTP connections or by gRPC, a thread handles each, some go through the *)
(* engine, and each is answered by the thread that took it.  Endpoints,    *)
(* refusals, statuses and metrics are left to FrontEnd, which implements   *)
(* this specification.                                                     *)
(***************************************************************************)
EXTENDS Integers, Sequences, FiniteSets

CONSTANTS
  Conns,         \* HTTP connections clients may open
  Rpcs,          \* gRPC calls clients may make
  KeepAliveMax,  \* requests served on a connection
  MaxWorkers     \* threads of the HTTP server

\* The requests of connection k are <<k, 1>>, <<k, 2>>, ...
HttpCalls  == Conns \X (1 .. KeepAliveMax)
Calls      == HttpCalls \cup Rpcs
CallsOf(k) == {k} \X (1 .. KeepAliveMax)

VARIABLES
  backlog, busy, closed, gate,  \* the thread pool, with connections as jobs
  stage  \* stage[c]: "new", "sent", "handled" by its thread, "queued" with the
         \* engine, "given" its answer, "over"

poolVars == <<backlog, busy, closed, gate>>
vars     == <<poolVars, stage>>

Pool == INSTANCE WorkQueue
          WITH Jobs <- Conns, MaxThreads <- MaxWorkers,
               queue <- backlog, serving <- busy, done <- closed

Init ==
  /\ Pool!Init
  /\ stage = [c \in Calls |-> "new"]

InProgress(c) == stage[c] \in {"handled", "queued", "given"}
Queued        == {c \in Calls : stage[c] = "queued"}

-----------------------------------------------------------------------------

Connect(k) == Pool!Accept(k) /\ UNCHANGED stage

StartConnection == Pool!Start /\ UNCHANGED stage

Send(k, i) ==
  /\ k \in busy \/ \E j \in DOMAIN backlog : backlog[j] = k
  /\ stage[<<k, i>>] = "new"
  /\ i > 1 => stage[<<k, i - 1>>] = "over"
  /\ stage' = [stage EXCEPT ![<<k, i>>] = "sent"]
  /\ UNCHANGED poolVars

Read(k, i) ==
  /\ k \in busy /\ stage[<<k, i>>] = "sent"
  /\ stage' = [stage EXCEPT ![<<k, i>>] = "handled"]
  /\ UNCHANGED poolVars

Call(r) ==
  /\ stage[r] = "new"
  /\ stage' = [stage EXCEPT ![r] = "handled"]
  /\ UNCHANGED poolVars

\* A connection with no call in progress is closed; what has just been sent on
\* it is lost.
HangUp(k) ==
  /\ \A c \in CallsOf(k) : ~InProgress(c)
  /\ Pool!Finish(k)
  /\ stage' = [c \in Calls |-> IF c \in CallsOf(k) /\ stage[c] = "sent"
                                 THEN "over" ELSE stage[c]]

\* The handler answers by itself ...
Decide(c) ==
  /\ stage[c] = "handled"
  /\ stage' = [stage EXCEPT ![c] = "given"]
  /\ UNCHANGED poolVars

\* ... or waits for the engine ...
Submit(c) ==
  /\ stage[c] = "handled"
  /\ stage' = [stage EXCEPT ![c] = "queued"]
  /\ UNCHANGED poolVars

\* ... which answers the calls of S together.
Answer(S) ==
  /\ S # {} /\ S \subseteq Queued
  /\ stage' = [c \in Calls |-> IF c \in S THEN "given" ELSE stage[c]]
  /\ UNCHANGED poolVars

\* The response is written, or the client has gone.
Reply(c) ==
  /\ stage[c] = "given"
  /\ stage' = [stage EXCEPT ![c] = "over"]
  /\ IF c \in Rpcs THEN UNCHANGED poolVars
     ELSE Pool!Finish(c[1]) \/ (c[2] < KeepAliveMax /\ UNCHANGED poolVars)

-----------------------------------------------------------------------------

\* What the worker thread of connection k does between its calls.
ConnectionStep(k) == HangUp(k) \/ \E i \in 1 .. KeepAliveMax : Read(k, i)

Next ==
  \/ \E k \in Conns : Connect(k) \/ ConnectionStep(k)
  \/ \E k \in Conns, i \in 1 .. KeepAliveMax : Send(k, i)
  \/ \E r \in Rpcs : Call(r)
  \/ \E c \in Calls : Decide(c) \/ Submit(c) \/ Reply(c)
  \/ \E S \in SUBSET Queued : Answer(S)
  \/ StartConnection

Spec == Init /\ [][Next]_vars
=============================================================================
