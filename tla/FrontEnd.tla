------------------------------- MODULE FrontEnd -------------------------------
(***************************************************************************)
(* The two front ends over the engine (src/server.cpp,                     *)
(* src/grpc_server.cpp): HTTP connections served by the worker threads of  *)
(* httplib, one request after the other while they are kept alive, and     *)
(* gRPC calls on threads of their own.  A handler validates, asks the rate *)
(* limiter, enqueues and blocks until the engine calls back.               *)
(*                                                                         *)
(* The thread pool is WorkQueue with connections as jobs, the engine       *)
(* BatchingService with calls as requests, and allow() a verdict of either *)
(* kind; ThreadPool, ContinuousBatchEngine and RateLimiter are what is     *)
(* behind them.                                                            *)
(*                                                                         *)
(* Data.  A call is its endpoint; a malformed body, a field of the wrong   *)
(* type, a closed socket are choices.  A status is "ok", "limited" (429,   *)
(* RESOURCE_EXHAUSTED) or "failed" (400 and 500).                          *)
(***************************************************************************)
EXTENDS Integers, Sequences, FiniteSets

CONSTANTS
  Conns,         \* HTTP connections clients may open
  Rpcs,          \* gRPC calls clients may make
  Endpoint,      \* Endpoint[c]: what call c asks for; "none" if it is not made
  KeepAliveMax,  \* keep_alive_max_count_: requests served on a connection
  BaseWorkers,   \* CPPHTTPLIB_THREAD_POOL_COUNT
  MaxWorkers,    \* CPPHTTPLIB_THREAD_POOL_MAX_COUNT
  MaxSlots       \* EngineConfig::max_slots

ASSUME ClientsAssumption      == IsFiniteSet(Conns) /\ IsFiniteSet(Rpcs)
ASSUME KeepAliveMaxAssumption == KeepAliveMax \in Nat \ {0}
ASSUME WorkersAssumption      == MaxWorkers \in Nat /\ BaseWorkers \in 1 .. MaxWorkers

\* The requests of connection k are <<k, 1>>, <<k, 2>>, ...
HttpCalls == Conns \X (1 .. KeepAliveMax)
Calls     == HttpCalls \cup Rpcs
CallsOf(k) == {k} \X (1 .. KeepAliveMax)

ASSUME RpcsAssumption == Rpcs \cap HttpCalls = {}
ASSUME EndpointAssumption ==
  /\ Endpoint \in [Calls -> {"none", "plain", "infer", "chat"}]
  /\ \A r \in Rpcs : Endpoint[r] # "plain"

VARIABLES
  \* The thread pool of the HTTP server.
  backlog, busy, closed, gate,
  \* The engine.
  waiting, serving, verdict,
  \* The handlers.
  watched,   \* connections whose worker waits in keep_alive(), past its first look
  stage,     \* stage[c]: where call c is
  status,    \* status[c]: the status decided for it
  allowed,   \* allowed[c]: what allow() told the handler of c, or "none"
  \* Metrics.
  requests_total, requests_rate_limited, queue_depth

poolVars    == <<backlog, busy, closed, gate>>
serviceVars == <<waiting, serving, verdict>>
callVars    == <<stage, status, allowed>>
metricVars  == <<requests_total, requests_rate_limited, queue_depth>>
vars == <<poolVars, serviceVars, watched, callVars, metricVars>>

Pool == INSTANCE WorkQueue
          WITH Jobs <- Conns, MaxThreads <- MaxWorkers,
               queue <- backlog, serving <- busy, done <- closed

Service == INSTANCE BatchingService WITH Requests <- Calls

Init ==
  /\ Pool!Init
  /\ Service!Init
  /\ watched = {}
  /\ stage = [c \in Calls |-> "new"]
  /\ status = [c \in Calls |-> "none"]
  /\ allowed = [c \in Calls |-> "none"]
  /\ requests_total = 0
  /\ requests_rate_limited = 0
  /\ queue_depth = 0

-----------------------------------------------------------------------------
(* Clients. *)

\* accept(), and the connection becomes a job of the pool.
Connect(k) ==
  /\ Pool!Accept(k)
  /\ UNCHANGED <<serviceVars, watched, callVars, metricVars>>

\* The client sends its next request on k, once it has the last response.
Send(k, i) ==
  /\ k \in busy \/ \E j \in DOMAIN backlog : backlog[j] = k
  /\ stage[<<k, i>>] = "new" /\ Endpoint[<<k, i>>] # "none"
  /\ i > 1 => stage[<<k, i - 1>>] = "replied"
  /\ stage' = [stage EXCEPT ![<<k, i>>] = "sent"]
  /\ UNCHANGED <<poolVars, serviceVars, watched, status, allowed, metricVars>>

\* A gRPC call arrives and gets a thread.
Call(r) ==
  /\ stage[r] = "new" /\ Endpoint[r] # "none"
  /\ stage' = [stage EXCEPT ![r] = "read"]
  /\ UNCHANGED <<poolVars, serviceVars, watched, status, allowed, metricVars>>

-----------------------------------------------------------------------------
(* A worker thread and its connection. *)

InProgress(c) == stage[c] \in {"read", "granted", "begun", "blocked", "answered"}

StartConnection ==
  /\ Pool!Start
  /\ UNCHANGED <<serviceVars, watched, callVars, metricVars>>

\* keep_alive(): the first look at the socket finds nothing to read.
Watch(k) ==
  /\ k \in busy \ watched
  /\ \A c \in CallsOf(k) : stage[c] # "sent" /\ ~InProgress(c)
  /\ watched' = watched \cup {k}
  /\ UNCHANGED <<poolVars, serviceVars, callVars, metricVars>>

\* keep_alive() returns true: process_request() reads the request.
Read(k, i) ==
  /\ k \in busy /\ stage[<<k, i>>] = "sent"
  /\ stage' = [stage EXCEPT ![<<k, i>>] = "read"]
  /\ watched' = watched \ {k}
  /\ UNCHANGED <<poolVars, serviceVars, status, allowed, metricVars>>

\* Mutant: a connection is closed while a call of it is in progress.
MutMayHangUp(k) == k \in busy
\* Mutant: an idle connection is kept for ever.
MutNeverIdle(k) == FALSE
\* Nothing has come in: time is up, the client has closed, or the server socket
\* is closed.
MayHangUp(k)    == k \in watched

\* Mutant: the socket is left open, and the client waits for a response.
MutUnread(k) == {}
\* The requests that are lost when the socket of k is closed.
Unread(k)    == {c \in CallsOf(k) : stage[c] = "sent"}

\* keep_alive() returns false.  A request that arrives now is not read any more.
HangUp(k) ==
  /\ MayHangUp(k)
  /\ Pool!Finish(k)
  /\ watched' = watched \ {k}
  /\ stage' = [c \in Calls |-> IF c \in Unread(k) THEN "lost" ELSE stage[c]]
  /\ UNCHANGED <<serviceVars, status, allowed, metricVars>>

\* The response is written.  The connection is kept unless this was its last
\* request or the client asked to close it; an error response announces that
\* the connection closes, but keeps it.
Reply(c) ==
  /\ stage[c] = "answered"
  /\ stage' = [stage EXCEPT ![c] = "replied"]
  /\ \/ c \in Rpcs /\ UNCHANGED poolVars
     \/ c \in HttpCalls /\ c[2] < KeepAliveMax /\ UNCHANGED poolVars
     \/ c \in HttpCalls /\ Pool!Finish(c[1])
  /\ UNCHANGED <<serviceVars, watched, status, allowed, metricVars>>

\* The response cannot be written: the client has gone.
ReplyFails(c) ==
  /\ stage[c] = "answered"
  /\ stage' = [stage EXCEPT ![c] = "lost"]
  /\ IF c \in HttpCalls THEN Pool!Finish(c[1]) ELSE UNCHANGED poolVars
  /\ UNCHANGED <<serviceVars, watched, status, allowed, metricVars>>

-----------------------------------------------------------------------------
(* The handlers. *)

\* The handler returns, or throws and process_request() answers 500.
Decide(c, outcome) ==
  /\ stage' = [stage EXCEPT ![c] = "answered"]
  /\ status' = [status EXCEPT ![c] = outcome]
  /\ UNCHANGED <<poolVars, serviceVars, watched>>

\* /health and /v1/models.
Plain(c) ==
  /\ stage[c] = "read" /\ Endpoint[c] = "plain"
  /\ Decide(c, "ok")
  /\ UNCHANGED <<allowed, metricVars>>

\* The request cannot be parsed, its body is no JSON, or tenant_id of /infer is
\* not a string.
Malformed(c) ==
  /\ stage[c] = "read" /\ c \in HttpCalls
  /\ Decide(c, "failed")
  /\ UNCHANGED <<allowed, metricVars>>

\* Mutant: the handler does not return after it has set the status.
MutRefused == "granted"
\* Where a refused call goes.
Refused    == "answered"

\* allow() says no.
Limited(c) ==
  /\ stage[c] = "read" /\ Endpoint[c] # "plain"
  /\ stage' = [stage EXCEPT ![c] = Refused]
  /\ status' = [status EXCEPT ![c] = "limited"]
  /\ UNCHANGED <<poolVars, serviceVars, watched>>
  /\ requests_rate_limited' = requests_rate_limited + 1
  /\ allowed' = [allowed EXCEPT ![c] = "no"]
  /\ UNCHANGED <<requests_total, queue_depth>>

\* allow() says yes: a token was taken, or it failed open, or another thread's
\* reply was read (rate_limiter.cpp:76-87).  The handler cannot tell.
Granted(c) ==
  /\ stage[c] = "read" /\ Endpoint[c] # "plain"
  /\ stage' = [stage EXCEPT ![c] = "granted"]
  /\ allowed' = [allowed EXCEPT ![c] = "yes"]
  /\ UNCHANGED <<poolVars, serviceVars, watched, status, metricVars>>

\* No messages array in a chat request, or a field of the wrong type.
Unusable(c) ==
  /\ stage[c] = "granted" /\ c \in HttpCalls
  /\ Decide(c, "failed")
  /\ UNCHANGED <<allowed, metricVars>>

\* requests_total is incremented by the HTTP server only.
CountedHere(c)    == IF c \in HttpCalls THEN 1 ELSE 0

\* Mutant: the gauge is incremented once the request is with the engine.
MutDepthBefore == 0
\* What queue_depth rises by before enqueue_fn() is called.
DepthBefore    == 1

\* The request is built and counted; dispatch() begins.
Begin(c) ==
  /\ stage[c] = "granted"
  /\ stage' = [stage EXCEPT ![c] = "begun"]
  /\ requests_total' = requests_total + CountedHere(c)
  /\ queue_depth' = queue_depth + DepthBefore
  /\ UNCHANGED <<poolVars, serviceVars, watched, status, allowed,
                 requests_rate_limited>>

\* enqueue_fn(), then future.get().
Enqueue(c) ==
  /\ stage[c] = "begun"
  /\ Service!Submit(c)
  /\ stage' = [stage EXCEPT ![c] = "blocked"]
  /\ UNCHANGED <<poolVars, watched, status, allowed, metricVars>>

\* Mutant: a handler returns while its request is still with the engine.
MutResult(c) == TRUE
\* The promise is fulfilled.
Result(c)    == verdict[c] # "none"

\* future.get() returns.  dump() throws when the text was cut inside a
\* character; gRPC has no such step.
Resume(c) ==
  /\ stage[c] = "blocked" /\ Result(c)
  /\ \/ Decide(c, "ok")
     \/ c \in HttpCalls /\ verdict[c] = "ok" /\ Decide(c, "failed")
  /\ queue_depth' = queue_depth - 1
  /\ UNCHANGED <<allowed, requests_total, requests_rate_limited>>

HandlerStep(c) ==
  \/ Plain(c) \/ Malformed(c) \/ Limited(c) \/ Granted(c) \/ Unusable(c)
  \/ Begin(c) \/ Enqueue(c) \/ Resume(c) \/ Reply(c) \/ ReplyFails(c)

-----------------------------------------------------------------------------
(* The engine. *)

Admit ==
  /\ Service!Start \/ Service!Reject
  /\ UNCHANGED <<poolVars, watched, callVars, metricVars>>

\* Requests are answered, and counted by the engine.
Complete(S, v) ==
  /\ Service!Finish(S, v)
  /\ requests_total' = requests_total + Cardinality(S)
  /\ UNCHANGED <<poolVars, watched, callVars, requests_rate_limited, queue_depth>>

EngineStep ==
  \/ Admit
  \/ \E S \in SUBSET serving,
        v \in Service!Verdicts \ {"tokenization_failed"} : Complete(S, v)

-----------------------------------------------------------------------------

ConnectionStep(k) ==
  \/ Watch(k) \/ HangUp(k)
  \/ \E i \in 1 .. KeepAliveMax : Read(k, i)

ClientStep ==
  \/ \E k \in Conns : Connect(k)
  \/ \E k \in Conns, i \in 1 .. KeepAliveMax : Send(k, i)
  \/ \E r \in Rpcs : Call(r)

Next ==
  \/ ClientStep
  \/ StartConnection
  \/ \E k \in Conns : ConnectionStep(k)
  \/ \E c \in Calls : HandlerStep(c)
  \/ EngineStep

Spec == Init /\ [][Next]_vars

\* Worker and handler threads run, a call of the rate limiter returns and an
\* idle connection times out.  Nothing is assumed of clients and of the engine,
\* nor that the pool grows: a thread that was notified and has not run yet is
\* still counted as idle, so that only the base threads are sure to be there.
Fairness ==
  /\ WF_vars(Cardinality(busy) < BaseWorkers /\ StartConnection)
  /\ \A k \in Conns : WF_vars(ConnectionStep(k))
  /\ \A c \in Calls : WF_vars(HandlerStep(c))

FairSpec == Spec /\ Fairness
=============================================================================
