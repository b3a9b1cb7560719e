-------------------------- MODULE FrontEndProperties --------------------------
(***************************************************************************)
(* What makes the front ends correct.  Line numbers without a file name    *)
(* are those of src/server.cpp.                                            *)
(***************************************************************************)
EXTENDS FrontEnd

Stages == {"new", "sent", "read", "granted", "begun", "blocked", "answered",
           "replied", "lost"}

\* Types of the front ends' state (include/server.h:24-36, grpc_server.cpp:105).
TypeOK ==
  /\ backlog \in Seq(Conns) /\ busy \subseteq Conns /\ closed \subseteq Conns
  /\ gate \in {"open", "closing", "closed"}
  /\ waiting \in Seq(Calls) /\ serving \subseteq Calls
  /\ verdict \in [Calls -> Service!Verdicts \cup {"none"}]
  /\ watched \subseteq busy
  /\ stage \in [Calls -> Stages]
  /\ status \in [Calls -> {"none", "ok", "limited", "failed"}]
  /\ allowed \in [Calls -> {"none", "yes", "no"}]
  /\ {requests_total, requests_rate_limited, queue_depth} \subseteq Nat

-----------------------------------------------------------------------------

InEngine(c) == c \in serving \/ \E i \in DOMAIN waiting : waiting[i] = c

\* A call in progress on a connection keeps a worker thread for itself, so that
\* httplib's thread limit bounds what the HTTP server can have in the engine at
\* any moment, and the connection outlives the handler (34; httplib.h:5612).
CallsHoldWorkers ==
  /\ \A c \in HttpCalls : InProgress(c) => c[1] \in busy
  /\ \A c, d \in HttpCalls : InProgress(c) /\ InProgress(d) /\ c[1] = d[1] => c = d
  /\ Cardinality({c \in HttpCalls : InProgress(c)}) <= MaxWorkers

\* The answer of allow() decides who is served: a call that got a no is never with
\* the engine, gets nothing from it, and its 429 is not overwritten by what comes
\* after; nobody else gets a 429; what the engine has or answered got a yes; and a
\* 200 of an inference endpoint has the engine's result behind it (62-86, 94-131, 155;
\* grpc_server.cpp:27-30, 45).  Whether a yes cost the tenant a token is the
\* rate limiter's matter: it says yes without one when it fails open.
RefusedNeverServed ==
  \A c \in Calls :
    /\ allowed[c] = "no" <=> status[c] = "limited"
    /\ InEngine(c) \/ verdict[c] # "none" => allowed[c] = "yes"
    /\ InEngine(c) => stage[c] = "blocked" /\ verdict[c] = "none"
    /\ status[c] = "ok" /\ Endpoint[c] # "plain" => verdict[c] # "none"

Dispatched == {c \in Calls : stage[c] \in {"begun", "blocked"}}

\* queue_depth covers all that is with the engine, is never negative, and falls
\* to zero with the last handler that leaves dispatch(), whatever becomes of the
\* response (33-36; grpc_server.cpp:98-101).  It counts requests in slots too.  What
\* the HTTP server adds to it, and so to the engine's queue, which has no limit of its
\* own, its threads bound.
DepthCoversEngine ==
  /\ queue_depth = Cardinality(Dispatched)
  /\ queue_depth >= Len(waiting) + Cardinality(serving)
  /\ queue_depth <= MaxWorkers + Cardinality({r \in Rpcs : InProgress(r)})

\* requests_total is incremented by the HTTP handlers before dispatch() and by
\* the engine with its answer (84, 136; continuous_batch_engine.cpp:142, 238,
\* 269): HTTP calls count twice, gRPC calls once, and a prompt that does not
\* tokenize only where its handler counts.
TotalsExplained ==
  LET counted  == {c \in HttpCalls : c \in Dispatched \/ verdict[c] # "none"}
      answered == {c \in Calls : verdict[c] \notin {"none", "tokenization_failed"}}
  IN requests_total = Cardinality(counted) + Cardinality(answered)

\* Nobody waits for what cannot come: a handler that blocks on its future has its
\* request with the engine or its result in the promise, and a request that no worker
\* has read is on a connection that has a worker, or will have one (34; httplib.h:10152,
\* 12219).
NobodyWaitsInVain ==
  /\ \A c \in Calls : stage[c] = "blocked" => InEngine(c) \/ verdict[c] # "none"
  /\ \A c \in HttpCalls : stage[c] = "sent" =>
       c[1] \in busy \/ \E j \in DOMAIN backlog : backlog[j] = c[1]

\* The handlers keep the contracts of what they call, which are guards of BatchingService
\* and WorkQueue: a request is handed to the engine once only, and who closes a connection
\* is the worker that serves it (33; httplib.h:12198-12222).
ContractsKept ==
  /\ \A c \in Calls : stage[c] = "begun" => Service!New(c)
  /\ \A c \in HttpCalls : stage[c] = "answered" => c[1] \in busy
  /\ \A k \in Conns : MayHangUp(k) => k \in busy

-----------------------------------------------------------------------------

\* What the rest of the process sees of call c.
Seen(c) ==
  CASE stage[c] \in {"read", "granted", "begun"}   -> "handled"
    [] stage[c] = "blocked" /\ verdict[c] = "none" -> "queued"
    [] stage[c] = "blocked" /\ verdict[c] # "none" -> "given"
    [] stage[c] = "answered"                       -> "given"
    [] stage[c] \in {"replied", "lost"}            -> "over"
    [] OTHER                                       -> stage[c]

SeenStages == [c \in Calls |-> Seen(c)]

\* The front ends implement the traffic the life cycle is composed with: each
\* call is handled by the thread that took it until it is answered or refused,
\* through the engine at most once, and its connection stays open meanwhile.
Abstract == INSTANCE Traffic WITH stage <- SeenStages

TrafficSpec == Abstract!Spec

-----------------------------------------------------------------------------
(* Why it holds. *)

\* The requests of a connection are read one after the other, by the worker that
\* has it; a worker that waits for the next has none in progress.
ConnectionsInOrder ==
  /\ \A k \in Conns : \A i, j \in 1 .. KeepAliveMax :
       j < i /\ stage[<<k, i>>] # "new" => stage[<<k, j>>] = "replied"
  /\ \A c \in HttpCalls : InProgress(c) => c[1] \in busy \ watched
  /\ Cardinality(busy) <= MaxWorkers

\* A request is with the engine once.
EngineOnce ==
  /\ \A i, j \in DOMAIN waiting : waiting[i] = waiting[j] => i = j
  /\ \A i \in DOMAIN waiting : waiting[i] \notin serving

\* What the stage of a call says of allow()'s answer, its status and its verdict.
History(c) ==
  /\ InEngine(c) => stage[c] = "blocked" /\ verdict[c] = "none"
  /\ stage[c] \in {"new", "sent", "read"} => allowed[c] = "none"
  /\ stage[c] \in {"granted", "begun", "blocked"} => allowed[c] = "yes"
  /\ stage[c] \notin {"answered", "replied", "lost"} => status[c] = "none"
  /\ status[c] = "limited" <=> allowed[c] = "no"
  /\ status[c] = "ok" /\ Endpoint[c] # "plain" => verdict[c] # "none"
  /\ verdict[c] # "none" =>
       allowed[c] = "yes" /\ stage[c] \in {"blocked", "answered", "replied", "lost"}

CallHistory == \A c \in Calls : History(c)

\* Each metric is a count of calls; also the refusals (71-75, 112-118).
MetricsAgree ==
  /\ queue_depth = Cardinality(Dispatched)
  /\ requests_rate_limited = Cardinality({c \in Calls : status[c] = "limited"})
  /\ TotalsExplained

\* The inductive invariant: stages, connections, the engine's queue and the
\* metrics agree (54-157; grpc_server.cpp:24-101).
FrontInv ==
  /\ TypeOK
  /\ ConnectionsInOrder
  /\ EngineOnce
  /\ CallHistory
  /\ NobodyWaitsInVain
  /\ MetricsAgree

-----------------------------------------------------------------------------

Over(c) == stage[c] \in {"replied", "lost"}

\* The engine keeps its promise (EngineProperties!EveryRequestAnswered): there
\* are finitely many calls, so again and again it has answered all it was given.
EngineServes == []<>(\A c \in Calls : ~InEngine(c))

\* Then every request that reached the server is replied to, or its connection
\* is lost, also those on connections that wait for a worker (34-35;
\* httplib.h:5612).
CallsReplied ==
  EngineServes => \A c \in Calls : (stage[c] \in {"sent", "read"}) ~> Over(c)

WorkersBlocked ==
  Cardinality({c \in HttpCalls : stage[c] = "blocked"}) >= BaseWorkers

\* Whatever the engine does, /health and /v1/models answer, unless as many
\* worker threads as the pool is sure to have are held by calls that wait for
\* the engine (34, 159-175; httplib.h:10089).
PlainRepliedUnlessBlocked ==
  \A c \in HttpCalls :
    (stage[c] = "sent" /\ Endpoint[c] = "plain") ~> (Over(c) \/ WorkersBlocked)
=============================================================================
