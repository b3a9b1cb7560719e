------------------------- MODULE LifecycleProperties -------------------------
(***************************************************************************)
(* What makes the start and the end of the process correct.  Line numbers  *)
(* without a file name are those of src/main.cpp.                          *)
(***************************************************************************)
EXTENDS ServerLifecycle

HandlerPlaces == {"clear", "notify", "joinable", "join", "joining", "grpc",
                  "grpc_wait", "http", "none", "done"}
MainPlaces == (HandlerPlaces \ {"http", "none", "done"})
                \cup {"bind", "listen", "accept", "close", "drain", "join_grpc",
                      "destroy", "exited"}

\* Types of the life cycle's state (14-16, 59-69; continuous_batch_engine.h:39-46).
\* is_running_ tells whether the main thread is inside listen_internal().
LifeTypeOK ==
  /\ at \in [Stoppers -> HandlerPlaces \cup MainPlaces]
  /\ at[MainThread] \in MainPlaces
  /\ \A h \in Signals : at[h] \in HandlerPlaces
  /\ host \in [Signals -> {MainThread, EngineThread, OtherThread} \cup Calls]
  /\ {running, joinable, is_running, crashed} \subseteq BOOLEAN
  /\ engine \in {"running", "parking", "asleep", "exited"}
  /\ is_running <=> at[MainThread] \in {"accept", "close", "drain"}
  /\ grpc \in {"serving", "stopping", "stopped", "none"}
  /\ svr_sock \in {"never", "open", "stale", "none"}

-----------------------------------------------------------------------------

Delivered == {h \in Signals : at[h] # "none"}

\* When main() destroys its objects nobody uses them any more: the engine thread
\* has ended and was joined, no connection is open or waiting, no call is in
\* progress (65-70).
SafeTeardown ==
  at[MainThread] \in {"destroy", "exited"} =>
    /\ engine = "exited" /\ ~joinable
    /\ backlog = <<>> /\ busy = {}
    /\ \A c \in Calls : ~InProgress(c)

\* One signal, taken by a thread other than the engine's, never terminates the
\* process by an exception, an assertion or a use of destroyed objects: main()
\* leaves server.run() only when the handler is done with the engine (18-22,
\* 65-69).  It may if a second signal comes, or if run() ended by itself.
OneSignalIsSafe ==
  crashed => \/ Cardinality(Delivered) > 1
             \/ HandlersOn(EngineThread) # {}
             \/ svr_sock \in {"never", "stale"}

-----------------------------------------------------------------------------

\* A call whose request the engine has given up: nobody will answer it.
Abandoned(c) == stage[c] = "queued" /\ engine = "exited"

\* The notification came between the test of the wait predicate and the sleep.
Overslept == ~running /\ engine = "asleep"

\* The handlers found no HTTP server to stop, and now it runs.
MissedStop == svr_sock = "open" /\ \A h \in Signals : at[h] \in {"none", "done"}

\* A Shutdown() in progress waits for a call whose thread waits for it, in a
\* handler, or is suspended by a handler that waits for its mutex.
WaitsForItself ==
  /\ grpc = "stopping"
  /\ \E h \in Signals :
       \/ at[h] \in {"grpc", "grpc_wait"} /\ host[h] \in Rpcs
       \/ at[h] = "grpc" /\ \E s \in Stoppers : at[s] = "grpc_wait" /\ ~CanRun(s)

Hung == (\E c \in Calls : Abandoned(c)) \/ Overslept \/ MissedStop \/ WaitsForItself

\* What lets stopper s take its next step.
CanStep(s) ==
  /\ CanRun(s)
  /\ \/ at[s] \in {"clear", "notify", "joinable", "join", "http",
                   "bind", "listen", "destroy"}
     \/ at[s] = "joining" /\ engine = "exited"
     \/ at[s] = "grpc" /\ grpc # "stopping"
     \/ at[s] = "grpc_wait" /\ \A r \in Rpcs : ~InProgress(r)
     \/ at[s] = "accept" /\ SocketGone
     \/ at[s] = "close" /\ gate = "open"
     \/ at[s] = "drain" /\ gate = "closing" /\ backlog = <<>> /\ busy = {}
     \/ at[s] = "join_grpc" /\ grpc \in {"stopped", "none"}

\* What lets the engine thread come to its wait, past it or to its end.
EngineCanStep ==
  /\ HandlersOn(EngineThread) = {}
  /\ \/ engine = "parking"
     \/ engine = "running" /\ (~running \/ Queued = {})

\* A thread handles a call, or a connection, and nothing keeps it.
CallCanStep(c) == stage[c] \in {"handled", "given"} /\ HandlersOn(c) = {}
WorkerCanStep ==
  \/ \E k \in busy : \A c \in CallsOf(k) : ~InProgress(c)
  \/ backlog # <<>> /\ Cardinality(busy) < BaseWorkers

\* No signal is without effect, and no two threads wait for each other: once one
\* was delivered some thread can always go on, until the process has ended, but
\* for four reasons (18-22, 64-70).
NeverStuck ==
  Up /\ Delivered # {} =>
    \/ \E s \in Stoppers : CanStep(s)
    \/ EngineCanStep
    \/ \E c \in Calls : CallCanStep(c)
    \/ WorkerCanStep
    \/ Hung

\* A signal ends the process, or the process hangs for good for one of four
\* reasons, and for no other (18-22, 64-70).
EndsUnlessHung ==
  <>(Delivered # {}) => <>(~Up) \/ <>[]Hung

\* How many steps lie before the handler of a signal, main(), the engine thread,
\* a call and a connection, at most.
HandlerSteps ==
  [none |-> 9, clear |-> 8, notify |-> 7, joinable |-> 6, join |-> 5, joining |-> 4,
   grpc |-> 3, grpc_wait |-> 2, http |-> 1, done |-> 0]
MainSteps ==
  [bind |-> 14, listen |-> 13, accept |-> 12, close |-> 11, drain |-> 10, grpc |-> 9,
   grpc_wait |-> 8, join_grpc |-> 7, clear |-> 6, notify |-> 5, joinable |-> 4,
   join |-> 3, joining |-> 2, destroy |-> 1, exited |-> 0]
EngineSteps == [parking |-> 3, asleep |-> 2, running |-> 1, exited |-> 0]
CallSteps   == [new |-> 5, sent |-> 4, handled |-> 3, queued |-> 2, given |-> 1, over |-> 0]
ConnSteps(k) ==
  IF k \in closed THEN 0
  ELSE IF k \in busy THEN 1
  ELSE IF \E i \in DOMAIN backlog : backlog[i] = k THEN 2 ELSE 3

\* Everything that has steps ahead, and how many; the steps left, numbered.
Actors ==
  ({"signal"} \X Signals) \cup ({"call"} \X Calls) \cup ({"conn"} \X Conns)
    \cup {<<"main", MainThread>>, <<"engine", EngineThread>>, <<"crash", MainThread>>}
StepsAhead(a) ==
  CASE a[1] = "signal" -> HandlerSteps[at[a[2]]]
    [] a[1] = "call"   -> CallSteps[stage[a[2]]]
    [] a[1] = "conn"   -> ConnSteps(a[2])
    [] a[1] = "main"   -> MainSteps[at[MainThread]]
    [] a[1] = "engine" -> EngineSteps[engine]
    [] a[1] = "crash"  -> IF crashed THEN 0 ELSE 1
StepsLeft == {w \in Actors \X (1 .. 14) : w[2] <= StepsAhead(w[1])}

\* Once running_ is false nothing is done twice: every step of any thread, client or
\* signal brings the process nearer to a state in which nothing can happen any more
\* (18-22, 64-70).  With NeverStuck it comes to its end or hangs within a number of
\* steps that is known beforehand.
EndDrawsNear ==
  [][~running => Cardinality(StepsLeft') < Cardinality(StepsLeft)]_allVars

\* What the engine has answered reaches its client although the process is
\* shutting down, unless the process is terminated or a handler sits on the
\* thread of the call (18-22; server.cpp:35).
AnsweredCallsReply ==
  \A c \in Calls :
    (stage[c] = "given") ~> (stage[c] = "over" \/ crashed \/ HandlersOn(c) # {})

-----------------------------------------------------------------------------
(* Why it holds. *)

\* The requests of a connection come one after the other, and hold its worker.
TrafficOK ==
  /\ backlog \in Seq(Conns) /\ busy \subseteq Conns
  /\ stage \in [Calls -> {"new", "sent", "handled", "queued", "given", "over"}]
  /\ \A k \in Conns : \A i, j \in 1 .. KeepAliveMax :
       j < i /\ stage[<<k, i>>] # "new" => stage[<<k, j>>] = "over"
  /\ \A c \in HttpCalls : InProgress(c) => c[1] \in busy

\* main() leaves the HTTP server without connections and passes grpc_thread only
\* when there are no calls (65-67).
ServersEnd ==
  /\ at[MainThread] \notin {"accept", "close", "drain"} => backlog = <<>> /\ busy = {}
  /\ grpc \in {"stopped", "none"} => \A r \in Rpcs : ~InProgress(r)
  /\ at[MainThread] \in {"clear", "notify", "joinable", "join", "joining",
                         "destroy", "exited"} => grpc \in {"stopped", "none"}

\* The handlers that have come past the engine.
Past == {h \in Signals : at[h] \in {"grpc", "grpc_wait", "http", "done"}}

\* Who joined the engine thread: a handler that is past it, or main() after its
\* server ended by itself (72-76; 18-22, 69).
EngineEnds ==
  /\ ~joinable => engine = "exited"
  /\ at[MainThread] \in {"destroy", "exited"} => ~joinable
  /\ Past # {} => ~joinable
  /\ at[MainThread] \in {"join", "joining"} => svr_sock \in {"never", "stale"}
  /\ ~joinable =>
       Past # {} \/ (svr_sock \in {"never", "stale"} /\ at[MainThread] # "bind")

\* Who closed the socket of the HTTP server: the end of its loop, or a handler
\* that is done since (httplib.h, stop(); 21).
SocketEnds ==
  /\ at[MainThread] = "bind" => svr_sock = "never"
  /\ at[MainThread] \notin {"bind", "listen", "accept"} => svr_sock # "open"
  /\ svr_sock = "none" => \E h \in Signals : at[h] = "done"

\* Where a stopper is tells what it has done: it has cleared running_ before it
\* joins, the thread it joins is not its own, and one of them at most waits in
\* Shutdown() (72-76; 18-22, 65-69).
StoppersOrdered ==
  /\ \A s \in Stoppers :
       at[s] \in {"notify", "joinable", "join", "joining"} => ~running
  /\ \A h \in Signals : at[h] = "joining" => host[h] # EngineThread
  /\ HandlersOn(EngineThread) # {} => engine # "exited"
  /\ grpc = "stopping" <=> \E s \in Stoppers : at[s] = "grpc_wait"
  /\ \A s, u \in Stoppers : at[s] = "grpc_wait" /\ at[u] = "grpc_wait" => s = u

\* Where main() is in listen_internal() tells the state of its socket and of its
\* thread pool, and after it that of the gRPC server (65-67).
MainOrdered ==
  /\ at[MainThread] = "listen" => svr_sock = "open"
  /\ at[MainThread] = "accept" => svr_sock \in {"open", "none"}
  /\ at[MainThread] \in {"bind", "listen", "accept", "close"} => gate = "open"
  /\ at[MainThread] = "drain" => gate = "closing"
  /\ at[MainThread] = "join_grpc" => grpc \in {"stopped", "none"}

\* The inductive invariant: who has passed which part of the end of the process
\* tells what has ended (18-22, 64-70).
LifeInv ==
  /\ LifeTypeOK
  /\ TrafficOK
  /\ ServersEnd
  /\ EngineEnds
  /\ SocketEnds
  /\ OneSignalIsSafe
  /\ StoppersOrdered
  /\ MainOrdered
=============================================================================
