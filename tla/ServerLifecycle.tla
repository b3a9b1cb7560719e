--------------------------- MODULE ServerLifecycle ---------------------------
(***************************************************************************)
(* The process (src/main.cpp): main() starts the HTTP server and tears all *)
(* down when it returns, a signal handler stops the engine, the gRPC       *)
(* server and the HTTP server in this order, and what the two do meets     *)
(* what the front ends are doing.                                          *)
(*                                                                         *)
(* A stopper is the main thread or a signal.  The handler of a signal runs *)
(* on the thread the signal interrupts, which may be any, and suspends it. *)
(*                                                                         *)
(* Of the engine thread the model keeps what decides whether it ends: its  *)
(* wait, at the granularity of pending_mutex_.  grpc::Server::Shutdown()   *)
(* is external: it refuses new calls, waits for those in progress and      *)
(* holds its mutex all the time, so that a second caller waits for it.     *)
(* is_decommissioned is left out: listen() is called once.                 *)
(***************************************************************************)
EXTENDS Traffic

CONSTANTS
  BaseWorkers,   \* threads the HTTP server is sure to have
  MaxSignals,    \* how many signals are delivered at most
  MainThread,
  EngineThread,
  OtherThread    \* a thread that runs no call: grpc_thread, an idle worker

ASSUME WorkersAssumption    == MaxWorkers \in Nat /\ BaseWorkers \in 1 .. MaxWorkers
ASSUME MaxSignalsAssumption == MaxSignals \in Nat
ASSUME RequestsAssumption   == KeepAliveMax \in Nat /\ Rpcs \cap HttpCalls = {}
ASSUME CallersAssumption    == IsFiniteSet(Conns) /\ IsFiniteSet(Rpcs)

\* The signals, in the order in which they are delivered.
Signals  == 1 .. MaxSignals
Stoppers == Signals \cup {MainThread}

ASSUME MainAssumption   == MainThread \notin Signals \cup {EngineThread}
ASSUME EngineAssumption == EngineThread \notin Calls \cup {OtherThread}

VARIABLES
  at,         \* at[s]: where stopper s is
  host,       \* host[h]: the thread the handler of signal h runs on
  \* ContinuousBatchEngine.
  running,    \* running_
  engine,     \* its thread: "running", "parking", "asleep", "exited"
  joinable,   \* engine_thread_.joinable()
  \* The servers.
  grpc,       \* "serving", "stopping", "stopped"; "none" if it did not start
  svr_sock,   \* svr_sock_: "never" opened, "open", "stale" (closed, but not
              \* reset), "none" (INVALID_SOCKET)
  is_running, \* is_running_
  crashed     \* the process was terminated

stopVars == <<running, engine, joinable, grpc>>
httpVars == <<svr_sock, is_running>>
lifeVars == <<at, host, stopVars, httpVars, crashed>>
allVars  == <<vars, lifeVars>>

LifeInit ==
  /\ Init
  /\ at = [s \in Stoppers |-> IF s = MainThread THEN "bind" ELSE "none"]
  /\ host = [h \in Signals |-> OtherThread]
  /\ running = TRUE
  /\ engine = "running"
  /\ joinable = TRUE
  /\ grpc \in {"serving", "none"}
  /\ svr_sock = "never"
  /\ is_running = FALSE
  /\ crashed = FALSE

-----------------------------------------------------------------------------
(* Threads and signals. *)

Up == ~crashed /\ at[MainThread] # "exited"

Active(h) == at[h] \notin {"none", "done"}

\* The handlers that run on thread t, and those that interrupted handler h.
HandlersOn(t) == {h \in Signals : Active(h) /\ host[h] = t}
Above(h)      == {g \in HandlersOn(host[h]) : g > h}

CanRun(s) == IF s = MainThread THEN HandlersOn(MainThread) = {} ELSE Above(s) = {}

\* The thread stopper s runs on.
ThreadOf(s) == IF s = MainThread THEN MainThread ELSE host[s]

Threads ==
  {MainThread, OtherThread} \cup {c \in Calls : InProgress(c)}
    \cup (IF engine = "exited" THEN {} ELSE {EngineThread})

\* What the handler does after each of its parts.
HandlerOrder    == [signal |-> "clear", engine |-> "grpc",
                    grpc   |-> "http",  http   |-> "done"]

\* ... and main(), once server.run() has returned.
MainOrder == [http |-> "grpc", grpc |-> "join_grpc", engine |-> "destroy"]

After(s, part) == IF s = MainThread THEN MainOrder[part] ELSE HandlerOrder[part]

Deliver(h, t) ==
  /\ at[h] = "none" /\ t \in Threads
  /\ h > 1 => at[h - 1] # "none"
  /\ at' = [at EXCEPT ![h] = HandlerOrder["signal"]]
  /\ host' = [host EXCEPT ![h] = t]
  /\ UNCHANGED <<vars, stopVars, httpVars, crashed>>

-----------------------------------------------------------------------------
(* ContinuousBatchEngine::shutdown(). *)

\* running_ = false
ClearRunning(s) ==
  /\ at[s] = "clear"
  /\ running' = FALSE
  /\ at' = [at EXCEPT ![s] = "notify"]
  /\ UNCHANGED <<vars, engine, joinable, grpc, httpVars, crashed>>

\* A notification wakes the engine thread if it sleeps already.
Woken == IF engine = "asleep" THEN "running" ELSE engine

NotifyAll(s) ==
  /\ at[s] = "notify"
  /\ engine' = Woken
  /\ at' = [at EXCEPT ![s] = "joinable"]
  /\ UNCHANGED <<vars, running, joinable, grpc, httpVars, crashed>>

TestJoinable(s) ==
  /\ at[s] = "joinable"
  /\ at' = [at EXCEPT ![s] = IF joinable THEN "join" ELSE After(s, "engine")]
  /\ UNCHANGED <<vars, stopVars, httpVars, crashed>>

\* join() throws if the thread joins itself, was joined since the test or is
\* being joined by another: nobody catches it.
JoinThrows(s) ==
  \/ ThreadOf(s) = EngineThread
  \/ ~joinable
  \/ \E u \in Stoppers : at[u] = "joining"

Join(s) ==
  /\ at[s] = "join"
  /\ IF JoinThrows(s)
       THEN crashed' = TRUE /\ UNCHANGED at
       ELSE at' = [at EXCEPT ![s] = "joining"] /\ UNCHANGED crashed
  /\ UNCHANGED <<vars, stopVars, httpVars>>

Joined(s) ==
  /\ at[s] = "joining" /\ engine = "exited"
  /\ joinable' = FALSE
  /\ at' = [at EXCEPT ![s] = After(s, "engine")]
  /\ UNCHANGED <<vars, running, engine, grpc, httpVars, crashed>>

-----------------------------------------------------------------------------
(* GrpcServer::stop(). *)

ShutdownGrpc(s) ==
  /\ at[s] = "grpc" /\ grpc # "stopping"
  /\ IF grpc = "serving"
       THEN grpc' = "stopping" /\ at' = [at EXCEPT ![s] = "grpc_wait"]
       ELSE UNCHANGED grpc /\ at' = [at EXCEPT ![s] = After(s, "grpc")]
  /\ UNCHANGED <<vars, running, engine, joinable, httpVars, crashed>>

GrpcIsDown(s) ==
  /\ at[s] = "grpc_wait"
  /\ \A r \in Rpcs : ~InProgress(r)
  /\ grpc' = "stopped"
  /\ at' = [at EXCEPT ![s] = After(s, "grpc")]
  /\ UNCHANGED <<vars, running, engine, joinable, httpVars, crashed>>

-----------------------------------------------------------------------------
(* Server::stop() and Server::run(). *)

\* A server that does not run yet, or no more, is not stopped.  One whose socket
\* is gone fails an assertion, or nothing happens in a build with NDEBUG.
StopHttp(s) ==
  /\ at[s] = "http"
  /\ \/ /\ is_running /\ svr_sock = "none"
        /\ crashed' = TRUE /\ UNCHANGED <<at, svr_sock>>
     \/ /\ svr_sock' = IF is_running THEN "none" ELSE svr_sock
        /\ at' = [at EXCEPT ![s] = After(s, "http")]
        /\ UNCHANGED crashed
  /\ UNCHANGED <<vars, stopVars, is_running>>

\* bind_internal(); run() ignores what listen() returns.
Bind ==
  /\ at[MainThread] = "bind"
  /\ \/ svr_sock' = "open" /\ at' = [at EXCEPT ![MainThread] = "listen"]
     \/ UNCHANGED svr_sock /\ at' = [at EXCEPT ![MainThread] = "grpc"]
  /\ UNCHANGED <<vars, stopVars, is_running, crashed>>

\* listen_internal() begins.
Listen ==
  /\ at[MainThread] = "listen"
  /\ is_running' = TRUE
  /\ at' = [at EXCEPT ![MainThread] = "accept"]
  /\ UNCHANGED <<vars, stopVars, svr_sock, crashed>>

\* Mutant: an error of accept() on the closed socket is taken for a transient one.
MutSocketGone == FALSE
\* while (svr_sock_ != INVALID_SOCKET)
SocketGone    == svr_sock = "none"

\* Its loop ends because stop() was called ...
EndAccepting ==
  /\ at[MainThread] = "accept" /\ SocketGone
  /\ at' = [at EXCEPT ![MainThread] = "close"]
  /\ UNCHANGED <<vars, stopVars, httpVars, crashed>>

\* ... or because accept() fails for a reason other than EMFILE, EINTR and EAGAIN.
AcceptFails ==
  /\ at[MainThread] = "accept" /\ svr_sock = "open"
  /\ svr_sock' = "stale"
  /\ at' = [at EXCEPT ![MainThread] = "close"]
  /\ UNCHANGED <<vars, stopVars, is_running, crashed>>

\* task_queue->shutdown() begins ...
CloseQueue ==
  /\ at[MainThread] = "close"
  /\ Pool!Close
  /\ at' = [at EXCEPT ![MainThread] = "drain"]
  /\ UNCHANGED <<stage, stopVars, httpVars, crashed>>

\* Mutant: listen() returns without waiting for the worker threads.
MutDrained == gate' = "closed" /\ UNCHANGED <<backlog, busy, closed>>
\* ... and returns when all connections have been served.
Drained    == Pool!Closed

\* Mutant: listen() does not clear is_running_.
MutRunningAfter == TRUE
\* The scope_exit of listen_internal().
RunningAfter    == FALSE

ListenReturns ==
  /\ at[MainThread] = "drain"
  /\ Drained
  /\ is_running' = RunningAfter
  /\ at' = [at EXCEPT ![MainThread] = After(MainThread, "http")]
  /\ UNCHANGED <<stage, stopVars, svr_sock, crashed>>

-----------------------------------------------------------------------------
(* The end of main(). *)

\* grpc_thread ends with Wait(), which returns when the server is down.
JoinGrpcThread ==
  /\ at[MainThread] = "join_grpc" /\ grpc \in {"stopped", "none"}
  /\ at' = [at EXCEPT ![MainThread] = "clear"]
  /\ UNCHANGED <<vars, stopVars, httpVars, crashed>>

\* The objects of main() are destroyed; a handler that still uses them may do
\* anything.
Return ==
  /\ at[MainThread] = "destroy"
  /\ at' = [at EXCEPT ![MainThread] = "exited"]
  /\ crashed' \in IF \E h \in Signals : Active(h) THEN BOOLEAN ELSE {FALSE}
  /\ UNCHANGED <<vars, stopVars, httpVars>>

MainStep ==
  \/ Bind \/ Listen \/ EndAccepting \/ AcceptFails \/ CloseQueue \/ ListenReturns
  \/ JoinGrpcThread \/ Return

\* A stopper, on a thread that runs.
StopperStep(s) ==
  /\ CanRun(s)
  /\ \/ ClearRunning(s) \/ NotifyAll(s) \/ TestJoinable(s) \/ Join(s) \/ Joined(s)
     \/ ShutdownGrpc(s) \/ GrpcIsDown(s) \/ StopHttp(s)
     \/ s = MainThread /\ MainStep
  /\ UNCHANGED host

-----------------------------------------------------------------------------
(* The engine thread. *)

\* Mutant: the predicate does not look at running_.
MutStaysAwake == Queued # {}
\* The predicate of its wait.
StaysAwake    == Queued # {} \/ ~running

\* It ends, it tests the predicate, or it falls asleep; it may wake by itself.
EngineThreadStep ==
  /\ HandlersOn(EngineThread) = {}
  /\ \/ engine = "running" /\ ~running /\ engine' = "exited"
     \/ engine = "running" /\ ~StaysAwake /\ engine' = "parking"
     \/ engine = "parking" /\ engine' = "asleep"
  /\ UNCHANGED <<vars, at, host, running, joinable, grpc, httpVars, crashed>>

SpuriousWake ==
  /\ engine = "asleep"
  /\ engine' = "running"
  /\ UNCHANGED <<vars, at, host, running, joinable, grpc, httpVars, crashed>>

\* It serves.  The iteration in which running_ becomes false is finished.
Serve ==
  /\ HandlersOn(EngineThread) = {} /\ engine = "running"
  /\ \E S \in SUBSET Queued : Answer(S)
  /\ UNCHANGED lifeVars

-----------------------------------------------------------------------------
(* The front ends. *)

\* A request is pushed under pending_mutex_ and the engine thread notified.
Push(c) ==
  /\ engine # "parking"
  /\ Submit(c)
  /\ engine' = Woken
  /\ UNCHANGED <<at, host, running, joinable, grpc, httpVars, crashed>>

CallStep(c) ==
  /\ HandlersOn(c) = {}
  /\ Push(c) \/ ((Decide(c) \/ Reply(c)) /\ UNCHANGED lifeVars)

ClientsStep ==
  /\ \/ /\ at[MainThread] = "accept" /\ CanRun(MainThread) /\ svr_sock = "open"
        /\ \E k \in Conns : Connect(k)
     \/ \E k \in Conns, i \in 1 .. KeepAliveMax : Send(k, i)
     \/ grpc = "serving" /\ \E r \in Rpcs : Call(r)
  /\ UNCHANGED lifeVars

WorkerStep(k) == ConnectionStep(k) /\ UNCHANGED lifeVars
WorkerStarts  == StartConnection /\ UNCHANGED lifeVars

-----------------------------------------------------------------------------

LifeNext ==
  /\ Up
  /\ \/ \E h \in Signals : \E t \in Threads : Deliver(h, t)
     \/ \E s \in Stoppers : StopperStep(s)
     \/ EngineThreadStep
     \/ SpuriousWake
     \/ Serve
     \/ \E c \in Calls : CallStep(c)
     \/ \E k \in Conns : WorkerStep(k)
     \/ WorkerStarts
     \/ ClientsStep

LifeSpec == LifeInit /\ [][LifeNext]_allVars

\* Every thread runs.  Clients, signals, errors of accept(), spurious wake-ups,
\* the pace of the engine and the growth of the thread pool are left open.
LifeFairness ==
  /\ \A s \in Stoppers : WF_allVars(Up /\ StopperStep(s) /\ ~AcceptFails)
  /\ WF_allVars(Up /\ EngineThreadStep)
  /\ \A c \in Calls : WF_allVars(Up /\ CallStep(c))
  /\ \A k \in Conns : WF_allVars(Up /\ WorkerStep(k))
  /\ WF_allVars(Up /\ Cardinality(busy) < BaseWorkers /\ WorkerStarts)

LifeFairSpec == LifeSpec /\ LifeFairness
=============================================================================
