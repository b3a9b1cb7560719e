# Formal models of the Adaptive Multi-Tenant Inference Server

TLA+ modules, TLC configurations and TLAPS proofs for the server in this
repository: continuous batching over llama.cpp behind an HTTP and a gRPC front
end, with a token-bucket rate limiter. Paths are relative to the repository
root; the definitions are translated from the source at the lines `PROJECT.json`
maps them to.

Contents: [1 Inventory](#1-inventory) · [2 Modules](#2-modules) ·
[3 Runs](#3-runs-and-bounds) · [4 Proofs](#4-proofs) ·
[5 Disagreements](#5-where-the-code-and-its-documents-disagree) ·
[6 Limits of the model](#6-what-is-abstracted-and-what-is-not-modelled) ·
[7 Plan](#7-plan)

## 1 Inventory

| Component | Source | State | Operations |
|---|---|---|---|
| KV slot pool | `src/kv_slot_manager.cpp`, `.h` | `slots_` (occupied, request, kv_pos, last_token), atomic `free_count_`; through `free_fn`, the cells of each llama sequence | `acquire`, `release`, `slot`, `free_count` |
| Decode engine | `src/continuous_batch_engine.cpp`, `.h`, `include/request.h` | `pending_` + mutex + condition variable, `running_`; the pool; five arrays indexed by slot | `enqueue`, `shutdown` (callers); `engine_loop`: wait, `admit_pending`, `retire_expired`, decode, sample, `retire_slot` |
| Rate limiter | `src/rate_limiter.cpp`, `.h` | buckets per tenant + mutex; one `redis_` connection; in Redis, `tokens` and `last_ms` per tenant | `allow` → `allow_redis` (Lua script) or `allow_local` (`refill`) |
| HTTP front end | `src/server.cpp`, `.h` | request id counter; per request a promise | `/infer`, `/v1/chat/completions`, `/v1/models`, `/health`, `run`, `stop` |
| httplib | `include/httplib.h` (vendored) | `ThreadPool`: jobs, threads, idle count; per connection the requests left; `svr_sock_`, `is_running_` | `enqueue`, `worker`, `shutdown` of the pool; the keep-alive loop; `listen`, `stop` |
| gRPC front end | `src/grpc_server.cpp`, `.h` | its own id counter; per request a promise | `Infer`, `ChatComplete`, `run`, `stop` |
| Life cycle | `src/main.cpp` | the objects above, three global pointers | start-up order, `on_signal`, the end of `main` |
| Metrics | `src/metrics.cpp`, `.h` | Prometheus counters, gauges, histograms | increments from handlers and engine |

**How they interact.** A handler thread (httplib pool or gRPC) parses the
request, asks the rate limiter, builds a `Request` whose `on_complete` fulfils a
promise, calls `enqueue`, and blocks in `future.get()`. One engine thread owns the
slots and the llama context: it moves requests from the queue into free slots,
decodes all occupied slots in one batch, samples a token for each, and calls
`on_complete` on its own thread when a sequence ends (end token, limit, deadline,
failed tokenization, failed decode). A signal handler, or the end of `main`,
calls `shutdown`, which clears `running_`, notifies and joins. Several processes
share the Redis buckets.

**What is hard.** Everything else is sequential code; the following is not, and
is what the properties are for (`PROJECT.json`, "hazards", lists each at its line).

- *The idle wait*: `enqueue` and `shutdown` against a thread that tests a
  predicate, then sleeps.
- *Drain here, acquire there*: `can_admit` is computed under the lock and used
  after it. A wrong count drops a request and its caller waits for ever.
- *Reuse of a slot*: cells, text, prompt, counter, prefill flag and sampler of the
  previous holder, on each of the paths that release it.
- *Four ways to end a request* that race within an iteration, against one promise.
- *Positions*: `kv_pos`, `tokens_generated_` and the limit advance at different
  lines, and an error path leaves in the middle.
- *Room*: one context shared by all sequences, sized from a global limit that a
  request may override.
- *Counters* incremented by two components; a gauge that must come back to zero.
- *Connections and threads*: a pool that grows and shrinks while jobs come in, with
  a count of idle threads that is stale between a notification and the wake-up; a
  connection that keeps its thread while idle, and while its request is decoded; a
  keep-alive time-out just as the next request arrives.
- *Shutdown* with requests in flight, started by a handler on an arbitrary thread,
  which may be one that the shutdown waits for, and at the same time as another.
- *The limiter*: an unlocked connection shared by threads, and clocks of several
  nodes read before the script that uses them.

**What makes each component correct.**

- Pool: exact counter; a slot changes hands through `release` only; no cell
  survives its holder.
- Engine: each request in one place and answered once; service in order of arrival; isolation of
  sequences; enough room; balanced metrics; every request answered while running;
  a shutdown that returns.
- Rate limiter: in any interval at most burst + rate · time admissions per tenant,
  over all nodes; tenants independent.
- Front ends: what the rate limiter refuses never reaches the engine, what the engine
  serves got its yes; one answer per call, by its own thread, on its own connection; metrics that
  can be explained; plain requests answered unless the engine holds the threads.
- Thread pool: exact counts, no thread asleep while there is work, every accepted job
  run once and in order, a shutdown that returns.
- Life cycle: nothing destroyed while in use; a signal ends the process, or the
  reasons why not can be named.

## 2 Modules

```
BatchingService            what the engine promises (abstract)
      ^ implemented by
ContinuousBatchEngine ---- EngineProperties ---- EngineInvariant ---- EngineProofs
      | EXTENDS                    |                    |                   |
KVSlotManager                EngineDocClaims        MCEngine     EngineServiceProofs
      |                            |
KVSlotClient -- MCKVSlotClient   MCEngineDocClaims
      |
KVSlotManagerProofs -- KVSlotClientProofs

QuotaService               what the limiter promises (abstract)
      ^ implemented by
RateLimiter ---- LimiterProperties ---- LimiterInvariant ---- LimiterProofs
      | EXTENDS       |                       |
TokenBucket      LimiterDocClaims         MCLimiter
                      |
                 MCLimiterDocClaims

WorkQueue                  what the thread pool promises (abstract)
      ^ implemented by
ThreadPool ---- ThreadPoolProperties ---- ThreadPoolProofs
                      |
                MCThreadPool

Traffic                    what the front ends are to the process (abstract),
      ^ implemented by     over WorkQueue
FrontEnd ---- FrontEndProperties ---- FrontEndProofs
      over WorkQueue  |
      and Batching-   MCFrontEnd
      Service

Traffic <-- EXTENDS -- ServerLifecycle ---- LifecycleProperties ---- LifecycleProofs
                                                   |
                                   LifecycleDocClaims ---- MCLifecycle
```

*Composition.* The whole process is far too large for one run, so that it is cut at
abstract specifications, each used on one side and shown to be implemented on the
other: the thread pool at `WorkQueue`, the engine at `BatchingService`, both front
ends at `Traffic`. `FrontEnd` runs its handlers over the first two, `ServerLifecycle`
runs `main` and the signal handlers over the third, with the engine thread's wait
spelled out again, since that is what a shutdown races with. Safety carries over by
these refinements; the one liveness fact handed across, that the engine answers what
it was given, is the hypothesis `EngineServes` and is checked as
`EveryRequestAnswered`.

**KVSlotManager** holds the pool's three variables and its operations as actions
its callers conjoin: `slots` (the `Slot` records), `free_count` (the atomic) and
`kv` (the cells of each sequence, since `free_fn` in `release` is what removes
them). `Acquire(sid, r)` is `acquire` returning `sid`, the first free slot;
`Release(S)` is `release` for every slot of `S`. A cell is a pair of the request
whose token it caches and a position, so a leaked or overwritten cell is visible.

**KVSlotClient** closes the pool with the most general caller that keeps its
contract: any order of acquire, write through `slot()`, release of any occupied
slots.

**ContinuousBatchEngine** is the engine. `pc` is the engine thread's control point:

| `pc` | code (`src/continuous_batch_engine.cpp`) | leaves by |
|---|---|---|
| `loop` | `while (running_)`, test for idle (163-165) | `LoopTop` |
| `idle` | holding the mutex, about to test the predicate (167-170) | `IdleCheckPasses`, `IdleCheckFails` |
| `parking` | predicate false, mutex still held, not asleep yet | `Park` |
| `waiting` | asleep on `pending_cv_` | a notification, `SpuriousWake` |
| `drain` | first half of `admit_pending` (84-91) | `Drain` |
| `admit` | its loop, one request per step (93-132), then `retire_expired` | `AdmitOne`, `RetireExpired` |
| `build` | collect the active slots and fill the batch (178-228) | `BuildBatch`, `NothingActive` |
| `decode` | `llama_decode` (229) | `DecodeOk`, `DecodeFail` |
| `sample` | the sampling loop, one slot per step (247-274) | `SampleEos`, `SampleLast`, `SampleToken`, `EndIteration` |
| `exited` | the thread function returned | |

The callers' actions are `Enqueue` (push under the mutex) and `NotifyOne`; `SetStop`,
`NotifyAll` and `Join` are the three statements of `shutdown`; `DeadlinePasses` is
time moving past a request's deadline. A step ends where another thread can see or
change something: the mutex is explicit only where it is held across two steps
(`parking`). The slots and the arrays belong to the engine thread, so a stretch of
code over them is one step, with every call it makes (`RetireSlots` contains
`Release`, and so on).

**BatchingService** is the abstract specification: a queue in order of arrival (the
code's order, not the one `README.md:19` promises: section 5), at most `MaxSlots`
requests in service, one verdict each; a failed decode is a verdict for everyone in
service at once. The refinement mapping (`EngineProperties!Service`) takes the queue
to be `to_admit \o pending`, the requests in service to be those that hold a slot,
and the verdicts to be what the promises hold.

**TokenBucket** is one bucket and one call on it, which the Lua script and
`allow_local` with `refill` compute alike. The doubles are integers: a token is
`Cost` units, `Rate` the units earned per tick.

**RateLimiter** is `allow` on the threads of several nodes. A call on a node
without a connection is one step (`AllowLocal`: the mutex covers all of it). A call
through Redis goes through the control points `pc[th]`:

| `pc` | code (`src/rate_limiter.cpp`) | leaves by |
|---|---|---|
| `idle` | no call in progress | `AllowLocal`, `ReadClock` (68, 72) |
| `sending` | the time is read, `redisCommand` is next (76) | `AppendCommand`, `UseFreed` |
| `appended` | in `redisCommand`, its command in the output buffer | `TakeBuffered`, `WriteBuffer`, `CommandFails`, `UseFreed` |
| `reading` | in `redisCommand`, blocked in `read()` | `Read`, `CommandFails`, `UseFreed` |
| `failed` | the reply is null, `redisFree` is next (82) | `FreeContext` |
| `freeing` | `redis_ = nullptr; return true` are next (83-84) | `FailOpen` |
| `crashed` | the process ended | |

`conn[n]` is the node's `redis_`: `live`, `broken` (the socket is), `freed` (the pointer
is kept until 83) or `none`. `redis_` is used without a lock, which is a data race. Its
outcomes are those of hiredis' own steps in any order: one output buffer (`obuf`) that
whoever writes flushes, one reader (`reader`) from which a call takes the next reply
whoever it is for before it writes, and a `read()` that brings all replies that have
arrived, of which its thread takes one and the others wake nobody. When the socket
breaks (`Break`), every thread that uses it may get its null reply (`CommandFails`), free the
context in turn (a second `redisFree` on a freed context is undefined, on a null pointer
it does nothing) and return true. A use of a context another thread has freed ends the process or
fails like a broken one (`Dies` or `NullReply`). `RunScript` and `RefuseScript` are Redis.
Corruption of the buffers themselves is not modelled. `history` records, per bucket, what
was granted and the time the bucket earned credit for; `uncharged` counts each thread's
calls that failed open; no action reads either.

**QuotaService** is the abstract specification, without buckets: a call is granted
if and only if, in every interval that ends with it, the grants still fit burst
plus rate times the length of the interval. The refinement mapping takes the keys to
be the buckets (a place, Redis or a node, and a tenant) and the clock of a key to be
the time its bucket was credited with; how that time relates to real time is the
subject of `OvershootIsSetback` and `LocalQuota`.

**ThreadPool** is httplib's class of that name. `enqueue` is `Enqueue` (its critical
section: refused, or queued and perhaps a dynamic thread spawned) and `Notify`, which
comes after the unlock; a thread in `worker()` sleeps (`waiting`), is notified, times
out or wakes by itself (`woken`: idle count not yet decremented), and then takes the
mutex to take a job, leave or sleep again. A dynamic thread that leaves moves itself
to `finished`, which the next growth joins with the mutex held; `shutdown()` is four
steps, and keeps the dynamic threads in `remaining` while it joins them.

**WorkQueue** is the abstract specification: jobs start in order, at most `MaxThreads`
run at a time, and the gate closes when all that were accepted have run. The mapping
takes the jobs on running threads to be in service.

**FrontEnd** is both servers. `stage[c]` is where call `c` is:

| `stage` | code (`src/server.cpp`; the gRPC handlers have the same steps) | leaves by |
|---|---|---|
| `new`, `sent` | the client has not sent it; it is in the socket buffer | `Send`, `Read` (HTTP); `Call` (gRPC) |
| `read` | the handler begins (54, 95) | `Plain`, `Malformed`, `Limited`, `Granted` |
| `granted` | `allow()` said yes, with a token taken or without (68, 111) | `Unusable`, `Begin` |
| `begun` | counted; before `enqueue_fn` (84, 33) | `Enqueue` |
| `blocked` | in `future.get()` (34) | `Resume` |
| `answered` | the response is not written yet | `Reply`, `ReplyFails` |
| `replied`, `lost` | over | |

A connection is a job of the pool: its worker reads one call after the other until it
hangs up (`Watch`, then `HangUp`: httplib looks at the socket once and then waits), the
limit of requests is reached or the client closes. The two increments of `requests_total`
and the two sides of `queue_depth` are where the code has them. `allowed[c]` is what
`allow()` told the handler: a handler cannot tell a yes that cost a token from one of the
fail-open path or from another thread's reply, so neither can the model.

**Traffic** is the abstract specification of `FrontEnd`: connections, and calls that are
`handled` by their thread, `queued` with the engine or `given` an answer.

**ServerLifecycle** composes `Traffic` with `main` and the signal handlers. `at[s]` is
where stopper `s` is: the main thread (from `bind` to `exited`) or a signal's handler,
whose steps run on the thread it interrupted (`host`) and suspend it; a second handler
may be above the first. Both run the same `shutdown()` of the engine and `stop()` of the
servers, statement by statement. `crashed` is the process terminated: by `join()`'s
exception, by the assertion in `stop()` (in builds that keep it), by the use of
destroyed objects.

The **...Properties** modules state the properties; **EngineInvariant** and
**LimiterInvariant** (for the pool, the front ends and the life cycle, `PoolInv`, `FrontInv` and `LifeInv`
in their ...Properties) the inductive invariants behind them; the **...DocClaims** modules what the documents claim and the
code does not do. A definition `MutX` beside a definition `X` is `X` with a plausible
bug: every property of a passing run is shown to fail with one of them.

## 3 Runs and bounds

| Run | Instance | Distinct states | Shows |
|---|---|---|---|
| `kv_pool` | 3 slots, 4 requests, positions up to 2 | 1 009 | `CellsFollowHolder` |
| `engine_safety` | 2 slots, 3 requests, one of which does not tokenize, `MaxTokens` 2, `FairSpec` | 247 773 | `EngineInv`, one place and one answer per request, isolation of cells and text, `ContextSufficient`, `SleepsOnNoRequest`, `AnswersDrawNear`, `AnswersCounted`, that the engine implements `BatchingService`; every request is answered while running, and a shutdown stops the thread except in one window |
| `limiter_threads` | 1 node, 2 threads with 3 calls each, 1 tenant, time up to 1 | 189 331 | `LimiterInv` (the credit of each bucket, the replies owed), `OneUnchargedEach`, with the socket breaking at any moment; under `ServingSpec`, `ReturnsOrStranded` |
| `limiter_nodes` | 2 nodes with clocks one tick apart, 1 thread each with 3 calls, 1 tenant, time up to 3 | 2 013 127 | the quota of each bucket (`QuotaSpec`), `LocalQuota`, `OvershootIsSetback` |
| `thread_pool` | 1 base thread, at most 3, 3 jobs | 112 818 | `PoolInv` (with the idle count and the joins under the mutex), the bound, `NobodyIsStranded`, `ShutdownProgresses`, that the pool implements `WorkQueue`; accepted jobs run, `shutdown()` returns |
| `front_end` | 2 connections of 2 requests, 1 base worker, at most 2, 1 gRPC call, 1 slot | 173 100 | `FrontInv`, `CallsHoldWorkers`, `RefusedNeverServed`, `DepthCoversEngine`, `NobodyWaitsInVain`, that the front ends implement `Traffic`; `CallsReplied`, `PlainRepliedUnlessBlocked` |
| `lifecycle` | 1 connection, 1 gRPC call, 2 signals | 369 770 | `LifeInv` (with `OneSignalIsSafe`), `SafeTeardown`, `NeverStuck`, `EndDrawsNear`; `EndsUnlessHung`, `AnsweredCallsReply` |
| `own_verdict`, `quota_shared` | 1 or 2 threads, 1 tenant | violation | section 5 |
| `shutdown_returns`, `priority_first` | 1 slot, 2 requests | violation | section 5 |
| `shuts_down_cleanly` | as `lifecycle`, 1 signal | violation | section 5 |

Both engine instances have deadlines that pass at any moment, decodes that fail at any
moment, spurious wake-ups and a shutdown at any moment. The engine runs set
`CHECK_DEADLOCK FALSE`: the system does stop, after a shutdown or when nobody has
anything left to submit. `kv_pool` never stops and is checked for deadlock. The pool,
the front ends and the life cycle stop too, when all jobs, connections and calls are
over or the process has ended.

*Why these bounds.* Two slots are the fewest with one in use while another is
reused; three requests are the fewest that make one wait while two are served, and
let one slot have two successive holders. `ra` runs to the global limit of 2 tokens
(one sampled in prefill, one fed back), `rb` has a limit of its own of 1 (retired
from prefill): both sides of each limit test. Prompts of 3 tokens (the typical length
the context is sized for) and of 1 tell a position from a count; that of `rc` does not
tokenize, which takes a slot and gives it back within the admission. Either of `ra` and `rb`
can follow any of the others in a slot. One token suffices since no decision reads its value. Requests are not
symmetric (their prompts and limits differ), so no symmetry set is used. Of the
pool and the engine the only bound that cuts behaviour is `MaxPos` in `KVSlotClient`; each request is submitted
once because a `Request` object is, and its identity is what the properties track.

In the limiter runs a burst is one token, worth two units, and a tick earns one, so
that a refused call may or may not earn the next one its token; three ticks pass the
cap. Two threads on one node are what the race on its connection needs: both get a null
reply, one frees what the other has freed, or one reads the other's reply. Three calls
each let one of them leave a reply to a later call and a failure follow it; what
time does to buckets is the subject of the other run, so one tick is enough here. Two nodes
are what a script that overtakes another needs; three calls per thread let a late
script be followed by calls that profit. One tenant is enough for TLC: tenants share no
bucket, only the connection, where the tenant of a command is read by the script alone;
the theorems have any number. `MaxTime` and `MaxCalls` are bounds in the
guards, and constants like any other for the proofs. The limiter runs stop when the
threads have made their calls and time is up, hence `CHECK_DEADLOCK FALSE`.

In `thread_pool` one thread is base and two may be added and leave again, which makes a
thread time out while another is spawned; a fourth identity is there so that growing
too far would show; three jobs let one wait behind two. In `front_end` one connection
makes two inference requests, the other a plain one: both may meet on one worker, or run
on two. A gRPC call shares the single slot with them. `lifecycle` has one call of each
kind, each of which may be at any stage when a signal arrives, and two signals: both on
one thread, on two, or one on top of the other. Whether `assert` is kept depends on the
build (the `README.md` one keeps it, the `Dockerfile`'s `Release` does not), so the model
has both outcomes. `Threads`, `Conns`, `Rpcs` and `MaxSignals` bound identities in
`\E`s; nothing else is cut.

*Fairness* (`FairSpec`). Weak fairness of `EngineStep`: the operating system runs the
engine thread, which never waits except in `waiting` (where no engine step is
enabled) and which `llama_decode` returns to. Weak fairness of `NotifyOne`,
`NotifyAll` and `Join`: a thread inside `enqueue` or `shutdown` goes on. Nothing is
assumed of who submits, whether a shutdown comes, deadlines, or spurious wake-ups:
liveness that needed one of those would be luck. That a sequence ends is not assumed
either: the token limit ensures it.

For the limiter, weak fairness of `Proceed`, the steps of a call in progress: a handler
thread runs. A thread in `read()` has a step only when a reply has arrived, the socket is
broken or the context freed; nothing bounds how long a command may hang. `ServingSpec` adds
that Redis answers what reaches it; without it `ReturnsOrStranded` is false, for no timeout
is set (section 5). `Stranded` names the one way a call may hang although Redis answers: its
reply, or its unwritten command, is with hiredis, where another thread left it.

For the pool, weak fairness of every thread's steps, of a caller inside `enqueue` or
`shutdown`, and of a job (it returns); a strong one is not needed, since the mutex is
held within single steps. For the front ends and the life cycle, every thread runs, an
idle connection times out and `allow` returns (which a Redis that hangs, or a reply read by
another thread, may deny: `ReturnsOrStranded` says when); of the pool only that its base threads
take jobs: `enqueue` spawns a thread only when the idle count is zero, and that count
includes threads that were notified and have not woken, so growth may fail to come. Nothing
is assumed of clients, of signals, or of the engine's pace: where a property needs the
engine it says so (`EngineServes`). That `accept` fails for good (`AcceptFails`) is not
forced either: the loop of `listen` ends because its socket is gone, or it does not end.

`EndsUnlessHung` names why a signal may fail to end the process: a request the engine
gave up, the lost wake-up below, an HTTP server stopped before it ran, and a handler on
a thread `Shutdown()` waits for. Each of the four occurs. `NeverStuck` is its safety half: as
long as the process is up and none of the four is the case, some thread can take its next
step. `CanStep`, `EngineCanStep`, `CallCanStep` and `WorkerCanStep` spell out what a step
needs, so that the property is about states and can be proved. `EndDrawsNear` is the other
half: once a handler has cleared `running_`, no step is made twice, so that the process cannot
go on for ever either. What the two leave to fairness is that a thread that can take its next
step takes it. `OneSignalIsSafe` lists, in the same
way, what must come together for a crash.

`StopsUnlessParking` is the exact complement of the lost wake-up of section 5: once
`running_` is false and the engine is not inside the window, the thread exits.

## 4 Proofs

For the engine, for every number of slots, every set of requests (finite or not), every prompt
length, token limit and per-request override, from the named assumptions of
`KVSlotManager` (`MaxSlotsAssumption`, `NoRequestAssumption`), `KVSlotClient`
(`MaxPosAssumption`), `ContinuousBatchEngine` (`MaxTokensAssumption`,
`PromptReserveAssumption`, `PromptLenAssumption`, `MaxNewAssumption`), `TokenBucket`
and `RateLimiter` (rate, burst and cost are numbers, clocks differ by at most
`MaxSkew`, `ThreadsAssumption`: finitely many threads), and `ThreadPool` (`JobsAssumption`, `ThreadsAssumption`: finitely many jobs
and threads, at least one base thread, no more than the maximum), and `FrontEnd`
(`ClientsAssumption`, `KeepAliveMaxAssumption`, `WorkersAssumption`, `RpcsAssumption`,
`EndpointAssumption`: finitely many connections and gRPC calls, at least one request per
connection, gRPC calls are not HTTP calls and are not plain), and `ServerLifecycle`
(`MaxSignalsAssumption`, `RequestsAssumption`, `MainAssumption`, `EngineAssumption`: signals,
requests of a connection and threads are told apart, in any number; `CallersAssumption`:
finitely many connections and gRPC calls, which only the number in `EndIsNear` needs), which TLC evaluates on each
instance.

- `KVSlotManagerProofs`: what `Acquire` and `Release` do to the set of free slots and
  to its cardinality, and that they keep `PoolOK`. The range of `free_count` is not
  inductive alone: a counter that drifted could leave it; it follows from
  `FreeCountExact`, so both are proved together.
- `KVSlotClientProofs`: `PoolInvariant`, and from it `CounterExact`,
  `CellsBelongToHolder` and the action property `HolderNeverReplaced`.
- `EngineProofs`: `EngineInvHolds`, and from it `TypeCorrect`, `EngineCounterExact`,
  `AdmissionNeverFails`, `SequencesIsolated`, `NoTextLeaks`, `BatchInputsReady`,
  `SamplingReady`, `CountersAgree`, `GaugeBalanced`.
- `EngineServiceProofs`: `ServiceInvHolds`, and from it `OneAnswer`, `OnePlace`,
  `CountersExact`, `EngineImplementsService` (the refinement of `BatchingService`) and
  `ContextHasRoom`; from both invariants, `SleepsWithoutWork` and the action properties
  `SlotsAreServed` (the next token) and `AnswersComeNearer` (the answer, and the turn of those
  in the queue): what "every request gets its turn" says but for fairness.
- `LimiterProofs`: `LimiterInvHolds`, and from it `LimiterTypes`,
  `LimiterImplementsQuota` (the refinement of `QuotaService`), `SharedOvershoot`,
  `LocalQuotaKept`, `OneUncharged` and `OneReplyEach` (`RepliesOwed`: on a good connection
  each waiting thread is owed one reply).
- `ThreadPoolProofs`: `PoolInvHolds`, and from it `IdleCountExact`,
  `CleanupDoesNotBlock`, `NoJobForgotten`, `NobodyStranded`, `PoolStaysBounded`,
  `PoolImplementsQueue` (the refinement of `WorkQueue`) and the action property
  `ShutdownIsBounded`, for every number of threads and jobs.
- `FrontEndProofs`: `FrontInvHolds`, and from it `WorkersAreHeld`,
  `RefusedAreNeverServed`, `DepthIsExact`, `TotalsAreExplained`, `NobodyAwaitsInVain`,
  `ContractsAreKept` and `FrontEndImplementsTraffic` (the refinement of `Traffic`), for
  every number of connections, requests on them, gRPC calls and threads. `FrontEndDrives`
  composes: the front ends' steps are steps of `BatchingService` and of `WorkQueue`, which
  the engine and the pool implement; `ContractsAreKept` says that it is the handlers' own
  order, and not the guards of these two, that keeps a handler from submitting twice or
  from closing a connection it does not serve.
- `LifecycleProofs`: `LifeInvHolds`, and from it `TeardownIsSafe`,
  `OneSignalNeverCrashes`, `AlwaysGoesOn` (`NeverStuck`), `LostCallHangs` and the action
  property `EndIsNear` (`EndDrawsNear`), for every number of signals, connections and calls; `LifeDrivesPool` is its share of the
  composition.

*The argument for the life cycle.* `SafeTeardown` needs the history of the tear-down:
`ServersEnd` says which places of `main` are behind the end of the HTTP server and of
the gRPC server, `TrafficOK` that a connection in progress holds a worker, so that no
worker means no HTTP call (with `InOrder`: when a connection ends, its other requests are
over or were not made). `OneSignalIsSafe` depends on who joined the engine thread and who
closed the socket: `EngineEnds` says that the one who made the thread not joinable is a
handler that is past the engine (`Past`), or `main`, which can only be there without a
handler when its server ended by itself; `SocketEnds` that a socket that is gone was
closed by a handler that is done. A `join` that throws, an assertion that fails and a
return under a running handler then each need two handlers, one on the engine thread, or a
server that ended by itself (`JoinIsSafe`, `StopIsSafe`, `ReturnIsSafe`). The front
ends' steps touch no stopper (`TrafficLeaves`) and start nothing behind a server's end
(`TrafficStarts`).

`AlwaysGoesOn` supposes a state in which nobody can go on (`Stuck`) and leads it to a
contradiction. On each thread the last handler that interrupted it runs (`TopHandler`). One
that waits in `join` waits for an engine thread that is not asleep (that would be
`Overslept`), and no handler that runs on that thread can be waiting in `join` itself
(`StoppersOrdered`), so that the engine thread moves or has ended (`EngineIsJoined`). What is
left are handlers in `Shutdown`: the one who holds its mutex is alone there (`GrpcAlone`);
if it is suspended, or the call it waits for is, the handler above waits too, which is
`WaitsForItself`; and a call nobody suspends is answered unless it was abandoned
(`NobodyInShutdown`). So no handler is left, the engine thread has ended, and `MainGoesOn`
takes `main` through its places: `MainOrdered` gives the state of socket, thread pool and
gRPC server each of them needs.

`LostCallHangs` makes the finding `shuts_down_cleanly` general: a call queued with an engine
whose thread has ended stays so whatever else happens, and since `main` gets past the
servers only without calls, it never comes to its end.

`EndIsNear` numbers the steps each handler, `main`, the engine thread, each call and each
connection may still make (`StepsAhead`), and collects them in one finite set (`StepsLeft`):
a step that takes one away and adds none leaves fewer (`StepsFall`). That it adds none is
where `~running` is needed: a signal, `main`, a call or a connection never goes back
(`StopperWays`, `MainGoes`, `StageFalls`, `ConnMoves`), but the engine thread goes round its
wait until `running_` is false (`EngineNearer`). That a connection is in one place of the pool,
once (`ConnsOnce`), follows from the pool's contract, which the process keeps (`PoolSteps`).

*The argument for the front ends.* The metrics are counts of calls (`MetricsAgree`), but
that a step adds one to both sides needs to know that the call was not counted before:
`CallHistory` says what each stage implies of the limiter's answer, the status and the verdict, so that
a verdict is given once, to a call that is blocked and with the engine. `EngineOnce` makes
what leaves the queue gone from it, and with finite sets of calls the length of the queue
a number of calls. `ConnectionsInOrder` says that the requests of a connection are over
before the next is read, and that a worker that watches its connection has none in
progress: without it, a time-out would take the connection from a handler, and two calls
would share a worker (`WorkersAreHeld`, where a connection per call in progress gives the
bound). The refinement maps stages to what the process sees of them (`SeenStages`):
`HandlerTraffic` treats all steps of a handler alike, `EngineTraffic` shows that only a
verdict of the engine shows, and the rest is one step of `TrafficStep` each. `NobodyWaitsInVain` is inductive with the
others: a request leaves the engine only with a verdict, and a worker that gives up its
connection takes all unread requests on it along (`Unread`). The bound of `queue_depth`
counts the calls inside `dispatch` by the workers they hold.

*The argument for the pool.* `IdleExact` and `CleanupNeverBlocks` are inductive with the
types. `PoolBounded` is not: that few threads run follows from `ThreadsOwned`, where every
dynamic thread is on one of three lists and each of two is short enough with the base
threads, and from `ShutdownOrdered`, where `remaining` is only in use when no base
thread runs and `dynamic` is empty. `NobodySleepsOnWork` counts: what is queued is at most the
callers about to notify plus the threads awake; `SleepNext` shows for each step which side
moves, and that a thread that falls asleep has seen an empty queue. That nobody is stranded
adds `shutdown` to it: `ShutdownReaches` says that it has woken everyone, that each thread it
joins was started, and that none of them sleeps again. `ShutdownProgresses` is the bound
behind `ShutdownEnds`: jobs, threads, callers and places of `shutdown` still to come are
summed up to `ShutdownWork`, finite sets make it a number, and each step lowers it. `JobsOnce` (a job is
in one place) makes the mapping to `WorkQueue` a set of as many jobs as there are running
threads (`PoolBounded` again gives its bound), and with `ShutdownOrdered` gives that the
gate closes with nothing left.

*The argument for the limiter.* What a bucket holds says nothing of the past unless it
is tied to the grants: `Covered` says every suffix of them used no more than the burst
less what is left and what was earned since the suffix began, `Tight` that some suffix
used exactly that (or the bucket is full). The first gives that a grant fits every
interval, the second that a refusal was necessary. `RefillAccounts` and `TakeAccounts`
show that time passing and taking a token keep both, `TokenMeansRoom` that with both
a bucket has a token exactly when there is room. `CoveredIsPaced` turns the first into the
quota of every interval between two grants (`Paced`), which `LocalQuota` states of real time.
`RepliesOwed` counts: a thread that begins to wait adds a command to the output buffer
(`AppendCommandStep`), a write or a read moves what is owed from one place to the next
(`OwedSum`, `OwedMoves`), a reply takes the place of a command (`OwedByReply`), and a thread that
gets one, its own or not, leaves with it (`TakesStep`). `OneUnchargedEach` is not inductive:
`FailedOpenLast` adds that a null reply is only ever had on a connection that is not good
any more, and that a thread that failed open left its node without one, so that none of its later
calls goes to Redis (`FailureStep`); what the other threads do to the pointer in between does not matter.
The rest of `LimiterInv` bounds the times: commands in buffers or on their way carry no time later
than any clock, and a bucket has earned credit up to its last use plus its setbacks.

*The argument for the engine.* `CellsFollowRequest`, `OwnTextOnly`, `PositionsAgree` and
`AcquireNeverFails` are not inductive: a batch built from a stale prompt buffer, a
slot retired while it is still to be sampled, or vectors that survive their iteration
would break them in one step. `Phases` says which of the engine's local vectors are
empty at each control point and how `active` and `todo` relate to the occupied slots;
`SlotsReady` says what a slot in prefill has (its own prompt, an empty cache, a
position equal to the prompt length once the batch is built, a place in `todo` until
sampled) and what a slot past it has (a token). With `PoolOK` and the gauge they form
`SlotsInv`, and with `IdleInv` (the thread sleeps with no slot in use, and with nothing
queued whose caller is not about to notify) `EngineInv`. TLC checks it first (`engine_safety`). The proof has one lemma per
step that touches a slot, one for all the steps that move the control point only
(`QuietStep`), and common lemmas for the drain (`DrainSplits`), retirement
(`RetireTouchesOnly`), answers (`AnswerOwnText`) and batches (`BatchExtends`). For `SlotsServed` (which `SlotsAreServed` proves) the measure
`StepsToToken` says how many steps lie before a slot is sampled, at most; `NearerToken`
shows, control point by control point, that it falls. `SlotsAreServed` adds its range: within
`3 * MaxSlots + 7` steps of the engine thread a slot gets its next token or is retired.

For `AnswersDrawNear` the steps to the next token are a digit below the tokens still to come
(`StepsToAnswer`): a step that samples the slot may set the lower digit back, but lowers the
upper one (`RoundsLeft`), any other lowers the lower one, so that the number falls
(`SlotsDrawNear`); its range says how long an answer takes at most. For the queue
(`StepsToAdmit`) it is the steps to the next drain when a slot is free, and above them those to the
answer in slot 0 when none is (`AdmitStepsAre`): any slot would do, as the first to be free
lets the queue move. A drain shortens the queue (`DrainTakes`); nothing another thread does
raises either number (`OthersPutNothingOff`), and a request that arrives goes behind.

*The argument for the engine's service.* To a request, every step of the engine does one of
five things (`StepEffects`): nothing, it is submitted, started, rejected before it starts, or
answered with all those retired in the same loop. `ServiceInv` is `AnsweredOnce`,
`OnePlaceEach` and `AnswersCounted`, each checked by a run, and that the answered
requests are finitely many (so that a count of them means something); it is inductive
relative to `EngineInv`, and one lemma per effect proves it. `OnePlaceEach` is what makes a count
go up by the number of retired slots: no two slots hold the same request
(`HoldersCounted`). The same five effects are the steps of `BatchingService`. For
`ContextHasRoom` no such invariant is needed: by `PositionsAgree` a slot has at most the cells
of its prompt and of its limit, and the context was sized for `max_slots` of them.

*Model-checked only.* Liveness (`EveryRequestAnswered`, `StopsUnlessParking`,
`ReturnsOrStranded`, `AcceptedJobsRun`, `ShutdownEnds`, `CallsReplied`,
`PlainRepliedUnlessBlocked`, `EndsUnlessHung`, `AnsweredCallsReply`) is out of the
prover's reach, and is checked on the instances above. Of
most, the part that is not liveness is proved: that nobody waits for what cannot come
(`SleepsOnNoRequest`, `NobodyIsStranded`, `NobodyWaitsInVain`, `RepliesOwed`, `NeverStuck`) and
that a measure falls (`AnswersDrawNear`, `ShutdownProgresses`, `EndDrawsNear`); what is left to TLC is that fair
threads take the steps they can take. Every safety property and every
refinement the runs check has a theorem.

*Not run on their own.* `ReadyToDecode`, `ReadyToSample`, `InflightBalanced`, `IdleExact`,
`CleanupNeverBlocks`, `FreeCountExact`, `AcquireNeverFails`, `PositionsAgree`, `IdleInv`,
`NobodySleepsOnWork`, `RepliesOwed`, `TotalsExplained`, `ContractsKept`, `OneSignalIsSafe`
and the types of the engine, the limiter, the pool and the front ends
are parts or consequences of the inductive invariants, which the runs check and from which
the theorems derive them. The action properties `HolderStable` and `SlotsServed` are proved too;
the runs check `CellsFollowHolder` and `AnswersDrawNear`, which say more.

## 5 Where the code and its documents disagree

Each is a run that TLC refutes, on the smallest instance that shows it.

| Run | Document | Code |
|---|---|---|
| `shutdown_returns` | `src/main.cpp:64` "Send SIGINT or SIGTERM to shut down cleanly" | `shutdown` clears `running_` and notifies without the mutex: between predicate and sleep the notification is lost, the engine sleeps for ever, `join` never returns. Setting `running_` under `pending_mutex_` would close the window |
| `priority_first` | `README.md:19` "highest priority / soonest deadline first" | the queue is a `std::queue` drained from its front (86-90): neither the priority, which the front ends set, nor the deadline is looked at |
| `own_verdict` | `include/rate_limiter.h:18` "Thread-safe" | threads share `redis_` with no lock and may read each other's replies |
| `quota_shared` | `README.md:149` "all nodes share per-tenant quota" | the script stores the caller's time even if it is earlier than the stored one, so an interval earns twice; storing the larger of the two would close it |
| `shuts_down_cleanly` | `src/main.cpp:64` again | the handler stops the engine first (19-21); a request it leaves unanswered keeps its thread in `future.get()`, and both servers' stops wait for that thread. Stopping the servers first, or answering what is left in `shutdown`, would end the process |

Other disagreements, visible in the code at one place and without a run: a request may ask for more than `max_tokens`,
described as "max generated tokens per request"
(`include/continuous_batch_engine.h:16`), and the batch then outgrows `n_ctx`
(`ContextSufficient` holds with overrides at most `max_tokens`); no timeout is set for
Redis, so that a hung one blocks its callers, where `src/rate_limiter.cpp:84` speaks of
"not blocking all traffic on Redis outage"; `requests_total`, "Total inference requests
received" (`src/metrics.cpp:8`), counts an HTTP request at its handler and again at its
answer, and a gRPC one at its answer only (`TotalsExplained`); `queue_depth`, "waiting in
queue" (`src/metrics.cpp:26`), includes requests in slots (`DepthCoversEngine`); httplib
announces `Connection: close` with an error response (`include/httplib.h:11104`) and
keeps the connection; its pool may leave a job waiting without growing
(`include/httplib.h:10089`), as the idle count is stale while a notified thread has not woken; requests
that expire in the queue are answered only after they were admitted, and those that
expire later, after any number of decode steps, are counted as "expired in queue
before being processed" (`src/metrics.cpp:20`, `README.md:187`); the utilisation gauge
is not set when no slot is active and keeps its last value while idle
(`src/metrics.cpp:38` "currently occupied"); an error reply of Redis refuses a call,
where `README.md:149` says fail-open; a thread may use, or free again, the connection another
has freed (`UseFreed`, `FreeContext`), and one may stay in `read()` because another took its
reply (`Stranded`), where `include/rate_limiter.h:18` says thread-safe.

Reset twice on purpose or not: `results_`, `tokens_generated_`, `in_prefill_` and the
sampler are cleared by `retire_slot` and set again at admission, so forgetting one of
the two would not be visible. `kv_slot_manager.h:10` describes `kv_pos` as "prompt
tokens + generated tokens so far"; the last sampled token is not cached yet, so it
is one less between steps (`PositionsAgree`).

## 6 What is abstracted, and what is not modelled

- A prompt is its token count (`PromptLen`, 0 when tokenization fails, after one retry
  with a larger buffer), a text the set of requests whose pieces it holds. ChatML
  formatting, pieces and logits are data no property reads.
- Time is a set of requests whose deadline has passed (`late`). `retire_expired` reads
  the clock once; so does its action.
- The callbacks of one loop (expiry, failed decode) fire in one step; nothing the
  engine reads in that loop can change between two of them.
- `llama_decode` succeeds only when the cells it needs fit `n_ctx`, and may fail at
  any time. Its other limits (`n_batch` equals `n_ctx`) abort the process and are
  not modelled.
- `n_tokens == 0` (194) cannot happen: `ReadyToDecode` shows every prompt in the batch
  has a token.
- Memory exhaustion, exceptions inside the engine thread and the model loader are not
  modelled; nor are the histograms, logging, Docker, Kubernetes and benchmark files.
- Limiter arithmetic is exact: rounding of doubles, of `%f` and of Lua's `tostring` is
  abstracted. The expiry of Redis keys, the parsing of the URL and a restart of a node
  are not modelled; system clocks do not jump. A restart of Redis is a broken
  socket for every node, after which none of them uses Redis. A step of hiredis that does not block
  is atomic: two threads inside the same buffer operation, which could tear it, are left out.
- httplib is a vendored header of 20 000 lines, about 95 % of all lines of implementation.
  The models cover what the server runs of it and what keeps state across calls. Its
  client, TLS, WebSocket, multipart, compression, range and file-serving code is not used by
  this program, and its parsers are a choice between a request and a malformed one; to map
  those lines would be to model code that never runs here. `max_queued_requests_` is 0
  (no limit) and `is_decommissioned` cannot matter, `listen` being called once.
- The gRPC library is external: calls run on threads of their own, `Shutdown` refuses new
  ones, waits for those in progress, and a second caller waits for the first.
- In `ServerLifecycle` a signal handler's own limits (functions that are not
  async-signal-safe, a mutex the interrupted thread holds) are left out, beyond the
  threads it waits for.
- Statuses are three: `ok`, `limited` and `failed`. Which 4xx or 5xx it is, and response
  bodies, no property reads.

## 7 Plan

In order of importance; each with an MC module, a mutant per property and, where
marked (P), proofs.

1. *Done*: `KVSlotManager`, `KVSlotClient`, `ContinuousBatchEngine`, `BatchingService`,
   their properties and runs, `EngineInv` and its theorems.
2. *Done*: `TokenBucket`, `RateLimiter`, `QuotaService`, their properties and runs,
   `LimiterInv` and its theorems.
3. *Done*: `ThreadPool`, `WorkQueue`, their run, `PoolInv` and its theorems; `FrontEnd`,
   `Traffic`, their run, `FrontInv` and its theorems.
4. *Done*: `ServerLifecycle`, its runs, `LifeInv` and its theorems.
5. *Done*: the engine's service (`ServiceInv`, the refinement of `BatchingService`) and the
   room in the context.
6. *Done*: the safety behind the liveness properties: nobody waits for what cannot come
   (engine, pool, front ends, limiter, life cycle), and the measures of the engine's answers,
   of the pool's shutdown and of the end of the process.
7. Open: larger instances of `lifecycle` (two connections, three signals), which exceed
   what a run can check in minutes; the theorems cover their safety, not their liveness.
