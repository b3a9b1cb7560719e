----------------------------- MODULE RateLimiter -----------------------------
(***************************************************************************)
(* RateLimiter::allow (src/rate_limiter.cpp), called by the handler        *)
(* threads of several server processes (nodes) that share one Redis.       *)
(*                                                                         *)
(* A node's threads share its redisContext with no lock (68, 76, 82-83).   *)
(* hiredis is external: redisCommand appends the command to one output     *)
(* buffer, takes a reply the shared reader already holds if there is one,  *)
(* and otherwise writes the buffer and blocks in read().  A read() brings  *)
(* every reply that has arrived; its thread takes the first and leaves the *)
(* others in the reader, where they wake nobody.  A step of hiredis that   *)
(* does not block is atomic here: torn buffers are left out.               *)
(*                                                                         *)
(* What the code leaves undefined, a use or a second free of a freed       *)
(* context, ends the process or goes on as after a failure.                *)
(*                                                                         *)
(* Time is in ticks.  system_clock differs between nodes by a fixed skew;  *)
(* steady_clock is read under the mutex.                                   *)
(***************************************************************************)
EXTENDS TokenBucket, Sequences, FiniteSets

CONSTANTS
  Nodes,
  Threads,   \* the handler threads of all nodes
  NodeOf,    \* NodeOf[th]: the node of thread th
  Tenants,
  Redis,     \* the place of the shared buckets
  MaxSkew,   \* bound on the difference between the nodes' system clocks
  Skew,      \* Skew[n]: what the system clock of node n is ahead of time
  MaxTime,   \* bound on time
  MaxCalls   \* bound on the calls a thread makes

ASSUME ThreadsAssumption == IsFiniteSet(Threads)
ASSUME NodeOfAssumption == NodeOf \in [Threads -> Nodes]
ASSUME RedisAssumption  == Redis \notin Nodes
ASSUME SkewAssumption   == MaxSkew \in Nat /\ Skew \in [Nodes -> 0 .. MaxSkew]
ASSUME BoundsAssumption == MaxTime \in Nat /\ MaxCalls \in Nat

VARIABLES
  time,
  conn,      \* conn[n]: redis_ of node n, "live", "broken" (its socket is),
             \* "freed" (and redis_ still points to it), or "none" (null)
  buckets,   \* buckets[p][t]: the bucket of tenant t in Redis or on a node
  pc,        \* pc[th]: "idle", "sending" (76 is next), "appended", "reading",
             \* "failed" (the reply is null), "freeing" (82 is done), "crashed"
  call,      \* call[th]: the tenant and the time of the command th will send
  answer,    \* answer[th]: what allow() last returned to th, and on what grounds
  obuf,      \* obuf[n]: commands not written yet, in order
  wire,      \* wire[n]: commands on their way to Redis, in order
  replies,   \* replies[n]: replies on their way back, in order
  reader,    \* reader[n]: replies read from the socket that no call took
  calls,     \* calls[th]: the number of calls th has begun
  history,   \* history[p][t]: what was granted; read by no action
  uncharged  \* uncharged[th]: calls that failed open; read by no action

vars == <<time, conn, buckets, pc, call, answer, obuf, wire, replies, reader,
          calls, history, uncharged>>

Places == Nodes \cup {Redis}

\* clock: the time the bucket earned credit for; setback: how much of it was
\* earned twice, by calls with an earlier time than the call before.
NoHistory == [clock |-> 0, setback |-> 0, grants |-> <<>>, verdict |-> "none"]

NoAnswer == [allowed |-> FALSE, via |-> "none", by |-> "none"]
NoCall   == [tenant |-> "none", stamp |-> 0]

\* The constructor: a node that is configured with Redis may reach it or not.
Init ==
  /\ time = 0
  /\ conn \in [Nodes -> {"live", "none"}]
  /\ buckets = [p \in Places |-> [t \in Tenants |-> NoBucket]]
  /\ pc = [th \in Threads |-> "idle"]
  /\ call = [th \in Threads |-> NoCall]
  /\ answer = [th \in Threads |-> NoAnswer]
  /\ obuf = [n \in Nodes |-> <<>>]
  /\ wire = [n \in Nodes |-> <<>>]
  /\ replies = [n \in Nodes |-> <<>>]
  /\ reader = [n \in Nodes |-> <<>>]
  /\ calls = [th \in Threads |-> 0]
  /\ history = [p \in Places |-> [t \in Tenants |-> NoHistory]]
  /\ uncharged = [th \in Threads |-> 0]

-----------------------------------------------------------------------------
(* A call for tenant t on the bucket at place p, at time now. *)

Granted(p, t, now) == HasToken(Refilled(buckets[p][t], now))

\* The history h of bucket b after a call at now.
Recorded(b, h, now) ==
  LET at == h.clock + Elapsed(b, now)
  IN [clock   |-> at,
      setback |-> h.setback + IF now < b.last THEN b.last - now ELSE 0,
      grants  |-> IF HasToken(Refilled(b, now)) THEN Append(h.grants, at)
                                                ELSE h.grants,
      verdict |-> IF HasToken(Refilled(b, now)) THEN "granted" ELSE "refused"]

UseBucket(p, t, now) ==
  /\ buckets' = [buckets EXCEPT ![p][t] = AfterCall(@, now)]
  /\ history' = [history EXCEPT ![p][t] = Recorded(buckets[p][t], @, now)]

Answered(th, allowed, via, by) ==
  answer' = [answer EXCEPT ![th] = [allowed |-> allowed, via |-> via, by |-> by]]

Begins(th) ==
  /\ pc[th] = "idle"
  /\ calls[th] < MaxCalls
  /\ calls' = [calls EXCEPT ![th] = @ + 1]

\* allow_local, under the mutex.
AllowLocal(th, t) ==
  /\ Begins(th)
  /\ conn[NodeOf[th]] = "none"
  /\ UseBucket(NodeOf[th], t, time)
  /\ Answered(th, Granted(NodeOf[th], t, time), "local", th)
  /\ UNCHANGED <<time, conn, pc, call, obuf, wire, replies, reader, uncharged>>

\* allow_redis: the node reads its clock before it has the connection.
ReadClock(th, t) ==
  /\ Begins(th)
  /\ conn[NodeOf[th]] # "none"
  /\ call' = [call EXCEPT ![th] = [tenant |-> t,
                                   stamp  |-> time + Skew[NodeOf[th]]]]
  /\ pc' = [pc EXCEPT ![th] = "sending"]
  /\ answer' = [answer EXCEPT ![th] = NoAnswer]
  /\ UNCHANGED <<time, conn, buckets, obuf, wire, replies, reader, history,
                 uncharged>>

-----------------------------------------------------------------------------
(* redisCommand on a context nobody has freed. *)

Usable(n) == conn[n] \in {"live", "broken"}

Command(th) == [tenant |-> call[th].tenant, stamp |-> call[th].stamp, by |-> th]

\* The command is appended to the output buffer.
AppendCommand(th) ==
  LET n == NodeOf[th] IN
  /\ pc[th] = "sending" /\ Usable(n)
  /\ obuf' = [obuf EXCEPT ![n] = Append(@, Command(th))]
  /\ call' = [call EXCEPT ![th] = NoCall]
  /\ pc' = [pc EXCEPT ![th] = "appended"]
  /\ UNCHANGED <<time, conn, buckets, answer, wire, replies, reader, calls,
                 history, uncharged>>

\* th returns with the first reply of rs; the reader keeps the others.
Takes(th, rs) ==
  /\ Answered(th, Head(rs).allowed, Head(rs).via, Head(rs).by)
  /\ reader' = [reader EXCEPT ![NodeOf[th]] = Tail(rs)]
  /\ pc' = [pc EXCEPT ![th] = "idle"]

\* A reply is left in the reader: the call takes it and writes nothing.
TakeBuffered(th) ==
  LET n == NodeOf[th] IN
  /\ pc[th] = "appended" /\ Usable(n)
  /\ reader[n] # <<>>
  /\ Takes(th, reader[n])
  /\ UNCHANGED <<time, conn, buckets, call, obuf, wire, replies, calls, history,
                 uncharged>>

\* None is: it writes what the buffer holds and goes to read().
WriteBuffer(th) ==
  LET n == NodeOf[th] IN
  /\ pc[th] = "appended" /\ conn[n] = "live"
  /\ reader[n] = <<>>
  /\ wire' = [wire EXCEPT ![n] = @ \o obuf[n]]
  /\ obuf' = [obuf EXCEPT ![n] = <<>>]
  /\ pc' = [pc EXCEPT ![th] = "reading"]
  /\ UNCHANGED <<time, conn, buckets, call, answer, replies, reader, calls,
                 history, uncharged>>

\* read() brings all that has arrived.
Read(th) ==
  LET n == NodeOf[th] IN
  /\ pc[th] = "reading" /\ conn[n] = "live"
  /\ replies[n] # <<>>
  /\ Takes(th, reader[n] \o replies[n])
  /\ replies' = [replies EXCEPT ![n] = <<>>]
  /\ UNCHANGED <<time, conn, buckets, call, obuf, wire, calls, history, uncharged>>

\* Mutant: after a null reply the call waits for another one.
MutNullReply == "appended"
\* if (!reply)
NullReply    == "failed"

\* write() or read() fails: redisCommand returns null.
CommandFails(th) ==
  LET n == NodeOf[th] IN
  /\ conn[n] = "broken"
  /\ \/ pc[th] = "appended" /\ reader[n] = <<>>
     \/ pc[th] = "reading"
  /\ pc' = [pc EXCEPT ![th] = NullReply]
  /\ UNCHANGED <<time, conn, buckets, call, answer, obuf, wire, replies, reader,
                 calls, history, uncharged>>

-----------------------------------------------------------------------------
(* The failure path, which several threads may take at once. *)

\* Undefined behaviour that ends the process of node n.
Dies(n) == pc' = [x \in Threads |-> IF NodeOf[x] = n THEN "crashed" ELSE pc[x]]

\* redisFree(redis_): frees the context, frees it again, or finds it null.
FreeContext(th) ==
  LET n == NodeOf[th] IN
  /\ pc[th] = "failed"
  /\ \/ pc' = [pc EXCEPT ![th] = "freeing"]
     \/ conn[n] = "freed" /\ Dies(n)
  /\ conn' = [conn EXCEPT ![n] = IF @ = "none" THEN "none" ELSE "freed"]
  /\ UNCHANGED <<time, buckets, call, answer, obuf, wire, replies, reader, calls,
                 history, uncharged>>

\* Mutant: the pointer to the freed context is kept.
MutDropped(n) == conn
\* redis_ = nullptr.
Dropped(n)    == [conn EXCEPT ![n] = "none"]

\* redis_ = nullptr; return true.
FailOpen(th) ==
  /\ pc[th] = "freeing"
  /\ conn' = Dropped(NodeOf[th])
  /\ Answered(th, TRUE, "failed_open", th)
  /\ uncharged' = [uncharged EXCEPT ![th] = @ + 1]
  /\ pc' = [pc EXCEPT ![th] = "idle"]
  /\ UNCHANGED <<time, buckets, call, obuf, wire, replies, reader, calls, history>>

\* redisCommand on a null pointer or in a context another thread has freed.
UseFreed(th) ==
  LET n == NodeOf[th] IN
  /\ pc[th] \in {"sending", "appended", "reading"}
  /\ conn[n] \in {"freed", "none"}
  /\ \/ Dies(n)
     \/ /\ ~(pc[th] = "sending" /\ conn[n] = "none")
        /\ pc' = [pc EXCEPT ![th] = NullReply]
  /\ call' = [call EXCEPT ![th] = NoCall]
  /\ UNCHANGED <<time, conn, buckets, answer, obuf, wire, replies, reader, calls,
                 history, uncharged>>

-----------------------------------------------------------------------------
(* Redis. *)

\* Replies to a connection that is gone are lost.
Replied(n, allowed, via) ==
  replies' = IF conn[n] # "live" THEN replies
             ELSE [replies EXCEPT ![n] =
                     Append(@, [allowed |-> allowed, via |-> via,
                                by |-> Head(wire[n]).by])]

\* Redis runs the script of the next command of node n, atomically.
RunScript(n) ==
  /\ wire[n] # <<>>
  /\ LET c == Head(wire[n])
     IN /\ UseBucket(Redis, c.tenant, c.stamp)
        /\ Replied(n, Granted(Redis, c.tenant, c.stamp), "redis")
  /\ wire' = [wire EXCEPT ![n] = Tail(@)]
  /\ UNCHANGED <<time, conn, pc, call, answer, obuf, reader, calls, uncharged>>

\* Redis refuses to run it (it is loading its data, out of memory, a replica),
\* and the reply is not an integer.
RefuseScript(n) ==
  /\ wire[n] # <<>>
  /\ Replied(n, FALSE, "error")
  /\ wire' = [wire EXCEPT ![n] = Tail(@)]
  /\ UNCHANGED <<time, conn, buckets, pc, call, answer, obuf, reader, calls,
                 history, uncharged>>

-----------------------------------------------------------------------------
(* The environment. *)

Tick ==
  /\ time < MaxTime
  /\ time' = time + 1
  /\ UNCHANGED <<conn, buckets, pc, call, answer, obuf, wire, replies, reader,
                 calls, history, uncharged>>

\* The socket breaks, for every thread that uses it.
Break(n) ==
  /\ conn[n] = "live"
  /\ conn' = [conn EXCEPT ![n] = "broken"]
  /\ replies' = [replies EXCEPT ![n] = <<>>]
  /\ UNCHANGED <<time, buckets, pc, call, answer, obuf, wire, reader, calls,
                 history, uncharged>>

\* Commands of a broken connection that never arrive.
Lose(n) ==
  /\ conn[n] # "live" /\ wire[n] # <<>>
  /\ wire' = [wire EXCEPT ![n] = <<>>]
  /\ UNCHANGED <<time, conn, buckets, pc, call, answer, obuf, replies, reader,
                 calls, history, uncharged>>

\* A step of a call in progress, but for a read() that brings nothing.
Proceed(th) ==
  \/ AppendCommand(th)
  \/ TakeBuffered(th)
  \/ WriteBuffer(th)
  \/ Read(th)
  \/ CommandFails(th)
  \/ FreeContext(th)
  \/ FailOpen(th)
  \/ UseFreed(th)

ThreadStep(th) ==
  \/ \E t \in Tenants : AllowLocal(th, t) \/ ReadClock(th, t)
  \/ Proceed(th)

Next ==
  \/ \E th \in Threads : ThreadStep(th)
  \/ \E n \in Nodes : RunScript(n) \/ RefuseScript(n) \/ Break(n) \/ Lose(n)
  \/ Tick

Spec == Init /\ [][Next]_vars

\* A call in progress goes on when it can.  Redis need not run a command, and a
\* command it does not run need not fail: there is no timeout (47, 76).
Fairness == \A th \in Threads : WF_vars(Proceed(th))

FairSpec == Spec /\ Fairness

\* Redis answers what reaches it.
Serving == \A n \in Nodes : WF_vars(RunScript(n) \/ RefuseScript(n))

ServingSpec == FairSpec /\ Serving
=============================================================================
