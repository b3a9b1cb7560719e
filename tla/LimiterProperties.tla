-------------------------- MODULE LimiterProperties --------------------------
(***************************************************************************)
(* What the rate limiter keeps, with the connection shared by threads,     *)
(* clocks that differ, replies that never come, and fall-backs.            *)
(* Line numbers are those of src/rate_limiter.cpp.                         *)
(***************************************************************************)
EXTENDS RateLimiter

Commands == [tenant : Tenants, stamp : Nat, by : Threads]
Replies  == [allowed : BOOLEAN, via : {"redis", "error"}, by : Threads]
Answers  == [allowed : BOOLEAN,
             via     : {"none", "local", "redis", "error", "failed_open"},
             by      : Threads \cup {"none"}]

ControlPoints == {"idle", "sending", "appended", "reading", "failed", "freeing",
                  "crashed"}

\* Types of the limiter's state (rate_limiter.h:22-37).
TypeOK ==
  /\ time \in 0 .. MaxTime
  /\ conn \in [Nodes -> {"live", "broken", "freed", "none"}]
  /\ buckets \in [Places -> [Tenants -> Bucket \cup {NoBucket}]]
  /\ pc \in [Threads -> ControlPoints]
  /\ call \in [Threads -> [tenant : Tenants \cup {"none"}, stamp : Nat]]
  /\ answer \in [Threads -> Answers]
  /\ obuf \in [Nodes -> Seq(Commands)]
  /\ wire \in [Nodes -> Seq(Commands)]
  /\ replies \in [Nodes -> Seq(Replies)]
  /\ reader \in [Nodes -> Seq(Replies)]
  /\ calls \in [Threads -> 0 .. MaxCalls]
  /\ uncharged \in [Threads -> Nat]

Keys == Places \X Tenants

\* Every bucket, shared or local, grants exactly what its tenant's quota allows
\* over every interval of the time it was credited with: never more than the
\* burst at once, no credit lost, no tenant at another's expense (17-24, 63,
\* 97-99).
Quota == INSTANCE QuotaService WITH
           Keys    <- Keys,
           clock   <- [k \in Keys |-> history[k[1]][k[2]].clock],
           grants  <- [k \in Keys |-> history[k[1]][k[2]].grants],
           verdict <- [k \in Keys |-> history[k[1]][k[2]].verdict]
QuotaSpec == Quota!Spec

\* The shared bucket overshoots the quota of real time by the difference
\* between the clocks and by what calls with an earlier time than their
\* predecessor gave back, and by nothing else (17, 20, 25, 72).
OvershootIsSetback ==
  \A t \in Tenants :
    Len(history[Redis][t].grants) * Cost
       <= Full + Rate * (time + MaxSkew + history[Redis][t].setback)

\* From any grant to any later one, no more calls than a full bucket and what
\* was earned between the two pay for.
Paced(g) ==
  \A i, j \in DOMAIN g :
    i <= j => (j - i + 1) * Cost <= Full + Rate * (g[j] - g[i])

\* A node's own bucket is never set back, the clock being read under the mutex:
\* it keeps the quota from the start and over every interval (93-97).
LocalQuota ==
  \A n \in Nodes, t \in Tenants :
    /\ history[n][t].setback = 0
    /\ Len(history[n][t].grants) * Cost <= Full + Rate * time
    /\ Paced(history[n][t].grants)

\* The threads of node n whose command hiredis has and whose reply they lack.
Waiters(n) == {th \in Threads : NodeOf[th] = n /\ pc[th] \in {"appended", "reading"}}

\* Where the commands of a connection and their replies are.
Owed(n) == Len(obuf[n]) + Len(wire[n]) + Len(replies[n]) + Len(reader[n])

\* As long as the connection is good, exactly one reply is owed for each thread
\* that waits: its command not written, on its way, answered, or the reply read.
\* A thread may get another's, or stay in read() when its own was read for it,
\* but none is lost and none is left over once all have returned, however the
\* unlocked calls interleave (68, 76, 82).
RepliesOwed ==
  \A n \in Nodes : conn[n] = "live" => Cardinality(Waiters(n)) = Owed(n)

\* An outage of Redis lets at most one call of each handler thread through
\* uncharged.  Any number of threads may find out at once, each after another
\* has freed the context or cleared redis_, but no call that begins after the
\* first of them returned is let through (68, 80-84).
OneUnchargedEach == \A th \in Threads : uncharged[th] <= 1

\* th is in read() and the connection is good, but Redis has answered all that
\* was sent: what is owed lies in the reader or was not written.
Stranded(th) ==
  LET n == NodeOf[th] IN
  /\ pc[th] = "reading" /\ conn[n] = "live"
  /\ wire[n] = <<>> /\ replies[n] = <<>>
  /\ reader[n] # <<>> \/ obuf[n] # <<>>

\* If Redis answers, a call that went to it comes back, with some reply, by
\* failing open, or with the process; or it is stranded in read() because
\* another thread of its node took two replies with one read (76-89).  Nothing
\* else keeps it, neither a broken socket nor a freed context.
ReturnsOrStranded ==
  \A th \in Threads :
    pc[th] \notin {"idle", "crashed"}
      ~> (pc[th] \in {"idle", "crashed"} \/ Stranded(th))
=============================================================================
