--------------------------- MODULE LimiterInvariant ---------------------------
(***************************************************************************)
(* The inductive invariant behind the limiter's safety properties: what a  *)
(* bucket holds is exactly what the grants since it was last full leave of *)
(* the burst and of the credit earned since.                               *)
(***************************************************************************)
EXTENDS LimiterProperties

\* Grant g[i] and those after it.
From(g, i) == (Len(g) - i + 1) * Cost

\* No suffix of the grants used more than the burst less what is left, and
\* what was earned since its first.
Covered(tokens, clock, g) ==
  \A i \in DOMAIN g : From(g, i) <= Full - tokens + Rate * (clock - g[i])

\* Nothing is missing: the bucket is full, or some suffix accounts for it.
Tight(tokens, clock, g) ==
  \/ tokens = Full
  \/ \E i \in DOMAIN g : From(g, i) = Full - tokens + Rate * (clock - g[i])

HistoryOf == [clock   : Nat,
              setback : Nat,
              grants  : Seq(Nat),
              verdict : {"none", "granted", "refused"}]

\* Credit is earned up to the time of the last call, once, except where a
\* call went back in time.
Accounted(b, h) ==
  IF b = NoBucket THEN h = NoHistory
  ELSE /\ b \in Bucket
       /\ h.clock <= b.last + h.setback
       /\ Covered(b.tokens, h.clock, h.grants)
       /\ Tight(b.tokens, h.clock, h.grants)
       /\ Paced(h.grants)

\* No command carries a time later than any clock.
StampsPast ==
  /\ \A th \in Threads :
       pc[th] = "sending" => /\ call[th].tenant \in Tenants
                             /\ call[th].stamp \in 0 .. time + MaxSkew
  /\ \A n \in Nodes :
       /\ \A i \in DOMAIN obuf[n] : obuf[n][i].stamp <= time + MaxSkew
       /\ \A i \in DOMAIN wire[n] : wire[n][i].stamp <= time + MaxSkew

LastUse ==
  /\ \A t \in Tenants : buckets[Redis][t].last <= time + MaxSkew
  /\ \A n \in Nodes, t \in Tenants : /\ buckets[n][t].last <= time
                                     /\ history[n][t].setback = 0

\* A null reply tells of a connection that is not good any more, and a thread
\* that has failed open has left its node without one: it is in no other call.
FailedOpenLast ==
  \A th \in Threads :
    /\ pc[th] \in {"failed", "freeing"} =>
         conn[NodeOf[th]] # "live" /\ uncharged[th] = 0
    /\ uncharged[th] # 0 => /\ uncharged[th] = 1
                            /\ conn[NodeOf[th]] = "none"
                            /\ pc[th] \in {"idle", "crashed"}

BucketsAccounted ==
  /\ history \in [Places -> [Tenants -> HistoryOf]]
  /\ \A p \in Places, t \in Tenants : Accounted(buckets[p][t], history[p][t])

\* Checked with TLC before it is proved.  The safety properties of the limiter
\* follow from it (rate_limiter.cpp:8-27, 61-65, 71-101).
LimiterInv ==
  /\ TypeOK
  /\ BucketsAccounted
  /\ StampsPast
  /\ LastUse
  /\ FailedOpenLast
  /\ RepliesOwed
=============================================================================
