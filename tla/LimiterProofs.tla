---------------------------- MODULE LimiterProofs ----------------------------
(***************************************************************************)
(* The rate limiter implements QuotaService and keeps LimiterInv, for any  *)
(* nodes, threads, tenants, clocks, rate and burst.                        *)
(***************************************************************************)
EXTENDS LimiterInvariant, FiniteSetTheorems, TLAPS

-----------------------------------------------------------------------------
(* One bucket. *)

\* What the constants are.
LEMMA FullIsNat == Full \in Nat /\ Rate \in Nat /\ Cost \in Nat /\ Cost > 0
BY RateAssumption, BurstAssumption, CostAssumption DEF Full

\* Credit earned is a number of units.
LEMMA EarnedIsNat ==
  ASSUME NEW e \in Nat
  PROVE  e * Rate \in Nat
BY FullIsNat

\* A refill stays between empty and full, and is capped or exact
\* (rate_limiter.cpp:18, 63).
LEMMA RefillBounds ==
  ASSUME NEW tokens \in 0 .. Full, NEW e \in Nat
  PROVE  /\ Refill(tokens, e) \in 0 .. Full
         /\ Refill(tokens, e) <= tokens + e * Rate
         /\ Refill(tokens, e) >= tokens
         /\ Refill(tokens, e) = Full \/ Refill(tokens, e) = tokens + e * Rate
BY FullIsNat, EarnedIsNat DEF Refill, Smaller

\* Credit accrues linearly in time.
LEMMA EarnedAdds ==
  ASSUME NEW clock \in Nat, NEW at \in Nat, NEW e \in Nat
  PROVE  /\ Rate * ((clock + e) - at) = Rate * (clock - at) + e * Rate
         /\ Rate * (clock - at) \in Int
BY FullIsNat

\* The tokens that the grants from i on took.
LEMMA FromIsInt ==
  ASSUME NEW g \in Seq(Nat), NEW i \in Int
  PROVE  /\ From(g, i) \in Int
         /\ (Len(g) - i + 2) * Cost = From(g, i) + Cost
<1>1. Len(g) \in Nat  OBVIOUS
<1>2. Cost \in Int  BY FullIsNat
<1>3. \A n \in Int : n * Cost \in Int /\ (n + 1) * Cost = n * Cost + Cost
  BY <1>2
<1>4. Len(g) - i + 1 \in Int /\ Len(g) - i + 2 = (Len(g) - i + 1) + 1
  BY <1>1
<1> QED  BY <1>3, <1>4 DEF From

\* Time passing keeps the account of a bucket.
LEMMA RefillAccounts ==
  ASSUME NEW tokens \in 0 .. Full, NEW clock \in Nat, NEW e \in Nat,
         NEW g \in Seq(Nat),
         Covered(tokens, clock, g), Tight(tokens, clock, g)
  PROVE  /\ Covered(Refill(tokens, e), clock + e, g)
         /\ Tight(Refill(tokens, e), clock + e, g)
<1> DEFINE new == Refill(tokens, e)
<1> HIDE DEF new
<1>1. /\ new \in 0 .. Full /\ new <= tokens + e * Rate /\ new >= tokens
      /\ new = Full \/ new = tokens + e * Rate
  BY RefillBounds DEF new
<1>2. \A i \in DOMAIN g : /\ Rate * ((clock + e) - g[i]) = Rate * (clock - g[i]) + e * Rate
                          /\ Rate * (clock - g[i]) \in Int
                          /\ From(g, i) \in Int
  <2> TAKE i \in DOMAIN g
  <2>1. i \in Int /\ g[i] \in Nat  OBVIOUS
  <2> QED  BY <2>1, EarnedAdds, FromIsInt
<1>3. e * Rate \in Nat /\ Full \in Nat  BY EarnedIsNat, FullIsNat
<1>4. Covered(new, clock + e, g)
  <2> SUFFICES ASSUME NEW i \in DOMAIN g
               PROVE  From(g, i) <= Full - new + Rate * ((clock + e) - g[i])
    BY DEF Covered
  <2>1. From(g, i) <= Full - tokens + Rate * (clock - g[i])  BY DEF Covered
  <2> QED  BY <1>1, <1>2, <1>3, <2>1
<1>5. Tight(new, clock + e, g)
  <2> SUFFICES ASSUME new # Full
               PROVE  \E i \in DOMAIN g :
                        From(g, i) = Full - new + Rate * ((clock + e) - g[i])
    BY DEF Tight
  <2>1. new = tokens + e * Rate /\ tokens # Full  BY <1>1, <1>3
  <2>2. PICK i \in DOMAIN g : From(g, i) = Full - tokens + Rate * (clock - g[i])
    BY <2>1 DEF Tight
  <2> QED  BY <1>1, <1>2, <1>3, <2>1, <2>2
<1> QED  BY <1>4, <1>5 DEF new

\* Taking a token and recording the grant keeps the account of a bucket.
LEMMA TakeAccounts ==
  ASSUME NEW tokens \in 0 .. Full, NEW clock \in Nat, NEW g \in Seq(Nat),
         tokens >= Cost,
         Covered(tokens, clock, g), Tight(tokens, clock, g)
  PROVE  /\ Covered(tokens - Cost, clock, Append(g, clock))
         /\ Tight(tokens - Cost, clock, Append(g, clock))
<1> DEFINE h == Append(g, clock)
<1>1. /\ h \in Seq(Nat) /\ Len(h) = Len(g) + 1 /\ Len(g) \in Nat
      /\ DOMAIN g = 1 .. Len(g) /\ DOMAIN h = 1 .. Len(g) + 1
      /\ h[Len(g) + 1] = clock
      /\ \A i \in DOMAIN g : h[i] = g[i]
  OBVIOUS
<1>2. \A i \in DOMAIN g : /\ From(h, i) = From(g, i) + Cost
                          /\ From(g, i) \in Int
                          /\ Rate * (clock - g[i]) \in Int
  <2> TAKE i \in DOMAIN g
  <2>1. i \in Int /\ g[i] \in Nat  BY <1>1
  <2>2. Len(h) - i + 1 = Len(g) - i + 2  BY <1>1, <2>1
  <2>3. From(h, i) = (Len(g) - i + 2) * Cost  BY <2>2 DEF From
  <2>4. Rate * (clock - g[i]) \in Int  BY <2>1, FullIsNat
  <2> HIDE DEF h
  <2> QED  BY <2>1, <2>3, <2>4, FromIsInt
<1>3. From(h, Len(g) + 1) = Cost /\ Rate * (clock - h[Len(g) + 1]) = 0
  <2>1. Len(h) - (Len(g) + 1) + 1 = 1  BY <1>1
  <2>2. 1 * Cost = Cost /\ Rate * (clock - clock) = 0  BY FullIsNat
  <2> HIDE DEF h
  <2> QED  BY <1>1, <2>1, <2>2 DEF From
<1> HIDE DEF h
<1>4. Covered(tokens - Cost, clock, h)
  <2> SUFFICES ASSUME NEW i \in DOMAIN h
               PROVE  From(h, i) <= Full - (tokens - Cost) + Rate * (clock - h[i])
    BY DEF Covered
  <2>1. CASE i \in DOMAIN g
    <3>1. From(g, i) <= Full - tokens + Rate * (clock - g[i])  BY <2>1 DEF Covered
    <3> QED  BY <1>1, <1>2, <2>1, <3>1, FullIsNat
  <2>2. CASE i = Len(g) + 1
    BY <1>3, <2>2, FullIsNat
  <2> QED  BY <1>1, <2>1, <2>2
<1>5. Tight(tokens - Cost, clock, h)
  <2>1. CASE tokens = Full
    <3>1. From(h, Len(g) + 1)
            = Full - (tokens - Cost) + Rate * (clock - h[Len(g) + 1])
      BY <1>3, <2>1, FullIsNat
    <3>2. Len(g) + 1 \in DOMAIN h  BY <1>1
    <3> QED  BY <3>1, <3>2 DEF Tight
  <2>2. CASE tokens # Full
    <3>1. PICK i \in DOMAIN g : From(g, i) = Full - tokens + Rate * (clock - g[i])
      BY <2>2 DEF Tight
    <3>2. From(h, i) = Full - (tokens - Cost) + Rate * (clock - h[i])
      BY <1>1, <1>2, <3>1, FullIsNat
    <3>3. i \in DOMAIN h  BY <1>1
    <3> QED  BY <3>2, <3>3 DEF Tight
  <2> QED  BY <2>1, <2>2
<1> QED  BY <1>4, <1>5 DEF h

\* A grant that leaves a covered bucket no less than empty keeps the quota of
\* every interval (rate_limiter.cpp:19-21, 98-99).
LEMMA CoveredIsPaced ==
  ASSUME NEW tokens \in 0 .. Full, NEW clock \in Nat, NEW g \in Seq(Nat),
         Paced(g), Covered(tokens, clock, Append(g, clock))
  PROVE  Paced(Append(g, clock))
<1> DEFINE h == Append(g, clock)
<1>1. /\ h \in Seq(Nat) /\ Len(h) = Len(g) + 1 /\ Len(g) \in Nat
      /\ DOMAIN g = 1 .. Len(g) /\ DOMAIN h = 1 .. Len(g) + 1
      /\ h[Len(g) + 1] = clock
      /\ \A i \in DOMAIN g : h[i] = g[i]
  OBVIOUS
<1>2. \A i \in DOMAIN h : From(h, i) <= Full - tokens + Rate * (clock - h[i])
  BY DEF Covered
<1> HIDE DEF h
<1> SUFFICES ASSUME NEW i \in DOMAIN h, NEW j \in DOMAIN h, i <= j
             PROVE  (j - i + 1) * Cost <= Full + Rate * (h[j] - h[i])
  BY DEF Paced, h
<1>3. CASE j \in DOMAIN g
  <2>1. i \in DOMAIN g  BY <1>1, <1>3
  <2> QED  BY <1>1, <1>3, <2>1 DEF Paced
<1>4. CASE j = Len(g) + 1
  <2>1. From(h, i) = (j - i + 1) * Cost  BY <1>1, <1>4 DEF From
  <2>2. /\ From(h, i) <= Full - tokens + Rate * (clock - h[i])
        /\ i \in Int /\ h[i] \in Nat /\ h[j] = clock
    BY <1>1, <1>2, <1>4
  <2>3. From(h, i) \in Int  BY <1>1, <2>2, FromIsInt
  <2>4. clock - h[i] \in Int  BY <2>2
  <2>5. Rate * (clock - h[i]) \in Int  BY <2>4, FullIsNat
  <2>6. From(h, i) <= Full + Rate * (clock - h[i])
    BY <2>2, <2>3, <2>5, FullIsNat
  <2> QED  BY <2>1, <2>2, <2>6
<1> QED  BY <1>1, <1>3, <1>4

\* An accounted bucket has a token exactly when every interval has room for
\* one more grant (rate_limiter.cpp:19, 98).
LEMMA TokenMeansRoom ==
  ASSUME NEW tokens \in 0 .. Full, NEW clock \in Nat, NEW g \in Seq(Nat),
         Covered(tokens, clock, g), Tight(tokens, clock, g)
  PROVE  tokens >= Cost
           <=> /\ Burst > 0
               /\ \A i \in DOMAIN g :
                    (Len(g) - i + 2) * Cost <= Burst * Cost + Rate * (clock - g[i])
<1>1. \A i \in DOMAIN g : /\ (Len(g) - i + 2) * Cost = From(g, i) + Cost
                          /\ From(g, i) \in Int
                          /\ Rate * (clock - g[i]) \in Int
  <2> TAKE i \in DOMAIN g
  <2>1. i \in Int /\ g[i] \in Nat  OBVIOUS
  <2>2. Rate * (clock - g[i]) \in Int  BY <2>1, FullIsNat
  <2> QED  BY <2>1, <2>2, FromIsInt
<1>2. Burst * Cost = Full /\ (Burst > 0 <=> Full >= Cost) /\ (Burst = 0 => Full = 0)
  <2>1. Burst = 0 => Burst * Cost = 0  BY CostAssumption
  <2>2. Burst > 0 => Burst * Cost >= Cost
    <3>1. \A b \in Nat, c \in Nat : (b + 1) * c = b * c + c /\ b * c >= 0  BY Z3
    <3>2. Burst > 0 => Burst - 1 \in Nat /\ (Burst - 1) + 1 = Burst
      BY BurstAssumption
    <3>3. Burst > 0 => (Burst - 1) * Cost \in Nat
      BY <3>2, CostAssumption
    <3> QED  BY <3>1, <3>2, <3>3, CostAssumption
  <2> QED  BY <2>1, <2>2, BurstAssumption, CostAssumption DEF Full
<1>3. ASSUME tokens >= Cost
      PROVE  /\ Burst > 0
             /\ \A i \in DOMAIN g :
                  (Len(g) - i + 2) * Cost <= Full + Rate * (clock - g[i])
  <2>1. Burst > 0  BY <1>2, <1>3, FullIsNat
  <2>2. ASSUME NEW i \in DOMAIN g
        PROVE  (Len(g) - i + 2) * Cost <= Full + Rate * (clock - g[i])
    <3>1. From(g, i) <= Full - tokens + Rate * (clock - g[i])  BY DEF Covered
    <3> QED  BY <1>1, <1>3, <3>1, FullIsNat
  <2> QED  BY <2>1, <2>2
<1>4. ASSUME tokens < Cost, Burst > 0
      PROVE  \E i \in DOMAIN g :
               ~((Len(g) - i + 2) * Cost <= Full + Rate * (clock - g[i]))
  <2>1. tokens # Full  BY <1>2, <1>4, FullIsNat
  <2>2. PICK i \in DOMAIN g : From(g, i) = Full - tokens + Rate * (clock - g[i])
    BY <2>1 DEF Tight
  <2>3. (Len(g) - i + 2) * Cost > Full + Rate * (clock - g[i])
    BY <1>1, <1>4, <2>2, FullIsNat
  <2> DEFINE used == (Len(g) - i + 2) * Cost   room == Full + Rate * (clock - g[i])
  <2>4. used \in Int /\ room \in Int
    <3> DEFINE earned == Rate * (clock - g[i])
    <3>1. used = From(g, i) + Cost /\ From(g, i) \in Int /\ earned \in Int
      BY <1>1
    <3> HIDE DEF used, earned
    <3>2. used \in Int /\ Full + earned \in Int
      BY <3>1, FullIsNat
    <3> QED  BY <3>2 DEF earned
  <2> HIDE DEF used, room
  <2>5. ~(used <= room)
    BY <2>3, <2>4 DEF used, room
  <2> QED  BY <2>5 DEF used, room
<1>5. tokens >= Cost \/ tokens < Cost  BY FullIsNat
<1> QED  BY <1>2, <1>3, <1>4, <1>5

-----------------------------------------------------------------------------
(* One call on one bucket. *)

\* The bucket a call looks at accounts for the time up to the call.
LEMMA RefilledAccounts ==
  ASSUME NEW b \in Bucket \cup {NoBucket}, NEW h \in HistoryOf, NEW now \in Nat,
         Accounted(b, h)
  PROVE  LET at == h.clock + Elapsed(b, now)
             r  == Refilled(b, now)
         IN /\ at \in Nat /\ at >= h.clock
            /\ r \in Bucket /\ r.last = now
            /\ at <= now + Recorded(b, h, now).setback
            /\ Covered(r.tokens, at, h.grants)
            /\ Tight(r.tokens, at, h.grants)
            /\ Paced(h.grants)
<1> DEFINE at == h.clock + Elapsed(b, now)
           r  == Refilled(b, now)
<1>1. Full \in Nat /\ Full \in 0 .. Full  BY FullIsNat
<1>2. h.clock \in Nat /\ h.setback \in Nat /\ h.grants \in Seq(Nat)
  BY DEF HistoryOf
<1>3. Recorded(b, h, now).setback
        = h.setback + IF now < b.last THEN b.last - now ELSE 0
  BY DEF Recorded
<1>4. CASE b = NoBucket
  <2>1. h.clock = 0 /\ h.setback = 0 /\ h.grants = <<>>
    BY <1>4 DEF Accounted, NoHistory
  <2>2. Elapsed(b, now) = 0 /\ r = [tokens |-> Full, last |-> now]
    BY <1>4 DEF Elapsed, Refilled
  <2>3. b.last = -1  BY <1>4 DEF NoBucket
  <2>4. DOMAIN h.grants = {}  BY <2>1
  <2> QED
    BY <1>1, <1>3, <2>1, <2>2, <2>3, <2>4 DEF Bucket, Covered, Tight, Paced
<1>5. CASE b # NoBucket
  <2>1. /\ b \in Bucket /\ b.tokens \in 0 .. Full /\ b.last \in Nat
        /\ h.clock <= b.last + h.setback
        /\ Covered(b.tokens, h.clock, h.grants)
        /\ Tight(b.tokens, h.clock, h.grants)
        /\ Paced(h.grants)
    BY <1>5 DEF Accounted, Bucket
  <2>2. Elapsed(b, now) = IF now < b.last THEN 0 ELSE now - b.last
    BY <1>5 DEF Elapsed
  <2>3. Elapsed(b, now) \in Nat  BY <2>1, <2>2
  <2>4. /\ r.tokens = Refill(b.tokens, Elapsed(b, now)) /\ r.last = now
        /\ r = [tokens |-> r.tokens, last |-> now]
    BY <1>5 DEF Refilled
  <2>5. r \in Bucket
    BY <2>1, <2>3, <2>4, RefillBounds DEF Bucket
  <2>6. Covered(r.tokens, at, h.grants) /\ Tight(r.tokens, at, h.grants)
    BY <1>2, <2>1, <2>3, <2>4, RefillAccounts
  <2>7. at \in Nat /\ at >= h.clock  BY <1>2, <2>3
  <2>8. at <= now + Recorded(b, h, now).setback
    BY <1>2, <1>3, <2>1, <2>2
  <2> QED  BY <2>1, <2>4, <2>5, <2>6, <2>7, <2>8
<1> QED  BY <1>4, <1>5

\* A call keeps the account, and its history is what QuotaService does.
LEMMA CallAccounts ==
  ASSUME NEW b \in Bucket \cup {NoBucket}, NEW h \in HistoryOf, NEW now \in Nat,
         Accounted(b, h)
  PROVE  LET at == h.clock + Elapsed(b, now)
             n  == Recorded(b, h, now)
             room == /\ Burst > 0
                     /\ \A i \in DOMAIN h.grants :
                          (Len(h.grants) - i + 2) * Cost
                             <= Burst * Cost + Rate * (at - h.grants[i])
         IN /\ AfterCall(b, now) \in Bucket /\ AfterCall(b, now).last = now
            /\ n \in HistoryOf /\ n.clock = at /\ at \in Nat /\ at >= h.clock
            /\ Accounted(AfterCall(b, now), n)
            /\ room => /\ n.grants = Append(h.grants, at)
                       /\ n.verdict = "granted"
            /\ ~room => /\ n.grants = h.grants
                        /\ n.verdict = "refused"
<1> DEFINE at == h.clock + Elapsed(b, now)
           r  == Refilled(b, now)
           n  == Recorded(b, h, now)
           room == /\ Burst > 0
                   /\ \A i \in DOMAIN h.grants :
                        (Len(h.grants) - i + 2) * Cost
                           <= Burst * Cost + Rate * (at - h.grants[i])
<1>1. /\ at \in Nat /\ at >= h.clock
      /\ r \in Bucket /\ r.last = now
      /\ at <= now + n.setback
      /\ Covered(r.tokens, at, h.grants)
      /\ Tight(r.tokens, at, h.grants)
      /\ Paced(h.grants)
  BY RefilledAccounts
<1>2. h.setback \in Nat /\ h.grants \in Seq(Nat)
  BY DEF HistoryOf
<1>3. r.tokens \in 0 .. Full /\ r.last \in Nat
      /\ r = [tokens |-> r.tokens, last |-> r.last]
  BY <1>1 DEF Bucket
<1>4. /\ n.clock = at
      /\ n.setback = h.setback + IF now < b.last THEN b.last - now ELSE 0
      /\ n.grants = IF HasToken(r) THEN Append(h.grants, at) ELSE h.grants
      /\ n.verdict = IF HasToken(r) THEN "granted" ELSE "refused"
      /\ n = [clock |-> n.clock, setback |-> n.setback, grants |-> n.grants,
              verdict |-> n.verdict]
  BY DEF Recorded
<1>5. HasToken(r) <=> room
  <2> HIDE DEF r, at
  <2>1. r.tokens >= Cost <=> room  BY <1>1, <1>2, <1>3, TokenMeansRoom
  <2> QED  BY <2>1 DEF HasToken
<1>6. n.setback \in Nat
  <2>1. b.last \in Int  BY DEF Bucket, NoBucket
  <2> QED  BY <1>2, <1>4, <2>1
<1>7. Append(h.grants, at) \in Seq(Nat)  BY <1>1, <1>2
<1>8. n \in HistoryOf
  BY <1>1, <1>2, <1>4, <1>6, <1>7 DEF HistoryOf
<1> DEFINE a == AfterCall(b, now)
<1>9. a = IF HasToken(r) THEN [tokens |-> r.tokens - Cost, last |-> now] ELSE r
  BY <1>1, <1>3 DEF AfterCall
<1> HIDE DEF at, r, n, room, a
<1>10. CASE HasToken(r)
  <2>1. r.tokens >= Cost /\ r.tokens - Cost \in 0 .. Full
    BY <1>3, <1>10, FullIsNat DEF HasToken
  <2>2. /\ a \in Bucket /\ a.last = now /\ a.tokens = r.tokens - Cost
        /\ a # NoBucket
    BY <1>1, <1>3, <1>9, <1>10, <2>1 DEF Bucket, NoBucket
  <2>3. Covered(a.tokens, at, n.grants) /\ Tight(a.tokens, at, n.grants)
    BY <1>1, <1>2, <1>3, <1>4, <1>10, <2>1, <2>2, TakeAccounts
  <2>4. Paced(n.grants)
    BY <1>1, <1>2, <1>4, <1>10, <2>1, <2>2, <2>3, CoveredIsPaced
  <2>5. Accounted(a, n)
    BY <1>1, <1>4, <2>2, <2>3, <2>4 DEF Accounted
  <2> QED
    BY <1>1, <1>4, <1>5, <1>8, <1>10, <2>2, <2>5 DEF at, n, room, a
<1>11. CASE ~HasToken(r)
  <2>1. a = r /\ a # NoBucket  BY <1>1, <1>3, <1>9, <1>11 DEF NoBucket
  <2>2. Accounted(a, n)
    BY <1>1, <1>4, <1>11, <2>1 DEF Accounted
  <2> QED
    BY <1>1, <1>4, <1>5, <1>8, <1>11, <2>1, <2>2 DEF at, n, room, a
<1> QED  BY <1>10, <1>11

-----------------------------------------------------------------------------
(* The invariant. *)

\* Using one bucket keeps every account and leaves the other buckets alone.
LEMMA UseBucketAccounts ==
  ASSUME NEW p \in Places, NEW t \in Tenants, NEW now \in Nat,
         TypeOK, BucketsAccounted, UseBucket(p, t, now)
  PROVE  /\ BucketsAccounted'
         /\ buckets' \in [Places -> [Tenants -> Bucket \cup {NoBucket}]]
         /\ buckets'[p][t].last = now
         /\ now >= buckets[p][t].last
              => history'[p][t].setback = history[p][t].setback
         /\ \A q \in Places, u \in Tenants :
              q # p \/ u # t => /\ buckets'[q][u] = buckets[q][u]
                              /\ history'[q][u] = history[q][u]
<1> DEFINE b == buckets[p][t]
           h == history[p][t]
<1>1. /\ buckets \in [Places -> [Tenants -> Bucket \cup {NoBucket}]]
      /\ history \in [Places -> [Tenants -> HistoryOf]]
      /\ b \in Bucket \cup {NoBucket} /\ h \in HistoryOf /\ Accounted(b, h)
      /\ \A q \in Places, u \in Tenants : Accounted(buckets[q][u], history[q][u])
  BY DEF TypeOK, BucketsAccounted
<1> DEFINE a == AfterCall(b, now)
           n == Recorded(b, h, now)
<1>2. a \in Bucket /\ a.last = now /\ n \in HistoryOf /\ Accounted(a, n)
  <2> HIDE DEF b, h
  <2> QED  BY <1>1, CallAccounts
<1>3. now >= b.last => n.setback = h.setback
  <2>1. b.last \in Int  BY <1>1 DEF Bucket, NoBucket
  <2>2. h.setback \in Nat  BY <1>1 DEF HistoryOf
  <2> QED  BY <2>1, <2>2 DEF Recorded
<1>4. /\ buckets' = [buckets EXCEPT ![p][t] = a]
      /\ history' = [history EXCEPT ![p][t] = n]
  BY DEF UseBucket
<1> HIDE DEF a, n
<1>5. /\ buckets'[p][t] = a /\ history'[p][t] = n
      /\ \A q \in Places, u \in Tenants :
           q # p \/ u # t => /\ buckets'[q][u] = buckets[q][u]
                           /\ history'[q][u] = history[q][u]
  BY <1>1, <1>4
<1>6. /\ buckets' \in [Places -> [Tenants -> Bucket \cup {NoBucket}]]
      /\ history' \in [Places -> [Tenants -> HistoryOf]]
  BY <1>1, <1>2, <1>4
<1>7. BucketsAccounted'
  BY <1>1, <1>2, <1>5, <1>6 DEF BucketsAccounted
<1> QED  BY <1>2, <1>3, <1>5, <1>6, <1>7

LEMMA PlacesSplit ==
  /\ Redis \in Places /\ Nodes \subseteq Places
  /\ \A n \in Nodes : n # Redis
  /\ \A th \in Threads : NodeOf[th] \in Nodes
  /\ MaxSkew \in Nat
  /\ \A n \in Nodes : Skew[n] \in 0 .. MaxSkew
BY RedisAssumption, NodeOfAssumption, SkewAssumption DEF Places

LEMMA LimiterInit == ASSUME Init PROVE LimiterInv
<1>1. TypeOK
  <2>1. \A S : <<>> \in Seq(S)  OBVIOUS
  <2>2. NoCall \in [tenant : Tenants \cup {"none"}, stamp : Nat]
    BY DEF NoCall
  <2>3. NoAnswer \in Answers  BY DEF NoAnswer, Answers
  <2>4. /\ obuf \in [Nodes -> Seq(Commands)] /\ wire \in [Nodes -> Seq(Commands)]
        /\ replies \in [Nodes -> Seq(Replies)] /\ reader \in [Nodes -> Seq(Replies)]
    BY <2>1 DEF Init
  <2> QED  BY <2>2, <2>3, <2>4, BoundsAssumption DEF Init, TypeOK, ControlPoints
<1>2. BucketsAccounted
  <2>1. NoHistory \in HistoryOf  BY DEF NoHistory, HistoryOf
  <2> QED  BY <2>1 DEF Init, BucketsAccounted, Accounted
<1>3. StampsPast
  BY DEF Init, StampsPast
<1>4. LastUse
  BY PlacesSplit DEF Init, LastUse, NoBucket, NoHistory
<1>5. FailedOpenLast
  BY DEF Init, FailedOpenLast
<1>6. RepliesOwed
  <2> SUFFICES ASSUME NEW n \in Nodes
               PROVE  Cardinality(Waiters(n)) = Owed(n)
    BY DEF RepliesOwed
  <2>1. Waiters(n) = {}  BY DEF Init, Waiters
  <2>2. Cardinality(Waiters(n)) = 0  BY <2>1, FS_EmptySet
  <2>3. /\ Len(obuf[n]) = 0 /\ Len(wire[n]) = 0
        /\ Len(replies[n]) = 0 /\ Len(reader[n]) = 0
    BY DEF Init
  <2> QED  BY <2>2, <2>3 DEF Owed
<1> QED  BY <1>1, <1>2, <1>3, <1>4, <1>5, <1>6 DEF LimiterInv

-----------------------------------------------------------------------------
(* What is owed on a connection. *)

Awaiting(s) == s \in {"appended", "reading"}

\* The threads that wait are finitely many, and a step that sets pc[th] changes
\* the waiters of th's node only, by th at most.
LEMMA WaitersChange ==
  ASSUME TypeOK, NEW th \in Threads, NEW s, pc' = [pc EXCEPT ![th] = s]
  PROVE  /\ \A n \in Nodes : Cardinality(Waiters(n)) \in Nat
         /\ \A n \in Nodes :
              n # NodeOf[th] \/ (Awaiting(s) <=> Awaiting(pc[th]))
                => Waiters(n)' = Waiters(n)
         /\ Awaiting(s) /\ ~Awaiting(pc[th])
              => Cardinality(Waiters(NodeOf[th])')
                   = Cardinality(Waiters(NodeOf[th])) + 1
         /\ ~Awaiting(s) /\ Awaiting(pc[th])
              => Cardinality(Waiters(NodeOf[th])')
                   = Cardinality(Waiters(NodeOf[th])) - 1
<1> DEFINE k == NodeOf[th]
<1>1. \A n \in Nodes : IsFiniteSet(Waiters(n)) /\ Cardinality(Waiters(n)) \in Nat
  <2> TAKE n \in Nodes
  <2>1. Waiters(n) \subseteq Threads  BY DEF Waiters
  <2> QED  BY <2>1, ThreadsAssumption, FS_Subset, FS_CardinalityType
<1>2. \A x \in Threads : pc'[x] = IF x = th THEN s ELSE pc[x]
  BY DEF TypeOK
<1>3. k \in Nodes  BY PlacesSplit
<1>4. \A n \in Nodes : n # k \/ (Awaiting(s) <=> Awaiting(pc[th]))
                         => Waiters(n)' = Waiters(n)
  BY <1>2 DEF Waiters, Awaiting
<1>5. ASSUME Awaiting(s), ~Awaiting(pc[th])
      PROVE  Cardinality(Waiters(k)') = Cardinality(Waiters(k)) + 1
  <2>1. Waiters(k)' = Waiters(k) \cup {th} /\ th \notin Waiters(k)
    BY <1>2, <1>5 DEF Waiters, Awaiting
  <2>2. Cardinality(Waiters(k) \cup {th}) = Cardinality(Waiters(k)) + 1
    BY <1>1, <1>3, <2>1, FS_AddElement
  <2> QED  BY <2>1, <2>2
<1>6. ASSUME ~Awaiting(s), Awaiting(pc[th])
      PROVE  Cardinality(Waiters(k)') = Cardinality(Waiters(k)) - 1
  <2>1. Waiters(k)' = Waiters(k) \ {th} /\ th \in Waiters(k)
    BY <1>2, <1>6 DEF Waiters, Awaiting
  <2>2. Cardinality(Waiters(k) \ {th}) = Cardinality(Waiters(k)) - 1
    BY <1>1, <1>3, <2>1, FS_RemoveElement
  <2> QED  BY <2>1, <2>2
<1> QED  BY <1>1, <1>4, <1>5, <1>6

LEMMA OwedSum ==
  ASSUME TypeOK, NEW n \in Nodes
  PROVE  \E a, b, c, d \in Nat :
           /\ Len(obuf[n]) = a /\ Len(wire[n]) = b
           /\ Len(replies[n]) = c /\ Len(reader[n]) = d
           /\ Owed(n) = a + b + c + d
<1>1. /\ obuf[n] \in Seq(Commands) /\ wire[n] \in Seq(Commands)
      /\ replies[n] \in Seq(Replies) /\ reader[n] \in Seq(Replies)
  BY DEF TypeOK
<1>2. PICK a \in Nat : Len(obuf[n]) = a  BY <1>1
<1>3. PICK b \in Nat : Len(wire[n]) = b  BY <1>1
<1>4. PICK c \in Nat : Len(replies[n]) = c  BY <1>1
<1>5. PICK d \in Nat : Len(reader[n]) = d  BY <1>1
<1>6. Owed(n) = a + b + c + d  BY <1>2, <1>3, <1>4, <1>5 DEF Owed
<1> QED  BY <1>2, <1>3, <1>4, <1>5, <1>6

\* A step on the connection of node n that changes what it owes and who waits
\* by the same number, and leaves the good connections of other nodes alone.
LEMMA OwedMoves ==
  ASSUME LimiterInv, NEW n \in Nodes, NEW d \in Int,
         \A m \in Nodes : conn'[m] = "live" => conn[m] = "live",
         conn'[n] = "live" =>
           /\ Owed(n)' = Owed(n) + d
           /\ Cardinality(Waiters(n)') = Cardinality(Waiters(n)) + d,
         \A m \in Nodes : m # n => /\ Owed(m)' = Owed(m)
                                   /\ Waiters(m)' = Waiters(m)
  PROVE  RepliesOwed'
<1> SUFFICES ASSUME NEW m \in Nodes, conn'[m] = "live"
             PROVE  Cardinality(Waiters(m)') = Owed(m)'
  BY DEF RepliesOwed
<1>1. conn[m] = "live" /\ Cardinality(Waiters(m)) = Owed(m)
  BY DEF LimiterInv, RepliesOwed
<1>2. CASE m = n  BY <1>1, <1>2
<1>3. CASE m # n  BY <1>1, <1>3
<1> QED  BY <1>2, <1>3

\* A step that moves no waiter, no command and no reply of a good connection.
LEMMA OwedKept ==
  ASSUME LimiterInv,
         \A n \in Nodes : conn'[n] = "live" =>
           /\ conn[n] = "live" /\ Owed(n)' = Owed(n) /\ Waiters(n)' = Waiters(n)
  PROVE  RepliesOwed'
BY DEF LimiterInv, RepliesOwed

\* A step that sends no command and lets no time pass.
LEMMA StampsKept ==
  ASSUME LimiterInv, time' = time,
         \A x \in Threads :
           pc'[x] = "sending" => pc[x] = "sending" /\ call'[x] = call[x],
         \A n \in Nodes : obuf'[n] = obuf[n] \/ obuf'[n] = <<>>,
         \A n \in Nodes : wire'[n] = wire[n] \/ wire'[n] = <<>>
  PROVE  StampsPast'
BY DEF LimiterInv, StampsPast

\* A step that leaves the buckets alone, when time does not go back.
LEMMA BucketsKept ==
  ASSUME LimiterInv, UNCHANGED <<buckets, history>>, time' \in Nat, time' >= time
  PROVE  BucketsAccounted' /\ LastUse'
<1>1. BucketsAccounted'
  BY DEF LimiterInv, BucketsAccounted
<1>2. /\ time \in Nat /\ MaxSkew \in Nat
      /\ \A p \in Places, t \in Tenants : buckets[p][t].last \in Int
  BY PlacesSplit DEF LimiterInv, TypeOK, Bucket, NoBucket
<1>3. LastUse'
  BY <1>2, PlacesSplit DEF LimiterInv, LastUse
<1> QED  BY <1>1, <1>3

LEMMA AllowLocalStep ==
  ASSUME LimiterInv, NEW th \in Threads, NEW t \in Tenants, AllowLocal(th, t)
  PROVE  LimiterInv'
<1> DEFINE n == NodeOf[th]
<1>1. n \in Nodes /\ n \in Places /\ n # Redis /\ time \in Nat
  BY PlacesSplit DEF LimiterInv, TypeOK
<1>2. UseBucket(n, t, time) /\ TypeOK /\ BucketsAccounted /\ LastUse
  BY DEF AllowLocal, LimiterInv
<1>3. /\ BucketsAccounted'
      /\ buckets' \in [Places -> [Tenants -> Bucket \cup {NoBucket}]]
      /\ buckets'[n][t].last = time
      /\ time >= buckets[n][t].last
           => history'[n][t].setback = history[n][t].setback
      /\ \A q \in Places, u \in Tenants :
           q # n \/ u # t => /\ buckets'[q][u] = buckets[q][u]
                           /\ history'[q][u] = history[q][u]
  <2> HIDE DEF n
  <2> QED  BY <1>1, <1>2, UseBucketAccounts
<1>4. UNCHANGED <<time, conn, pc, call, obuf, wire, replies, reader, uncharged>>
  BY DEF AllowLocal
<1>5. TypeOK'
  <2>1. calls' \in [Threads -> 0 .. MaxCalls]
    BY <1>2, BoundsAssumption DEF AllowLocal, Begins, TypeOK
  <2>2. answer' \in [Threads -> Answers]
    BY <1>2 DEF AllowLocal, Answered, TypeOK, Answers, Granted, HasToken
  <2> QED  BY <1>2, <1>3, <1>4, <2>1, <2>2 DEF TypeOK
<1>6. LastUse'
  BY <1>1, <1>2, <1>3, <1>4, PlacesSplit DEF LastUse
<1>7. StampsPast'
  BY <1>4 DEF LimiterInv, StampsPast
<1>8. FailedOpenLast'
  BY <1>4 DEF LimiterInv, FailedOpenLast
<1>9. RepliesOwed'
  BY <1>4, OwedKept DEF Waiters, Owed
<1> QED  BY <1>3, <1>5, <1>6, <1>7, <1>8, <1>9 DEF LimiterInv

LEMMA ReadClockStep ==
  ASSUME LimiterInv, NEW th \in Threads, NEW t \in Tenants, ReadClock(th, t)
  PROVE  LimiterInv'
<1>1. /\ UNCHANGED <<time, conn, buckets, obuf, wire, replies, reader, history,
                     uncharged>>
      /\ pc[th] = "idle" /\ pc' = [pc EXCEPT ![th] = "sending"]
      /\ conn[NodeOf[th]] # "none"
  BY DEF ReadClock, Begins
<1>2. TypeOK /\ StampsPast /\ FailedOpenLast /\ time \in Nat
  BY DEF LimiterInv, TypeOK
<1>3. BucketsAccounted' /\ LastUse'  BY <1>1, <1>2, BucketsKept
<1>4. time + Skew[NodeOf[th]] \in 0 .. time + MaxSkew
  BY <1>2, PlacesSplit
<1>5. TypeOK'
  <2>1. calls' \in [Threads -> 0 .. MaxCalls]
    BY <1>2, BoundsAssumption DEF ReadClock, Begins, TypeOK
  <2>2. call' \in [Threads -> [tenant : Tenants \cup {"none"}, stamp : Nat]]
    BY <1>2, <1>4 DEF ReadClock, TypeOK
  <2>3. answer' \in [Threads -> Answers] /\ pc' \in [Threads -> ControlPoints]
    BY <1>1, <1>2 DEF ReadClock, TypeOK, NoAnswer, Answers, ControlPoints
  <2> QED  BY <1>1, <1>2, <2>1, <2>2, <2>3 DEF TypeOK
<1>6. StampsPast'
  BY <1>1, <1>2, <1>4 DEF ReadClock, StampsPast, TypeOK
<1>7. FailedOpenLast'
  BY <1>1, <1>2 DEF FailedOpenLast, TypeOK
<1>8. RepliesOwed'
  <2>1. ~Awaiting("idle") /\ ~Awaiting("sending")  BY DEF Awaiting
  <2>2. \A n \in Nodes : Waiters(n)' = Waiters(n)
    BY <1>1, <1>2, <2>1, WaitersChange
  <2> QED  BY <1>1, <2>2, OwedKept DEF Owed
<1> QED  BY <1>3, <1>5, <1>6, <1>7, <1>8 DEF LimiterInv

\* What a thread appends is owed to it (76).
LEMMA AppendCommandStep ==
  ASSUME LimiterInv, NEW th \in Threads, AppendCommand(th)
  PROVE  LimiterInv'
<1> DEFINE n == NodeOf[th]
<1>1. /\ UNCHANGED <<time, conn, buckets, answer, wire, replies, reader, calls,
                     history, uncharged>>
      /\ pc[th] = "sending" /\ pc' = [pc EXCEPT ![th] = "appended"]
      /\ call' = [call EXCEPT ![th] = NoCall]
      /\ obuf' = [obuf EXCEPT ![n] = Append(@, Command(th))]
      /\ conn[n] \in {"live", "broken"}
  BY DEF AppendCommand, Usable
<1>2. TypeOK /\ StampsPast /\ FailedOpenLast /\ time \in Nat /\ n \in Nodes
  BY PlacesSplit DEF LimiterInv, TypeOK
<1>3. BucketsAccounted' /\ LastUse'  BY <1>1, <1>2, BucketsKept
<1>4. Command(th) \in Commands /\ Command(th).stamp <= time + MaxSkew
  BY <1>1, <1>2, PlacesSplit DEF StampsPast, TypeOK, Command, Commands
<1>5. obuf \in [Nodes -> Seq(Commands)] /\ obuf[n] \in Seq(Commands)
  BY <1>2 DEF TypeOK
<1>6. TypeOK'
  <2>1. Append(obuf[n], Command(th)) \in Seq(Commands)  BY <1>4, <1>5
  <2>2. obuf' \in [Nodes -> Seq(Commands)]  BY <1>1, <1>5, <2>1
  <2>3. call' \in [Threads -> [tenant : Tenants \cup {"none"}, stamp : Nat]]
    BY <1>1, <1>2 DEF TypeOK, NoCall
  <2>4. pc' \in [Threads -> ControlPoints]
    BY <1>1, <1>2 DEF TypeOK, ControlPoints
  <2> QED  BY <1>1, <1>2, <2>2, <2>3, <2>4 DEF TypeOK
<1>7. StampsPast'
  <2>1. \A m \in Nodes : \A i \in DOMAIN obuf'[m] : obuf'[m][i].stamp <= time + MaxSkew
    <3> TAKE m \in Nodes
    <3>1. CASE m # n
      BY <1>1, <1>2, <1>5, <3>1 DEF StampsPast
    <3>2. CASE m = n
      <4>1. \A i \in DOMAIN obuf'[n] : obuf'[n][i] = IF i \in DOMAIN obuf[n]
                                                  THEN obuf[n][i] ELSE Command(th)
        BY <1>1, <1>2, <1>4, <1>5
      <4> QED  BY <1>2, <1>4, <3>2, <4>1 DEF StampsPast
    <3> QED  BY <3>1, <3>2
  <2>2. \A x \in Threads : pc'[x] = "sending" => pc[x] = "sending" /\ call'[x] = call[x]
    BY <1>1, <1>2 DEF TypeOK
  <2> QED  BY <1>1, <1>2, <2>1, <2>2 DEF StampsPast
<1>8. FailedOpenLast'
  BY <1>1, <1>2 DEF FailedOpenLast, TypeOK
<1>9. RepliesOwed'
  <2>1. Cardinality(Waiters(n)') = Cardinality(Waiters(n)) + 1
    BY <1>1, <1>2, WaitersChange DEF Awaiting
  <2>2. Owed(n)' = Owed(n) + 1
    <3>1. PICK a, b, c, d \in Nat :
           /\ Len(obuf[n]) = a /\ Len(wire[n]) = b
           /\ Len(replies[n]) = c /\ Len(reader[n]) = d
           /\ Owed(n) = a + b + c + d
      BY <1>2, OwedSum
    <3>2. Len(obuf'[n]) = a + 1  BY <1>1, <1>2, <1>4, <1>5, <3>1
    <3>3. Owed(n)' = (a + 1) + b + c + d  BY <1>1, <3>1, <3>2 DEF Owed
    <3> QED  BY <3>1, <3>3
  <2>3. \A m \in Nodes : m # n => Waiters(m)' = Waiters(m) /\ Owed(m)' = Owed(m)
    BY <1>1, <1>2, <1>5, WaitersChange DEF Owed
  <2> HIDE DEF n
  <2> QED  BY <1>1, <1>2, <2>1, <2>2, <2>3, OwedMoves
<1> QED  BY <1>3, <1>6, <1>7, <1>8, <1>9 DEF LimiterInv

\* Writing moves what is owed (76).
LEMMA WriteBufferStep ==
  ASSUME LimiterInv, NEW th \in Threads, WriteBuffer(th)
  PROVE  LimiterInv'
<1> DEFINE n == NodeOf[th]
<1>1. /\ UNCHANGED <<time, conn, buckets, call, answer, replies, reader, calls,
                     history, uncharged>>
      /\ pc[th] = "appended" /\ pc' = [pc EXCEPT ![th] = "reading"]
      /\ wire' = [wire EXCEPT ![n] = @ \o obuf[n]]
      /\ obuf' = [obuf EXCEPT ![n] = <<>>]
  BY DEF WriteBuffer
<1>2. TypeOK /\ StampsPast /\ FailedOpenLast /\ time \in Nat /\ n \in Nodes
  BY PlacesSplit DEF LimiterInv, TypeOK
<1>3. BucketsAccounted' /\ LastUse'  BY <1>1, <1>2, BucketsKept
<1>4. /\ obuf \in [Nodes -> Seq(Commands)] /\ obuf[n] \in Seq(Commands)
      /\ wire \in [Nodes -> Seq(Commands)] /\ wire[n] \in Seq(Commands)
  BY <1>2 DEF TypeOK
<1>5. /\ wire[n] \o obuf[n] \in Seq(Commands)
      /\ Len(wire[n] \o obuf[n]) = Len(wire[n]) + Len(obuf[n])
      /\ \A i \in DOMAIN (wire[n] \o obuf[n]) :
           \/ i \in DOMAIN wire[n] /\ (wire[n] \o obuf[n])[i] = wire[n][i]
           \/ /\ i - Len(wire[n]) \in DOMAIN obuf[n]
              /\ (wire[n] \o obuf[n])[i] = obuf[n][i - Len(wire[n])]
  BY <1>4
<1>6. /\ wire'[n] = wire[n] \o obuf[n] /\ obuf'[n] = <<>>
      /\ \A m \in Nodes : m # n => wire'[m] = wire[m] /\ obuf'[m] = obuf[m]
  BY <1>1, <1>2, <1>4
<1>7. TypeOK'
  <2>1. <<>> \in Seq(Commands)  OBVIOUS
  <2>2. obuf' \in [Nodes -> Seq(Commands)]  BY <1>1, <1>4, <2>1
  <2>3. wire' \in [Nodes -> Seq(Commands)]  BY <1>1, <1>4, <1>5
  <2>4. pc' \in [Threads -> ControlPoints]
    BY <1>1, <1>2 DEF TypeOK, ControlPoints
  <2> QED  BY <1>1, <1>2, <2>2, <2>3, <2>4 DEF TypeOK
<1>8. StampsPast'
  <2>1. \A m \in Nodes : \A i \in DOMAIN wire'[m] : wire'[m][i].stamp <= time + MaxSkew
    <3> TAKE m \in Nodes
    <3>1. CASE m # n  BY <1>2, <1>6, <3>1 DEF StampsPast
    <3>2. CASE m = n
      <4>1. /\ \A i \in DOMAIN obuf[n] : obuf[n][i].stamp <= time + MaxSkew
            /\ \A i \in DOMAIN wire[n] : wire[n][i].stamp <= time + MaxSkew
        BY <1>2 DEF StampsPast
      <4> DEFINE q == wire[n] \o obuf[n]
      <4>2. \A i \in DOMAIN q : \/ i \in DOMAIN wire[n] /\ q[i] = wire[n][i]
                               \/ \E j \in DOMAIN obuf[n] : q[i] = obuf[n][j]
        BY <1>5
      <4>3. wire'[m] = q  BY <1>6, <3>2
      <4> HIDE DEF q
      <4> QED  BY <4>1, <4>2, <4>3
    <3> QED  BY <3>1, <3>2
  <2>2. \A m \in Nodes : \A i \in DOMAIN obuf'[m] : obuf'[m][i].stamp <= time + MaxSkew
    BY <1>2, <1>6 DEF StampsPast
  <2>3. \A x \in Threads : pc'[x] = "sending" => pc[x] = "sending"
    BY <1>1, <1>2 DEF TypeOK
  <2> QED  BY <1>1, <1>2, <2>1, <2>2, <2>3 DEF StampsPast
<1>9. FailedOpenLast'
  BY <1>1, <1>2 DEF FailedOpenLast, TypeOK
<1>10. RepliesOwed'
  <2>1. \A m \in Nodes : Waiters(m)' = Waiters(m)
    BY <1>1, <1>2, WaitersChange DEF Awaiting
  <2>2. Owed(n)' = Owed(n)
    <3>1. PICK a, b, c, d \in Nat :
           /\ Len(obuf[n]) = a /\ Len(wire[n]) = b
           /\ Len(replies[n]) = c /\ Len(reader[n]) = d
           /\ Owed(n) = a + b + c + d
      BY <1>2, OwedSum
    <3>2. Len(wire'[n]) = b + a /\ Len(obuf'[n]) = 0
      BY <1>5, <1>6, <3>1
    <3>3. Owed(n)' = 0 + (b + a) + c + d  BY <1>1, <3>1, <3>2 DEF Owed
    <3> QED  BY <3>1, <3>3
  <2>3. \A m \in Nodes : Owed(m)' = Owed(m)
    BY <1>1, <1>6, <2>2 DEF Owed
  <2> QED  BY <1>1, <2>1, <2>3, OwedKept
<1> QED  BY <1>3, <1>7, <1>8, <1>9, <1>10 DEF LimiterInv

\* A thread that takes a reply gives up its claim, and the reader keeps the
\* other replies (76, 87-89).
LEMMA TakesStep ==
  ASSUME LimiterInv, NEW th \in Threads, NEW rs \in Seq(Replies), rs # <<>>,
         Awaiting(pc[th]), Takes(th, rs),
         replies' \in [Nodes -> Seq(Replies)],
         \A m \in Nodes : m # NodeOf[th] => replies'[m] = replies[m],
         Len(reader[NodeOf[th]]) + Len(replies[NodeOf[th]])
           = Len(rs) + Len(replies'[NodeOf[th]]),
         UNCHANGED <<time, conn, buckets, call, obuf, wire, calls, history,
                     uncharged>>
  PROVE  LimiterInv'
<1> DEFINE n == NodeOf[th]
           r == Head(rs)
<1>1. /\ answer' = [answer EXCEPT ![th] = [allowed |-> r.allowed, via |-> r.via,
                                           by |-> r.by]]
      /\ reader' = [reader EXCEPT ![n] = Tail(rs)]
      /\ pc' = [pc EXCEPT ![th] = "idle"]
  BY DEF Takes, Answered
<1>2. TypeOK /\ StampsPast /\ FailedOpenLast /\ time \in Nat /\ n \in Nodes
  BY PlacesSplit DEF LimiterInv, TypeOK
<1>3. BucketsAccounted' /\ LastUse'  BY <1>2, BucketsKept
<1>4. /\ r \in Replies /\ Tail(rs) \in Seq(Replies)
      /\ Len(Tail(rs)) = Len(rs) - 1 /\ Len(rs) \in Nat
  OBVIOUS
<1>5. [allowed |-> r.allowed, via |-> r.via, by |-> r.by] \in Answers
  BY <1>4 DEF Replies, Answers
<1> HIDE DEF r
<1>6. TypeOK'
  <2>1. answer' \in [Threads -> Answers]  BY <1>1, <1>2, <1>5 DEF TypeOK
  <2>2. reader' \in [Nodes -> Seq(Replies)]  BY <1>1, <1>2, <1>4 DEF TypeOK
  <2>3. pc' \in [Threads -> ControlPoints]
    BY <1>1, <1>2 DEF TypeOK, ControlPoints
  <2> QED  BY <1>2, <2>1, <2>2, <2>3 DEF TypeOK
<1>7. StampsPast'
  <2>1. \A x \in Threads : pc'[x] = "sending" => pc[x] = "sending"
    BY <1>1, <1>2 DEF TypeOK
  <2> QED  BY <2>1, StampsKept
<1>8. FailedOpenLast'
  BY <1>1, <1>2 DEF FailedOpenLast, TypeOK
<1>9. RepliesOwed'
  <2>1. Cardinality(Waiters(n)') = Cardinality(Waiters(n)) + (-1)
    <3>1. ~Awaiting("idle")  BY DEF Awaiting
    <3>2. /\ Cardinality(Waiters(n)) \in Nat
          /\ Cardinality(Waiters(n)') = Cardinality(Waiters(n)) - 1
      BY <1>1, <1>2, <3>1, WaitersChange
    <3> QED  BY <3>2
  <2>2. Owed(n)' = Owed(n) + (-1)
    <3>1. PICK a, b, c, d \in Nat :
           /\ Len(obuf[n]) = a /\ Len(wire[n]) = b
           /\ Len(replies[n]) = c /\ Len(reader[n]) = d
           /\ Owed(n) = a + b + c + d
      BY <1>2, OwedSum
    <3>2. PICK e \in Nat, f \in Nat : Len(rs) = e /\ Len(replies'[n]) = f
      BY <1>2
    <3>3. Len(reader'[n]) = e - 1
      BY <1>1, <1>2, <1>4, <3>2 DEF TypeOK
    <3>4. d + c = e + f  BY <3>1, <3>2
    <3>5. Len(obuf'[n]) = a /\ Len(wire'[n]) = b  BY <3>1
    <3>6. Owed(n)' = a + b + f + (e - 1)
      BY ONLY <3>2, <3>3, <3>5 DEF Owed
    <3>7. d + c = e + f => a + b + f + (e - 1) = (a + b + c + d) + (-1)
      OBVIOUS
    <3> QED  BY <3>1, <3>4, <3>6, <3>7
  <2>3. \A m \in Nodes : m # n => Waiters(m)' = Waiters(m) /\ Owed(m)' = Owed(m)
    BY <1>1, <1>2, WaitersChange DEF Owed, TypeOK
  <2> HIDE DEF n
  <2> QED  BY <1>2, <2>1, <2>2, <2>3, OwedMoves
<1> QED  BY <1>3, <1>6, <1>7, <1>8, <1>9 DEF LimiterInv

LEMMA TakeBufferedStep ==
  ASSUME LimiterInv, NEW th \in Threads, TakeBuffered(th)
  PROVE  LimiterInv'
<1> DEFINE n == NodeOf[th]
<1>1. /\ pc[th] = "appended" /\ reader[n] # <<>> /\ Takes(th, reader[n])
      /\ UNCHANGED <<time, conn, buckets, call, obuf, wire, replies, calls, history,
                     uncharged>>
  BY DEF TakeBuffered
<1>2. reader[n] \in Seq(Replies) /\ replies \in [Nodes -> Seq(Replies)]
  BY PlacesSplit DEF LimiterInv, TypeOK
<1>3. Len(reader[n]) + Len(replies[n]) = Len(reader[n]) + Len(replies'[n])
  BY <1>1
<1> QED  BY <1>1, <1>2, <1>3, TakesStep DEF Awaiting

LEMMA ReadStep ==
  ASSUME LimiterInv, NEW th \in Threads, Read(th)
  PROVE  LimiterInv'
<1> DEFINE n == NodeOf[th]
           rs == reader[n] \o replies[n]
<1>1. /\ pc[th] = "reading" /\ replies[n] # <<>> /\ Takes(th, rs)
      /\ replies' = [replies EXCEPT ![n] = <<>>]
      /\ UNCHANGED <<time, conn, buckets, call, obuf, wire, calls, history,
                     uncharged>>
  BY DEF Read
<1>2. /\ n \in Nodes /\ replies \in [Nodes -> Seq(Replies)]
      /\ reader[n] \in Seq(Replies) /\ replies[n] \in Seq(Replies)
      /\ Len(reader[n]) \in Nat /\ Len(replies[n]) \in Nat
  BY PlacesSplit DEF LimiterInv, TypeOK
<1>3. rs \in Seq(Replies) /\ Len(rs) = Len(reader[n]) + Len(replies[n])
  BY <1>2
<1>4. Len(replies[n]) # 0  BY <1>1, <1>2
<1>5. rs # <<>>  BY <1>2, <1>3, <1>4
<1>6. /\ <<>> \in Seq(Replies) /\ Len(<<>>) = 0
  OBVIOUS
<1>7. /\ replies' \in [Nodes -> Seq(Replies)] /\ replies'[n] = <<>>
      /\ \A m \in Nodes : m # n => replies'[m] = replies[m]
  BY <1>1, <1>2, <1>6
<1>8. Len(reader[n]) + Len(replies[n]) = Len(rs) + Len(replies'[n])
  BY <1>2, <1>3, <1>6, <1>7
<1> HIDE DEF rs
<1> QED  BY <1>1, <1>3, <1>5, <1>7, <1>8, TakesStep DEF Awaiting

-----------------------------------------------------------------------------
(* The failure path. *)

\* A step of th, or the death of its process, on a connection that is not good
\* afterwards.
LEMMA FailureStep ==
  ASSUME LimiterInv, NEW th \in Threads, NEW s \in ControlPoints, s # "sending",
         \/ pc' = [pc EXCEPT ![th] = s]
         \/ Dies(NodeOf[th]),
         NEW c \in {"broken", "freed", "none"},
         conn' = [conn EXCEPT ![NodeOf[th]] = c],
         \A x \in Threads : x # th => call'[x] = call[x],
         call' \in [Threads -> [tenant : Tenants \cup {"none"}, stamp : Nat]],
         answer' \in [Threads -> Answers],
         uncharged' \in [Threads -> Nat],
         FailedOpenLast',
         UNCHANGED <<time, buckets, obuf, wire, replies, reader, calls, history>>
  PROVE  LimiterInv'
<1> DEFINE n == NodeOf[th]
<1>1. TypeOK /\ StampsPast /\ time \in Nat /\ n \in Nodes
  BY PlacesSplit DEF LimiterInv, TypeOK
<1>2. BucketsAccounted' /\ LastUse'  BY <1>1, BucketsKept
<1>3. /\ pc' \in [Threads -> ControlPoints]
      /\ \A x \in Threads : /\ NodeOf[x] # n => pc'[x] = pc[x]
                            /\ pc'[x] = "sending" => pc[x] = "sending" /\ x # th
  <2>1. CASE pc' = [pc EXCEPT ![th] = s]
    BY <1>1, <2>1 DEF TypeOK
  <2>2. CASE Dies(n)
    BY <1>1, <2>2 DEF Dies, TypeOK, ControlPoints
  <2> QED  BY <2>1, <2>2
<1>4. TypeOK'
  BY <1>1, <1>3 DEF TypeOK
<1>5. StampsPast'
  BY <1>3, StampsKept
<1>6. RepliesOwed'
  <2>1. \A m \in Nodes : conn'[m] = "live" => m # n /\ conn[m] = "live"
    BY <1>1 DEF TypeOK
  <2>2. \A m \in Nodes : m # n => Waiters(m)' = Waiters(m)
    BY <1>3 DEF Waiters
  <2> QED  BY <2>1, <2>2, OwedKept DEF Owed
<1> QED  BY <1>2, <1>4, <1>5, <1>6 DEF LimiterInv

\* A null reply tells of a broken connection (80).
LEMMA CommandFailsStep ==
  ASSUME LimiterInv, NEW th \in Threads, CommandFails(th)
  PROVE  LimiterInv'
<1>1. /\ conn[NodeOf[th]] = "broken" /\ pc[th] \in {"appended", "reading"}
      /\ pc' = [pc EXCEPT ![th] = "failed"]
      /\ UNCHANGED <<time, conn, buckets, call, answer, obuf, wire, replies, reader,
                     calls, history, uncharged>>
  BY DEF CommandFails, NullReply
<1>2. TypeOK /\ FailedOpenLast  BY DEF LimiterInv
<1>3. conn' = [conn EXCEPT ![NodeOf[th]] = "broken"]
  BY <1>1, <1>2 DEF TypeOK
<1>4. FailedOpenLast'
  BY <1>1, <1>2 DEF FailedOpenLast, TypeOK
<1>5. "failed" \in ControlPoints /\ "failed" # "sending"  BY DEF ControlPoints
<1> QED  BY <1>1, <1>2, <1>3, <1>4, <1>5, FailureStep DEF TypeOK

\* redisFree of a context that is broken, freed or null (82).
LEMMA FreeContextStep ==
  ASSUME LimiterInv, NEW th \in Threads, FreeContext(th)
  PROVE  LimiterInv'
<1> DEFINE n == NodeOf[th]
           c == IF conn[n] = "none" THEN "none" ELSE "freed"
<1>1. /\ pc[th] = "failed"
      /\ pc' = [pc EXCEPT ![th] = "freeing"] \/ Dies(n)
      /\ conn' = [conn EXCEPT ![n] = c]
      /\ UNCHANGED <<time, buckets, call, answer, obuf, wire, replies, reader, calls,
                     history, uncharged>>
  BY DEF FreeContext
<1>2. TypeOK /\ FailedOpenLast /\ n \in Nodes  BY PlacesSplit DEF LimiterInv
<1>3. c \in {"broken", "freed", "none"}  OBVIOUS
<1>4. \A m \in Nodes : conn'[m] = IF m = n THEN c ELSE conn[m]
  BY <1>1, <1>2 DEF TypeOK
<1>5. \A x \in Threads : \/ pc'[x] = pc[x] \/ pc'[x] = "crashed"
                         \/ x = th /\ pc'[x] = "freeing"
  BY <1>1, <1>2 DEF TypeOK, Dies
<1>6. FailedOpenLast'
  BY <1>1, <1>2, <1>4, <1>5, PlacesSplit DEF FailedOpenLast
<1>7. "freeing" \in ControlPoints /\ "freeing" # "sending"  BY DEF ControlPoints
<1> HIDE DEF c
<1> QED  BY <1>1, <1>2, <1>3, <1>6, <1>7, FailureStep DEF TypeOK

\* redis_ = nullptr; return true (83-84).
LEMMA FailOpenStep ==
  ASSUME LimiterInv, NEW th \in Threads, FailOpen(th)
  PROVE  LimiterInv'
<1> DEFINE n == NodeOf[th]
<1>1. /\ pc[th] = "freeing" /\ pc' = [pc EXCEPT ![th] = "idle"]
      /\ conn' = [conn EXCEPT ![n] = "none"]
      /\ answer' = [answer EXCEPT ![th] = [allowed |-> TRUE, via |-> "failed_open",
                                           by |-> th]]
      /\ uncharged' = [uncharged EXCEPT ![th] = @ + 1]
      /\ UNCHANGED <<time, buckets, call, obuf, wire, replies, reader, calls, history>>
  BY DEF FailOpen, Answered, Dropped
<1>2. TypeOK /\ FailedOpenLast /\ n \in Nodes  BY PlacesSplit DEF LimiterInv
<1>3. answer' \in [Threads -> Answers]
  <2>1. [allowed |-> TRUE, via |-> "failed_open", by |-> th] \in Answers
    BY DEF Answers
  <2> QED  BY <1>1, <1>2, <2>1 DEF TypeOK
<1>4. uncharged[th] = 0  BY <1>1, <1>2 DEF FailedOpenLast
<1>5. /\ uncharged' \in [Threads -> Nat] /\ uncharged'[th] = 1
      /\ \A x \in Threads : x # th => uncharged'[x] = uncharged[x] /\ pc'[x] = pc[x]
      /\ pc'[th] = "idle"
      /\ \A m \in Nodes : conn'[m] = IF m = n THEN "none" ELSE conn[m]
  BY <1>1, <1>2, <1>4 DEF TypeOK
<1>6. FailedOpenLast'
  BY <1>2, <1>5, PlacesSplit DEF FailedOpenLast
<1>7. "idle" \in ControlPoints /\ "idle" # "sending"  BY DEF ControlPoints
<1> QED  BY <1>1, <1>2, <1>3, <1>5, <1>6, <1>7, FailureStep DEF TypeOK

\* A context another thread has freed (76, 82).
LEMMA UseFreedStep ==
  ASSUME LimiterInv, NEW th \in Threads, UseFreed(th)
  PROVE  LimiterInv'
<1> DEFINE n == NodeOf[th]
<1>1. /\ pc[th] \in {"sending", "appended", "reading"}
      /\ conn[n] \in {"freed", "none"}
      /\ pc' = [pc EXCEPT ![th] = "failed"] \/ Dies(n)
      /\ call' = [call EXCEPT ![th] = NoCall]
      /\ UNCHANGED <<time, conn, buckets, answer, obuf, wire, replies, reader, calls,
                     history, uncharged>>
  BY DEF UseFreed, NullReply
<1>2. TypeOK /\ FailedOpenLast /\ n \in Nodes  BY PlacesSplit DEF LimiterInv
<1>3. conn' = [conn EXCEPT ![n] = conn[n]]
      /\ conn[n] \in {"broken", "freed", "none"}
  BY <1>1, <1>2 DEF TypeOK
<1>4. \A x \in Threads : \/ pc'[x] = pc[x] \/ pc'[x] = "crashed"
                         \/ x = th /\ pc'[x] = "failed"
  BY <1>1, <1>2 DEF TypeOK, Dies
<1>5. FailedOpenLast'
  BY <1>1, <1>2, <1>4 DEF FailedOpenLast
<1>6. /\ call' \in [Threads -> [tenant : Tenants \cup {"none"}, stamp : Nat]]
      /\ \A x \in Threads : x # th => call'[x] = call[x]
  BY <1>1, <1>2 DEF TypeOK, NoCall
<1>7. "failed" \in ControlPoints /\ "failed" # "sending"  BY DEF ControlPoints
<1> QED  BY <1>1, <1>2, <1>3, <1>5, <1>6, <1>7, FailureStep DEF TypeOK

-----------------------------------------------------------------------------
(* Redis and the environment. *)

\* The next command of a connection, and the ones after it.
LEMMA WireTail ==
  ASSUME LimiterInv, NEW n \in Nodes, wire[n] # <<>>,
         wire' = [wire EXCEPT ![n] = Tail(@)],
         UNCHANGED <<time, pc, call, obuf>>
  PROVE  /\ Head(wire[n]) \in Commands
         /\ Head(wire[n]).stamp \in 0 .. time + MaxSkew
         /\ wire' \in [Nodes -> Seq(Commands)]
         /\ StampsPast'
<1>1. /\ wire \in [Nodes -> Seq(Commands)] /\ time \in Nat /\ MaxSkew \in Nat
      /\ StampsPast
  BY PlacesSplit DEF LimiterInv, TypeOK
<1>2. /\ Head(wire[n]) = wire[n][1] /\ 1 \in DOMAIN wire[n]
      /\ Head(wire[n]) \in Commands /\ Tail(wire[n]) \in Seq(Commands)
      /\ \A i \in DOMAIN Tail(wire[n]) : /\ i + 1 \in DOMAIN wire[n]
                                        /\ Tail(wire[n])[i] = wire[n][i + 1]
  BY <1>1
<1>3. Head(wire[n]).stamp \in 0 .. time + MaxSkew
  BY <1>1, <1>2 DEF StampsPast, Commands
<1>4. wire' \in [Nodes -> Seq(Commands)]  BY <1>1, <1>2
<1>5. StampsPast'
  BY <1>1, <1>2 DEF StampsPast
<1> QED  BY <1>2, <1>3, <1>4, <1>5

\* A reply is kept or lost.
LEMMA RepliedType ==
  ASSUME LimiterInv, NEW n \in Nodes, wire[n] # <<>>,
         NEW allowed \in BOOLEAN, NEW via \in {"redis", "error"},
         Replied(n, allowed, via)
  PROVE  /\ replies' \in [Nodes -> Seq(Replies)]
         /\ conn[n] = "live" => Len(replies'[n]) = Len(replies[n]) + 1
         /\ \A m \in Nodes : m # n => replies'[m] = replies[m]
<1>1. /\ replies \in [Nodes -> Seq(Replies)] /\ wire[n] \in Seq(Commands)
      /\ replies[n] \in Seq(Replies)
  BY DEF LimiterInv, TypeOK
<1>2. Head(wire[n]) \in Commands  BY <1>1
<1> DEFINE r == [allowed |-> allowed, via |-> via, by |-> Head(wire[n]).by]
<1>3. r \in Replies  BY <1>2 DEF Commands, Replies
<1>4. replies' = IF conn[n] # "live" THEN replies
                 ELSE [replies EXCEPT ![n] = Append(@, r)]
  BY DEF Replied
<1> HIDE DEF r
<1>5. /\ Append(replies[n], r) \in Seq(Replies)
      /\ Len(Append(replies[n], r)) = Len(replies[n]) + 1
  BY <1>1, <1>3
<1> QED  BY <1>1, <1>4, <1>5

\* A command that is answered becomes a reply (8-27).
LEMMA OwedByReply ==
  ASSUME LimiterInv, NEW n \in Nodes, wire[n] # <<>>,
         wire' = [wire EXCEPT ![n] = Tail(@)],
         NEW allowed \in BOOLEAN, NEW via \in {"redis", "error"},
         Replied(n, allowed, via),
         UNCHANGED <<conn, pc, obuf, reader>>
  PROVE  RepliesOwed'
<1>1. TypeOK  BY DEF LimiterInv
<1>2. /\ wire \in [Nodes -> Seq(Commands)] /\ wire[n] \in Seq(Commands)
      /\ replies' \in [Nodes -> Seq(Replies)]
      /\ conn[n] = "live" => Len(replies'[n]) = Len(replies[n]) + 1
      /\ \A m \in Nodes : m # n => replies'[m] = replies[m]
  BY <1>1, RepliedType DEF TypeOK
<1>3. PICK a, b, c, d \in Nat :
        /\ Len(obuf[n]) = a /\ Len(wire[n]) = b
        /\ Len(replies[n]) = c /\ Len(reader[n]) = d
        /\ Owed(n) = a + b + c + d
  BY <1>1, OwedSum
<1>4. conn[n] = "live" => Owed(n)' = Owed(n)
  <2>1. Len(wire'[n]) = b - 1  BY <1>2, <1>3
  <2>2. ASSUME conn[n] = "live" PROVE Owed(n)' = a + (b - 1) + (c + 1) + d
    BY <1>2, <1>3, <2>1, <2>2 DEF Owed
  <2> QED  BY <1>3, <2>2
<1>5. \A m \in Nodes : m # n => Owed(m)' = Owed(m)
  BY <1>2 DEF Owed
<1>6. \A m \in Nodes : Waiters(m)' = Waiters(m)  BY DEF Waiters
<1> QED  BY <1>4, <1>5, <1>6, OwedKept

LEMMA RunScriptStep ==
  ASSUME LimiterInv, NEW n \in Nodes, RunScript(n)
  PROVE  LimiterInv'
<1> DEFINE c == Head(wire[n])
<1>1. /\ wire[n] # <<>> /\ wire' = [wire EXCEPT ![n] = Tail(@)]
      /\ UNCHANGED <<time, conn, pc, call, answer, obuf, reader, calls, uncharged>>
      /\ UseBucket(Redis, c.tenant, c.stamp)
      /\ Replied(n, Granted(Redis, c.tenant, c.stamp), "redis")
  BY DEF RunScript
<1>2. TypeOK /\ BucketsAccounted /\ LastUse /\ FailedOpenLast /\ time \in Nat
  BY DEF LimiterInv, TypeOK
<1>3. /\ c \in Commands /\ c.stamp \in 0 .. time + MaxSkew
      /\ wire' \in [Nodes -> Seq(Commands)]
      /\ StampsPast'
  BY <1>1, WireTail
<1>4. c.tenant \in Tenants /\ c.stamp \in Nat  BY <1>3 DEF Commands
<1> HIDE DEF c
<1>5. /\ BucketsAccounted'
      /\ buckets' \in [Places -> [Tenants -> Bucket \cup {NoBucket}]]
      /\ buckets'[Redis][c.tenant].last = c.stamp
      /\ \A q \in Places, u \in Tenants :
           q # Redis \/ u # c.tenant => /\ buckets'[q][u] = buckets[q][u]
                                      /\ history'[q][u] = history[q][u]
  BY <1>1, <1>2, <1>4, PlacesSplit, UseBucketAccounts
<1>6. Granted(Redis, c.tenant, c.stamp) \in BOOLEAN
  BY DEF Granted, HasToken
<1>7. replies' \in [Nodes -> Seq(Replies)]  BY <1>1, <1>6, RepliedType
<1>8. TypeOK'
  BY <1>1, <1>2, <1>3, <1>5, <1>7 DEF TypeOK
<1>9. LastUse'
  <2>1. time' = time  BY <1>1
  <2>2. \A t \in Tenants : buckets'[Redis][t].last <= time + MaxSkew
    <3> TAKE t \in Tenants
    <3>1. CASE t = c.tenant  BY <1>3, <1>5, <3>1
    <3>2. CASE t # c.tenant
      BY <1>2, <1>5, <3>2, PlacesSplit DEF LastUse
    <3> QED  BY <3>1, <3>2
  <2>3. ASSUME NEW m \in Nodes, NEW t \in Tenants
        PROVE  buckets'[m][t].last <= time /\ history'[m][t].setback = 0
    <3>1. m \in Places /\ m # Redis  BY PlacesSplit
    <3>2. buckets'[m][t] = buckets[m][t] /\ history'[m][t] = history[m][t]
      BY <1>5, <3>1
    <3> QED  BY <1>2, <3>2 DEF LastUse
  <2> QED  BY <2>1, <2>2, <2>3 DEF LastUse
<1>10. FailedOpenLast'
  BY <1>1, <1>2 DEF FailedOpenLast
<1>11. RepliesOwed'  BY <1>1, <1>6, OwedByReply
<1> QED  BY <1>3, <1>5, <1>8, <1>9, <1>10, <1>11 DEF LimiterInv

LEMMA RefuseScriptStep ==
  ASSUME LimiterInv, NEW n \in Nodes, RefuseScript(n)
  PROVE  LimiterInv'
<1>1. /\ wire[n] # <<>> /\ wire' = [wire EXCEPT ![n] = Tail(@)]
      /\ UNCHANGED <<time, conn, buckets, pc, call, answer, obuf, reader, calls,
                     history, uncharged>>
      /\ Replied(n, FALSE, "error")
  BY DEF RefuseScript
<1>2. TypeOK /\ FailedOpenLast /\ time \in Nat  BY DEF LimiterInv, TypeOK
<1>3. wire' \in [Nodes -> Seq(Commands)] /\ StampsPast'  BY <1>1, WireTail
<1>4. BucketsAccounted' /\ LastUse'  BY <1>1, <1>2, BucketsKept
<1>5. replies' \in [Nodes -> Seq(Replies)]  BY <1>1, RepliedType
<1>6. TypeOK'  BY <1>1, <1>2, <1>3, <1>5 DEF TypeOK
<1>7. FailedOpenLast'  BY <1>1, <1>2 DEF FailedOpenLast
<1>8. RepliesOwed'  BY <1>1, OwedByReply
<1> QED  BY <1>3, <1>4, <1>6, <1>7, <1>8 DEF LimiterInv

LEMMA TickStep == ASSUME LimiterInv, Tick PROVE LimiterInv'
<1>1. /\ time' = time + 1 /\ time < MaxTime
      /\ UNCHANGED <<conn, buckets, pc, call, answer, obuf, wire, replies, reader,
                     calls, history, uncharged>>
  BY DEF Tick
<1>2. TypeOK /\ StampsPast /\ FailedOpenLast /\ time \in Nat
      /\ MaxSkew \in Nat /\ MaxTime \in Nat
  BY PlacesSplit, BoundsAssumption DEF LimiterInv, TypeOK
<1>3. BucketsAccounted' /\ LastUse'  BY <1>1, <1>2, BucketsKept
<1>4. TypeOK'  BY <1>1, <1>2 DEF TypeOK
<1>5. StampsPast'
  <2>1. \A q \in Seq(Commands) : \A i \in DOMAIN q : q[i].stamp \in Nat
    <3> TAKE q \in Seq(Commands)
    <3>1. \A i \in DOMAIN q : q[i] \in Commands  OBVIOUS
    <3> QED  BY <3>1 DEF Commands
  <2>2. \A n \in Nodes : /\ \A i \in DOMAIN obuf[n] : obuf[n][i].stamp \in Nat
                         /\ \A i \in DOMAIN wire[n] : wire[n][i].stamp \in Nat
    BY <1>2, <2>1 DEF TypeOK
  <2> QED  BY <1>1, <1>2, <2>2 DEF StampsPast
<1>6. FailedOpenLast'  BY <1>1, <1>2 DEF FailedOpenLast
<1>7. RepliesOwed'
  BY <1>1, OwedKept DEF Waiters, Owed
<1> QED  BY <1>3, <1>4, <1>5, <1>6, <1>7 DEF LimiterInv

\* Nothing is owed on a connection that breaks.
LEMMA BreakStep ==
  ASSUME LimiterInv, NEW n \in Nodes, Break(n)
  PROVE  LimiterInv'
<1>1. /\ conn[n] = "live" /\ conn' = [conn EXCEPT ![n] = "broken"]
      /\ replies' = [replies EXCEPT ![n] = <<>>]
      /\ UNCHANGED <<time, buckets, pc, call, answer, obuf, wire, reader, calls,
                     history, uncharged>>
  BY DEF Break
<1>2. TypeOK /\ FailedOpenLast /\ time \in Nat  BY DEF LimiterInv, TypeOK
<1>3. BucketsAccounted' /\ LastUse'  BY <1>1, <1>2, BucketsKept
<1>4. TypeOK'
  <2>1. <<>> \in Seq(Replies)  OBVIOUS
  <2> QED  BY <1>1, <1>2, <2>1 DEF TypeOK
<1>5. StampsPast'  BY <1>1, StampsKept
<1>6. \A m \in Nodes : conn'[m] = IF m = n THEN "broken" ELSE conn[m]
  BY <1>1, <1>2 DEF TypeOK
<1>7. FailedOpenLast'
  BY <1>1, <1>2, <1>6, PlacesSplit DEF FailedOpenLast
<1>8. RepliesOwed'
  <2>1. \A m \in Nodes : m # n => replies'[m] = replies[m]
    BY <1>1, <1>2 DEF TypeOK
  <2>2. \A m \in Nodes : conn'[m] = "live" =>
          /\ conn[m] = "live" /\ Owed(m)' = Owed(m) /\ Waiters(m)' = Waiters(m)
    <3> SUFFICES ASSUME NEW m \in Nodes, conn'[m] = "live"
                 PROVE  /\ conn[m] = "live"
                        /\ Owed(m)' = Owed(m) /\ Waiters(m)' = Waiters(m)
      OBVIOUS
    <3>1. m # n /\ conn[m] = "live"  BY <1>6
    <3>2. Owed(m)' = Owed(m)  BY <1>1, <2>1, <3>1 DEF Owed
    <3>3. Waiters(m)' = Waiters(m)  BY <1>1 DEF Waiters
    <3> QED  BY <3>1, <3>2, <3>3
  <2> QED  BY <2>2, OwedKept
<1> QED  BY <1>3, <1>4, <1>5, <1>7, <1>8 DEF LimiterInv

LEMMA LoseStep ==
  ASSUME LimiterInv, NEW n \in Nodes, Lose(n)
  PROVE  LimiterInv'
<1>1. /\ conn[n] # "live" /\ wire' = [wire EXCEPT ![n] = <<>>]
      /\ UNCHANGED <<time, conn, buckets, pc, call, answer, obuf, replies, reader,
                     calls, history, uncharged>>
  BY DEF Lose
<1>2. TypeOK /\ StampsPast /\ FailedOpenLast /\ time \in Nat
  BY DEF LimiterInv, TypeOK
<1>3. BucketsAccounted' /\ LastUse'  BY <1>1, <1>2, BucketsKept
<1>4. TypeOK'
  <2>1. <<>> \in Seq(Commands)  OBVIOUS
  <2> QED  BY <1>1, <1>2, <2>1 DEF TypeOK
<1>5. StampsPast'
  <2>1. \A m \in Nodes : wire'[m] = wire[m] \/ wire'[m] = <<>>
    BY <1>1, <1>2 DEF TypeOK
  <2> QED  BY <1>1, <2>1, StampsKept
<1>6. FailedOpenLast'  BY <1>1, <1>2 DEF FailedOpenLast
<1>7. RepliesOwed'
  <2>1. \A m \in Nodes : m # n => wire'[m] = wire[m]
    BY <1>1, <1>2 DEF TypeOK
  <2> QED  BY <1>1, <2>1, OwedKept DEF Waiters, Owed
<1> QED  BY <1>3, <1>4, <1>5, <1>6, <1>7 DEF LimiterInv

\* The limiter keeps its invariant whatever nodes, threads and Redis do.
THEOREM LimiterInvHolds == Spec => []LimiterInv
<1>1. ASSUME LimiterInv, [Next]_vars PROVE LimiterInv'
  <2>1. CASE UNCHANGED vars
    BY <1>1, <2>1 DEF vars, LimiterInv, TypeOK, BucketsAccounted, StampsPast,
                      LastUse, FailedOpenLast, RepliesOwed, Waiters, Owed
  <2>2. ASSUME NEW th \in Threads, Proceed(th) PROVE LimiterInv'
    BY <1>1, <2>2, AppendCommandStep, TakeBufferedStep, WriteBufferStep, ReadStep,
       CommandFailsStep, FreeContextStep, FailOpenStep, UseFreedStep
    DEF Proceed
  <2>3. ASSUME NEW th \in Threads, ThreadStep(th) PROVE LimiterInv'
    BY <1>1, <2>2, <2>3, AllowLocalStep, ReadClockStep DEF ThreadStep
  <2>4. ASSUME NEW n \in Nodes,
               RunScript(n) \/ RefuseScript(n) \/ Break(n) \/ Lose(n)
        PROVE  LimiterInv'
    BY <1>1, <2>4, RunScriptStep, RefuseScriptStep, BreakStep, LoseStep
  <2> QED  BY <1>1, <2>1, <2>3, <2>4, TickStep DEF Next
<1> QED  BY <1>1, LimiterInit, PTL DEF Spec

-----------------------------------------------------------------------------
(* What follows. *)

\* Types of the limiter's state (rate_limiter.h:22-37).
THEOREM LimiterTypes == Spec => []TypeOK
<1>1. LimiterInv => TypeOK  BY DEF LimiterInv
<1> QED  BY <1>1, LimiterInvHolds, PTL

\* Using a bucket is a call of QuotaService on its key.
LEMMA UseBucketServes ==
  ASSUME NEW p \in Places, NEW t \in Tenants, NEW now \in Nat,
         TypeOK, BucketsAccounted, UseBucket(p, t, now)
  PROVE  Quota!Next
<1> DEFINE k == <<p, t>>
           b == buckets[p][t]
           h == history[p][t]
           n == Recorded(b, h, now)
           at == h.clock + Elapsed(b, now)
           room == /\ Burst > 0
                   /\ \A i \in DOMAIN h.grants :
                        (Len(h.grants) - i + 2) * Cost
                           <= Burst * Cost + Rate * (at - h.grants[i])
<1>1. /\ history \in [Places -> [Tenants -> HistoryOf]]
      /\ b \in Bucket \cup {NoBucket} /\ h \in HistoryOf /\ Accounted(b, h)
  BY DEF TypeOK, BucketsAccounted
<1>2. /\ n.clock = at /\ at \in Nat /\ at >= h.clock
      /\ room => n.grants = Append(h.grants, at) /\ n.verdict = "granted"
      /\ ~room => n.grants = h.grants /\ n.verdict = "refused"
  <2> HIDE DEF b, h
  <2> QED  BY <1>1, CallAccounts
<1>3. history' = [history EXCEPT ![p][t] = n]  BY DEF UseBucket
<1> HIDE DEF n, at
<1> DEFINE clock == [x \in Keys |-> history[x[1]][x[2]].clock]
           grants == [x \in Keys |-> history[x[1]][x[2]].grants]
           verdict == [x \in Keys |-> history[x[1]][x[2]].verdict]
<1>4. k \in Keys /\ k[1] = p /\ k[2] = t  BY DEF Keys
<1>5. \A x \in Keys : history'[x[1]][x[2]] = IF x = k THEN n
                                             ELSE history[x[1]][x[2]]
  BY <1>1, <1>3 DEF Keys
<1>6. /\ clock' = [clock EXCEPT ![k] = at]
      /\ clock'[k] = at /\ clock[k] = h.clock
  BY <1>2, <1>4, <1>5
<1>7. grants[k] = h.grants /\ verdict[k] = h.verdict  BY <1>4
<1>8. CASE room
  <2>1. grants' = [grants EXCEPT ![k] = Append(@, at)]
    BY <1>2, <1>4, <1>5, <1>7, <1>8
  <2>2. verdict' = [verdict EXCEPT ![k] = "granted"]
    BY <1>2, <1>4, <1>5, <1>8
  <2>3. Quota!Room(k, at)
    BY <1>4, <1>8 DEF Quota!Room
  <2>4. Quota!Call(k)
    BY <1>2, <1>6, <2>1, <2>2, <2>3 DEF Quota!Call
  <2> QED  BY <1>4, <2>4 DEF Quota!Next
<1>9. CASE ~room
  <2>1. grants' = grants
    BY <1>2, <1>4, <1>5, <1>7, <1>9
  <2>2. verdict' = [verdict EXCEPT ![k] = "refused"]
    BY <1>2, <1>4, <1>5, <1>9
  <2>3. ~Quota!Room(k, at)
    BY <1>4, <1>9 DEF Quota!Room
  <2>4. Quota!Call(k)
    BY <1>2, <1>6, <2>1, <2>2, <2>3 DEF Quota!Call
  <2> QED  BY <1>4, <2>4 DEF Quota!Next
<1> QED  BY <1>8, <1>9

\* Every bucket, in Redis or on a node, implements the quota: it grants exactly
\* the calls that no interval of its clock forbids (17-24, 63, 97-99).
THEOREM LimiterImplementsQuota == Spec => QuotaSpec
<1>1. Init => Quota!Init
  BY DEF Init, Quota!Init, Keys, NoHistory
<1>2. ASSUME LimiterInv, [Next]_vars PROVE [Quota!Next]_(Quota!vars)
  <2>1. TypeOK /\ BucketsAccounted  BY <1>2 DEF LimiterInv
  <2>2. CASE UNCHANGED history
    BY <2>2 DEF Quota!vars
  <2>3. ASSUME NEW th \in Threads, NEW t \in Tenants, AllowLocal(th, t)
        PROVE  Quota!Next
    <3>1. NodeOf[th] \in Places /\ time \in Nat  BY <2>1, PlacesSplit DEF TypeOK
    <3>2. UseBucket(NodeOf[th], t, time)  BY <2>3 DEF AllowLocal
    <3> QED  BY <2>1, <3>1, <3>2, UseBucketServes
  <2>4. ASSUME NEW n \in Nodes, RunScript(n) PROVE Quota!Next
    <3> DEFINE c == Head(wire[n])
    <3>1. UseBucket(Redis, c.tenant, c.stamp)  BY <2>4 DEF RunScript
    <3>2. c \in Commands
      <4>1. wire[n] # <<>> /\ wire[n] \in Seq(Commands)
        BY <2>1, <2>4 DEF RunScript, TypeOK
      <4> QED  BY <4>1
    <3>3. c.tenant \in Tenants /\ c.stamp \in Nat  BY <3>2 DEF Commands
    <3> HIDE DEF c
    <3> QED  BY <2>1, <3>1, <3>3, PlacesSplit, UseBucketServes
  <2> QED
    BY <1>2, <2>2, <2>3, <2>4
    DEF Next, ThreadStep, Proceed, ReadClock, AppendCommand, TakeBuffered,
        WriteBuffer, Read, CommandFails, FreeContext, FailOpen, UseFreed,
        RefuseScript, Break, Lose, Tick, vars
<1> QED  BY <1>1, <1>2, LimiterInvHolds, PTL DEF Spec, QuotaSpec, Quota!Spec

\* What a bucket has granted in all, from the account of its first grant.
LEMMA GrantedInAll ==
  ASSUME NEW b \in Bucket \cup {NoBucket}, NEW h \in HistoryOf, Accounted(b, h)
  PROVE  /\ Len(h.grants) * Cost <= Full + Rate * h.clock
         /\ h.clock <= h.setback + IF b.last < 0 THEN 0 ELSE b.last
<1>1. /\ h.clock \in Nat /\ h.setback \in Nat /\ h.grants \in Seq(Nat)
      /\ Full \in Nat /\ Rate \in Nat /\ Cost \in Nat
      /\ Rate * h.clock \in Nat
  BY FullIsNat DEF HistoryOf
<1>2. CASE h.grants = <<>>
  <2>1. Len(h.grants) * Cost = 0  BY <1>1, <1>2
  <2> QED
    BY <1>1, <2>1 DEF Accounted, NoHistory, NoBucket, Bucket
<1>3. CASE h.grants # <<>>
  <2>1. b # NoBucket  BY <1>3 DEF Accounted, NoHistory
  <2>2. /\ b.last \in Nat /\ b.tokens \in Nat
        /\ h.clock <= b.last + h.setback
        /\ Covered(b.tokens, h.clock, h.grants)
    BY <1>1, <2>1 DEF Accounted, Bucket
  <2>3. 1 \in DOMAIN h.grants /\ h.grants[1] \in Nat /\ Len(h.grants) - 1 + 1 = Len(h.grants)
    BY <1>1, <1>3
  <2>4. From(h.grants, 1) = Len(h.grants) * Cost  BY <2>3 DEF From
  <2>5. From(h.grants, 1) <= Full - b.tokens + Rate * (h.clock - h.grants[1])
    BY <2>2, <2>3 DEF Covered
  <2>6. Rate * (h.clock - h.grants[1]) = Rate * h.clock - Rate * h.grants[1]
        /\ Rate * h.grants[1] \in Nat
    BY <1>1, <2>3
  <2>7. From(h.grants, 1) \in Int  BY <1>1, FromIsInt
  <2>8. Len(h.grants) * Cost <= Full + Rate * h.clock
    <3> DEFINE taken == Len(h.grants) * Cost
               earned == Rate * h.clock
               before == Rate * h.grants[1]
    <3>1. /\ taken \in Int /\ earned \in Nat /\ before \in Nat
          /\ taken <= Full - b.tokens + (earned - before)
      BY <1>1, <2>4, <2>5, <2>6, <2>7
    <3> HIDE DEF taken, earned, before
    <3>2. taken <= Full + earned  BY <1>1, <2>2, <3>1
    <3> QED  BY <3>2 DEF taken, earned
  <2>9. h.clock <= h.setback + IF b.last < 0 THEN 0 ELSE b.last
    BY <1>1, <2>2
  <2> QED  BY <2>8, <2>9
<1> QED  BY <1>2, <1>3

\* Credit grows with time.
LEMMA EarnedGrows ==
  ASSUME NEW a \in Nat, NEW b \in Nat, a <= b
  PROVE  Rate * a <= Rate * b /\ Rate * b \in Nat
<1>1. b - a \in Nat  OBVIOUS
<1>2. Rate * (b - a) \in Nat /\ Rate * (b - a) = Rate * b - Rate * a
      /\ Rate * a \in Nat /\ Rate * b \in Nat
  BY <1>1, FullIsNat
<1> QED  BY <1>2

\* The shared bucket exceeds the quota of real time by no more than the
\* difference between the clocks and what it was set back (17, 20, 25, 72).
THEOREM SharedOvershoot == Spec => []OvershootIsSetback
<1>1. ASSUME LimiterInv PROVE OvershootIsSetback
  <2> SUFFICES ASSUME NEW t \in Tenants
               PROVE  Len(history[Redis][t].grants) * Cost
                        <= Full + Rate * (time + MaxSkew + history[Redis][t].setback)
    BY DEF OvershootIsSetback
  <2> DEFINE b == buckets[Redis][t]
             h == history[Redis][t]
  <2>1. /\ b \in Bucket \cup {NoBucket} /\ h \in HistoryOf /\ Accounted(b, h)
        /\ time \in Nat /\ MaxSkew \in Nat /\ b.last <= time + MaxSkew
    BY <1>1, PlacesSplit DEF LimiterInv, TypeOK, BucketsAccounted, LastUse
  <2> HIDE DEF b, h
  <2>2. h.clock \in Nat /\ h.setback \in Nat /\ h.grants \in Seq(Nat) /\ b.last \in Int
    BY <2>1 DEF HistoryOf, Bucket, NoBucket
  <2>3. h.clock <= time + MaxSkew + h.setback
    BY <2>1, <2>2, GrantedInAll
  <2>4. Rate * h.clock <= Rate * (time + MaxSkew + h.setback)
        /\ Rate * (time + MaxSkew + h.setback) \in Nat /\ Rate * h.clock \in Nat
    <3> DEFINE until == time + MaxSkew + h.setback
    <3>1. until \in Nat /\ h.clock \in Nat /\ h.clock <= until
      BY <2>1, <2>2, <2>3
    <3> HIDE DEF until
    <3>2. Rate * h.clock <= Rate * until /\ Rate * until \in Nat
      BY <3>1, EarnedGrows
    <3>3. Rate * h.clock \in Nat
      BY <3>1, EarnedGrows
    <3> QED  BY <3>2, <3>3 DEF until
  <2>5. Len(h.grants) * Cost <= Full + Rate * h.clock /\ Len(h.grants) * Cost \in Nat
    BY <2>1, <2>2, GrantedInAll, FullIsNat
  <2>6. Len(h.grants) * Cost <= Full + Rate * (time + MaxSkew + h.setback)
    BY <2>4, <2>5, FullIsNat
  <2> QED  BY <2>6 DEF h
<1> QED  BY <1>1, LimiterInvHolds, PTL

\* A node's own bucket keeps the quota of real time: its clock is read under
\* the mutex (93-97).
THEOREM LocalQuotaKept == Spec => []LocalQuota
<1>1. ASSUME LimiterInv PROVE LocalQuota
  <2> SUFFICES ASSUME NEW n \in Nodes, NEW t \in Tenants
               PROVE  /\ history[n][t].setback = 0
                      /\ Len(history[n][t].grants) * Cost <= Full + Rate * time
                      /\ Paced(history[n][t].grants)
    BY DEF LocalQuota
  <2> DEFINE b == buckets[n][t]
             h == history[n][t]
  <2>1. /\ b \in Bucket \cup {NoBucket} /\ h \in HistoryOf /\ Accounted(b, h)
        /\ time \in Nat /\ b.last <= time /\ h.setback = 0
    BY <1>1, PlacesSplit DEF LimiterInv, TypeOK, BucketsAccounted, LastUse
  <2> HIDE DEF b, h
  <2>2. h.clock \in Nat /\ h.grants \in Seq(Nat) /\ b.last \in Int
    BY <2>1 DEF HistoryOf, Bucket, NoBucket
  <2>3. h.clock <= time
    BY <2>1, <2>2, GrantedInAll
  <2>4. Rate * h.clock <= Rate * time /\ Rate * time \in Nat /\ Rate * h.clock \in Nat
    BY <2>1, <2>2, <2>3, EarnedGrows
  <2>5. Len(h.grants) * Cost <= Full + Rate * h.clock /\ Len(h.grants) * Cost \in Nat
    BY <2>1, <2>2, GrantedInAll, FullIsNat
  <2>6. Len(h.grants) * Cost <= Full + Rate * time
    BY <2>4, <2>5, FullIsNat
  <2>7. Paced(h.grants)
    BY <2>1 DEF Accounted, NoHistory, Paced
  <2> QED  BY <2>1, <2>6, <2>7 DEF h
<1> QED  BY <1>1, LimiterInvHolds, PTL

\* On a good connection exactly one reply is owed for each thread that waits,
\* in one of the four places it can be (68, 76, 82).
THEOREM OneReplyEach == Spec => []RepliesOwed
<1>1. LimiterInv => RepliesOwed  BY DEF LimiterInv
<1> QED  BY <1>1, LimiterInvHolds, PTL

\* An outage lets at most one call of each thread through uncharged, however
\* many threads find out at once and free the context they share (68, 80-84).
THEOREM OneUncharged == Spec => []OneUnchargedEach
<1>1. ASSUME LimiterInv PROVE OneUnchargedEach
  <2>1. \A th \in Threads : uncharged[th] = 0 \/ uncharged[th] = 1
    BY <1>1 DEF LimiterInv, FailedOpenLast
  <2> QED  BY <2>1 DEF OneUnchargedEach
<1> QED  BY <1>1, LimiterInvHolds, PTL
=============================================================================
