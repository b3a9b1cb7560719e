----------------------------- MODULE TokenBucket -----------------------------
(***************************************************************************)
(* One tenant's bucket and what one call does to it: the Lua script that   *)
(* Redis runs (src/rate_limiter.cpp:8-28) and allow_local with refill      *)
(* (61-65, 92-101), which compute the same.  A token is Cost units, so     *)
(* that the doubles of the code are integers here: Rate is the number of   *)
(* units earned in one tick of the clock.                                  *)
(***************************************************************************)
EXTENDS Integers

CONSTANTS
  Rate,   \* units earned per tick (rate_rps_)
  Burst,  \* tokens of a full bucket (burst_)
  Cost    \* units of one token

ASSUME RateAssumption  == Rate \in Nat
ASSUME BurstAssumption == Burst \in Nat
ASSUME CostAssumption  == Cost \in Nat \ {0}

Full     == Burst * Cost
Bucket   == [tokens : 0 .. Full, last : Nat]
NoBucket == [tokens |-> 0, last |-> -1]

Smaller(a, b) == IF a < b THEN a ELSE b

\* Time a call at now earns credit for: none if the bucket was already used
\* with a later time, as math.max(0, ...) has it (17).
Elapsed(b, now) == IF b = NoBucket \/ now < b.last THEN 0 ELSE now - b.last

Refill(tokens, elapsed) == Smaller(Full, tokens + elapsed * Rate)

\* The bucket a call at now looks at: full for a new tenant.
Refilled(b, now) ==
  [tokens |-> IF b = NoBucket THEN Full ELSE Refill(b.tokens, Elapsed(b, now)),
   last   |-> now]

\* Mutant: any credit left passes for a token.
MutHasToken(b) == b.tokens > 0
HasToken(b)    == b.tokens >= Cost

\* Mutant: a refused call keeps the old time and earns the same credit again.
MutAfterCall(b, now) ==
  IF HasToken(Refilled(b, now))
    THEN [Refilled(b, now) EXCEPT !.tokens = @ - Cost]
    ELSE [Refilled(b, now) EXCEPT !.last = IF b = NoBucket THEN now ELSE b.last]
\* The bucket a call at now leaves.
AfterCall(b, now) ==
  IF HasToken(Refilled(b, now))
    THEN [Refilled(b, now) EXCEPT !.tokens = @ - Cost]
    ELSE Refilled(b, now)
=============================================================================
