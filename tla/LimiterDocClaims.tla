--------------------------- MODULE LimiterDocClaims ---------------------------
(***************************************************************************)
(* What the repository's documents and comments say of the rate limiter    *)
(* and the code does not do.  Each claim is refuted by a run of its own.   *)
(***************************************************************************)
EXTENDS LimiterProperties

\* include/rate_limiter.h:18, "Thread-safe. Returns true if the request is
\* allowed": allow() returns the answer to its own command.  Threads share the
\* connection and take whichever reply comes next (rate_limiter.cpp:76).
OwnVerdict ==
  \A th \in Threads : answer[th].via \in {"redis", "error"} => answer[th].by = th

\* README.md:149, "Rate limits are enforced via a Redis token-bucket Lua script,
\* so all nodes share per-tenant quota": the shared bucket grants no more than
\* the burst and what the rate has earned so far.  A script may run with an
\* earlier time than the one before it and have the same time credited twice
\* (rate_limiter.cpp:17, 20, 72).
QuotaShared ==
  \A t \in Tenants : Len(history[Redis][t].grants) * Cost <= Full + Rate * time
=============================================================================
