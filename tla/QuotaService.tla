----------------------------- MODULE QuotaService -----------------------------
(***************************************************************************)
(* What a rate limiter promises for each key, without buckets: over every  *)
(* interval of the key's clock at most Burst calls plus what Rate earns in *)
(* it are granted, and a call is refused only if granting it would exceed  *)
(* that in some interval.  RateLimiter implements it, for the shared       *)
(* bucket and for each node's own bucket of each tenant.                   *)
(***************************************************************************)
EXTENDS Integers, Sequences

CONSTANTS Keys, Rate, Burst, Cost

VARIABLES
  clock,    \* clock[k]: the time of the latest call for k
  grants,   \* grants[k]: the times of the granted calls, in order
  verdict   \* verdict[k]: the latest answer

vars == <<clock, grants, verdict>>

\* A call for k at time now fits the quota of every interval that ends with it.
Room(k, now) ==
  /\ Burst > 0
  /\ \A i \in DOMAIN grants[k] :
       (Len(grants[k]) - i + 2) * Cost
          <= Burst * Cost + Rate * (now - grants[k][i])

Init ==
  /\ clock = [k \in Keys |-> 0]
  /\ grants = [k \in Keys |-> <<>>]
  /\ verdict = [k \in Keys |-> "none"]

\* A call for k arrives at time clock'[k].
Call(k) ==
  /\ clock'[k] \in Nat /\ clock'[k] >= clock[k]
  /\ clock' = [clock EXCEPT ![k] = clock'[k]]
  /\ \/ /\ Room(k, clock'[k])
        /\ grants' = [grants EXCEPT ![k] = Append(@, clock'[k])]
        /\ verdict' = [verdict EXCEPT ![k] = "granted"]
     \/ /\ ~Room(k, clock'[k])
        /\ verdict' = [verdict EXCEPT ![k] = "refused"]
        /\ UNCHANGED grants

Next == \E k \in Keys : Call(k)

Spec == Init /\ [][Next]_vars
=============================================================================
