-------------------------- MODULE MCLimiterDocClaims --------------------------
(***************************************************************************)
(* The instances of LimiterDocClaims the claims are checked on: two        *)
(* threads on one node, or on a node each with equal clocks.               *)
(***************************************************************************)
EXTENDS LimiterDocClaims, TLC

CONSTANTS na, nb, t1, t2, ta

MCThreads  == {t1, t2}
MCTenants  == {ta}

OneNode    == {na}
OneNodeOf  == t1 :> na @@ t2 :> na
OneSkew    == na :> 0

TwoNodes   == {na, nb}
TwoNodesOf == t1 :> na @@ t2 :> nb
TwoSkews   == na :> 0 @@ nb :> 0
=============================================================================
