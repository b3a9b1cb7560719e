------------------------------ MODULE MCLimiter ------------------------------
(***************************************************************************)
(* Two instances of the limiter: two handler threads of one node, and two  *)
(* nodes with a thread each, one of which has a clock that is ahead.  All  *)
(* serve one tenant.                                                       *)
(***************************************************************************)
EXTENDS LimiterInvariant, TLC

CONSTANTS na, nb, a1, a2, b1, ta

OneNode         == {na}
OneNodeThreads  == {a1, a2}
OneNodeOf       == a1 :> na @@ a2 :> na
OneNodeSkew     == na :> 0
OneTenant       == {ta}

TwoNodes        == {na, nb}
TwoNodesThreads == {a1, b1}
TwoNodesOf      == a1 :> na @@ b1 :> nb
TwoNodesSkew    == na :> 0 @@ nb :> 1
=============================================================================
