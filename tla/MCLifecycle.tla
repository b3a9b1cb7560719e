----------------------------- MODULE MCLifecycle -----------------------------
(***************************************************************************)
(* Model-checking instance of the life cycle: one connection and one gRPC  *)
(* call, each with a request for the engine, and two signals.              *)
(***************************************************************************)
EXTENDS LifecycleDocClaims

CONSTANTS k1, g1

MCConns == {k1}
MCRpcs  == {g1}
=============================================================================
