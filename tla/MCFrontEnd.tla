------------------------------ MODULE MCFrontEnd ------------------------------
(***************************************************************************)
(* Model-checking instance of the front ends: two connections for one      *)
(* worker thread that is sure to be there and one the pool may grow by, a  *)
(* gRPC call beside them, and one slot in the engine.                      *)
(***************************************************************************)
EXTENDS FrontEndProperties, TLC

CONSTANTS k1, k2, g1

MCConns == {k1, k2}
MCRpcs  == {g1}
MCEndpoint == <<k1, 1>> :> "infer" @@ <<k1, 2>> :> "chat"
              @@ <<k2, 1>> :> "plain" @@ <<k2, 2>> :> "none" @@ g1 :> "infer"
=============================================================================
