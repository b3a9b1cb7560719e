-------------------------- MODULE MCEngineDocClaims --------------------------
(***************************************************************************)
(* The instance of EngineDocClaims the claims are checked on: two requests *)
(* with typical prompts for one slot, of low and of high priority.         *)
(***************************************************************************)
EXTENDS EngineDocClaims, TLC

CONSTANTS ra, rb, t1

MCRequests  == {ra, rb}
MCTokens    == {t1}
MCPromptLen == ra :> 1 @@ rb :> 1
MCMaxNew    == ra :> 0 @@ rb :> 3
MCPriority  == ra :> 0 @@ rb :> 2
=============================================================================
