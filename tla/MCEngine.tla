------------------------------- MODULE MCEngine -------------------------------
(***************************************************************************)
(* Model-checking instance of the engine: three requests for two slots.    *)
(* ra has a prompt of full typical length and runs to the global limit, rb *)
(* has a short prompt and its own, smaller limit, and the prompt of rc     *)
(* does not tokenize.  Either of ra and rb can use a slot another had.     *)
(***************************************************************************)
EXTENDS EngineInvariant, TLC

CONSTANTS ra, rb, rc, t1

MCRequests  == {ra, rb, rc}
MCTokens    == {t1}
MCPromptLen == ra :> 3 @@ rb :> 1 @@ rc :> 0
MCMaxNew    == ra :> 0 @@ rb :> 1 @@ rc :> 0
=============================================================================
