--------------------------- MODULE EngineInvariant ---------------------------
(***************************************************************************)
(* An inductive invariant of the engine.  The safety properties of a slot  *)
(* (EngineProperties) are true between two decode steps because of what    *)
(* the control point says about the engine's local vectors and about the   *)
(* arrays; Phases and SlotsReady state it at every control point.          *)
(***************************************************************************)
EXTENDS EngineProperties

\* What the control point says about the local vectors and the batch: they
\* live from the line that fills them to the end of the iteration (82-91,
\* 179-182, 198-230, 247-278).
Phases ==
  /\ pc # "admit"  => to_admit = <<>>
  /\ pc # "decode" => \A s \in SlotIds : batch[s] = {}
  /\ pc = "decode" => active = OccupiedIds
  /\ pc = "sample" => todo \subseteq OccupiedIds /\ OccupiedIds \subseteq active
  /\ pc # "sample" => todo = {}
  /\ pc \notin {"decode", "sample"} => active = {}

\* A slot in prefill has its own prompt and nothing cached, until the decode
\* caches the prompt and the sampling loop, which visits it, ends its prefill;
\* a slot past its prefill has a token to feed back (125-131, 204-225, 258-259).
SlotsReady ==
  \A s \in OccupiedIds :
    /\ samplers[s]
    /\ ~in_prefill[s] => slots[s].last_token \in Tokens
    /\ in_prefill[s] =>
         /\ prompt_tokens[s] = slots[s].request
         /\ PromptLen[slots[s].request] > 0
         /\ pc = "sample" => s \in todo
         /\ pc # "sample" => kv[s] = {}
         /\ pc \in {"decode", "sample"} =>
              slots[s].kv_pos = PromptLen[slots[s].request]

\* The part about slots is inductive by itself.
SlotsInv ==
  /\ TypeOK
  /\ PoolOK
  /\ Phases
  /\ SlotsReady
  /\ AcquireNeverFails
  /\ CellsFollowRequest
  /\ OwnTextOnly
  /\ PositionsAgree
  /\ InflightBalanced

\* What the idle wait knows: no slot is in use; once its predicate was false with the
\* mutex held, what is in the queue was pushed since and its caller is about to notify
\* (164-171). And the thread ends only when it was told to (163, 171).
IdleInv ==
  /\ pc \in {"idle", "parking", "waiting"} => OccupiedIds = {}
  /\ pc = "parking" => pending = <<>>
  /\ pc = "waiting" => \A i \in DOMAIN pending : caller[pending[i]] = "pushed"
  /\ pc = "exited" => ~running

\* The inductive invariant: no step of the engine or of a caller breaks it.
EngineInv == SlotsInv /\ IdleInv

\* The answers the engine counts.
Served == {"ok", "deadline_exceeded", "decode_failed"}

\* What is inductive on top of it: where each request is, and how it was answered.
ServiceInv ==
  /\ AnsweredOnce
  /\ OnePlaceEach
  /\ AnswersCounted
  /\ IsFiniteSet(AnsweredWith(Served))
=============================================================================
