--------------------------- MODULE EngineProperties ---------------------------
(***************************************************************************)
(* What makes the decode engine correct.  Line numbers without a file name *)
(* are those of src/continuous_batch_engine.cpp.                           *)
(***************************************************************************)
EXTENDS ContinuousBatchEngine

Values == {"none", "ok", "tokenization_failed", "deadline_exceeded",
           "decode_failed"}

PromiseState == [calls : Nat, value : Values, text : SUBSET Requests]

Metrics == [requests_total             : Int,
            requests_deadline_exceeded : Int,
            requests_inflight          : Int,
            kv_slot_utilization        : Int]

ControlPoints == {"loop", "idle", "parking", "waiting", "drain", "admit",
                  "build", "decode", "sample", "exited"}

\* Types of the engine's state (continuous_batch_engine.h:41-61).
TypeOK ==
  /\ SlotTypeOK
  /\ pending \in Seq(Requests)
  /\ to_admit \in Seq(Requests)
  /\ running \in BOOLEAN
  /\ caller \in [Requests -> {"new", "pushed", "notified"}]
  /\ stopper \in {"idle", "stopping", "joining", "joined"}
  /\ late \in SUBSET Requests
  /\ promise \in [Requests -> PromiseState]
  /\ pc \in ControlPoints
  /\ active \in SUBSET SlotIds
  /\ todo \in SUBSET SlotIds
  /\ batch \in [SlotIds -> SUBSET Cells]
  /\ samplers \in [SlotIds -> BOOLEAN]
  /\ results \in [SlotIds -> SUBSET Requests]
  /\ prompt_tokens \in [SlotIds -> Requests \cup {NoRequest}]
  /\ tokens_generated \in [SlotIds -> Nat]
  /\ in_prefill \in [SlotIds -> BOOLEAN]
  /\ metrics \in Metrics

-----------------------------------------------------------------------------
(* Requests: each has one place, and one answer. *)

\* The requests not in a slot yet, oldest first.
Waiting == to_admit \o pending

Queued(r) == \E i \in DOMAIN Waiting : Waiting[i] = r

\* on_complete is called at most once, and not before its request was submitted:
\* a second set_value on the promise would throw in the engine thread (119, 140,
\* 237, 271; server.cpp:28-31).
AnsweredOnce ==
  \A r \in Requests : /\ promise[r].calls <= 1
                      /\ promise[r].calls = 0 <=> promise[r].value = "none"
                      /\ caller[r] = "new" => promise[r].calls = 0

\* A request that was pushed and not answered is in the queue, in to_admit or
\* in a slot, in one place only; any other request is in none of them.  So
\* none is dropped between the drain and acquire() (82-101), and none is
\* served twice or after its answer.
OnePlaceEach ==
  /\ \A r \in Requests :
       (caller[r] # "new" /\ promise[r].calls = 0) <=> (Queued(r) \/ r \in Held)
  /\ \A r \in Requests : ~(Queued(r) /\ r \in Held)
  /\ \A i, j \in DOMAIN Waiting : Waiting[i] = Waiting[j] => i = j
  /\ \A s, t \in OccupiedIds : slots[s].request = slots[t].request => s = t

\* acquire() never returns -1 to admit_pending ("acquire failed unexpectedly",
\* 99): whatever was drained still fits in the free slots.
AcquireNeverFails == Len(to_admit) <= Cardinality(FreeIds)

-----------------------------------------------------------------------------
(* Slots: what one sequence leaves behind never reaches another. *)

\* The cells of a sequence, with those being decoded, are its request's own,
\* one per position below kv_pos; a free slot has none (README.md:24).
CellsFollowRequest ==
  \A s \in SlotIds :
    kv[s] \cup batch[s] =
      IF slots[s].occupied
        THEN {slots[s].request} \X (0 .. slots[s].kv_pos - 1)
        ELSE {}

\* A caller gets its own text only: results_[sid] is clean when a slot changes
\* hands (126, 153, 271).
OwnTextOnly ==
  /\ \A r \in Requests : promise[r].text \subseteq {r}
  /\ \A s \in OccupiedIds : results[s] \subseteq {slots[s].request}

\* A slot in prefill has its own prompt, at least one token long, and an empty
\* cache; a slot being generated has a token to feed back (205-225).
ReadyToDecode ==
  pc = "build" => \A s \in OccupiedIds :
    IF in_prefill[s]
      THEN prompt_tokens[s] = slots[s].request
             /\ PromptLen[prompt_tokens[s]] > 0 /\ kv[s] = {}
      ELSE slots[s].last_token \in Tokens

\* A slot about to be sampled is still occupied, with a sampler, and was in the
\* batch: the test at 248 never skips one.
ReadyToSample ==
  pc = "sample" => \A s \in todo : s \in active /\ slots[s].occupied /\ samplers[s]

\* The counters of a slot in use agree: a sequence has cached its prompt and
\* all its generated tokens but the last, and is still below its limit (216,
\* 220, 260-266).
PositionsAgree ==
  \A s \in OccupiedIds :
    LET r      == slots[s].request
        cached == tokens_generated[s] + PromptLen[r]
    IN /\ tokens_generated[s] < Limit(r)
       /\ in_prefill[s] => tokens_generated[s] = 0
       /\ ~in_prefill[s] =>
            slots[s].kv_pos =
              IF pc = "decode" \/ (pc = "sample" /\ s \in todo)
                THEN cached ELSE cached - 1

\* While prompts are typical and no request asks for more than max_tokens, the
\* context has room for every batch (36-37, 41, 229).
ContextSufficient ==
  (\A r \in Requests : PromptLen[r] <= PromptReserve /\ MaxNew[r] <= MaxTokens)
    => (pc = "decode" => Fits)

-----------------------------------------------------------------------------
(* Nobody waits for what will not come. *)

\* The engine thread sleeps, or is about to, only when every request that was
\* pushed has been answered, or its caller has yet to notify: a request never waits
\* beside a thread that nobody will wake (64-70, 164-171).
SleepsOnNoRequest ==
  pc \in {"parking", "waiting"} =>
    \A r \in Requests :
      caller[r] # "new" /\ promise[r].calls = 0 => pc = "waiting" /\ caller[r] = "pushed"

\* At most how many steps of the engine thread lie before slot s is sampled.
StepsToToken(s) ==
  CASE pc = "sample" /\ s \in todo -> Cardinality({t \in todo : t <= s})
    [] pc = "decode" -> MaxSlots + 1
    [] pc = "build"  -> MaxSlots + 2
    [] pc = "admit"  -> MaxSlots + 3 + Len(to_admit)
    [] pc = "drain"  -> 2 * MaxSlots + 4
    [] pc = "loop"   -> 2 * MaxSlots + 5
    [] pc = "sample" /\ s \notin todo -> 2 * MaxSlots + 6 + Cardinality(todo)
    [] OTHER -> 0

\* No slot is passed over: whatever else the engine thread does for the queue and
\* for the other slots, each of its steps brings a slot in use nearer its next token,
\* gives it that token, retires it, or ends the thread (164-278).
SlotsServed ==
  [][EngineStep /\ pc' # "exited" =>
       \A s \in OccupiedIds : slots'[s].occupied =>
         \/ tokens_generated'[s] = tokens_generated[s] + 1
         \/ /\ tokens_generated'[s] = tokens_generated[s]
            /\ StepsToToken(s)' < StepsToToken(s)]_vars

\* At most how many lie before the request in slot s is answered: every token may take
\* as long as it can.
StepsToAnswer(s) ==
  (Limit(slots[s].request) - tokens_generated[s] - 1) * (3 * MaxSlots + 7)
    + StepsToToken(s)

\* At most how many lie before the oldest request that waits is given a slot: those to
\* the next drain, and when no slot is free, first those until one is. That one be slot
\* 0; if another is retired earlier, the better.
StepsToAdmit ==
  CASE FreeIds = {} -> MaxSlots + 8 + StepsToAnswer(0)
    [] pc = "admit" /\ FreeIds # {} ->
         IF to_admit = <<>> THEN MaxSlots + 8 ELSE 1
    [] pc = "build" /\ FreeIds # {} -> MaxSlots + 7
    [] pc = "decode" /\ FreeIds # {} -> MaxSlots + 6
    [] pc = "sample" /\ FreeIds # {} -> Cardinality(todo) + 5
    [] pc \in {"loop", "waiting"} /\ FreeIds # {} -> 4
    [] pc = "idle" /\ FreeIds # {} -> 3
    [] pc = "drain" /\ FreeIds # {} -> 2
    [] OTHER -> 0

SlotDrawsNear(s) ==
  \/ ~slots'[s].occupied /\ promise'[slots[s].request].calls = 1
  \/ slots'[s].request = slots[s].request /\ StepsToAnswer(s)' < StepsToAnswer(s)
  \/ ~EngineStep /\ slots'[s] = slots[s] /\ StepsToAnswer(s)' = StepsToAnswer(s)

QueueDrawsNear ==
  \/ Waiting' = Tail(Waiting)
  \/ Waiting' = Waiting /\ StepsToAdmit' < StepsToAdmit
  \/ /\ ~EngineStep /\ StepsToAdmit' <= StepsToAdmit
     /\ Waiting' = Waiting \/ \E r \in Requests : Waiting' = Append(Waiting, r)

\* Every step of the engine thread that does not end it brings the answer of every
\* request nearer: a request in a slot is answered or has fewer steps to go, and the
\* queue loses its head or has fewer steps to go until it does. No step of a caller, of
\* shutdown or of the condition variable takes any of that back. With it a request in
\* the queue waits for those before it, each for a bounded number of steps, whatever
\* arrives after it (64-70, 80-132, 164-278).
AnswersDrawNear ==
  [][pc' # "exited" => /\ \A s \in OccupiedIds : SlotDrawsNear(s)
                       /\ Waiting # <<>> => QueueDrawsNear]_vars

-----------------------------------------------------------------------------
(* Metrics. *)

\* requests_inflight goes back to zero after every decode step, failed or not
\* (228, 241, 276).
InflightBalanced == metrics.requests_inflight = Cardinality(active)

AnsweredWith(V) == {r \in Requests : promise[r].value \in V}

\* Every answer but a failed tokenization is counted, and expiries twice over
\* (141-142, 238, 269).
AnswersCounted ==
  /\ metrics.requests_total =
       Cardinality(AnsweredWith({"ok", "deadline_exceeded", "decode_failed"}))
  /\ metrics.requests_deadline_exceeded =
       Cardinality(AnsweredWith({"deadline_exceeded"}))

-----------------------------------------------------------------------------
(* Steps and progress. *)

\* What the promises hold.
Verdict == [r \in Requests |-> promise[r].value]

\* The engine implements the abstract service: admission in order of arrival, at most
\* max_slots in service, one verdict each, a failed decode for all in service.
Service == INSTANCE BatchingService
             WITH waiting <- Waiting,
                  serving <- Held,
                  verdict <- Verdict

ServiceSpec == Service!Spec

\* While nobody shuts the engine down, every request that was pushed is
\* answered (server.cpp:22, "block until on_complete fires").
EveryRequestAnswered ==
  [](running) => \A r \in Requests :
                   (caller[r] # "new") ~> (promise[r].calls = 1)

\* A shutdown() stops the engine thread, unless running_ is cleared after the
\* wait predicate was evaluated and notified before the thread sleeps (72-76,
\* 166-169).
StopsUnlessParking ==
  (~running /\ pc # "parking" /\ (pc = "waiting" => stopper = "stopping"))
    ~> (pc = "exited")
=============================================================================
