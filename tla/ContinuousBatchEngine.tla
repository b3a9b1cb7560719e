------------------------ MODULE ContinuousBatchEngine ------------------------
(***************************************************************************)
(* The decode engine (include/continuous_batch_engine.h,                   *)
(* src/continuous_batch_engine.cpp): one engine thread admits requests     *)
(* from pending_ into KV slots, decodes all active sequences together,     *)
(* samples one token for each and retires those that are done; handler     *)
(* threads call enqueue() and one thread calls shutdown().                 *)
(*                                                                         *)
(* Granularity.  The slots and the arrays indexed by them belong to the    *)
(* engine thread alone, so a stretch of engine code that touches nothing   *)
(* shared is one step.  What other threads see or change ends a step: the  *)
(* queue and its mutex, running_, the condition variable, a callback.  The *)
(* callbacks of one loop (an expiry, a failed decode) fire in one step:    *)
(* the loop reads nothing a caller can change, so a caller's step between  *)
(* two of them is the same step after the last.                            *)
(* pending_mutex_ is held across two steps in one place only, between the  *)
(* test of the wait predicate and the sleep (pc = "parking").              *)
(*                                                                         *)
(* Data.  A prompt is its token count, a decoded text the set of requests  *)
(* whose pieces it holds, and a deadline the moment DeadlinePasses.        *)
(***************************************************************************)
EXTENDS KVSlotManager, Sequences

CONSTANTS
  MaxTokens,      \* EngineConfig::max_tokens
  PromptReserve,  \* the 256 tokens of "typical prompt" in n_ctx
  PromptLen,      \* PromptLen[r]: what llama_tokenize returns, 0 for n <= 0
  MaxNew          \* MaxNew[r]: Request::max_new_tokens

ASSUME MaxTokensAssumption     == MaxTokens \in Nat \ {0}
ASSUME PromptReserveAssumption == PromptReserve \in Nat
ASSUME PromptLenAssumption     == PromptLen \in [Requests -> Nat]
ASSUME MaxNewAssumption        == MaxNew \in [Requests -> Int]

VARIABLES
  \* Shared with the callers.
  pending,          \* pending_, guarded by pending_mutex_
  running,          \* running_
  caller,           \* caller[r]: where the thread submitting r is in enqueue()
  stopper,          \* where the thread calling shutdown() is
  late,             \* the requests whose deadline has passed
  promise,          \* promise[r]: what on_complete has delivered for r
  \* The engine thread.
  pc,               \* its control point
  to_admit,         \* admit_pending's local vector
  active,           \* engine_loop's local vector
  todo,             \* the members of active not sampled yet
  batch,            \* batch[s]: the cells the llama_batch asks for sequence s
  samplers,         \* samplers[s]: whether samplers_[s] is allocated
  results,          \* results[s]: the requests whose pieces results_[s] holds
  prompt_tokens,    \* prompt_tokens[s]: whose prompt is in prompt_tokens_[s]
  tokens_generated,
  in_prefill,
  metrics           \* the counters and gauges the engine updates

callerVars == <<pending, caller, late>>
arrayVars  == <<samplers, results, prompt_tokens, tokens_generated, in_prefill>>
loopVars   == <<to_admit, active, todo, batch>>
vars == <<callerVars, running, stopper, promise, pc, loopVars, slotVars,
          arrayVars, metrics>>

-----------------------------------------------------------------------------
(* Vocabulary. *)

\* int limit = max_new_tokens > 0 ? max_new_tokens : config_.max_tokens
Limit(r)    == IF MaxNew[r] > 0 THEN MaxNew[r] ELSE MaxTokens

\* Mutant: n_ctx leaves no room for the prompts.
MutNCtx == MaxSlots * MaxTokens
NCtx    == MaxSlots * (MaxTokens + PromptReserve)

\* The cells in use once the batch is decoded, over all sequences.
CellsNeeded == UNION {{s} \X (kv[s] \cup batch[s]) : s \in SlotIds}
Fits        == Cardinality(CellsNeeded) <= NCtx

Unanswered == [calls |-> 0, value |-> "none", text |-> {}]

Init ==
  /\ pending = <<>>
  /\ running = TRUE
  /\ caller = [r \in Requests |-> "new"]
  /\ stopper = "idle"
  /\ late = {}
  /\ promise = [r \in Requests |-> Unanswered]
  /\ pc = "loop"
  /\ to_admit = <<>>
  /\ active = {}
  /\ todo = {}
  /\ batch = [s \in SlotIds |-> {}]
  /\ samplers = [s \in SlotIds |-> FALSE]
  /\ results = [s \in SlotIds |-> {}]
  /\ prompt_tokens = [s \in SlotIds |-> NoRequest]
  /\ tokens_generated = [s \in SlotIds |-> 0]
  /\ in_prefill = [s \in SlotIds |-> FALSE]
  /\ metrics = [requests_total             |-> 0,
                requests_deadline_exceeded |-> 0,
                requests_inflight          |-> 0,
                kv_slot_utilization        |-> 0]
  /\ SlotInit

-----------------------------------------------------------------------------
(* The callers. *)

\* enqueue(): push under the lock ...
Enqueue(r) ==
  /\ caller[r] = "new"
  /\ pc # "parking"
  /\ pending' = Append(pending, r)
  /\ caller' = [caller EXCEPT ![r] = "pushed"]
  /\ UNCHANGED <<running, stopper, late, promise, pc, loopVars, slotVars,
                 arrayVars, metrics>>

\* Mutant: the notification is lost on a sleeping engine thread.
MutWoken == pc
\* The engine thread's control point once pending_cv_ is notified.
Woken    == IF pc = "waiting" THEN "idle" ELSE pc

\* ... and notify_one() after it.
NotifyOne(r) ==
  /\ caller[r] = "pushed"
  /\ caller' = [caller EXCEPT ![r] = "notified"]
  /\ pc' = Woken
  /\ UNCHANGED <<pending, running, stopper, late, promise, loopVars, slotVars,
                 arrayVars, metrics>>

\* steady_clock moves past enqueue_time + deadline of r.
DeadlinePasses(r) ==
  /\ caller[r] # "new" /\ promise[r].calls = 0 /\ r \notin late
  /\ late' = late \cup {r}
  /\ UNCHANGED <<pending, running, caller, stopper, promise, pc, loopVars,
                 slotVars, arrayVars, metrics>>

\* shutdown(): running_ = false ...
SetStop ==
  /\ stopper = "idle"
  /\ running' = FALSE
  /\ stopper' = "stopping"
  /\ UNCHANGED <<callerVars, promise, pc, loopVars, slotVars, arrayVars, metrics>>

\* ... notify_all(), without the mutex ...
NotifyAll ==
  /\ stopper = "stopping"
  /\ stopper' = "joining"
  /\ pc' = Woken
  /\ UNCHANGED <<callerVars, running, promise, loopVars, slotVars, arrayVars,
                 metrics>>

\* ... and join().
Join ==
  /\ stopper = "joining" /\ pc = "exited"
  /\ stopper' = "joined"
  /\ UNCHANGED <<callerVars, running, promise, pc, loopVars, slotVars, arrayVars,
                 metrics>>

-----------------------------------------------------------------------------
(* Answering and retiring. *)

\* on_complete(value) for the requests in the slots of S.
Answer(S, value, text) ==
  promise' = [r \in Requests |->
                IF \E s \in S : slots[s].request = r
                  THEN [calls |-> promise[r].calls + 1,
                        value |-> value, text |-> text]
                  ELSE promise[r]]

\* Mutant: a loop that answers several requests counts one.
MutCounted(S) == metrics.requests_total + 1
\* requests_total once the requests in the slots of S are counted.
Counted(S)    == metrics.requests_total + Cardinality(S)

\* retire_slot(s) for every s in S.
RetireSlots(S) ==
  /\ samplers' = [s \in SlotIds |-> s \notin S /\ samplers[s]]
  /\ results' = [s \in SlotIds |-> IF s \in S THEN {} ELSE results[s]]
  /\ prompt_tokens' = [s \in SlotIds |-> IF s \in S THEN NoRequest
                                                    ELSE prompt_tokens[s]]
  /\ tokens_generated' = [s \in SlotIds |-> IF s \in S THEN 0
                                                       ELSE tokens_generated[s]]
  /\ in_prefill' = [s \in SlotIds |-> s \notin S /\ in_prefill[s]]
  /\ Release(S)

-----------------------------------------------------------------------------
(* engine_loop: the idle wait. *)

\* while (running_), and the test for "no active sequence".
LoopTop ==
  /\ pc = "loop"
  /\ \/ ~running /\ pc' = "exited"
     \/ running /\ free_count = MaxSlots /\ pc' = "idle"
     \/ running /\ free_count # MaxSlots /\ pc' = "drain"
  /\ UNCHANGED <<callerVars, running, stopper, promise, loopVars, slotVars,
                 arrayVars, metrics>>

\* With the mutex: the wait predicate holds, wait() returns (or never sleeps).
IdleCheckPasses ==
  /\ pc = "idle"
  /\ pending # <<>> \/ ~running
  /\ pc' = IF running THEN "drain" ELSE "exited"
  /\ UNCHANGED <<callerVars, running, stopper, promise, loopVars, slotVars,
                 arrayVars, metrics>>

\* With the mutex: the predicate is false.  The mutex stays locked ...
IdleCheckFails ==
  /\ pc = "idle"
  /\ pending = <<>> /\ running
  /\ pc' = "parking"
  /\ UNCHANGED <<callerVars, running, stopper, promise, loopVars, slotVars,
                 arrayVars, metrics>>

\* ... until the thread sleeps on pending_cv_ and unlocks it, atomically.
Park ==
  /\ pc = "parking"
  /\ pc' = "waiting"
  /\ UNCHANGED <<callerVars, running, stopper, promise, loopVars, slotVars,
                 arrayVars, metrics>>

\* A condition variable may wake without a notification.
SpuriousWake ==
  /\ pc = "waiting"
  /\ pc' = "idle"
  /\ UNCHANGED <<callerVars, running, stopper, promise, loopVars, slotVars,
                 arrayVars, metrics>>

-----------------------------------------------------------------------------
(* admit_pending. *)

\* Mutant: the loop ignores can_admit and empties the queue.
MutCanAdmit == Len(pending)
\* How many requests the drain loop takes: one per free slot, while any wait.
CanAdmit    == IF Len(pending) < free_count THEN Len(pending) ELSE free_count

\* Mutant: front() without pop().
MutUndrained == pending
\* What the drain loop leaves in the queue.
Undrained    == SubSeq(pending, CanAdmit + 1, Len(pending))

\* Drain under the lock.
Drain ==
  /\ pc = "drain"
  /\ to_admit' = SubSeq(pending, 1, CanAdmit)
  /\ pending' = Undrained
  /\ pc' = "admit"
  /\ UNCHANGED <<caller, late, running, stopper, promise, active, todo, batch,
                 slotVars, arrayVars, metrics>>

\* Tokenization succeeds: the slot is set up for prefill.
Prefill(sid, r) ==
  /\ PromptLen[r] > 0
  /\ Acquire(sid, r)
  /\ prompt_tokens' = [prompt_tokens EXCEPT ![sid] = r]
  /\ in_prefill' = [in_prefill EXCEPT ![sid] = TRUE]
  /\ results' = [results EXCEPT ![sid] = {}]
  /\ tokens_generated' = [tokens_generated EXCEPT ![sid] = 0]
  /\ samplers' = [samplers EXCEPT ![sid] = TRUE]
  /\ UNCHANGED promise

\* Tokenization fails: acquire, answer, release; the prompt buffer keeps what
\* the failed call left in it.
TokenizeFails(sid, r) ==
  /\ PromptLen[r] = 0
  /\ FirstFree(sid)
  /\ prompt_tokens' = [prompt_tokens EXCEPT ![sid] = r]
  /\ promise' = [promise EXCEPT ![r] = [calls |-> @.calls + 1,
                                        value |-> "tokenization_failed",
                                        text  |-> {}]]
  /\ slots' = [slots EXCEPT ![sid] = EmptySlot]
  /\ kv' = Freed({sid})
  /\ UNCHANGED <<free_count, in_prefill, results, tokens_generated, samplers>>

\* One turn of the admission loop.  With no free slot the request would be
\* dropped, unanswered.
AdmitOne ==
  /\ pc = "admit" /\ to_admit # <<>>
  /\ to_admit' = Tail(to_admit)
  /\ IF FreeIds = {}
       THEN UNCHANGED <<slotVars, arrayVars, promise>>
       ELSE \E sid \in FreeIds : \/ Prefill(sid, Head(to_admit))
                                 \/ TokenizeFails(sid, Head(to_admit))
  /\ UNCHANGED <<callerVars, running, stopper, pc, active, todo, batch, metrics>>

-----------------------------------------------------------------------------
(* retire_expired, then one decode step. *)

Expired == {s \in OccupiedIds : slots[s].request \in late}

\* retire_expired(now), after the last admission.
RetireExpired ==
  /\ pc = "admit" /\ to_admit = <<>>
  /\ Answer(Expired, "deadline_exceeded", {})
  /\ RetireSlots(Expired)
  /\ metrics' = [metrics EXCEPT
                   !.requests_total = Counted(Expired),
                   !.requests_deadline_exceeded = @ + Cardinality(Expired)]
  /\ pc' = "build"
  /\ UNCHANGED <<callerVars, running, stopper, loopVars>>

\* if (active.empty()) continue
NothingActive ==
  /\ pc = "build" /\ OccupiedIds = {}
  /\ pc' = "loop"
  /\ UNCHANGED <<callerVars, running, stopper, promise, loopVars, slotVars,
                 arrayVars, metrics>>

\* The cells slot s contributes to the batch: its whole prompt, or the last
\* sampled token at the next position.
BatchCells(s) ==
  IF in_prefill[s]
    THEN {prompt_tokens[s]} \X (0 .. PromptLen[prompt_tokens[s]] - 1)
    ELSE {<<slots[s].request, slots[s].kv_pos>>}

\* Mutant: kv_pos counts the prompt from the position already reached.
MutNextPos(s) == IF in_prefill[s] THEN PromptLen[prompt_tokens[s]] - 1
                                  ELSE slots[s].kv_pos + 1
\* kv_pos once the batch is built.
NextPos(s)    == IF in_prefill[s] THEN PromptLen[prompt_tokens[s]]
                                  ELSE slots[s].kv_pos + 1

BuildBatch ==
  /\ pc = "build" /\ OccupiedIds # {}
  /\ active' = OccupiedIds
  /\ batch' = [s \in SlotIds |-> IF slots[s].occupied THEN BatchCells(s) ELSE {}]
  /\ slots' = [s \in SlotIds |->
                 IF slots[s].occupied
                   THEN [slots[s] EXCEPT !.kv_pos = NextPos(s)]
                   ELSE slots[s]]
  /\ metrics' = [metrics EXCEPT
                   !.kv_slot_utilization = Cardinality(OccupiedIds),
                   !.requests_inflight = @ + Cardinality(OccupiedIds)]
  /\ pc' = "decode"
  /\ UNCHANGED <<callerVars, running, stopper, promise, to_admit, todo,
                 free_count, kv, arrayVars>>

\* Mutant: a slot is sampled from its second decode on.
MutToSample == {s \in active : ~in_prefill[s]}
\* The slots the sampling loop visits.
ToSample    == active

\* llama_decode succeeds: it needs room for the whole batch.
DecodeOk ==
  /\ pc = "decode" /\ Fits
  /\ kv' = [s \in SlotIds |-> kv[s] \cup batch[s]]
  /\ batch' = [s \in SlotIds |-> {}]
  /\ todo' = ToSample
  /\ pc' = "sample"
  /\ UNCHANGED <<callerVars, running, stopper, promise, to_admit, active, slots,
                 free_count, arrayVars, metrics>>

AfterFailure == metrics.requests_inflight - Cardinality(active)

\* llama_decode fails, for lack of room or otherwise: nobody is spared.
DecodeFail ==
  /\ pc = "decode"
  /\ Answer(active, "decode_failed", {})
  /\ RetireSlots(active)
  /\ metrics' = [metrics EXCEPT
                   !.requests_total = Counted(active),
                   !.requests_inflight = AfterFailure]
  /\ batch' = [s \in SlotIds |-> {}]
  /\ active' = {}
  /\ pc' = "loop"
  /\ UNCHANGED <<callerVars, running, stopper, to_admit, todo>>

-----------------------------------------------------------------------------
(* Sampling, one slot at a time in slot order. *)

Sampling(sid) ==
  /\ pc = "sample" /\ sid \in todo
  /\ \A j \in todo : sid <= j
  /\ todo' = todo \ {sid}

\* The sequence is done: answer with its text and retire the slot.
Complete(sid, text) ==
  /\ Answer({sid}, "ok", text)
  /\ RetireSlots({sid})
  /\ metrics' = [metrics EXCEPT !.requests_total = Counted({sid})]

\* An end-of-generation token.
SampleEos(sid) ==
  /\ Sampling(sid)
  /\ Complete(sid, results[sid])
  /\ UNCHANGED <<callerVars, running, stopper, pc, to_admit, active, batch>>

\* Mutant: the piece is appended to the text of the neighbouring slot.
MutAppended(sid) == results[(sid + 1) % MaxSlots] \cup {slots[sid].request}
\* results_[sid] with the piece of the token just sampled.
Appended(sid) == results[sid] \cup {slots[sid].request}

\* max_hit, once the token just sampled is counted.
MaxHit(sid)    == tokens_generated[sid] + 1 >= Limit(slots[sid].request)

\* The last token the limit allows.
SampleLast(sid) ==
  /\ Sampling(sid) /\ MaxHit(sid)
  /\ Complete(sid, Appended(sid))
  /\ UNCHANGED <<callerVars, running, stopper, pc, to_admit, active, batch>>

\* A token with more to come: it is fed back in the next step.
SampleToken(sid, tok) ==
  /\ Sampling(sid) /\ ~MaxHit(sid)
  /\ results' = [results EXCEPT ![sid] = Appended(sid)]
  /\ slots' = [slots EXCEPT ![sid].last_token = tok]
  /\ in_prefill' = [in_prefill EXCEPT ![sid] = FALSE]
  /\ tokens_generated' = [tokens_generated EXCEPT ![sid] = @ + 1]
  /\ UNCHANGED <<callerVars, running, stopper, promise, pc, to_admit, active,
                 batch, free_count, kv, samplers, prompt_tokens, metrics>>

EndIteration ==
  /\ pc = "sample" /\ todo = {}
  /\ metrics' = [metrics EXCEPT !.requests_inflight = @ - Cardinality(active)]
  /\ active' = {}
  /\ pc' = "loop"
  /\ UNCHANGED <<callerVars, running, stopper, promise, to_admit, todo, batch,
                 slotVars, arrayVars>>

-----------------------------------------------------------------------------

EngineStep ==
  \/ LoopTop
  \/ IdleCheckPasses
  \/ IdleCheckFails
  \/ Park
  \/ Drain
  \/ AdmitOne
  \/ RetireExpired
  \/ NothingActive
  \/ BuildBatch
  \/ DecodeOk
  \/ DecodeFail
  \/ \E sid \in SlotIds : \/ SampleEos(sid)
                          \/ SampleLast(sid)
                          \/ \E tok \in Tokens : SampleToken(sid, tok)
  \/ EndIteration

CallerStep ==
  \E r \in Requests : Enqueue(r) \/ NotifyOne(r) \/ DeadlinePasses(r)

Next ==
  \/ EngineStep
  \/ CallerStep
  \/ SpuriousWake
  \/ SetStop
  \/ NotifyAll
  \/ Join

Spec == Init /\ [][Next]_vars

\* The scheduler runs the engine thread, lets a caller that pushed reach its
\* notify_one(), and lets a started shutdown() go on.  Nobody has to submit,
\* to shut down or to wake spuriously, and no deadline has to pass.
Fairness ==
  /\ WF_vars(EngineStep)
  /\ \A r \in Requests : WF_vars(NotifyOne(r))
  /\ WF_vars(NotifyAll)
  /\ WF_vars(Join)

FairSpec == Spec /\ Fairness
=============================================================================
