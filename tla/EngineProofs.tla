----------------------------- MODULE EngineProofs -----------------------------
(***************************************************************************)
(* EngineInv is an invariant of the engine for every number of slots,      *)
(* every set of requests and every prompt and token limit; the safety      *)
(* properties of the slots and of the pool follow.  One lemma per step     *)
(* that touches a slot; the others change the control point and what       *)
(* callers own only (QuietStep).                                           *)
(***************************************************************************)
EXTENDS EngineInvariant, KVSlotManagerProofs, SequenceTheorems

\* The control points at which no slot, vector or batch is being worked on.
Quiet == {"loop", "idle", "parking", "waiting", "drain", "build", "exited"}

CallerTypes ==
  /\ pending \in Seq(Requests)
  /\ running \in BOOLEAN
  /\ caller \in [Requests -> {"new", "pushed", "notified"}]
  /\ stopper \in {"idle", "stopping", "joining", "joined"}
  /\ late \in SUBSET Requests

LEMMA LimitType == \A r \in Requests : Limit(r) \in Nat \ {0}
  BY MaxTokensAssumption, MaxNewAssumption DEF Limit

LEMMA SlotsInit == ASSUME Init PROVE SlotsInv
<1>1. PoolOK
  BY PoolInit DEF Init
<1>2. OccupiedIds = {}
  BY DEF Init, SlotInit, OccupiedIds, EmptySlot
<1>3. TypeOK
  <2>1. <<>> \in Seq(Requests)
    BY EmptySeq
  <2> QED
    BY <1>1, <2>1 DEF Init, TypeOK, PoolOK, PromiseState, Unanswered, Values,
                      Metrics, ControlPoints
<1>4. Phases /\ SlotsReady /\ PositionsAgree
  BY <1>2 DEF Init, Phases, SlotsReady, PositionsAgree
<1>5. AcquireNeverFails
  <2>1. Len(to_admit) = 0
    BY EmptySeq DEF Init
  <2> QED
    BY <2>1, FreeIdsFinite DEF AcquireNeverFails
<1>6. CellsFollowRequest
  BY DEF Init, SlotInit, CellsFollowRequest, EmptySlot
<1>7. OwnTextOnly
  BY <1>2 DEF Init, OwnTextOnly, Unanswered
<1>8. InflightBalanced
  BY FS_EmptySet DEF Init, InflightBalanced
<1> QED
  BY <1>1, <1>3, <1>4, <1>5, <1>6, <1>7, <1>8 DEF SlotsInv

-----------------------------------------------------------------------------
(* Steps of the callers and of the engine thread between its stages. *)

LEMMA QuietStep ==
  ASSUME SlotsInv, CallerTypes',
         UNCHANGED <<promise, loopVars, slotVars, arrayVars, metrics>>,
         pc' = pc \/ (pc \in Quiet /\ pc' \in Quiet)
  PROVE  SlotsInv'
<1> USE DEF SlotsInv, loopVars, slotVars, arrayVars
<1>1. pc' \in ControlPoints
  BY DEF TypeOK, Quiet, ControlPoints
<1>2. TypeOK'
  BY <1>1 DEF TypeOK, CallerTypes, SlotTypeOK
<1>3. OccupiedIds' = OccupiedIds /\ FreeIds' = FreeIds
  BY DEF OccupiedIds, FreeIds
<1>4. PoolOK'
  BY <1>3 DEF PoolOK, SlotTypeOK, FreeCountExact, HoldersKnown
<1>5. /\ pc' = "admit" <=> pc = "admit"
      /\ pc' = "decode" <=> pc = "decode"
      /\ pc' = "sample" <=> pc = "sample"
  BY DEF Quiet
<1>6. Phases'
  BY <1>3, <1>5 DEF Phases
<1>7. SlotsReady'
  BY <1>3, <1>5 DEF SlotsReady
<1>8. AcquireNeverFails' /\ InflightBalanced'
  BY <1>3 DEF AcquireNeverFails, InflightBalanced
<1>9. CellsFollowRequest' /\ OwnTextOnly'
  BY <1>3 DEF CellsFollowRequest, OwnTextOnly
<1>10. PositionsAgree'
  BY <1>3, <1>5 DEF PositionsAgree, Limit
<1> QED
  BY <1>2, <1>4, <1>6, <1>7, <1>8, <1>9, <1>10

LEMMA CallerTypesNow == ASSUME SlotsInv PROVE CallerTypes
  BY DEF SlotsInv, TypeOK, CallerTypes

LEMMA CallersKeepInv ==
  ASSUME SlotsInv, CallerStep \/ SetStop \/ NotifyAll \/ Join \/ SpuriousWake
  PROVE  SlotsInv'
<1> USE CallerTypesNow DEF CallerTypes, Quiet
<1>1. ASSUME NEW r \in Requests, Enqueue(r) PROVE SlotsInv'
  <2>1. pending' \in Seq(Requests)
    BY <1>1 DEF Enqueue, SlotsInv, TypeOK
  <2> QED
    BY <1>1, <2>1, QuietStep DEF Enqueue
<1>2. ASSUME NEW r \in Requests, NotifyOne(r) PROVE SlotsInv'
  BY <1>2, QuietStep DEF NotifyOne, Woken
<1>3. ASSUME NEW r \in Requests, DeadlinePasses(r) PROVE SlotsInv'
  BY <1>3, QuietStep DEF DeadlinePasses
<1>4. CASE SetStop
  BY <1>4, QuietStep DEF SetStop, callerVars
<1>5. CASE NotifyAll
  BY <1>5, QuietStep DEF NotifyAll, Woken, callerVars
<1>6. CASE Join
  BY <1>6, QuietStep DEF Join, callerVars
<1>7. CASE SpuriousWake
  BY <1>7, QuietStep DEF SpuriousWake, callerVars
<1> QED
  BY <1>1, <1>2, <1>3, <1>4, <1>5, <1>6, <1>7 DEF CallerStep

LEMMA IdleKeepsInv ==
  ASSUME SlotsInv,
         LoopTop \/ IdleCheckPasses \/ IdleCheckFails \/ Park \/ NothingActive
  PROVE  SlotsInv'
<1> USE CallerTypesNow DEF CallerTypes, Quiet, callerVars
<1>1. CASE LoopTop
  BY <1>1, QuietStep DEF LoopTop
<1>2. CASE IdleCheckPasses
  BY <1>2, QuietStep DEF IdleCheckPasses
<1>3. CASE IdleCheckFails
  BY <1>3, QuietStep DEF IdleCheckFails
<1>4. CASE Park
  BY <1>4, QuietStep DEF Park
<1>5. CASE NothingActive
  BY <1>5, QuietStep DEF NothingActive
<1> QED
  BY <1>1, <1>2, <1>3, <1>4, <1>5

-----------------------------------------------------------------------------
(* Admission. *)

\* The drain splits the queue and takes no more than the free slots can hold
\* (85-90).
LEMMA DrainSplits ==
  ASSUME SlotsInv
  PROVE  /\ SubSeq(pending, 1, CanAdmit) \in Seq(Requests)
         /\ Len(SubSeq(pending, 1, CanAdmit)) <= Cardinality(FreeIds)
         /\ Undrained \in Seq(Requests)
<1>1. pending \in Seq(Requests) /\ Len(pending) \in Nat
  BY LenProperties DEF SlotsInv, TypeOK
<1>2. free_count = Cardinality(FreeIds) /\ free_count \in Nat
  BY FreeIdsFinite, MaxSlotsAssumption DEF SlotsInv, PoolOK, FreeCountExact
<1>3. CanAdmit \in 0 .. Len(pending) /\ CanAdmit <= free_count
  BY <1>1, <1>2 DEF CanAdmit
<1>4. \A i \in 1 .. Len(pending) : pending[i] \in Requests
  BY <1>1, ElementOfSeq
<1>5. /\ SubSeq(pending, 1, CanAdmit) \in Seq(Requests)
      /\ Len(SubSeq(pending, 1, CanAdmit)) = IF 1 <= CanAdmit THEN CanAdmit ELSE 0
  <2>1. \A i \in 1 .. CanAdmit : pending[i] \in Requests
    BY <1>1, <1>3, <1>4
  <2>2. CanAdmit \in Int
    BY <1>3
  <2> HIDE DEF CanAdmit
  <2>3. Len(SubSeq(pending, 1, CanAdmit))
          = IF 1 <= CanAdmit THEN CanAdmit - 1 + 1 ELSE 0
    BY <2>1, <2>2, SubSeqProperties
  <2>4. SubSeq(pending, 1, CanAdmit) \in Seq(Requests)
    BY <2>1, <2>2, SubSeqProperties
  <2> QED
    BY <2>2, <2>3, <2>4
<1>6. Undrained \in Seq(Requests)
  <2>1. \A i \in CanAdmit + 1 .. Len(pending) : pending[i] \in Requests
    BY <1>1, <1>3, <1>4
  <2>2. CanAdmit + 1 \in Int /\ Len(pending) \in Int
    BY <1>1, <1>3
  <2> QED
    BY <2>1, <2>2, SubSeqProperties DEF Undrained
<1> QED
  BY <1>2, <1>3, <1>5, <1>6

LEMMA DrainKeepsInv == ASSUME SlotsInv, Drain PROVE SlotsInv'
<1> USE DEF SlotsInv, slotVars, arrayVars
<1>1. OccupiedIds' = OccupiedIds /\ FreeIds' = FreeIds
  BY DEF Drain, OccupiedIds, FreeIds
<1>2. TypeOK'
  BY DrainSplits DEF Drain, TypeOK, SlotTypeOK, ControlPoints
<1>3. PoolOK'
  BY <1>1 DEF Drain, PoolOK, SlotTypeOK, FreeCountExact, HoldersKnown
<1>4. AcquireNeverFails'
  BY <1>1, DrainSplits DEF Drain, AcquireNeverFails
<1>5. Phases' /\ SlotsReady'
  BY <1>1 DEF Drain, Phases, SlotsReady
<1>6. CellsFollowRequest' /\ OwnTextOnly' /\ InflightBalanced'
  BY <1>1 DEF Drain, CellsFollowRequest, OwnTextOnly, InflightBalanced
<1>7. PositionsAgree'
  BY <1>1 DEF Drain, PositionsAgree, Limit
<1> QED
  BY <1>2, <1>3, <1>4, <1>5, <1>6, <1>7

\* The request at the head of to_admit, and what is left behind it.
LEMMA NextToAdmit ==
  ASSUME SlotsInv, to_admit # <<>>
  PROVE  /\ Head(to_admit) \in Requests
         /\ Tail(to_admit) \in Seq(Requests)
         /\ Len(Tail(to_admit)) = Len(to_admit) - 1
         /\ Len(to_admit) \in Nat \ {0}
         /\ FreeIds # {}
<1>1. to_admit \in Seq(Requests)
  BY DEF SlotsInv, TypeOK
<1>2. Len(to_admit) \in Nat \ {0}
  BY <1>1, EmptySeq
<1>3. Cardinality(FreeIds) # 0
  BY <1>2, FreeIdsFinite DEF SlotsInv, AcquireNeverFails
<1> QED
  BY <1>1, <1>2, <1>3, HeadTailProperties, FS_EmptySet

LEMMA PrefillKeepsInv ==
  ASSUME SlotsInv, pc = "admit", to_admit # <<>>, to_admit' = Tail(to_admit),
         UNCHANGED <<callerVars, running, stopper, pc, active, todo, batch, metrics>>,
         NEW sid \in FreeIds, Prefill(sid, Head(to_admit))
  PROVE  SlotsInv'
<1> DEFINE r == Head(to_admit)
<1> USE DEF SlotsInv, callerVars
<1>1. /\ r \in Requests /\ PromptLen[r] > 0 /\ Acquire(sid, r)
      /\ Tail(to_admit) \in Seq(Requests)
      /\ Len(Tail(to_admit)) = Len(to_admit) - 1
      /\ Len(to_admit) \in Nat
  BY NextToAdmit DEF Prefill
<1> HIDE DEF r
<1>2. sid \in SlotIds /\ sid \notin OccupiedIds
  BY DEF FreeIds
<1>3. /\ slots' = [slots EXCEPT ![sid] = NewSlot(r)]
      /\ slots'[sid] = NewSlot(r)
      /\ \A s \in SlotIds : s # sid => slots'[s] = slots[s]
      /\ OccupiedIds' = OccupiedIds \cup {sid}
      /\ kv' = kv
  BY <1>1, <1>2 DEF Acquire, TypeOK, SlotTypeOK, OccupiedIds, NewSlot
<1>4. /\ slots'[sid].occupied /\ slots'[sid].request = r
      /\ slots'[sid].kv_pos = 0
  BY <1>3 DEF NewSlot
<1>5. PoolOK'
  BY <1>1, AcquirePool
<1>6. /\ prompt_tokens' = [prompt_tokens EXCEPT ![sid] = r]
      /\ in_prefill' = [in_prefill EXCEPT ![sid] = TRUE]
      /\ results' = [results EXCEPT ![sid] = {}]
      /\ tokens_generated' = [tokens_generated EXCEPT ![sid] = 0]
      /\ samplers' = [samplers EXCEPT ![sid] = TRUE]
      /\ promise' = promise
  BY DEF Prefill, r
<1>7. TypeOK'
  BY <1>1, <1>2, <1>5, <1>6 DEF TypeOK, PoolOK, SlotTypeOK
<1>8. AcquireNeverFails'
  <2>1. Cardinality(FreeIds') = Cardinality(FreeIds) - 1
    BY <1>1, AcquireFrees DEF TypeOK
  <2> QED
    BY <1>1, <2>1, FreeIdsFinite DEF AcquireNeverFails
<1>9. kv[sid] = {} /\ batch[sid] = {}
  BY <1>2 DEF CellsFollowRequest, OccupiedIds
<1>10. Phases' /\ InflightBalanced'
  BY <1>3 DEF Phases, InflightBalanced
<1>11. ASSUME NEW s \in SlotIds, s # sid
       PROVE  /\ prompt_tokens'[s] = prompt_tokens[s]
              /\ in_prefill'[s] = in_prefill[s]
              /\ results'[s] = results[s]
              /\ tokens_generated'[s] = tokens_generated[s]
              /\ samplers'[s] = samplers[s]
              /\ slots'[s] = slots[s]
  BY <1>3, <1>6, <1>11 DEF TypeOK
<1>12. /\ prompt_tokens'[sid] = r /\ in_prefill'[sid] /\ results'[sid] = {}
       /\ tokens_generated'[sid] = 0 /\ samplers'[sid]
  BY <1>2, <1>6 DEF TypeOK
<1>13. SlotsReady'
  <2>1. ASSUME NEW s \in OccupiedIds', s # sid
        PROVE  s \in OccupiedIds
    BY <1>3, <2>1
  <2> QED
    BY <1>1, <1>3, <1>4, <1>9, <1>11, <1>12, <2>1 DEF SlotsReady, OccupiedIds
<1>14. CellsFollowRequest'
  <2>1. {r} \X (0 .. 0 - 1) = {}
    OBVIOUS
  <2>2. kv'[sid] \cup batch'[sid] = {slots'[sid].request} \X (0 .. slots'[sid].kv_pos - 1)
    BY <1>3, <1>4, <1>9, <2>1
  <2> QED
    BY <1>3, <1>4, <1>11, <2>2 DEF CellsFollowRequest
<1>15. OwnTextOnly'
  BY <1>3, <1>6, <1>11, <1>12 DEF OwnTextOnly, OccupiedIds
<1>16. PositionsAgree'
  BY <1>1, <1>3, <1>4, <1>11, <1>12, LimitType DEF PositionsAgree, OccupiedIds, Limit
<1> QED
  BY <1>5, <1>7, <1>8, <1>10, <1>13, <1>14, <1>15, <1>16

\* A failed tokenization gives the slot back as it was (117-122).
LEMMA TokenizeFailsKeepsInv ==
  ASSUME SlotsInv, pc = "admit", to_admit # <<>>, to_admit' = Tail(to_admit),
         UNCHANGED <<callerVars, running, stopper, pc, active, todo, batch, metrics>>,
         NEW sid \in FreeIds, TokenizeFails(sid, Head(to_admit))
  PROVE  SlotsInv'
<1> DEFINE r == Head(to_admit)
<1> USE DEF SlotsInv, callerVars
<1>1. /\ r \in Requests
      /\ Tail(to_admit) \in Seq(Requests)
      /\ Len(Tail(to_admit)) = Len(to_admit) - 1
      /\ Len(to_admit) \in Nat
  BY NextToAdmit
<1> HIDE DEF r
<1>2. sid \in SlotIds /\ sid \notin OccupiedIds
  BY DEF FreeIds
<1>3. kv[sid] = {} /\ batch[sid] = {}
  BY <1>2 DEF CellsFollowRequest, OccupiedIds
<1>4. /\ prompt_tokens' = [prompt_tokens EXCEPT ![sid] = r]
      /\ promise' = [promise EXCEPT ![r] = [calls |-> @.calls + 1,
                                            value |-> "tokenization_failed",
                                            text  |-> {}]]
      /\ slots' = [slots EXCEPT ![sid] = EmptySlot]
      /\ kv' = Freed({sid})
      /\ UNCHANGED <<free_count, in_prefill, results, tokens_generated, samplers>>
  BY DEF TokenizeFails, r
<1>5. kv' = kv
  BY <1>3, <1>4 DEF Freed, TypeOK, SlotTypeOK
<1>6. /\ \A s \in SlotIds : s # sid => slots'[s] = slots[s]
      /\ OccupiedIds' = OccupiedIds /\ FreeIds' = FreeIds
  BY <1>2, <1>4 DEF TypeOK, SlotTypeOK, OccupiedIds, FreeIds, EmptySlot
<1>7. PoolOK'
  <2>1. EmptySlot \in Slot
    BY DEF EmptySlot, Slot
  <2>2. SlotTypeOK'
    BY <1>4, <1>5, <2>1 DEF TypeOK, SlotTypeOK
  <2> QED
    BY <1>2, <1>4, <1>6, <2>2 DEF PoolOK, FreeCountExact, HoldersKnown
<1>8. TypeOK'
  <2>1. promise' \in [Requests -> PromiseState]
    BY <1>1, <1>4 DEF TypeOK, PromiseState, Values
  <2> QED
    BY <1>1, <1>4, <1>7, <2>1 DEF TypeOK, PoolOK
<1>9. AcquireNeverFails' /\ Phases' /\ InflightBalanced'
  BY <1>1, <1>6, FreeIdsFinite DEF AcquireNeverFails, Phases, InflightBalanced
<1>10. \A s \in OccupiedIds : /\ slots'[s] = slots[s]
                             /\ prompt_tokens'[s] = prompt_tokens[s]
  BY <1>2, <1>4, <1>6 DEF TypeOK, OccupiedIds
<1>11. SlotsReady'
  BY <1>4, <1>5, <1>6, <1>10 DEF SlotsReady
<1>12. CellsFollowRequest'
  BY <1>2, <1>3, <1>4, <1>5, <1>6 DEF CellsFollowRequest, EmptySlot, TypeOK, SlotTypeOK
<1>13. OwnTextOnly'
  BY <1>1, <1>4, <1>6, <1>10 DEF OwnTextOnly, TypeOK
<1>14. PositionsAgree'
  BY <1>4, <1>6, <1>10 DEF PositionsAgree, Limit
<1> QED
  BY <1>7, <1>8, <1>9, <1>11, <1>12, <1>13, <1>14

LEMMA AdmitOneKeepsInv == ASSUME SlotsInv, AdmitOne PROVE SlotsInv'
<1>1. pc = "admit" /\ to_admit # <<>> /\ to_admit' = Tail(to_admit)
  BY DEF AdmitOne
<1>2. PICK sid \in FreeIds : \/ Prefill(sid, Head(to_admit))
                             \/ TokenizeFails(sid, Head(to_admit))
  BY <1>1, NextToAdmit DEF AdmitOne
<1>3. CASE Prefill(sid, Head(to_admit))
  BY <1>1, <1>3, PrefillKeepsInv DEF AdmitOne
<1>4. CASE TokenizeFails(sid, Head(to_admit))
  BY <1>1, <1>4, TokenizeFailsKeepsInv DEF AdmitOne
<1> QED
  BY <1>2, <1>3, <1>4

-----------------------------------------------------------------------------
(* Answers and retirements. *)

LEMMA AnswerTyped ==
  ASSUME TypeOK, NEW S, NEW value \in Values, NEW text \in SUBSET Requests,
         Answer(S, value, text)
  PROVE  promise' \in [Requests -> PromiseState]
  BY DEF Answer, TypeOK, PromiseState

\* An answer with a request's own text, or with none, leaks nothing.
LEMMA AnswerOwnText ==
  ASSUME OwnTextOnly, NEW S, NEW value, NEW text, Answer(S, value, text),
         \A s \in S : text \subseteq {slots[s].request}
  PROVE  \A r \in Requests : promise'[r].text \subseteq {r}
  BY DEF Answer, OwnTextOnly

\* retire_slot frees the slots of S and touches no other (148-158).
LEMMA RetireTouchesOnly ==
  ASSUME TypeOK, PoolOK, NEW S, S \subseteq OccupiedIds, RetireSlots(S)
  PROVE  /\ PoolOK'
         /\ IsFiniteSet(S) /\ Cardinality(S) \in Nat
         /\ OccupiedIds' = OccupiedIds \ S
         /\ \A s \in SlotIds \ S : /\ slots'[s] = slots[s]
                                  /\ kv'[s] = kv[s]
                                  /\ samplers'[s] = samplers[s]
                                  /\ results'[s] = results[s]
                                  /\ prompt_tokens'[s] = prompt_tokens[s]
                                  /\ tokens_generated'[s] = tokens_generated[s]
                                  /\ in_prefill'[s] = in_prefill[s]
         /\ \A s \in S : kv'[s] = {} /\ ~slots'[s].occupied
         /\ samplers' \in [SlotIds -> BOOLEAN]
         /\ results' \in [SlotIds -> SUBSET Requests]
         /\ prompt_tokens' \in [SlotIds -> Requests \cup {NoRequest}]
         /\ tokens_generated' \in [SlotIds -> Nat]
         /\ in_prefill' \in [SlotIds -> BOOLEAN]
<1>1. Release(S) /\ S \subseteq SlotIds
  BY DEF RetireSlots, OccupiedIds
<1>2. PoolOK' /\ IsFiniteSet(S) /\ Cardinality(S) \in Nat
  BY <1>1, ReleasePool, ReleaseFrees DEF PoolOK
<1>3. OccupiedIds' = OccupiedIds \ S
  BY <1>1 DEF Release, OccupiedIds, EmptySlot
<1>4. \A s \in SlotIds \ S : slots'[s] = slots[s] /\ kv'[s] = kv[s]
  BY <1>1 DEF Release, Freed
<1>5. \A s \in S : kv'[s] = {} /\ ~slots'[s].occupied
  BY <1>1 DEF Release, Freed, EmptySlot
<1>6. \A s \in SlotIds \ S : /\ samplers'[s] = samplers[s]
                            /\ results'[s] = results[s]
                            /\ prompt_tokens'[s] = prompt_tokens[s]
                            /\ tokens_generated'[s] = tokens_generated[s]
                            /\ in_prefill'[s] = in_prefill[s]
  BY Zenon DEF RetireSlots, TypeOK
<1>7. /\ results' \in [SlotIds -> SUBSET Requests]
      /\ prompt_tokens' \in [SlotIds -> Requests \cup {NoRequest}]
      /\ tokens_generated' \in [SlotIds -> Nat]
  BY DEF RetireSlots, TypeOK
<1>8. samplers' \in [SlotIds -> BOOLEAN] /\ in_prefill' \in [SlotIds -> BOOLEAN]
  BY DEF RetireSlots, TypeOK
<1> QED
  BY <1>2, <1>3, <1>4, <1>5, <1>6, <1>7, <1>8

LEMMA RetireExpiredKeepsInv == ASSUME SlotsInv, RetireExpired PROVE SlotsInv'
<1> USE DEF SlotsInv, callerVars, loopVars
<1>1. Expired \subseteq OccupiedIds
  BY DEF Expired
<1>2. /\ RetireSlots(Expired) /\ Answer(Expired, "deadline_exceeded", {})
      /\ pc = "admit" /\ to_admit = <<>> /\ pc' = "build"
      /\ active = {} /\ todo = {} /\ \A s \in SlotIds : batch[s] = {}
      /\ UNCHANGED <<pending, caller, late, running, stopper, to_admit, active,
                     todo, batch>>
  BY DEF RetireExpired, Phases
<1> DEFINE S == Expired
<1>3. /\ PoolOK' /\ Cardinality(S) \in Nat
      /\ OccupiedIds' = OccupiedIds \ S
      /\ \A s \in SlotIds \ S : /\ slots'[s] = slots[s]
                               /\ kv'[s] = kv[s]
                               /\ samplers'[s] = samplers[s]
                               /\ results'[s] = results[s]
                               /\ prompt_tokens'[s] = prompt_tokens[s]
                               /\ tokens_generated'[s] = tokens_generated[s]
                               /\ in_prefill'[s] = in_prefill[s]
      /\ \A s \in S : kv'[s] = {} /\ ~slots'[s].occupied
      /\ samplers' \in [SlotIds -> BOOLEAN]
      /\ results' \in [SlotIds -> SUBSET Requests]
      /\ prompt_tokens' \in [SlotIds -> Requests \cup {NoRequest}]
      /\ tokens_generated' \in [SlotIds -> Nat]
      /\ in_prefill' \in [SlotIds -> BOOLEAN]
  BY <1>1, <1>2, RetireTouchesOnly
<1>4. promise' \in [Requests -> PromiseState]
  BY <1>2, AnswerTyped DEF Values
<1>5. metrics' \in Metrics /\ metrics'.requests_inflight = metrics.requests_inflight
  <2>1. metrics' = [metrics EXCEPT !.requests_total = Counted(S),
                                   !.requests_deadline_exceeded = @ + Cardinality(S)]
    BY DEF RetireExpired
  <2>2. metrics \in Metrics
    BY DEF TypeOK
  <2>3. Counted(S) \in Int
    BY <1>3, <2>2 DEF Counted, Metrics
  <2>4. metrics.requests_deadline_exceeded + Cardinality(S) \in Int
    BY <1>3, <2>2 DEF Metrics
  <2> DEFINE n == Counted(S)
             d == metrics.requests_deadline_exceeded + Cardinality(S)
  <2>5. metrics' = [metrics EXCEPT !.requests_total = n,
                                   !.requests_deadline_exceeded = d]
    BY <2>1
  <2> HIDE DEF SlotsInv, S, n, d
  <2>6. n \in Int /\ d \in Int
    BY <2>3, <2>4 DEF n, d
  <2> QED
    BY <2>2, <2>5, <2>6 DEF Metrics
<1> HIDE DEF S
<1>6. TypeOK'
  BY <1>2, <1>3, <1>4, <1>5 DEF TypeOK, PoolOK, ControlPoints
<1>7. OccupiedIds' \subseteq SlotIds \ S /\ OccupiedIds' \subseteq OccupiedIds
  BY <1>3 DEF OccupiedIds
<1>8. Phases' /\ InflightBalanced'
  BY <1>2, <1>5 DEF Phases, InflightBalanced
<1>9. AcquireNeverFails'
  <2>1. Cardinality(FreeIds') \in Nat
    <3>1. FreeIds' \in SUBSET SlotIds
      BY DEF FreeIds
    <3> QED
      BY <3>1, SlotIdsFinite, FS_Subset, FS_CardinalityType
  <2>2. Len(to_admit') = 0
    BY <1>2, EmptySeq
  <2> QED
    BY <2>1, <2>2 DEF AcquireNeverFails
<1>10. SlotsReady'
  <2>1. ASSUME NEW s \in OccupiedIds'
        PROVE  /\ s \in OccupiedIds
               /\ slots'[s] = slots[s] /\ kv'[s] = kv[s]
               /\ samplers'[s] = samplers[s]
               /\ prompt_tokens'[s] = prompt_tokens[s]
               /\ in_prefill'[s] = in_prefill[s]
    BY <1>3, <1>7
  <2> QED
    BY <1>2, <2>1 DEF SlotsReady
<1>11. CellsFollowRequest'
  <2>1. ASSUME NEW s \in SlotIds
        PROVE  kv'[s] \cup batch'[s]
                 = IF slots'[s].occupied
                     THEN {slots'[s].request} \X (0 .. slots'[s].kv_pos - 1)
                     ELSE {}
    <3>1. CASE s \in S
      BY <1>2, <1>3, <3>1
    <3>2. CASE s \notin S
      BY <1>2, <1>3, <3>2 DEF CellsFollowRequest
    <3> QED
      BY <3>1, <3>2
  <2> QED
    BY <2>1 DEF CellsFollowRequest
<1>12. OwnTextOnly'
  <2>1. \A r \in Requests : promise'[r].text \subseteq {r}
    BY <1>2, AnswerOwnText
  <2> QED
    BY <2>1, <1>3, <1>7 DEF OwnTextOnly
<1>13. PositionsAgree'
  BY <1>2, <1>3, <1>7 DEF PositionsAgree, Limit
<1> QED
  BY <1>3, <1>6, <1>8, <1>9, <1>10, <1>11, <1>12, <1>13

\* A failed decode empties the pool (232-242).
LEMMA DecodeFailKeepsInv == ASSUME SlotsInv, DecodeFail PROVE SlotsInv'
<1> USE DEF SlotsInv, callerVars
<1>1. /\ RetireSlots(active) /\ Answer(active, "decode_failed", {})
      /\ active = OccupiedIds /\ pc' = "loop" /\ to_admit = <<>> /\ todo = {}
      /\ active' = {} /\ batch' = [s \in SlotIds |-> {}]
      /\ UNCHANGED <<pending, caller, late, running, stopper, to_admit, todo>>
  BY DEF DecodeFail, Phases
<1>2. /\ PoolOK' /\ Cardinality(active) \in Nat
      /\ OccupiedIds' = {}
      /\ \A s \in SlotIds \ active : slots'[s] = slots[s] /\ kv'[s] = kv[s]
      /\ \A s \in active : kv'[s] = {} /\ ~slots'[s].occupied
      /\ samplers' \in [SlotIds -> BOOLEAN]
      /\ results' \in [SlotIds -> SUBSET Requests]
      /\ prompt_tokens' \in [SlotIds -> Requests \cup {NoRequest}]
      /\ tokens_generated' \in [SlotIds -> Nat]
      /\ in_prefill' \in [SlotIds -> BOOLEAN]
  BY <1>1, RetireTouchesOnly
<1>3. promise' \in [Requests -> PromiseState]
  BY <1>1, AnswerTyped DEF Values
<1>4. metrics' \in Metrics /\ metrics'.requests_inflight = 0
  <2> DEFINE n == Counted(active)
             d == AfterFailure
  <2>1. metrics' = [metrics EXCEPT !.requests_total = n, !.requests_inflight = d]
    BY DEF DecodeFail
  <2>2. metrics \in Metrics /\ metrics.requests_inflight = Cardinality(active)
    BY DEF TypeOK, InflightBalanced
  <2>3. n \in Int /\ d \in Int /\ d = 0
    BY <1>2, <2>2 DEF Counted, AfterFailure, Metrics
  <2> HIDE DEF SlotsInv, n, d
  <2>4. metrics' \in Metrics
    BY <2>1, <2>2, <2>3 DEF Metrics
  <2>5. metrics'.requests_inflight = d
    BY <2>1, <2>2 DEF Metrics
  <2> QED
    BY <2>3, <2>4, <2>5
<1>5. TypeOK'
  BY <1>1, <1>2, <1>3, <1>4 DEF TypeOK, PoolOK, ControlPoints
<1>6. Phases' /\ InflightBalanced'
  BY <1>1, <1>4, FS_EmptySet DEF Phases, InflightBalanced
<1>7. AcquireNeverFails'
  <2>1. Cardinality(FreeIds') \in Nat
    <3>1. FreeIds' \in SUBSET SlotIds
      BY DEF FreeIds
    <3> QED
      BY <3>1, SlotIdsFinite, FS_Subset, FS_CardinalityType
  <2>2. Len(to_admit') = 0
    BY <1>1, EmptySeq
  <2> QED
    BY <2>1, <2>2 DEF AcquireNeverFails
<1>8. SlotsReady' /\ PositionsAgree'
  BY <1>2 DEF SlotsReady, PositionsAgree
<1>9. CellsFollowRequest'
  BY <1>1, <1>2 DEF CellsFollowRequest, OccupiedIds
<1>10. OwnTextOnly'
  BY <1>1, <1>2, AnswerOwnText DEF OwnTextOnly
<1> QED
  BY <1>2, <1>5, <1>6, <1>7, <1>8, <1>9, <1>10

-----------------------------------------------------------------------------
(* One decode step. *)

\* The cells slot s asks for continue its sequence where it stands (204-225).
LEMMA BatchExtends ==
  ASSUME SlotsInv, pc = "build", NEW s \in OccupiedIds
  PROVE  /\ NextPos(s) \in Nat
         /\ BatchCells(s) \subseteq Cells
         /\ kv[s] \cup BatchCells(s) = {slots[s].request} \X (0 .. NextPos(s) - 1)
<1> USE DEF SlotsInv
<1> DEFINE r == slots[s].request
<1>1. r \in Requests /\ slots[s].kv_pos \in Nat /\ s \in SlotIds /\ slots[s].occupied
  BY DEF PoolOK, HoldersKnown, SlotTypeOK, OccupiedIds, Slot
<1>2. kv[s] = {r} \X (0 .. slots[s].kv_pos - 1)
  <2>1. batch[s] = {}
    BY <1>1 DEF Phases
  <2> QED
    BY <1>1, <2>1 DEF CellsFollowRequest
<1>3. CASE in_prefill[s]
  <2>1. prompt_tokens[s] = r /\ kv[s] = {} /\ PromptLen[r] \in Nat
    BY <1>1, <1>3, PromptLenAssumption DEF SlotsReady
  <2>2. NextPos(s) = PromptLen[r] /\ BatchCells(s) = {r} \X (0 .. PromptLen[r] - 1)
    BY <1>3, <2>1 DEF NextPos, BatchCells
  <2>3. 0 .. PromptLen[r] - 1 \subseteq Nat
    BY <2>1
  <2> QED
    BY <1>1, <2>1, <2>2, <2>3 DEF Cells
<1>4. CASE ~in_prefill[s]
  <2>1. NextPos(s) = slots[s].kv_pos + 1 /\ BatchCells(s) = {<<r, slots[s].kv_pos>>}
    BY <1>4 DEF NextPos, BatchCells
  <2>2. 0 .. NextPos(s) - 1 = (0 .. slots[s].kv_pos - 1) \cup {slots[s].kv_pos}
    BY <1>1, <2>1
  <2> HIDE DEF r
  <2>3. {r} \X (0 .. NextPos(s) - 1)
          = ({r} \X (0 .. slots[s].kv_pos - 1)) \cup {<<r, slots[s].kv_pos>>}
    BY <2>2
  <2>4. NextPos(s) \in Nat
    BY <1>1, <2>1
  <2>5. <<r, slots[s].kv_pos>> \in Requests \X Nat
    BY <1>1
  <2>6. BatchCells(s) \subseteq Cells
    BY <2>1, <2>5 DEF Cells
  <2>7. kv[s] \cup BatchCells(s) = {r} \X (0 .. NextPos(s) - 1)
    BY <1>2, <2>1, <2>3
  <2> QED
    BY <2>4, <2>6, <2>7 DEF r
<1> QED
  BY <1>3, <1>4

LEMMA BuildBatchKeepsInv == ASSUME SlotsInv, BuildBatch PROVE SlotsInv'
<1> USE DEF SlotsInv, callerVars, arrayVars
<1>1. /\ pc = "build" /\ pc' = "decode"
      /\ active' = OccupiedIds
      /\ batch' = [s \in SlotIds |-> IF slots[s].occupied THEN BatchCells(s) ELSE {}]
      /\ UNCHANGED <<pending, caller, late, running, stopper, promise, to_admit,
                     todo, free_count, kv, samplers, results, prompt_tokens,
                     tokens_generated, in_prefill>>
      /\ to_admit = <<>> /\ todo = {} /\ active = {}
  BY DEF BuildBatch, Phases
<1>2. slots' = [s \in SlotIds |->
                  IF slots[s].occupied
                    THEN [slots[s] EXCEPT !.kv_pos = NextPos(s)]
                    ELSE slots[s]]
  BY DEF BuildBatch
<1>3. ASSUME NEW s \in SlotIds
      PROVE  /\ slots'[s] \in Slot
             /\ slots'[s].occupied = slots[s].occupied
             /\ slots'[s].request = slots[s].request
             /\ slots'[s].last_token = slots[s].last_token
             /\ slots[s].occupied => slots'[s].kv_pos = NextPos(s)
  <2>1. slots[s] \in Slot
    BY DEF TypeOK, SlotTypeOK
  <2>2. CASE slots[s].occupied
    <3>1. NextPos(s) \in Nat
      BY <1>1, <2>2, BatchExtends DEF OccupiedIds
    <3>2. slots'[s] = [slots[s] EXCEPT !.kv_pos = NextPos(s)]
      BY <1>2, <2>2
    <3> HIDE DEF SlotsInv
    <3> QED
      BY <2>1, <3>1, <3>2 DEF Slot
  <2>3. CASE ~slots[s].occupied
    BY <1>2, <2>1, <2>3
  <2> QED
    BY <2>2, <2>3
<1>4. slots' \in [SlotIds -> Slot]
  BY <1>2, <1>3
<1>5. OccupiedIds' = OccupiedIds /\ FreeIds' = FreeIds
  BY <1>3 DEF OccupiedIds, FreeIds
<1>6. PoolOK'
  BY <1>1, <1>3, <1>4, SamePool DEF TypeOK, SlotTypeOK
<1>7. Cardinality(OccupiedIds) \in Nat
  BY SlotIdsFinite, FS_Subset, FS_CardinalityType DEF OccupiedIds
<1>8. /\ metrics' \in Metrics
      /\ metrics'.requests_inflight = Cardinality(OccupiedIds)
  <2> DEFINE u == Cardinality(OccupiedIds)
             n == metrics.requests_inflight + Cardinality(OccupiedIds)
  <2>1. metrics' = [metrics EXCEPT !.kv_slot_utilization = u, !.requests_inflight = n]
    BY DEF BuildBatch
  <2>2. metrics \in Metrics /\ metrics.requests_inflight = 0
    BY <1>1, FS_EmptySet DEF TypeOK, InflightBalanced
  <2>3. u \in Int /\ n \in Int /\ n = Cardinality(OccupiedIds)
    BY <1>7, <2>2
  <2> HIDE DEF SlotsInv, u, n
  <2>4. metrics' \in Metrics
    BY <2>1, <2>2, <2>3 DEF Metrics
  <2>5. metrics'.requests_inflight = n
    BY <2>1, <2>2 DEF Metrics
  <2> QED
    BY <2>3, <2>4, <2>5
<1>9. batch' \in [SlotIds -> SUBSET Cells]
  BY <1>1, BatchExtends DEF OccupiedIds
<1>10. TypeOK'
  BY <1>1, <1>6, <1>8, <1>9 DEF TypeOK, PoolOK, OccupiedIds, ControlPoints
<1>11. Phases' /\ InflightBalanced' /\ AcquireNeverFails'
  BY <1>1, <1>5, <1>8 DEF Phases, InflightBalanced, AcquireNeverFails
<1>12. SlotsReady'
  <2>1. ASSUME NEW s \in OccupiedIds, in_prefill[s]
        PROVE  slots'[s].kv_pos = PromptLen[slots[s].request]
    BY <1>3, <2>1 DEF SlotsReady, NextPos, OccupiedIds
  <2> QED
    BY <1>1, <1>3, <1>5, <2>1 DEF SlotsReady, OccupiedIds
<1>13. CellsFollowRequest'
  <2>1. ASSUME NEW s \in SlotIds
        PROVE  kv'[s] \cup batch'[s]
                 = IF slots'[s].occupied
                     THEN {slots'[s].request} \X (0 .. slots'[s].kv_pos - 1)
                     ELSE {}
    <3>1. CASE slots[s].occupied
      BY <1>1, <1>3, <3>1, BatchExtends DEF OccupiedIds
    <3>2. CASE ~slots[s].occupied
      BY <1>1, <1>3, <3>2 DEF CellsFollowRequest
    <3> QED
      BY <3>1, <3>2
  <2> QED
    BY <2>1 DEF CellsFollowRequest
<1>14. OwnTextOnly'
  BY <1>1, <1>3, <1>5 DEF OwnTextOnly, OccupiedIds
<1>15. PositionsAgree'
  <2>1. ASSUME NEW s \in OccupiedIds, ~in_prefill[s]
        PROVE  slots'[s].kv_pos = tokens_generated[s] + PromptLen[slots[s].request]
    <3>1. slots[s].kv_pos = (tokens_generated[s] + PromptLen[slots[s].request]) - 1
      BY <1>1, <2>1 DEF PositionsAgree
    <3>2. slots'[s].kv_pos = slots[s].kv_pos + 1
      BY <1>3, <2>1 DEF NextPos, OccupiedIds
    <3>3. tokens_generated[s] \in Nat /\ PromptLen[slots[s].request] \in Nat
      BY PromptLenAssumption DEF TypeOK, PoolOK, HoldersKnown, OccupiedIds
    <3> QED
      BY <3>1, <3>2, <3>3
  <2> QED
    BY <1>1, <1>3, <1>5, <2>1 DEF PositionsAgree, Limit, OccupiedIds
<1> QED
  BY <1>6, <1>10, <1>11, <1>12, <1>13, <1>14, <1>15

LEMMA DecodeOkKeepsInv == ASSUME SlotsInv, DecodeOk PROVE SlotsInv'
<1> USE DEF SlotsInv, callerVars, arrayVars
<1>1. /\ pc = "decode" /\ pc' = "sample" /\ active = OccupiedIds
      /\ kv' = [s \in SlotIds |-> kv[s] \cup batch[s]]
      /\ batch' = [s \in SlotIds |-> {}]
      /\ todo' = active
      /\ UNCHANGED <<pending, caller, late, running, stopper, promise, to_admit,
                     active, slots, free_count, samplers, results,
                     prompt_tokens, tokens_generated, in_prefill, metrics>>
  BY DEF DecodeOk, Phases, ToSample
<1>2. OccupiedIds' = OccupiedIds /\ FreeIds' = FreeIds
  BY <1>1 DEF OccupiedIds, FreeIds
<1>3. kv' \in [SlotIds -> SUBSET Cells]
  BY <1>1 DEF TypeOK, SlotTypeOK
<1>4. PoolOK'
  BY <1>1, <1>3, SamePool DEF TypeOK, SlotTypeOK
<1>5. TypeOK'
  BY <1>1, <1>4 DEF TypeOK, PoolOK, ControlPoints
<1>6. Phases' /\ InflightBalanced' /\ AcquireNeverFails'
  BY <1>1, <1>2 DEF Phases, InflightBalanced, AcquireNeverFails
<1>7. SlotsReady'
  BY <1>1, <1>2 DEF SlotsReady
<1>8. CellsFollowRequest'
  BY <1>1 DEF CellsFollowRequest
<1>9. OwnTextOnly'
  BY <1>1, <1>2 DEF OwnTextOnly
<1>10. PositionsAgree'
  BY <1>1, <1>2 DEF PositionsAgree, Limit
<1> QED
  BY <1>4, <1>5, <1>6, <1>7, <1>8, <1>9, <1>10

-----------------------------------------------------------------------------
(* Sampling. *)

\* The slot being sampled, and what the loop has left to do.
LEMMA SampledSlot ==
  ASSUME SlotsInv, NEW sid, Sampling(sid)
  PROVE  /\ pc = "sample" /\ sid \in OccupiedIds /\ sid \in SlotIds
         /\ slots[sid].request \in Requests
         /\ slots[sid] \in Slot
         /\ todo' = todo \ {sid} /\ sid \in todo
         /\ batch[sid] = {}
  BY DEF SlotsInv, Sampling, Phases, PoolOK, SlotTypeOK, HoldersKnown, OccupiedIds

\* A sequence that is done is answered with its own text and retired (266-273).
LEMMA CompleteKeepsInv ==
  ASSUME SlotsInv, NEW sid, Sampling(sid),
         NEW text, text \subseteq {slots[sid].request}, Complete(sid, text),
         UNCHANGED <<callerVars, running, stopper, pc, to_admit, active, batch>>
  PROVE  SlotsInv'
<1> USE DEF SlotsInv, callerVars
<1> DEFINE S == {sid}
<1>1. /\ pc = "sample" /\ sid \in OccupiedIds /\ sid \in SlotIds
      /\ slots[sid].request \in Requests
      /\ todo' = todo \ S
      /\ to_admit = <<>> /\ \A s \in SlotIds : batch[s] = {}
  BY SampledSlot DEF Phases
<1>2. S \subseteq OccupiedIds /\ S \subseteq SlotIds
  BY <1>1
<1>3. /\ RetireSlots(S) /\ Answer(S, "ok", text)
      /\ metrics' = [metrics EXCEPT !.requests_total = Counted(S)]
  BY DEF Complete
<1> HIDE DEF S
<1>4. /\ PoolOK' /\ Cardinality(S) \in Nat
      /\ OccupiedIds' = OccupiedIds \ S
      /\ \A s \in SlotIds \ S : /\ slots'[s] = slots[s]
                               /\ kv'[s] = kv[s]
                               /\ samplers'[s] = samplers[s]
                               /\ results'[s] = results[s]
                               /\ prompt_tokens'[s] = prompt_tokens[s]
                               /\ tokens_generated'[s] = tokens_generated[s]
                               /\ in_prefill'[s] = in_prefill[s]
      /\ \A s \in S : kv'[s] = {} /\ ~slots'[s].occupied
      /\ samplers' \in [SlotIds -> BOOLEAN]
      /\ results' \in [SlotIds -> SUBSET Requests]
      /\ prompt_tokens' \in [SlotIds -> Requests \cup {NoRequest}]
      /\ tokens_generated' \in [SlotIds -> Nat]
      /\ in_prefill' \in [SlotIds -> BOOLEAN]
  BY <1>2, <1>3, RetireTouchesOnly
<1>5. promise' \in [Requests -> PromiseState]
  BY <1>1, <1>3, AnswerTyped DEF Values
<1>6. metrics' \in Metrics /\ metrics'.requests_inflight = metrics.requests_inflight
  <2> DEFINE n == Counted(S)
  <2>1. metrics' = [metrics EXCEPT !.requests_total = n]
    BY <1>3
  <2>2. metrics \in Metrics
    BY DEF TypeOK
  <2>3. n \in Int
    BY <1>4, <2>2 DEF Counted, Metrics
  <2> HIDE DEF SlotsInv, n
  <2> QED
    BY <2>1, <2>2, <2>3 DEF Metrics
<1>7. TypeOK'
  BY <1>1, <1>4, <1>5, <1>6 DEF TypeOK, PoolOK
<1>8. OccupiedIds' \subseteq SlotIds \ S /\ OccupiedIds' \subseteq OccupiedIds
  BY <1>4 DEF OccupiedIds
<1>9. Phases' /\ InflightBalanced'
  BY <1>1, <1>4, <1>6 DEF Phases, InflightBalanced
<1>10. AcquireNeverFails'
  <2>1. Cardinality(FreeIds') \in Nat
    <3>1. FreeIds' \in SUBSET SlotIds
      BY DEF FreeIds
    <3> QED
      BY <3>1, SlotIdsFinite, FS_Subset, FS_CardinalityType
  <2>2. Len(to_admit') = 0
    BY <1>1, EmptySeq
  <2> QED
    BY <2>1, <2>2 DEF AcquireNeverFails
<1>11. ASSUME NEW s \in OccupiedIds'
       PROVE  /\ s \in OccupiedIds /\ s \in SlotIds
              /\ slots'[s] = slots[s] /\ kv'[s] = kv[s]
              /\ samplers'[s] = samplers[s]
              /\ results'[s] = results[s]
              /\ prompt_tokens'[s] = prompt_tokens[s]
              /\ tokens_generated'[s] = tokens_generated[s]
              /\ in_prefill'[s] = in_prefill[s]
              /\ s \in todo' <=> s \in todo
  BY <1>1, <1>4, <1>8
<1>12. SlotsReady'
  BY <1>1, <1>11 DEF SlotsReady
<1>13. CellsFollowRequest'
  <2>1. ASSUME NEW s \in SlotIds
        PROVE  kv'[s] \cup batch'[s]
                 = IF slots'[s].occupied
                     THEN {slots'[s].request} \X (0 .. slots'[s].kv_pos - 1)
                     ELSE {}
    <3>1. CASE s \in S
      BY <1>1, <1>4, <3>1
    <3>2. CASE s \notin S
      BY <1>1, <1>4, <3>2 DEF CellsFollowRequest
    <3> QED
      BY <3>1, <3>2
  <2> QED
    BY <2>1 DEF CellsFollowRequest
<1>14. OwnTextOnly'
  <2>1. \A r \in Requests : promise'[r].text \subseteq {r}
    BY <1>3, AnswerOwnText DEF S
  <2> QED
    BY <2>1, <1>11 DEF OwnTextOnly
<1>15. PositionsAgree'
  BY <1>1, <1>11 DEF PositionsAgree, Limit
<1> QED
  BY <1>4, <1>7, <1>9, <1>10, <1>12, <1>13, <1>14, <1>15

LEMMA SampleEosKeepsInv ==
  ASSUME SlotsInv, NEW sid, SampleEos(sid) PROVE SlotsInv'
<1>1. results[sid] \subseteq {slots[sid].request}
  BY SampledSlot DEF SampleEos, SlotsInv, OwnTextOnly
<1> QED
  BY <1>1, CompleteKeepsInv DEF SampleEos

LEMMA SampleLastKeepsInv ==
  ASSUME SlotsInv, NEW sid, SampleLast(sid) PROVE SlotsInv'
<1>1. Appended(sid) \subseteq {slots[sid].request}
  BY SampledSlot DEF SampleLast, SlotsInv, OwnTextOnly, Appended
<1> QED
  BY <1>1, CompleteKeepsInv DEF SampleLast

\* A token with more to come leaves prefill and the limit behind in step
\* (258-264).
LEMMA SampleTokenKeepsInv ==
  ASSUME SlotsInv, NEW sid, NEW tok \in Tokens, SampleToken(sid, tok)
  PROVE  SlotsInv'
<1> USE DEF SlotsInv, callerVars
<1> DEFINE r == slots[sid].request
<1>1. /\ pc = "sample" /\ sid \in OccupiedIds /\ sid \in SlotIds
      /\ r \in Requests /\ slots[sid] \in Slot
      /\ todo' = todo \ {sid} /\ sid \in todo
  BY SampledSlot DEF SampleToken
<1>2. /\ results' = [results EXCEPT ![sid] = results[sid] \cup {r}]
      /\ slots' = [slots EXCEPT ![sid].last_token = tok]
      /\ in_prefill' = [in_prefill EXCEPT ![sid] = FALSE]
      /\ tokens_generated' = [tokens_generated EXCEPT ![sid] = @ + 1]
      /\ ~(tokens_generated[sid] + 1 >= Limit(r))
      /\ UNCHANGED <<pending, caller, late, running, stopper, promise, pc,
                     to_admit, active, batch, free_count, kv, samplers,
                     prompt_tokens, metrics>>
  BY DEF SampleToken, Appended, MaxHit
<1>3. /\ DOMAIN slots' = SlotIds
      /\ slots' = [s \in SlotIds |-> slots'[s]]
      /\ slots'[sid] = [slots[sid] EXCEPT !.last_token = tok]
      /\ \A s \in SlotIds : s # sid => slots'[s] = slots[s]
  BY <1>1, <1>2 DEF TypeOK, SlotTypeOK
<1>4. /\ slots'[sid] \in Slot
      /\ slots'[sid].occupied /\ slots'[sid].request = r
      /\ slots'[sid].kv_pos = slots[sid].kv_pos
      /\ slots'[sid].last_token = tok
  <2>1. slots[sid].occupied
    BY <1>1 DEF OccupiedIds
  <2> HIDE DEF SlotsInv
  <2> QED
    BY <1>1, <1>3, <2>1 DEF Slot
<1>5. slots' \in [SlotIds -> Slot]
  BY <1>3, <1>4 DEF TypeOK, SlotTypeOK
<1>6. ASSUME NEW s \in SlotIds
      PROVE  /\ slots'[s].occupied = slots[s].occupied
             /\ slots'[s].request = slots[s].request
             /\ slots'[s].kv_pos = slots[s].kv_pos
  <2>1. CASE s = sid
    BY <1>1, <1>4, <2>1 DEF OccupiedIds, Slot
  <2>2. CASE s # sid
    BY <1>3, <2>2
  <2> QED
    BY <2>1, <2>2
<1>7. PoolOK'
  BY <1>2, <1>5, <1>6, SamePool DEF TypeOK, SlotTypeOK
<1>8. OccupiedIds' = OccupiedIds /\ FreeIds' = FreeIds
  BY <1>6 DEF OccupiedIds, FreeIds
<1>9. TypeOK'
  BY <1>1, <1>2, <1>7 DEF TypeOK, PoolOK
<1>10. Phases' /\ InflightBalanced' /\ AcquireNeverFails'
  BY <1>1, <1>2, <1>8 DEF Phases, InflightBalanced, AcquireNeverFails
<1>11. ASSUME NEW s \in SlotIds, s # sid
       PROVE  /\ results'[s] = results[s]
              /\ in_prefill'[s] = in_prefill[s]
              /\ tokens_generated'[s] = tokens_generated[s]
              /\ s \in todo' <=> s \in todo
  BY <1>1, <1>2, <1>11 DEF TypeOK
<1>12. /\ results'[sid] = results[sid] \cup {r}
       /\ ~in_prefill'[sid]
       /\ tokens_generated'[sid] = tokens_generated[sid] + 1
       /\ sid \notin todo'
  BY <1>1, <1>2 DEF TypeOK
<1>13. SlotsReady'
  <2>1. ASSUME NEW s \in OccupiedIds, s # sid
        PROVE  slots'[s] = slots[s]
    BY <1>3, <2>1 DEF OccupiedIds
  <2> QED
    BY <1>1, <1>2, <1>4, <1>8, <1>11, <1>12, <2>1 DEF SlotsReady, OccupiedIds
<1>14. CellsFollowRequest'
  BY <1>2, <1>6 DEF CellsFollowRequest
<1>15. OwnTextOnly'
  BY <1>1, <1>2, <1>6, <1>8, <1>11, <1>12 DEF OwnTextOnly, OccupiedIds
<1>16. PositionsAgree'
  <2>1. ASSUME NEW s \in OccupiedIds, s # sid
        PROVE  LET q      == slots'[s].request
                   cached == tokens_generated'[s] + PromptLen[q]
               IN /\ tokens_generated'[s] < Limit(q)
                  /\ in_prefill'[s] => tokens_generated'[s] = 0
                  /\ ~in_prefill'[s] =>
                       slots'[s].kv_pos =
                         IF pc' = "decode" \/ (pc' = "sample" /\ s \in todo')
                           THEN cached ELSE cached - 1
    BY <1>2, <1>6, <1>11, <2>1 DEF PositionsAgree, OccupiedIds
  <2>2. /\ tokens_generated[sid] \in Nat /\ PromptLen[r] \in Nat /\ Limit(r) \in Nat
    BY <1>1, LimitType, PromptLenAssumption DEF TypeOK
  <2>3. tokens_generated'[sid] < Limit(r)
    BY <1>2, <1>12, <2>2
  <2>4. slots[sid].kv_pos = tokens_generated[sid] + PromptLen[r]
    <3>1. CASE in_prefill[sid]
      BY <1>1, <2>2, <3>1 DEF SlotsReady, PositionsAgree
    <3>2. CASE ~in_prefill[sid]
      BY <1>1, <3>2 DEF PositionsAgree
    <3> QED
      BY <3>1, <3>2
  <2>5. slots'[sid].kv_pos = (tokens_generated'[sid] + PromptLen[r]) - 1
    BY <1>4, <1>12, <2>2, <2>4
  <2> QED
    BY <1>1, <1>2, <1>4, <1>8, <1>12, <2>1, <2>3, <2>5 DEF PositionsAgree, Limit
<1> QED
  BY <1>7, <1>9, <1>10, <1>13, <1>14, <1>15, <1>16

\* The iteration ends and the gauge is given back (276).
LEMMA EndIterationKeepsInv == ASSUME SlotsInv, EndIteration PROVE SlotsInv'
<1> USE DEF SlotsInv, callerVars, slotVars, arrayVars
<1>1. /\ pc = "sample" /\ todo = {} /\ pc' = "loop" /\ active' = {}
      /\ UNCHANGED <<pending, caller, late, running, stopper, promise, to_admit,
                     todo, batch, slots, free_count, kv, samplers, results,
                     prompt_tokens, tokens_generated, in_prefill>>
  BY DEF EndIteration
<1>2. OccupiedIds' = OccupiedIds /\ FreeIds' = FreeIds
  BY <1>1 DEF OccupiedIds, FreeIds
<1>3. PoolOK'
  BY <1>1, <1>2 DEF PoolOK, SlotTypeOK, FreeCountExact, HoldersKnown
<1>4. metrics' \in Metrics /\ metrics'.requests_inflight = 0
  <2>1. Cardinality(active) \in Nat
    BY SlotIdsFinite, FS_Subset, FS_CardinalityType DEF TypeOK
  <2> DEFINE d == metrics.requests_inflight - Cardinality(active)
  <2>2. metrics' = [metrics EXCEPT !.requests_inflight = d]
    BY DEF EndIteration
  <2>3. metrics \in Metrics /\ metrics.requests_inflight = Cardinality(active)
    BY DEF TypeOK, InflightBalanced
  <2>4. d \in Int /\ d = 0
    BY <2>1, <2>3
  <2> HIDE DEF SlotsInv, d
  <2>5. metrics' \in Metrics
    BY <2>2, <2>3, <2>4 DEF Metrics
  <2>6. metrics'.requests_inflight = d
    BY <2>2, <2>3 DEF Metrics
  <2> QED
    BY <2>4, <2>5, <2>6
<1>5. TypeOK'
  BY <1>1, <1>3, <1>4 DEF TypeOK, PoolOK, ControlPoints
<1>6. Phases' /\ AcquireNeverFails'
  BY <1>1, <1>2 DEF Phases, AcquireNeverFails
<1>7. InflightBalanced'
  BY <1>1, <1>4, FS_EmptySet DEF InflightBalanced
<1>8. \A s \in OccupiedIds : ~in_prefill[s]
  BY <1>1 DEF SlotsReady
<1>9. SlotsReady' /\ CellsFollowRequest' /\ OwnTextOnly'
  BY <1>1, <1>2, <1>8 DEF SlotsReady, CellsFollowRequest, OwnTextOnly
<1>10. PositionsAgree'
  BY <1>1, <1>2, <1>8 DEF PositionsAgree, Limit
<1> QED
  BY <1>3, <1>5, <1>6, <1>7, <1>9, <1>10

-----------------------------------------------------------------------------
(* The theorems. *)

LEMMA SlotsNext == ASSUME SlotsInv, [Next]_vars PROVE SlotsInv'
<1>1. CASE EngineStep
  <2>1. CASE LoopTop \/ IdleCheckPasses \/ IdleCheckFails \/ Park \/ NothingActive
    BY <2>1, IdleKeepsInv
  <2>2. CASE Drain \/ AdmitOne
    BY <2>2, DrainKeepsInv, AdmitOneKeepsInv
  <2>3. CASE RetireExpired \/ BuildBatch \/ DecodeOk \/ DecodeFail
    BY <2>3, RetireExpiredKeepsInv, BuildBatchKeepsInv, DecodeOkKeepsInv,
       DecodeFailKeepsInv
  <2>4. CASE \E sid \in SlotIds : \/ SampleEos(sid)
                                  \/ SampleLast(sid)
                                  \/ \E tok \in Tokens : SampleToken(sid, tok)
    BY <2>4, SampleEosKeepsInv, SampleLastKeepsInv, SampleTokenKeepsInv
  <2>5. CASE EndIteration
    BY <2>5, EndIterationKeepsInv
  <2> QED
    BY <1>1, <2>1, <2>2, <2>3, <2>4, <2>5 DEF EngineStep
<1>2. CASE CallerStep \/ SetStop \/ NotifyAll \/ Join \/ SpuriousWake
  BY <1>2, CallersKeepInv
<1>3. CASE UNCHANGED vars
  <2>1. CallerTypes' /\ pc' = pc
    BY <1>3, CallerTypesNow DEF vars, callerVars, CallerTypes
  <2> QED
    BY <1>3, <2>1, QuietStep DEF vars
<1> QED
  BY <1>1, <1>2, <1>3 DEF Next

-----------------------------------------------------------------------------
(* The idle wait. *)

\* The counter the loop reads is at its maximum when no slot is in use.
LEMMA AllFree ==
  ASSUME SlotsInv, free_count = MaxSlots
  PROVE  OccupiedIds = {}
<1>1. Cardinality(FreeIds) = MaxSlots
  BY DEF SlotsInv, PoolOK, FreeCountExact
<1>2. FreeIds \in SUBSET SlotIds /\ IsFiniteSet(SlotIds) /\ Cardinality(SlotIds) = MaxSlots
  BY SlotIdsFinite DEF FreeIds
<1>3. FreeIds = SlotIds
  BY <1>1, <1>2, FS_Subset
<1> QED
  BY <1>3 DEF FreeIds, OccupiedIds

\* What the engine thread does while it serves leaves it serving.
LEMMA BusyKeepsIdleInv ==
  ASSUME pc' \notin {"idle", "parking", "waiting", "exited"}
  PROVE  IdleInv'
  BY DEF IdleInv

\* A caller pushes only while the mutex is free, and is then about to notify (64-70).
LEMMA CallersKeepIdleInv ==
  ASSUME SlotsInv, IdleInv, CallerStep
  PROVE  IdleInv'
<1>1. TypeOK
  BY DEF SlotsInv
<1>2. ASSUME NEW r \in Requests, Enqueue(r) PROVE IdleInv'
  <2>1. OccupiedIds' = OccupiedIds /\ pc' = pc /\ pc # "parking" /\ running' = running
    BY <1>2 DEF Enqueue, slotVars, OccupiedIds
  <2>2. ASSUME pc = "waiting", NEW i \in DOMAIN pending' PROVE caller'[pending'[i]] = "pushed"
    <3>1. \/ i \in DOMAIN pending /\ pending'[i] = pending[i] /\ pending[i] \in Requests
          \/ pending'[i] = r
      BY <1>1, <1>2, <2>2 DEF Enqueue, TypeOK
    <3>2. caller' = [caller EXCEPT ![r] = "pushed"] /\ caller \in [Requests -> {"new", "pushed", "notified"}]
      BY <1>1, <1>2 DEF Enqueue, TypeOK
    <3> QED
      BY <2>2, <3>1, <3>2 DEF IdleInv
  <2> QED
    BY <2>1, <2>2 DEF IdleInv
<1>3. ASSUME NEW r \in Requests, NotifyOne(r) PROVE IdleInv'
  BY <1>3 DEF NotifyOne, Woken, IdleInv, slotVars, OccupiedIds
<1>4. ASSUME NEW r \in Requests, DeadlinePasses(r) PROVE IdleInv'
  BY <1>4 DEF DeadlinePasses, IdleInv, slotVars, OccupiedIds
<1> QED
  BY <1>2, <1>3, <1>4 DEF CallerStep

LEMMA IdleInvNext == ASSUME SlotsInv, IdleInv, [Next]_vars PROVE IdleInv'
<1> USE DEF slotVars, OccupiedIds, callerVars
<1>1. CASE LoopTop
  <2>1. pc' = "idle" => OccupiedIds = {}
    BY <1>1, AllFree DEF LoopTop
  <2> QED
    BY <1>1, <2>1 DEF LoopTop, IdleInv
<1>2. CASE IdleCheckPasses \/ IdleCheckFails \/ Park \/ SpuriousWake
  BY <1>2 DEF IdleCheckPasses, IdleCheckFails, Park, SpuriousWake, IdleInv
<1>3. CASE Drain \/ AdmitOne \/ RetireExpired \/ NothingActive \/ BuildBatch
  <2>1. pc' \notin {"idle", "parking", "waiting", "exited"}
    BY <1>3 DEF Drain, AdmitOne, RetireExpired, NothingActive, BuildBatch
  <2> QED
    BY <2>1, BusyKeepsIdleInv
<1>4. CASE DecodeOk \/ DecodeFail \/ EndIteration
  <2>1. pc' \notin {"idle", "parking", "waiting", "exited"}
    BY <1>4 DEF DecodeOk, DecodeFail, EndIteration
  <2> QED
    BY <2>1, BusyKeepsIdleInv
<1>5. ASSUME NEW sid \in SlotIds,
             \/ SampleEos(sid) \/ SampleLast(sid)
             \/ \E tok \in Tokens : SampleToken(sid, tok)
      PROVE  IdleInv'
  <2>1. pc' \notin {"idle", "parking", "waiting", "exited"}
    BY <1>5 DEF SampleEos, SampleLast, SampleToken, Sampling
  <2> QED
    BY <2>1, BusyKeepsIdleInv
<1>6. CASE CallerStep
  BY <1>6, CallersKeepIdleInv
<1>7. CASE SetStop
  BY <1>7 DEF SetStop, IdleInv
<1>8. CASE NotifyAll \/ Join
  BY <1>8 DEF NotifyAll, Join, Woken, IdleInv
<1>9. CASE UNCHANGED vars
  BY <1>9 DEF vars, IdleInv
<1> QED
  BY <1>1, <1>2, <1>3, <1>4, <1>5, <1>6, <1>7, <1>8, <1>9 DEF Next, EngineStep

-----------------------------------------------------------------------------
(* The invariants. *)

LEMMA EngineInit == ASSUME Init PROVE EngineInv
<1>1. IdleInv
  BY DEF Init, IdleInv
<1> QED
  BY <1>1, SlotsInit DEF EngineInv

LEMMA EngineNext == ASSUME EngineInv, [Next]_vars PROVE EngineInv'
  BY SlotsNext, IdleInvNext DEF EngineInv

\* EngineInv holds in every reachable state, whatever the callers, deadlines,
\* failures and shutdowns do.
THEOREM EngineInvHolds == Spec => []EngineInv
  BY EngineInit, EngineNext, PTL DEF Spec

\* Every variable keeps its type (continuous_batch_engine.h:41-61).
THEOREM TypeCorrect == Spec => []TypeOK
<1>1. EngineInv => TypeOK
  BY DEF EngineInv, SlotsInv
<1> QED
  BY <1>1, EngineInvHolds, PTL

\* The atomic counter the engine reads is the number of free slots
\* (kv_slot_manager.cpp:14, 24).
THEOREM EngineCounterExact == Spec => []FreeCountExact
<1>1. EngineInv => FreeCountExact
  BY DEF EngineInv, SlotsInv, PoolOK
<1> QED
  BY <1>1, EngineInvHolds, PTL

\* The "acquire failed unexpectedly" branch (98-101) is never taken: whatever
\* was drained under the lock still has a slot outside it.
THEOREM AdmissionNeverFails == Spec => []AcquireNeverFails
<1>1. EngineInv => AcquireNeverFails
  BY DEF EngineInv, SlotsInv
<1> QED
  BY <1>1, EngineInvHolds, PTL

\* Retiring or reusing a slot never leaves one request's cells to another
\* (README.md:24).
THEOREM SequencesIsolated == Spec => []CellsFollowRequest
<1>1. EngineInv => CellsFollowRequest
  BY DEF EngineInv, SlotsInv
<1> QED
  BY <1>1, EngineInvHolds, PTL

\* No caller ever receives text generated for another request (126, 153, 271).
THEOREM NoTextLeaks == Spec => []OwnTextOnly
<1>1. EngineInv => OwnTextOnly
  BY DEF EngineInv, SlotsInv
<1> QED
  BY <1>1, EngineInvHolds, PTL

\* What the batch is built from is the slot's own: its prompt with an empty
\* cache, or a token to feed back (205-225).
THEOREM BatchInputsReady == Spec => []ReadyToDecode
<1>1. EngineInv => ReadyToDecode
  BY DEF EngineInv, SlotsInv, SlotsReady, ReadyToDecode
<1> QED
  BY <1>1, EngineInvHolds, PTL

\* The sampling loop never meets a slot without a sampler or outside the batch
\* (248-251).
THEOREM SamplingReady == Spec => []ReadyToSample
<1>1. EngineInv => ReadyToSample
  BY DEF EngineInv, SlotsInv, Phases, SlotsReady, ReadyToSample, OccupiedIds
<1> QED
  BY <1>1, EngineInvHolds, PTL

\* Positions, generated tokens and limits stay in step (216-220, 260-266).
THEOREM CountersAgree == Spec => []PositionsAgree
<1>1. EngineInv => PositionsAgree
  BY DEF EngineInv, SlotsInv
<1> QED
  BY <1>1, EngineInvHolds, PTL

\* The in-flight gauge is balanced on the normal and on the error path
\* (228, 241, 276).
THEOREM GaugeBalanced == Spec => []InflightBalanced
<1>1. EngineInv => InflightBalanced
  BY DEF EngineInv, SlotsInv
<1> QED
  BY <1>1, EngineInvHolds, PTL
=============================================================================
