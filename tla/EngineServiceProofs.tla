-------------------------- MODULE EngineServiceProofs --------------------------
(***************************************************************************)
(* Each request is in one place and answered once, the counters tell how   *)
(* many were answered, the engine implements BatchingService, and the      *)
(* context it asks for is large enough.  Every step of the engine does one *)
(* of five things to a request (StepEffects); the proofs treat those.      *)
(***************************************************************************)
EXTENDS EngineProofs

\* The slots in use are in use by the same requests.
SameHolders ==
  /\ OccupiedIds' = OccupiedIds
  /\ \A s \in OccupiedIds : slots'[s].request = slots[s].request

SameCounts ==
  /\ metrics'.requests_total = metrics.requests_total
  /\ metrics'.requests_deadline_exceeded = metrics.requests_deadline_exceeded

\* No request moves.
Unmoved ==
  /\ Waiting' = Waiting /\ SameHolders /\ SameCounts /\ promise' = promise
  /\ \A r \in Requests : caller'[r] = "new" <=> caller[r] = "new"

\* A request is queued.
Submitted(r) ==
  /\ caller[r] = "new" /\ caller' = [caller EXCEPT ![r] = "pushed"]
  /\ Waiting' = Append(Waiting, r) /\ SameHolders /\ SameCounts
  /\ promise' = promise

\* The oldest enters a slot.
Started(sid) ==
  /\ Waiting # <<>> /\ Waiting' = Tail(Waiting)
  /\ OccupiedIds' = OccupiedIds \cup {sid}
  /\ slots'[sid].request = Head(Waiting)
  /\ \A s \in OccupiedIds : slots'[s].request = slots[s].request
  /\ promise' = promise /\ caller' = caller /\ SameCounts

\* The oldest has no tokens.
Rejected ==
  /\ Waiting # <<>> /\ Waiting' = Tail(Waiting)
  /\ FreeIds # {} /\ SameHolders /\ SameCounts /\ caller' = caller
  /\ promise' = [promise EXCEPT ![Head(Waiting)] =
                   [calls |-> @.calls + 1, value |-> "tokenization_failed",
                    text |-> {}]]

\* The requests in the slots of S are answered, and leave.
Answered(S, v, text) ==
  /\ v = "decode_failed" => S = OccupiedIds
  /\ Answer(S, v, text)
  /\ OccupiedIds' = OccupiedIds \ S
  /\ \A s \in OccupiedIds \ S : slots'[s].request = slots[s].request
  /\ Waiting' = Waiting /\ caller' = caller
  /\ metrics'.requests_total = metrics.requests_total + Cardinality(S)
  /\ metrics'.requests_deadline_exceeded
       = metrics.requests_deadline_exceeded
           + IF v = "deadline_exceeded" THEN Cardinality(S) ELSE 0

-----------------------------------------------------------------------------

LEMMA WaitingTyped ==
  ASSUME TypeOK
  PROVE  /\ pending \in Seq(Requests) /\ to_admit \in Seq(Requests)
         /\ Waiting \in Seq(Requests) /\ Len(Waiting) \in Nat
         /\ DOMAIN Waiting = 1 .. Len(Waiting)
         /\ \A i \in DOMAIN Waiting : Waiting[i] \in Requests
  BY ConcatProperties, LenProperties, ElementOfSeq DEF TypeOK, Waiting

\* What is left of the queue without its head, when nobody is in it twice.
LEMMA Dequeued ==
  ASSUME TypeOK, OnePlaceEach, Waiting # <<>>, Waiting' = Tail(Waiting)
  PROVE  /\ Head(Waiting) \in Requests /\ Queued(Head(Waiting))
         /\ Head(Waiting) \notin Held
         /\ \A i, j \in DOMAIN Waiting' : Waiting'[i] = Waiting'[j] => i = j
         /\ \A r : Queued(r)' <=> Queued(r) /\ r # Head(Waiting)
<1> DEFINE W == Waiting
           X == Waiting'
<1>1. /\ W \in Seq(Requests) /\ Len(W) \in Nat \ {0} /\ DOMAIN W = 1 .. Len(W)
      /\ X = Tail(W)
  BY WaitingTyped, EmptySeq
<1>2. \A i, j \in DOMAIN W : W[i] = W[j] => i = j
  BY DEF OnePlaceEach
<1>3. /\ \A r : Queued(r) <=> \E i \in DOMAIN W : W[i] = r
      /\ \A r : Queued(r)' <=> \E i \in DOMAIN X : X[i] = r
  BY DEF Queued
<1>4. 1 \in DOMAIN W /\ W[1] \in Requests /\ Head(W) = W[1]
  BY <1>1, WaitingTyped
<1>5. Head(W) \notin Held
  BY <1>3, <1>4 DEF OnePlaceEach
<1> HIDE DEF W, X
<1>6. DOMAIN X = 1 .. (Len(W) - 1) /\ \A i \in DOMAIN X : X[i] = W[i + 1]
  BY <1>1
<1>7. \A i \in DOMAIN X : i + 1 \in DOMAIN W /\ i + 1 # 1 /\ i \in Nat
  BY <1>1, <1>6
<1>8. \A i \in DOMAIN W : i = 1 \/ (i - 1 \in DOMAIN X /\ X[i - 1] = W[i])
  BY <1>1, <1>6
<1>9. \A i, j \in DOMAIN X : X[i] = X[j] => i = j
  BY <1>2, <1>6, <1>7
<1>10. ASSUME NEW r PROVE Queued(r)' <=> Queued(r) /\ r # Head(W)
  <2>1. CASE Queued(r)'
    BY <2>1, <1>2, <1>3, <1>4, <1>6, <1>7
  <2>2. CASE Queued(r) /\ r # Head(W)
    BY <2>2, <1>3, <1>4, <1>8
  <2> QED
    BY <2>1, <2>2
<1> QED
  BY <1>3, <1>4, <1>5, <1>9, <1>10 DEF W, X

-----------------------------------------------------------------------------
(* What each step does to requests. *)

\* Steps of the callers, and of the engine thread where it touches no request.
LEMMA QuietEffects ==
  ASSUME EngineInv,
         \/ SetStop \/ NotifyAll \/ Join \/ SpuriousWake
         \/ \E r \in Requests : NotifyOne(r) \/ DeadlinePasses(r)
         \/ LoopTop \/ IdleCheckPasses \/ IdleCheckFails \/ Park
         \/ NothingActive \/ EndIteration \/ UNCHANGED vars
  PROVE  Unmoved
<1>1. UNCHANGED <<pending, to_admit, slots, promise>> /\ SameCounts
  BY DEF SetStop, NotifyAll, Join, SpuriousWake, NotifyOne, DeadlinePasses,
         LoopTop, IdleCheckPasses, IdleCheckFails, Park, NothingActive,
         EndIteration, vars, callerVars, loopVars, slotVars, SameCounts, EngineInv, SlotsInv,
         TypeOK, Metrics
<1>2. caller \in [Requests -> {"new", "pushed", "notified"}]
  BY DEF EngineInv, SlotsInv, TypeOK
<1>3. \A r \in Requests : caller'[r] = "new" <=> caller[r] = "new"
  BY <1>2 DEF SetStop, NotifyAll, Join, SpuriousWake, NotifyOne, DeadlinePasses,
              LoopTop, IdleCheckPasses, IdleCheckFails, Park, NothingActive,
              EndIteration, vars, callerVars
<1> QED
  BY <1>1, <1>3 DEF Unmoved, Waiting, SameHolders, OccupiedIds

LEMMA EnqueueEffects ==
  ASSUME EngineInv, NEW r \in Requests, Enqueue(r)
  PROVE  Submitted(r)
<1>1. /\ pending \in Seq(Requests) /\ to_admit \in Seq(Requests)
      /\ pending' = Append(pending, r) /\ to_admit' = to_admit
  BY WaitingTyped DEF EngineInv, SlotsInv, Enqueue, loopVars
<1>2. to_admit \o Append(pending, r) = Append(to_admit \o pending, r)
  <2>1. <<r>> \in Seq(Requests)
    OBVIOUS
  <2>2. Append(pending, r) = pending \o <<r>>
    BY <1>1, AppendIsConcat
  <2>3. Append(to_admit \o pending, r) = (to_admit \o pending) \o <<r>>
    BY <1>1, AppendIsConcat, ConcatProperties
  <2> QED
    BY <1>1, <2>1, <2>2, <2>3, ConcatAssociative
<1>3. SameHolders /\ SameCounts /\ promise' = promise
      /\ caller[r] = "new" /\ caller' = [caller EXCEPT ![r] = "pushed"]
  BY DEF Enqueue, slotVars, SameHolders, SameCounts, OccupiedIds
<1> QED
  BY <1>1, <1>2, <1>3 DEF Submitted, Waiting

LEMMA DrainEffects == ASSUME EngineInv, Drain PROVE Unmoved
<1>1. /\ pending \in Seq(Requests) /\ Len(pending) \in Nat /\ to_admit = <<>>
      /\ free_count \in Nat
  BY WaitingTyped, LenProperties, MaxSlotsAssumption
  DEF EngineInv, SlotsInv, Phases, Drain, PoolOK, SlotTypeOK
<1>2. CanAdmit \in 0 .. Len(pending)
  BY <1>1 DEF CanAdmit
<1>3. /\ to_admit' = SubSeq(pending, 1, CanAdmit)
      /\ pending' = SubSeq(pending, CanAdmit + 1, Len(pending))
  BY DEF Drain, Undrained
<1>4. SubSeq(pending, 1, CanAdmit) \o SubSeq(pending, CanAdmit + 1, Len(pending))
        = SubSeq(pending, 1, Len(pending))
  <2> DEFINE k == CanAdmit
  <2>1. /\ 1 \in 1 .. Len(pending) + 1 /\ k \in 1 - 1 .. Len(pending)
        /\ Len(pending) \in k .. Len(pending)
    BY <1>1, <1>2
  <2> HIDE DEF k
  <2>2. SubSeq(pending, 1, k) \o SubSeq(pending, k + 1, Len(pending))
          = SubSeq(pending, 1, Len(pending))
    BY <1>1, <2>1, ConcatAdjacentSubSeq
  <2> QED
    BY <2>2 DEF k
<1>5. Waiting = pending
  BY <1>1, ConcatEmptySeq DEF Waiting
<1>6. Waiting' = pending
  BY <1>1, <1>3, <1>4, SubSeqFull DEF Waiting
<1> QED
  BY <1>5, <1>6 DEF Drain, slotVars, Unmoved, SameHolders, SameCounts, OccupiedIds

LEMMA AdmitEffects ==
  ASSUME EngineInv, AdmitOne
  PROVE  Rejected \/ \E sid \in FreeIds : Started(sid)
<1>1. /\ to_admit # <<>> /\ to_admit' = Tail(to_admit) /\ pending' = pending
      /\ caller' = caller /\ metrics' = metrics
  BY DEF AdmitOne, callerVars
<1>2. PICK sid \in FreeIds : \/ Prefill(sid, Head(to_admit))
                             \/ TokenizeFails(sid, Head(to_admit))
  BY <1>1, NextToAdmit DEF AdmitOne, EngineInv
<1>3. /\ Waiting # <<>> /\ Waiting' = Tail(Waiting)
      /\ Head(Waiting) = Head(to_admit)
  <2> DEFINE A == to_admit
             P == pending
             W == A \o P
             V == Tail(A) \o P
  <2>1. /\ A \in Seq(Requests) /\ P \in Seq(Requests) /\ W \in Seq(Requests)
        /\ Len(W) = Len(A) + Len(P) /\ Len(A) \in Nat \ {0} /\ Len(P) \in Nat
        /\ Tail(A) \in Seq(Requests) /\ Len(Tail(A)) = Len(A) - 1
        /\ \A i \in 1 .. Len(Tail(A)) : Tail(A)[i] = A[i + 1]
    BY <1>1, WaitingTyped, ConcatProperties, EmptySeq, LenProperties,
       HeadTailProperties DEF EngineInv, SlotsInv
  <2>2. \A i \in 1 .. Len(W) : W[i] = IF i <= Len(A) THEN A[i] ELSE P[i - Len(A)]
    BY <2>1, ConcatProperties
  <2>3. /\ V \in Seq(Requests) /\ Len(V) = Len(Tail(A)) + Len(P)
        /\ \A i \in 1 .. Len(V) :
             V[i] = IF i <= Len(Tail(A)) THEN Tail(A)[i] ELSE P[i - Len(Tail(A))]
    BY <2>1, ConcatProperties
  <2>4. W # <<>> /\ Head(W) = W[1] /\ W[1] = A[1] /\ Head(A) = A[1]
    BY <2>1, <2>2, EmptySeq
  <2>5. /\ Tail(W) \in Seq(Requests) /\ Len(Tail(W)) = Len(W) - 1
        /\ \A i \in 1 .. Len(Tail(W)) : Tail(W)[i] = W[i + 1]
    BY <2>1, <2>4, HeadTailProperties
  <2> HIDE DEF A, P, W, V
  <2>6. Len(Tail(W)) = Len(V)
    BY <2>1, <2>3, <2>5
  <2>7. ASSUME NEW i \in 1 .. Len(V) PROVE Tail(W)[i] = V[i]
    <3>1. i \in Nat /\ i >= 1 /\ i + 1 \in 1 .. Len(W) /\ Tail(W)[i] = W[i + 1]
      BY <2>1, <2>3, <2>5, <2>6
    <3>2. CASE i <= Len(Tail(A))
      BY <2>1, <2>2, <2>3, <3>1, <3>2
    <3>3. CASE ~(i <= Len(Tail(A)))
      BY <2>1, <2>2, <2>3, <3>1, <3>3
    <3> QED
      BY <3>2, <3>3
  <2>8. Tail(W) = V
    BY <2>3, <2>5, <2>6, <2>7, SeqEqual
  <2> QED
    BY <1>1, <2>4, <2>8 DEF A, P, W, V, Waiting
<1>4. sid \in SlotIds /\ sid \notin OccupiedIds /\ slots \in [SlotIds -> Slot]
  BY DEF FreeIds, EngineInv, SlotsInv, TypeOK, SlotTypeOK
<1>5. CASE Prefill(sid, Head(to_admit))
  <2>1. slots' = [slots EXCEPT ![sid] = NewSlot(Head(to_admit))]
        /\ promise' = promise
    BY <1>5 DEF Prefill, Acquire
  <2>2. OccupiedIds' = OccupiedIds \cup {sid}
        /\ slots'[sid].request = Head(to_admit)
        /\ \A s \in OccupiedIds : slots'[s].request = slots[s].request
    BY <1>4, <2>1 DEF OccupiedIds, NewSlot
  <2> QED
    BY <1>1, <1>3, <2>1, <2>2 DEF Started, SameCounts
<1>6. CASE TokenizeFails(sid, Head(to_admit))
  <2>1. slots' = [slots EXCEPT ![sid] = EmptySlot]
    BY <1>6 DEF TokenizeFails
  <2>2. SameHolders
    BY <1>4, <2>1 DEF OccupiedIds, EmptySlot, SameHolders
  <2> QED
    BY <1>1, <1>3, <1>6, <2>2 DEF TokenizeFails, Rejected, SameCounts
<1> QED
  BY <1>2, <1>5, <1>6

Texts == SUBSET Requests

LEMMA AnswerEffects ==
  ASSUME EngineInv,
         RetireExpired \/ DecodeFail \/ \E sid \in SlotIds : SampleEos(sid) \/ SampleLast(sid)
  PROVE  \E S \in SUBSET OccupiedIds, v \in Served, text \in Texts : Answered(S, v, text)
<1> USE DEF EngineInv, SlotsInv, callerVars, loopVars, Served, Texts
<1>1. CASE RetireExpired
  <2>1. Expired \subseteq OccupiedIds
    BY DEF Expired
  <2>2. OccupiedIds' = OccupiedIds \ Expired
        /\ \A s \in OccupiedIds \ Expired : slots'[s] = slots[s]
    BY <1>1, <2>1, RetireTouchesOnly DEF RetireExpired, OccupiedIds
  <2>3. Answered(Expired, "deadline_exceeded", {})
    BY <1>1, <2>2 DEF RetireExpired, Answered, Counted, Waiting, TypeOK, Metrics
  <2> QED
    BY <2>1, <2>3
<1>2. CASE DecodeFail
  <2>1. active = OccupiedIds
    BY <1>2 DEF DecodeFail, Phases
  <2>2. OccupiedIds' = OccupiedIds \ active
        /\ \A s \in OccupiedIds \ active : slots'[s] = slots[s]
    BY <1>2, <2>1, RetireTouchesOnly DEF DecodeFail, OccupiedIds
  <2>3. Answered(active, "decode_failed", {})
    BY <1>2, <2>1, <2>2 DEF DecodeFail, Answered, Counted, Waiting, TypeOK, Metrics
  <2> QED
    BY <2>1, <2>3
<1>3. ASSUME NEW sid \in SlotIds, SampleEos(sid) \/ SampleLast(sid)
      PROVE  \E S \in SUBSET OccupiedIds, v \in Served, text \in Texts :
               Answered(S, v, text)
  <2>1. sid \in OccupiedIds /\ slots[sid].request \in Requests
    BY <1>3, SampledSlot DEF SampleEos, SampleLast
  <2>2. results[sid] \in Texts /\ Appended(sid) \in Texts
    BY <2>1 DEF TypeOK, Appended
  <2>3. PICK text \in Texts : Complete(sid, text)
    BY <1>3, <2>2 DEF SampleEos, SampleLast
  <2>4. OccupiedIds' = OccupiedIds \ {sid}
        /\ \A s \in OccupiedIds \ {sid} : slots'[s] = slots[s]
    BY <2>1, <2>3, RetireTouchesOnly DEF Complete, OccupiedIds
  <2>5. UNCHANGED <<pending, to_admit, caller>>
    BY <1>3 DEF SampleEos, SampleLast
  <2>6. /\ metrics'.requests_total = metrics.requests_total + Cardinality({sid})
        /\ metrics'.requests_deadline_exceeded = metrics.requests_deadline_exceeded
        /\ metrics.requests_deadline_exceeded \in Int
    BY <2>3 DEF Complete, Counted, TypeOK, Metrics
  <2>7. Answered({sid}, "ok", text)
    BY <2>3, <2>4, <2>5, <2>6 DEF Complete, Answered, Waiting
  <2> QED
    BY <2>1, <2>7
<1> QED
  BY <1>1, <1>2, <1>3

LEMMA StepEffects ==
  ASSUME EngineInv, [Next]_vars
  PROVE  \/ Unmoved
         \/ \E r \in Requests : Submitted(r)
         \/ \E sid \in FreeIds : Started(sid)
         \/ Rejected
         \/ \E S \in SUBSET OccupiedIds, v \in Served, text \in Texts :
              Answered(S, v, text)
<1>1. CASE BuildBatch \/ DecodeOk \/ \E sid \in SlotIds, tok \in Tokens : SampleToken(sid, tok)
  <2>1. /\ UNCHANGED <<pending, to_admit, caller, promise>> /\ SameCounts
        /\ slots \in [SlotIds -> Slot]
    BY <1>1 DEF BuildBatch, DecodeOk, SampleToken, callerVars, SameCounts,
                EngineInv, SlotsInv, TypeOK, SlotTypeOK, Metrics
  <2>2. SameHolders
    BY <1>1, <2>1 DEF BuildBatch, DecodeOk, SampleToken, SameHolders, OccupiedIds, Slot
  <2> QED
    BY <2>1, <2>2 DEF Unmoved, Waiting
<1> QED
  BY <1>1, QuietEffects, EnqueueEffects, DrainEffects, AdmitEffects, AnswerEffects
  DEF Next, EngineStep, CallerStep

-----------------------------------------------------------------------------
(* Where each request is, and how it was answered. *)

LEMMA HeldIs ==
  /\ \A r : r \in Held <=> \E s \in OccupiedIds : slots[s].request = r
  /\ \A r : (r \in Held)' <=> \E s \in OccupiedIds' : slots'[s].request = r
  BY DEF Held

LEMMA SameHeld ==
  ASSUME SameHolders
  PROVE  Held' = Held
  BY HeldIs DEF SameHolders

LEMMA PromiseTyped ==
  ASSUME TypeOK
  PROVE  /\ promise \in [Requests -> PromiseState]
         /\ \A r \in Requests : promise[r].calls \in Nat /\ promise[r].value \in Values
  BY DEF TypeOK, PromiseState

\* The requests in the slots of S, as many as there are slots.
HoldersOf(S) == {slots[s].request : s \in S}

LEMMA HoldersCounted ==
  ASSUME EngineInv, OnePlaceEach, NEW S \in SUBSET OccupiedIds
  PROVE  /\ IsFiniteSet(HoldersOf(S)) /\ Cardinality(HoldersOf(S)) = Cardinality(S)
         /\ HoldersOf(S) \subseteq Requests /\ HoldersOf(S) \subseteq Held
<1> DEFINE f == [s \in S |-> slots[s].request]
<1>1. IsFiniteSet(S)
  BY SlotIdsFinite, FS_Subset DEF OccupiedIds
<1>2. f \in Bijection(S, HoldersOf(S))
  <2>1. f \in [S -> HoldersOf(S)]
    BY DEF HoldersOf
  <2>2. \A s, t \in S : f[s] = f[t] => s = t
    BY DEF OnePlaceEach
  <2>3. \A r \in HoldersOf(S) : \E s \in S : f[s] = r
    BY DEF HoldersOf
  <2> HIDE DEF f
  <2> QED
    BY <2>1, <2>2, <2>3 DEF Bijection, Injection, IsInjective, Surjection
<1>3. IsFiniteSet(HoldersOf(S)) /\ Cardinality(HoldersOf(S)) = Cardinality(S)
  BY <1>1, <1>2, FS_Bijection DEF ExistsBijection
<1> QED
  BY <1>3 DEF EngineInv, SlotsInv, PoolOK, HoldersKnown, HoldersOf, Held

\* What an answer does to the requests of S and to all the others.
LEMMA AnswerIs ==
  ASSUME EngineInv, OnePlaceEach, NEW S \in SUBSET OccupiedIds, NEW v, NEW text,
         Answered(S, v, text)
  PROVE  /\ Held' = Held \ HoldersOf(S)
         /\ \A r \in HoldersOf(S) : /\ promise'[r].calls = promise[r].calls + 1
                                    /\ promise'[r].value = v
         /\ \A r \in Requests \ HoldersOf(S) : promise'[r] = promise[r]
         /\ \A s \in OccupiedIds' : /\ s \in OccupiedIds
                                    /\ slots'[s].request = slots[s].request
<1>1. \A r : r \in HoldersOf(S) <=> \E s \in S : slots[s].request = r
  BY DEF HoldersOf
<1>2. HoldersOf(S) \subseteq Requests
  BY HoldersCounted
<1>3. /\ OccupiedIds' = OccupiedIds \ S
      /\ \A s \in OccupiedIds \ S : slots'[s].request = slots[s].request
      /\ Answer(S, v, text)
  BY DEF Answered
<1>4. \A s, t \in OccupiedIds : slots[s].request = slots[t].request => s = t
  BY DEF OnePlaceEach
<1>5. \A r : r \in Held' <=> r \in Held \ HoldersOf(S)
  BY <1>1, <1>3, <1>4, HeldIs
<1>6. \A r \in HoldersOf(S) : promise'[r] = [calls |-> promise[r].calls + 1,
                                             value |-> v, text |-> text]
  BY <1>1, <1>2, <1>3 DEF Answer
<1>7. \A r \in Requests \ HoldersOf(S) : promise'[r] = promise[r]
  BY <1>1, <1>3 DEF Answer
<1>8. Held' = Held \ HoldersOf(S)
  BY <1>5
<1>9. \A r \in HoldersOf(S) : /\ promise'[r].calls = promise[r].calls + 1
                             /\ promise'[r].value = v
  <2> SUFFICES ASSUME NEW r \in HoldersOf(S)
               PROVE  promise'[r].calls = promise[r].calls + 1 /\ promise'[r].value = v
    OBVIOUS
  <2> DEFINE p == promise'[r]
             n == promise[r].calls + 1
  <2>1. p = [calls |-> n, value |-> v, text |-> text]
    BY <1>6
  <2> HIDE DEF p, n
  <2>2. p.calls = n /\ p.value = v
    BY <2>1
  <2> QED
    BY <2>2 DEF p, n
<1>10. \A s \in OccupiedIds' : /\ s \in OccupiedIds
                               /\ slots'[s].request = slots[s].request
  BY <1>3
<1> QED
  BY <1>7, <1>8, <1>9, <1>10

LEMMA UnmovedKeeps ==
  ASSUME EngineInv, ServiceInv, Unmoved PROVE ServiceInv'
<1>1. Waiting' = Waiting /\ SameHolders /\ SameCounts /\ promise' = promise
      /\ \A r \in Requests : caller'[r] = "new" <=> caller[r] = "new"
  BY DEF Unmoved
<1>2. \A r : Queued(r)' <=> Queued(r)
  BY <1>1 DEF Queued
<1>3. OnePlaceEach'
  BY <1>1, <1>2, SameHeld DEF ServiceInv, OnePlaceEach, SameHolders
<1>4. \A V : AnsweredWith(V)' = AnsweredWith(V)
  BY <1>1 DEF AnsweredWith
<1> QED
  BY <1>1, <1>3, <1>4 DEF ServiceInv, AnsweredOnce, AnswersCounted, SameCounts

LEMMA SubmittedKeeps ==
  ASSUME EngineInv, ServiceInv, NEW r \in Requests, Submitted(r) PROVE ServiceInv'
<1>1. /\ caller[r] = "new" /\ caller' = [caller EXCEPT ![r] = "pushed"]
      /\ Waiting' = Append(Waiting, r) /\ SameHolders /\ SameCounts
      /\ promise' = promise
      /\ caller \in [Requests -> {"new", "pushed", "notified"}]
  BY DEF Submitted, EngineInv, SlotsInv, TypeOK
<1>2. /\ Waiting \in Seq(Requests) /\ Len(Waiting) \in Nat
      /\ DOMAIN Waiting = 1 .. Len(Waiting)
  BY WaitingTyped DEF EngineInv, SlotsInv
<1>3. /\ DOMAIN Waiting' = DOMAIN Waiting \cup {Len(Waiting) + 1}
      /\ Waiting'[Len(Waiting) + 1] = r
      /\ \A i \in DOMAIN Waiting : Waiting'[i] = Waiting[i] /\ i # Len(Waiting) + 1
  <2> DEFINE W == Waiting
             X == Append(W, r)
  <2>1. W \in Seq(Requests) /\ Waiting' = X
    BY <1>1, <1>2
  <2> HIDE DEF W
  <2>2. /\ DOMAIN X = DOMAIN W \cup {Len(W) + 1} /\ X[Len(W) + 1] = r
        /\ \A i \in DOMAIN W : X[i] = W[i] /\ i # Len(W) + 1
    BY <2>1
  <2> QED
    BY <2>1, <2>2 DEF W
<1>4. \A q : Queued(q)' <=> Queued(q) \/ q = r
  BY <1>3 DEF Queued
<1>5. ~Queued(r) /\ r \notin Held /\ promise[r].calls = 0
  BY <1>1 DEF ServiceInv, OnePlaceEach, AnsweredOnce
<1>6. \A i, j \in DOMAIN Waiting' : Waiting'[i] = Waiting'[j] => i = j
  BY <1>3, <1>5 DEF ServiceInv, OnePlaceEach, Queued
<1>7. OnePlaceEach'
  BY <1>1, <1>4, <1>5, <1>6, SameHeld DEF ServiceInv, OnePlaceEach, SameHolders
<1>8. AnsweredOnce'
  BY <1>1, <1>5 DEF ServiceInv, AnsweredOnce
<1>9. \A V : AnsweredWith(V)' = AnsweredWith(V)
  BY <1>1 DEF AnsweredWith
<1> QED
  BY <1>1, <1>7, <1>8, <1>9 DEF ServiceInv, AnswersCounted, SameCounts

LEMMA StartedKeeps ==
  ASSUME EngineInv, ServiceInv, NEW sid \in FreeIds, Started(sid) PROVE ServiceInv'
<1>1. /\ Waiting # <<>> /\ Waiting' = Tail(Waiting)
      /\ OccupiedIds' = OccupiedIds \cup {sid} /\ slots'[sid].request = Head(Waiting)
      /\ \A s \in OccupiedIds : slots'[s].request = slots[s].request
      /\ promise' = promise /\ caller' = caller /\ SameCounts
      /\ sid \notin OccupiedIds
  BY DEF Started, FreeIds
<1>2. OnePlaceEach /\ TypeOK
  BY DEF ServiceInv, EngineInv, SlotsInv
<1>3. \A q : q \in Held' <=> q \in Held \/ q = Head(Waiting)
  BY <1>1, HeldIs
<1>4. \A s \in OccupiedIds : slots[s].request # Head(Waiting)
  BY <1>1, <1>2, Dequeued, HeldIs
<1>5. \A s, t \in OccupiedIds' : slots'[s].request = slots'[t].request => s = t
  BY <1>1, <1>2, <1>4 DEF OnePlaceEach
<1>6. OnePlaceEach'
  BY <1>1, <1>2, <1>3, <1>5, Dequeued DEF OnePlaceEach
<1>7. \A V : AnsweredWith(V)' = AnsweredWith(V)
  BY <1>1 DEF AnsweredWith
<1> QED
  BY <1>1, <1>6, <1>7 DEF ServiceInv, AnsweredOnce, AnswersCounted, SameCounts

LEMMA RejectedKeeps ==
  ASSUME EngineInv, ServiceInv, Rejected PROVE ServiceInv'
<1> DEFINE h == Head(Waiting)
<1>1. /\ Waiting # <<>> /\ Waiting' = Tail(Waiting)
      /\ SameHolders /\ SameCounts /\ caller' = caller
      /\ promise' = [promise EXCEPT ![h] = [calls |-> @.calls + 1,
                       value |-> "tokenization_failed", text |-> {}]]
  BY DEF Rejected
<1>2. OnePlaceEach /\ AnsweredOnce /\ TypeOK
  BY DEF ServiceInv, EngineInv, SlotsInv
<1>3. h \in Requests /\ Queued(h) /\ h \notin Held
  BY <1>1, <1>2, Dequeued
<1>4. promise[h].calls = 0 /\ promise[h].value = "none" /\ caller[h] # "new"
  BY <1>2, <1>3 DEF OnePlaceEach, AnsweredOnce
<1>5. /\ promise'[h].calls = 1 /\ promise'[h].value = "tokenization_failed"
      /\ \A r \in Requests \ {h} : promise'[r] = promise[r]
  BY <1>1, <1>2, <1>3, <1>4, PromiseTyped
<1>6. AnsweredOnce'
  BY <1>1, <1>2, <1>4, <1>5 DEF AnsweredOnce
<1>7. Held' = Held /\ \A q : Queued(q)' <=> Queued(q) /\ q # h
  BY <1>1, <1>2, SameHeld, Dequeued
<1>8. OnePlaceEach'
  BY <1>1, <1>2, <1>3, <1>5, <1>7, Dequeued DEF OnePlaceEach, SameHolders
<1>9. \A V : "none" \notin V /\ "tokenization_failed" \notin V
               => AnsweredWith(V)' = AnsweredWith(V)
  BY <1>3, <1>4, <1>5 DEF AnsweredWith
<1>10. AnsweredWith(Served)' = AnsweredWith(Served)
       /\ AnsweredWith({"deadline_exceeded"})' = AnsweredWith({"deadline_exceeded"})
  BY <1>9 DEF Served
<1> QED
  BY <1>1, <1>6, <1>8, <1>10 DEF ServiceInv, AnswersCounted, SameCounts, Served

LEMMA AnsweredKeeps ==
  ASSUME EngineInv, ServiceInv, NEW S \in SUBSET OccupiedIds, NEW v \in Served,
         NEW text, Answered(S, v, text)
  PROVE  ServiceInv'
<1> DEFINE R == HoldersOf(S)
           A == AnsweredWith(Served)
           L == AnsweredWith({"deadline_exceeded"})
<1>1. OnePlaceEach /\ AnsweredOnce /\ TypeOK /\ AnswersCounted /\ IsFiniteSet(A)
  BY DEF ServiceInv, EngineInv, SlotsInv
<1>2. /\ IsFiniteSet(R) /\ Cardinality(R) = Cardinality(S)
      /\ R \subseteq Requests /\ R \subseteq Held
  BY <1>1, HoldersCounted
<1>3. /\ Held' = Held \ R
      /\ \A r \in R : promise'[r].calls = promise[r].calls + 1 /\ promise'[r].value = v
      /\ \A r \in Requests \ R : promise'[r] = promise[r]
      /\ \A s \in OccupiedIds' : s \in OccupiedIds /\ slots'[s].request = slots[s].request
  BY <1>1, AnswerIs
<1>4. Waiting' = Waiting /\ caller' = caller
  BY DEF Answered
<1> HIDE DEF R
<1>5. \A r \in R : /\ promise[r].calls = 0 /\ promise[r].value = "none"
                   /\ caller[r] # "new" /\ ~Queued(r)
  BY <1>1, <1>2 DEF OnePlaceEach, AnsweredOnce
<1>6. \A r : Queued(r)' <=> Queued(r)
  BY <1>4 DEF Queued
<1>7. v # "none" /\ \A r \in R : promise'[r].calls = 1
  BY <1>3, <1>5 DEF Served
<1>8. AnsweredOnce'
  BY <1>1, <1>3, <1>4, <1>5, <1>7 DEF AnsweredOnce
<1>9. OnePlaceEach'
  BY <1>1, <1>2, <1>3, <1>4, <1>5, <1>6, <1>7 DEF OnePlaceEach
<1>10. A' = A \cup R /\ A \cap R = {}
  BY <1>2, <1>3, <1>5 DEF AnsweredWith, Served
<1>11. L' = IF v = "deadline_exceeded" THEN L \cup R ELSE L
  BY <1>2, <1>3, <1>5 DEF AnsweredWith
<1>12. L \subseteq A /\ L \cap R = {}
  BY <1>10 DEF AnsweredWith, Served
<1>13. IsFiniteSet(L)
  BY <1>1, <1>12, FS_Subset
<1>14. /\ Cardinality(A) \in Nat /\ Cardinality(L) \in Nat /\ Cardinality(R) \in Nat
       /\ IsFiniteSet(A \cup R) /\ Cardinality(A \cup R) = Cardinality(A) + Cardinality(R)
       /\ Cardinality(L \cup R) = Cardinality(L) + Cardinality(R)
  <2> HIDE DEF A, L
  <2>1. Cardinality(A) \in Nat /\ Cardinality(L) \in Nat /\ Cardinality(R) \in Nat
    BY <1>1, <1>2, <1>13, FS_CardinalityType
  <2>2. /\ IsFiniteSet(A \cup R)
        /\ Cardinality(A \cup R) = Cardinality(A) + Cardinality(R) - Cardinality(A \cap R)
    BY <1>1, <1>2, FS_Union
  <2>3. Cardinality(L \cup R) = Cardinality(L) + Cardinality(R) - Cardinality(L \cap R)
    BY <1>2, <1>13, FS_Union
  <2>4. Cardinality(A \cap R) = 0 /\ Cardinality(L \cap R) = 0
    BY <1>10, <1>12, FS_EmptySet
  <2> QED
    BY <2>1, <2>2, <2>3, <2>4
<1>15. /\ metrics.requests_total = Cardinality(A)
       /\ metrics.requests_deadline_exceeded = Cardinality(L)
  BY <1>1 DEF AnswersCounted, Served
<1>16. /\ metrics'.requests_total = metrics.requests_total + Cardinality(S)
       /\ metrics'.requests_deadline_exceeded
            = metrics.requests_deadline_exceeded
                + IF v = "deadline_exceeded" THEN Cardinality(S) ELSE 0
  BY DEF Answered
<1>17. metrics'.requests_total = Cardinality(A')
       /\ metrics'.requests_deadline_exceeded = Cardinality(L')
  <2> HIDE DEF A, L
  <2> QED
    BY <1>2, <1>10, <1>11, <1>14, <1>15, <1>16
<1>18. AnswersCounted'
  BY <1>17 DEF AnswersCounted, Served
<1> QED
  BY <1>8, <1>9, <1>10, <1>14, <1>18 DEF ServiceInv

LEMMA ServiceInit == ASSUME Init PROVE ServiceInv
<1>1. Waiting = <<>> /\ OccupiedIds = {}
  BY DEF Init, Waiting, SlotInit, OccupiedIds, EmptySlot
<1>2. \A V : "none" \notin V => AnsweredWith(V) = {}
  BY DEF Init, AnsweredWith, Unanswered
<1>3. AnsweredWith(Served) = {} /\ AnsweredWith({"deadline_exceeded"}) = {}
  BY <1>2 DEF Served
<1>4. AnsweredOnce
  BY DEF Init, AnsweredOnce, Unanswered
<1>5. OnePlaceEach
  BY <1>1, HeldIs DEF Init, OnePlaceEach, Queued
<1> QED
  BY <1>3, <1>4, <1>5, FS_EmptySet DEF Init, ServiceInv, AnswersCounted, Served

LEMMA ServiceNext == ASSUME EngineInv, ServiceInv, [Next]_vars PROVE ServiceInv'
  BY StepEffects, UnmovedKeeps, SubmittedKeeps, StartedKeeps, RejectedKeeps,
     AnsweredKeeps

\* Each request is in one place, answered once and counted, in every reachable
\* state (82-158, 229-276).
THEOREM ServiceInvHolds == Spec => []ServiceInv
  BY ServiceInit, ServiceNext, EngineInvHolds, PTL DEF Spec

\* No promise is set twice (119, 140, 237, 271; server.cpp:28-31).
THEOREM OneAnswer == Spec => []AnsweredOnce
<1>1. ServiceInv => AnsweredOnce
  BY DEF ServiceInv
<1> QED
  BY <1>1, ServiceInvHolds, PTL

\* No request is dropped between the queue and a slot, nor served twice (82-101).
THEOREM OnePlace == Spec => []OnePlaceEach
<1>1. ServiceInv => OnePlaceEach
  BY DEF ServiceInv
<1> QED
  BY <1>1, ServiceInvHolds, PTL

\* Each answer but a failed tokenization is counted once, expiries also among the
\* expired (141-142, 238, 269).
THEOREM CountersExact == Spec => []AnswersCounted
<1>1. ServiceInv => AnswersCounted
  BY DEF ServiceInv
<1> QED
  BY <1>1, ServiceInvHolds, PTL

-----------------------------------------------------------------------------
(* The refinement of BatchingService. *)

\* A request that enters a slot finds fewer than MaxSlots in service.
LEMMA RoomToStart ==
  ASSUME FreeIds # {}
  PROVE  Service!Cardinality(Held) < MaxSlots
<1>1. /\ IsFiniteSet(OccupiedIds) /\ Cardinality(OccupiedIds) \in Nat
      /\ OccupiedIds \in SUBSET SlotIds
  BY SlotIdsFinite, FS_Subset, FS_CardinalityType DEF OccupiedIds
<1>2. OccupiedIds # SlotIds
  BY DEF FreeIds
<1>3. Cardinality(OccupiedIds) < MaxSlots
  <2>1. /\ Cardinality(OccupiedIds) <= Cardinality(SlotIds)
        /\ Cardinality(OccupiedIds) # Cardinality(SlotIds)
    BY <1>1, <1>2, SlotIdsFinite, FS_Subset
  <2> QED
    BY <1>1, <2>1, SlotIdsFinite, MaxSlotsAssumption
<1>4. Cardinality(Held) <= Cardinality(OccupiedIds) /\ IsFiniteSet(Held)
  <2> DEFINE f == [s \in OccupiedIds |-> slots[s].request]
  <2>1. f \in Surjection(OccupiedIds, Held)
    BY DEF Surjection, Held
  <2> HIDE DEF f
  <2> QED
    BY <1>1, <2>1, FS_Surjection
<1>5. Cardinality(Held) < MaxSlots
  BY <1>1, <1>3, <1>4, FS_CardinalityType, MaxSlotsAssumption
<1>6. Service!Cardinality(Held) = Cardinality(Held)
  BY Zenon DEF Service!Cardinality, Cardinality
<1> QED
  BY <1>5, <1>6

LEMMA SameVerdict == ASSUME promise' = promise PROVE Verdict' = Verdict
  BY DEF Verdict

LEMMA ServiceStarts == ASSUME Init PROVE Service!Init
<1>1. Waiting = <<>>
  BY DEF Init, Waiting
<1>2. OccupiedIds = {}
  BY DEF Init, SlotInit, OccupiedIds, EmptySlot
<1>3. Held = {}
  BY <1>2 DEF Held
<1>4. Verdict = [r \in Requests |-> "none"]
  BY DEF Init, Verdict, Unanswered
<1> QED
  BY <1>1, <1>3, <1>4 DEF Service!Init

LEMMA ServiceStep ==
  ASSUME EngineInv, ServiceInv, [Next]_vars
  PROVE  Service!Next \/ UNCHANGED Service!vars
<1>0. OnePlaceEach /\ AnsweredOnce /\ TypeOK
  BY DEF EngineInv, SlotsInv, ServiceInv
<1>1. CASE Unmoved
  <2>1. Waiting' = Waiting /\ Held' = Held /\ Verdict' = Verdict
    BY <1>1, SameHeld, SameVerdict DEF Unmoved
  <2> QED
    BY <2>1 DEF Service!vars
<1>2. ASSUME NEW r \in Requests, Submitted(r) PROVE Service!Next
  <2>1. Waiting' = Append(Waiting, r) /\ Held' = Held /\ Verdict' = Verdict
    BY <1>2, SameHeld, SameVerdict DEF Submitted
  <2>2. ~Queued(r) /\ r \notin Held /\ promise[r].value = "none"
    BY <1>0, <1>2 DEF Submitted, OnePlaceEach, AnsweredOnce
  <2>3. Service!Submit(r)
    BY <2>1, <2>2 DEF Service!Submit, Service!New, Verdict, Queued
  <2> QED
    BY <2>3 DEF Service!Next
<1>3. ASSUME NEW sid \in FreeIds, Started(sid) PROVE Service!Next
  <2>1. \A q : q \in Held' <=> q \in Held \/ q = Head(Waiting)
    BY <1>3, HeldIs DEF Started
  <2>2. Held' = Held \cup {Head(Waiting)}
    BY <2>1
  <2>3. Waiting # <<>> /\ Waiting' = Tail(Waiting) /\ Verdict' = Verdict
    BY <1>3, SameVerdict DEF Started
  <2>4. Service!Cardinality(Held) < MaxSlots
    BY RoomToStart
  <2>5. Service!Start
    BY <2>2, <2>3, <2>4 DEF Service!Start
  <2> QED
    BY <2>5 DEF Service!Next
<1>4. CASE Rejected
  <2>1. Waiting # <<>> /\ Waiting' = Tail(Waiting) /\ Held' = Held
    BY <1>4, SameHeld DEF Rejected
  <2>2. Service!Cardinality(Held) < MaxSlots
    BY <1>4, RoomToStart DEF Rejected
  <2>3. /\ Head(Waiting) \in Requests
        /\ promise' = [promise EXCEPT ![Head(Waiting)] =
                         [calls |-> @.calls + 1, value |-> "tokenization_failed",
                          text |-> {}]]
        /\ promise \in [Requests -> PromiseState]
    BY <1>0, <1>4, <2>1, Dequeued, PromiseTyped DEF Rejected
  <2>4. Verdict' = [Verdict EXCEPT ![Head(Waiting)] = "tokenization_failed"]
    BY <2>3 DEF Verdict
  <2>5. Service!Reject
    BY <2>1, <2>2, <2>4 DEF Service!Reject
  <2> QED
    BY <2>5 DEF Service!Next
<1>5. ASSUME NEW S \in SUBSET OccupiedIds, NEW v \in Served, NEW text,
             Answered(S, v, text)
      PROVE  Service!Next \/ UNCHANGED Service!vars
  <2> DEFINE R == HoldersOf(S)
  <2>1. /\ Held' = Held \ R
        /\ \A r \in R : promise'[r].value = v
        /\ \A r \in Requests \ R : promise'[r] = promise[r]
    BY <1>0, <1>5, AnswerIs
  <2>2. R \subseteq Requests /\ R \subseteq Held
    BY <1>0, HoldersCounted
  <2>3. v = "decode_failed" => R = Held
    BY <1>5 DEF Answered, HoldersOf, Held
  <2> HIDE DEF R
  <2>4. Verdict' = [r \in Requests |-> IF r \in R THEN v ELSE Verdict[r]]
    BY <2>1, <2>2 DEF Verdict
  <2>5. Waiting' = Waiting
    BY <1>5 DEF Answered
  <2>6. CASE R = {}
    <3>1. Held' = Held
      BY <2>1, <2>6
    <3>2. Verdict' = Verdict
      BY <2>4, <2>6 DEF Verdict
    <3> QED
      BY <2>5, <3>1, <3>2 DEF Service!vars
  <2>7. CASE R # {}
    <3>1. Service!Finish(R, v)
      BY <2>1, <2>2, <2>3, <2>4, <2>5, <2>7 DEF Service!Finish
    <3>2. R \in SUBSET Held /\ v \in Service!Verdicts \ {"tokenization_failed"}
      BY <2>2 DEF Served, Service!Verdicts
    <3> QED
      BY <3>1, <3>2 DEF Service!Next
  <2> QED
    BY <2>6, <2>7
<1> QED
  BY <1>1, <1>2, <1>3, <1>4, <1>5, StepEffects

\* The engine serves its queue in order, at most max_slots requests at a time,
\* and gives each one verdict, whatever its threads, arrays and cells do in
\* between (64-278).
THEOREM EngineImplementsService == Spec => ServiceSpec
<1>1. EngineInv /\ ServiceInv /\ [Next]_vars => [Service!Next]_(Service!vars)
  BY ServiceStep
<1> QED
  BY <1>1, ServiceStarts, EngineInvHolds, ServiceInvHolds, PTL
  DEF Spec, ServiceSpec, Service!Spec

-----------------------------------------------------------------------------
(* The context. *)

\* While prompts are typical, each sequence of a batch stays below its share.
LEMMA ShareOfEach ==
  ASSUME EngineInv, pc = "decode", NEW s \in OccupiedIds,
         \A r \in Requests : PromptLen[r] <= PromptReserve /\ MaxNew[r] <= MaxTokens
  PROVE  slots[s].kv_pos \in Nat /\ slots[s].kv_pos <= MaxTokens + PromptReserve
<1> DEFINE r == slots[s].request
<1>1. r \in Requests /\ slots[s].kv_pos \in Nat /\ s \in SlotIds
  BY DEF EngineInv, SlotsInv, PoolOK, HoldersKnown, SlotTypeOK, OccupiedIds, Slot
<1>2. PromptLen[r] \in Nat /\ PromptLen[r] <= PromptReserve /\ PromptReserve \in Nat
  BY <1>1, PromptLenAssumption, PromptReserveAssumption
<1>3. Limit(r) \in Nat /\ Limit(r) <= MaxTokens /\ MaxTokens \in Nat
  BY <1>1, LimitType, MaxTokensAssumption, MaxNewAssumption DEF Limit
<1>4. tokens_generated[s] \in Nat /\ tokens_generated[s] < Limit(r)
  BY <1>1 DEF EngineInv, SlotsInv, TypeOK, PositionsAgree
<1>5. CASE in_prefill[s]
  <2>1. slots[s].kv_pos = PromptLen[r]
    BY <1>5 DEF EngineInv, SlotsInv, SlotsReady
  <2> QED
    BY <1>1, <1>2, <1>3, <2>1
<1>6. CASE ~in_prefill[s]
  <2>1. slots[s].kv_pos = tokens_generated[s] + PromptLen[r]
    BY <1>6 DEF EngineInv, SlotsInv, PositionsAgree
  <2> HIDE DEF r
  <2> QED
    BY <1>1, <1>2, <1>3, <1>4, <2>1
<1> QED
  BY <1>5, <1>6

\* llama_decode never lacks room for typical prompts and limits (36-37, 41, 229).
THEOREM ContextHasRoom == Spec => []ContextSufficient
<1>1. ASSUME EngineInv, pc = "decode",
             \A r \in Requests : PromptLen[r] <= PromptReserve /\ MaxNew[r] <= MaxTokens
      PROVE  Fits
  <2> DEFINE B == MaxTokens + PromptReserve
             P == SlotIds \X (0 .. B - 1)
             f == [p \in P |-> <<p[1], <<slots[p[1]].request, p[2]>>>>]
             T == {f[p] : p \in P}
  <2>1. B \in Nat /\ B - 1 \in Int /\ MaxSlots \in Nat
    BY MaxTokensAssumption, PromptReserveAssumption, MaxSlotsAssumption
  <2>2. IsFiniteSet(0 .. B - 1) /\ Cardinality(0 .. B - 1) = B
    BY <2>1, FS_Interval
  <2>3. IsFiniteSet(P) /\ Cardinality(P) = MaxSlots * B
    BY <2>2, SlotIdsFinite, FS_Product
  <2>4. CellsNeeded \subseteq T
    <3> SUFFICES ASSUME NEW s \in SlotIds, NEW c \in kv[s] \cup batch[s]
                 PROVE  <<s, c>> \in T
      BY DEF CellsNeeded
    <3>1. s \in OccupiedIds /\ c \in {slots[s].request} \X (0 .. slots[s].kv_pos - 1)
      BY <1>1 DEF EngineInv, SlotsInv, CellsFollowRequest, OccupiedIds
    <3>2. slots[s].kv_pos \in Nat /\ slots[s].kv_pos <= B
      BY <1>1, <3>1, ShareOfEach
    <3>3. PICK k \in 0 .. slots[s].kv_pos - 1 : c = <<slots[s].request, k>>
      BY <3>1
    <3>4. k \in 0 .. B - 1
      BY <2>1, <3>2
    <3>5. <<s, k>> \in P /\ f[<<s, k>>] = <<s, c>>
      BY <3>3, <3>4
    <3> QED
      BY <3>5
  <2>5. f \in Surjection(P, T)
    BY DEF Surjection
  <2>6. IsFiniteSet(T) /\ Cardinality(T) <= Cardinality(P)
    <3> HIDE DEF f, P, T
    <3> QED
      BY <2>3, <2>5, FS_Surjection
  <2>7. /\ Cardinality(CellsNeeded) <= Cardinality(T)
        /\ Cardinality(CellsNeeded) \in Nat /\ Cardinality(T) \in Nat
    <3> HIDE DEF T
    <3> QED
      BY <2>4, <2>6, FS_Subset, FS_CardinalityType
  <2> HIDE DEF T, P, f
  <2>8. Cardinality(CellsNeeded) <= MaxSlots * B
    <3>1. MaxSlots * B \in Nat
      BY <2>1
    <3> QED
      BY <2>3, <2>6, <2>7, <3>1
  <2> QED
    BY <2>8 DEF Fits, NCtx
<1>2. EngineInv => ContextSufficient
  BY <1>1 DEF ContextSufficient
<1> QED
  BY <1>2, EngineInvHolds, PTL
-----------------------------------------------------------------------------
(* Nobody waits for what will not come. *)

\* The engine thread sleeps beside no request: the slots are empty, so what is not
\* answered is in the queue, and what came to the queue since the predicate was tested
\* is about to be notified (64-70, 164-171).
THEOREM SleepsWithoutWork == Spec => []SleepsOnNoRequest
<1>1. ASSUME EngineInv, ServiceInv, pc \in {"parking", "waiting"},
             NEW r \in Requests, caller[r] # "new", promise[r].calls = 0
      PROVE  pc = "waiting" /\ caller[r] = "pushed"
  <2>1. OccupiedIds = {} /\ to_admit = <<>>
    BY <1>1 DEF EngineInv, SlotsInv, IdleInv, Phases
  <2>2. r \notin Held
    BY <2>1, HeldIs
  <2>3. Queued(r)
    BY <1>1, <2>2 DEF ServiceInv, OnePlaceEach
  <2>4. Waiting = pending
    BY <1>1, <2>1, WaitingTyped, ConcatEmptySeq DEF Waiting, EngineInv, SlotsInv
  <2>5. PICK i \in DOMAIN pending : pending[i] = r
    BY <2>3, <2>4 DEF Queued
  <2>6. pc # "parking"
    BY <1>1, <2>5 DEF EngineInv, IdleInv
  <2> QED
    BY <1>1, <2>5, <2>6 DEF EngineInv, IdleInv
<1>2. EngineInv /\ ServiceInv => SleepsOnNoRequest
  BY <1>1 DEF SleepsOnNoRequest
<1> QED
  BY <1>2, EngineInvHolds, ServiceInvHolds, PTL

\* How far a slot is from its next token, case by case.
LEMMA StepsAre ==
  ASSUME NEW s
  PROVE  /\ pc = "decode" => StepsToToken(s) = MaxSlots + 1
         /\ pc = "build" => StepsToToken(s) = MaxSlots + 2
         /\ pc = "admit" => StepsToToken(s) = MaxSlots + 3 + Len(to_admit)
         /\ pc = "drain" => StepsToToken(s) = 2 * MaxSlots + 4
         /\ pc = "loop" => StepsToToken(s) = 2 * MaxSlots + 5
         /\ pc = "sample" /\ s \in todo =>
              StepsToToken(s) = Cardinality({t \in todo : t <= s})
         /\ pc = "sample" /\ s \notin todo =>
              StepsToToken(s) = 2 * MaxSlots + 6 + Cardinality(todo)
  BY DEF StepsToToken

LEMMA StepsAreNext ==
  ASSUME NEW s
  PROVE  /\ pc' = "decode" => StepsToToken(s)' = MaxSlots + 1
         /\ pc' = "build" => StepsToToken(s)' = MaxSlots + 2
         /\ pc' = "admit" => StepsToToken(s)' = MaxSlots + 3 + Len(to_admit')
         /\ pc' = "drain" => StepsToToken(s)' = 2 * MaxSlots + 4
         /\ pc' = "loop" => StepsToToken(s)' = 2 * MaxSlots + 5
         /\ pc' = "sample" /\ s \in todo' =>
              StepsToToken(s)' = Cardinality({t \in todo' : t <= s})
         /\ pc' = "sample" /\ s \notin todo' =>
              StepsToToken(s)' = 2 * MaxSlots + 6 + Cardinality(todo')
  BY DEF StepsToToken

LEMMA SlotsCounted ==
  ASSUME NEW T \in SUBSET SlotIds
  PROVE  /\ IsFiniteSet(T) /\ Cardinality(T) \in Nat /\ Cardinality(T) <= MaxSlots
         /\ \A s \in T : /\ IsFiniteSet(T \ {s})
                         /\ Cardinality(T \ {s}) = Cardinality(T) - 1
  BY SlotIdsFinite, FS_Subset, FS_CardinalityType, FS_RemoveElement

\* What SlotsServed says of one slot.
Nearer(s) ==
  \/ tokens_generated'[s] = tokens_generated[s] + 1
  \/ /\ tokens_generated'[s] = tokens_generated[s]
     /\ StepsToToken(s)' < StepsToToken(s)

\* From the top of the loop to the decode (163-228).
LEMMA NearerDecode ==
  ASSUME EngineInv, EngineInv', NEW s \in OccupiedIds, s \in OccupiedIds', pc' # "exited",
         \/ LoopTop \/ IdleCheckPasses \/ IdleCheckFails \/ Park \/ Drain \/ AdmitOne
         \/ RetireExpired \/ NothingActive \/ BuildBatch
  PROVE  Nearer(s)
<1> USE StepsAre, StepsAreNext, MaxSlotsAssumption
<1>1. s \in SlotIds /\ tokens_generated \in [SlotIds -> Nat]
  BY DEF OccupiedIds, EngineInv, SlotsInv, TypeOK
<1>2. CASE LoopTop
  <2>1. pc = "loop" /\ pc' = "drain" /\ tokens_generated' = tokens_generated
    BY <1>2, AllFree DEF LoopTop, arrayVars, EngineInv
  <2> QED
    BY <2>1 DEF Nearer
<1>3. CASE IdleCheckPasses \/ IdleCheckFails \/ Park
  BY <1>3 DEF IdleCheckPasses, IdleCheckFails, Park, EngineInv, IdleInv
<1>4. CASE Drain
  <2>1. pc = "drain" /\ pc' = "admit" /\ tokens_generated' = tokens_generated
    BY <1>4 DEF Drain, arrayVars
  <2>2. /\ to_admit' \in Seq(Requests)
        /\ Len(to_admit') <= Cardinality(FreeIds') /\ FreeIds' \subseteq SlotIds
    BY DEF EngineInv, SlotsInv, TypeOK, AcquireNeverFails, FreeIds
  <2>3. Cardinality(FreeIds') \in Nat /\ Cardinality(FreeIds') <= MaxSlots
    BY <2>2, SlotsCounted
  <2>4. Len(to_admit') \in Nat
    BY <2>2, LenProperties
  <2> QED
    BY <2>1, <2>2, <2>3, <2>4 DEF Nearer
<1>5. CASE AdmitOne
  <2>1. /\ Len(to_admit) \in Nat \ {0} /\ Len(to_admit') = Len(to_admit) - 1
        /\ FreeIds # {} /\ pc = "admit" /\ pc' = "admit"
    BY <1>5, NextToAdmit DEF AdmitOne, EngineInv
  <2>2. PICK sid \in FreeIds : \/ Prefill(sid, Head(to_admit))
                               \/ TokenizeFails(sid, Head(to_admit))
    BY <1>5, <2>1 DEF AdmitOne
  <2>3. tokens_generated'[s] = tokens_generated[s]
    BY <1>1, <2>2 DEF Prefill, TokenizeFails, FreeIds
  <2> QED
    BY <2>1, <2>3 DEF Nearer
<1>6. CASE RetireExpired
  <2>1. /\ pc = "admit" /\ to_admit = <<>> /\ pc' = "build" /\ RetireSlots(Expired)
        /\ Expired \subseteq OccupiedIds
    BY <1>6 DEF RetireExpired, Expired
  <2>2. tokens_generated'[s] = tokens_generated[s]
    BY <1>1, <2>1, RetireTouchesOnly DEF EngineInv, SlotsInv
  <2>3. Len(to_admit) = 0
    BY <2>1, EmptySeq
  <2> QED
    BY <2>1, <2>2, <2>3 DEF Nearer
<1>7. CASE NothingActive
  BY <1>7 DEF NothingActive
<1>8. CASE BuildBatch
  <2>1. pc = "build" /\ pc' = "decode" /\ tokens_generated' = tokens_generated
    BY <1>8 DEF BuildBatch, arrayVars
  <2> QED
    BY <2>1 DEF Nearer
<1> QED
  BY <1>2, <1>3, <1>4, <1>5, <1>6, <1>7, <1>8

\* The sampling loop visits another slot: one less lies before this one, or before
\* the end of the iteration (247-276).
LEMMA NearerSample ==
  ASSUME EngineInv, NEW s \in SlotIds, NEW sid, Sampling(sid), sid # s,
         pc' = "sample", tokens_generated'[s] = tokens_generated[s]
  PROVE  Nearer(s)
<1> USE StepsAre, StepsAreNext, MaxSlotsAssumption
<1>1. /\ pc = "sample" /\ sid \in todo /\ todo' = todo \ {sid}
      /\ todo \in SUBSET SlotIds /\ \A j \in todo : sid <= j
  BY DEF Sampling, EngineInv, SlotsInv, TypeOK
<1>2. CASE s \in todo
  <2> DEFINE T == {t \in todo : t <= s}
             U == {t \in todo' : t <= s}
  <2>1. T \in SUBSET SlotIds /\ sid \in T /\ U = T \ {sid}
    BY <1>1, <1>2
  <2>2. StepsToToken(s) = Cardinality(T) /\ StepsToToken(s)' = Cardinality(U)
    BY <1>1, <1>2
  <2> HIDE DEF T, U
  <2>3. Cardinality(T) \in Nat /\ Cardinality(U) = Cardinality(T) - 1
    BY <2>1, SlotsCounted
  <2> QED
    BY <2>2, <2>3 DEF Nearer
<1>3. CASE s \notin todo
  <2>1. Cardinality(todo) \in Nat /\ Cardinality(todo') = Cardinality(todo) - 1
    BY <1>1, SlotsCounted
  <2>2. /\ StepsToToken(s) = 2 * MaxSlots + 6 + Cardinality(todo)
        /\ StepsToToken(s)' = 2 * MaxSlots + 6 + Cardinality(todo')
    BY <1>1, <1>3
  <2> QED
    BY <2>1, <2>2 DEF Nearer
<1> QED
  BY <1>2, <1>3

\* From the decode to the end of the iteration (229-276).
LEMMA NearerToken ==
  ASSUME EngineInv, EngineInv', NEW s \in OccupiedIds, s \in OccupiedIds',
         \/ DecodeOk \/ DecodeFail \/ EndIteration
         \/ \E sid \in SlotIds : \/ SampleEos(sid) \/ SampleLast(sid)
                                 \/ \E tok \in Tokens : SampleToken(sid, tok)
  PROVE  Nearer(s)
<1> USE StepsAre, StepsAreNext, MaxSlotsAssumption
<1>1. s \in SlotIds /\ tokens_generated \in [SlotIds -> Nat]
  BY DEF OccupiedIds, EngineInv, SlotsInv, TypeOK
<1>2. CASE DecodeOk
  <2> DEFINE U == {t \in todo' : t <= s}
  <2>1. /\ pc = "decode" /\ pc' = "sample" /\ tokens_generated' = tokens_generated
        /\ todo' = active /\ active = OccupiedIds
    BY <1>2 DEF DecodeOk, ToSample, arrayVars, EngineInv, SlotsInv, Phases
  <2>2. U \in SUBSET SlotIds /\ StepsToToken(s)' = Cardinality(U)
    BY <2>1 DEF OccupiedIds
  <2> HIDE DEF U
  <2>3. Cardinality(U) \in Nat /\ Cardinality(U) <= MaxSlots
    BY <2>2, SlotsCounted
  <2> QED
    BY <2>1, <2>2, <2>3 DEF Nearer
<1>3. CASE DecodeFail
  <2>1. active = OccupiedIds /\ RetireSlots(active)
    BY <1>3 DEF DecodeFail, EngineInv, SlotsInv, Phases
  <2>2. OccupiedIds' = {}
    BY <2>1, RetireTouchesOnly DEF EngineInv, SlotsInv
  <2> QED
    BY <2>2
<1>4. CASE EndIteration
  <2>1. /\ pc = "sample" /\ todo = {} /\ pc' = "loop"
        /\ tokens_generated' = tokens_generated
    BY <1>4 DEF EndIteration, arrayVars
  <2>2. Cardinality(todo) = 0
    BY <2>1, FS_EmptySet
  <2> QED
    BY <2>1, <2>2 DEF Nearer
<1>5. ASSUME NEW sid \in SlotIds, SampleEos(sid) \/ SampleLast(sid) PROVE Nearer(s)
  <2>1. Sampling(sid) /\ pc' = "sample" /\ sid \in OccupiedIds
    BY <1>5, SampledSlot DEF SampleEos, SampleLast, Sampling, EngineInv
  <2>2. RetireSlots({sid})
    BY <1>5 DEF SampleEos, SampleLast, Complete
  <2>3. sid # s /\ tokens_generated'[s] = tokens_generated[s]
    BY <1>1, <2>1, <2>2, RetireTouchesOnly DEF EngineInv, SlotsInv
  <2> QED
    BY <1>1, <2>1, <2>3, NearerSample
<1>6. ASSUME NEW sid \in SlotIds, NEW tok \in Tokens, SampleToken(sid, tok)
      PROVE  Nearer(s)
  <2>1. /\ Sampling(sid) /\ pc' = "sample"
        /\ tokens_generated' = [tokens_generated EXCEPT ![sid] = @ + 1]
    BY <1>6 DEF SampleToken, Sampling
  <2>2. CASE sid = s
    BY <1>1, <2>1, <2>2 DEF Nearer
  <2>3. CASE sid # s
    BY <1>1, <2>1, <2>3, NearerSample
  <2> QED
    BY <2>2, <2>3
<1> QED
  BY <1>2, <1>3, <1>4, <1>5, <1>6

\* How far a slot can be from its next token, and how many it can still get.
LEMMA StepsBounded ==
  ASSUME EngineInv, NEW s \in OccupiedIds
  PROVE  /\ StepsToToken(s) \in 0 .. 3 * MaxSlots + 6
         /\ tokens_generated[s] \in 0 .. Limit(slots[s].request) - 1
<1> USE MaxSlotsAssumption
<1>1. s \in SlotIds /\ slots[s].request \in Requests
  BY DEF OccupiedIds, EngineInv, SlotsInv, PoolOK, HoldersKnown
<1>2. tokens_generated[s] \in 0 .. Limit(slots[s].request) - 1
  BY <1>1, LimitType DEF EngineInv, SlotsInv, TypeOK, PositionsAgree
<1>3. /\ Len(to_admit) \in Nat /\ Len(to_admit) <= MaxSlots
  <2>1. /\ to_admit \in Seq(Requests) /\ FreeIds \in SUBSET SlotIds
        /\ Len(to_admit) <= Cardinality(FreeIds)
    BY DEF EngineInv, SlotsInv, TypeOK, AcquireNeverFails, FreeIds
  <2>2. Cardinality(FreeIds) \in Nat /\ Cardinality(FreeIds) <= MaxSlots
    BY <2>1, SlotsCounted
  <2> QED
    BY <2>1, <2>2, LenProperties
<1>4. Cardinality(todo) \in Nat /\ Cardinality(todo) <= MaxSlots
  BY SlotsCounted DEF EngineInv, SlotsInv, TypeOK
<1>5. /\ Cardinality({t \in todo : t <= s}) \in Nat
      /\ Cardinality({t \in todo : t <= s}) <= MaxSlots
  <2>1. {t \in todo : t <= s} \in SUBSET SlotIds
    BY DEF EngineInv, SlotsInv, TypeOK
  <2> HIDE DEF SlotIds
  <2> QED
    BY <2>1, SlotsCounted
<1>6. pc \in ControlPoints
  BY DEF EngineInv, SlotsInv, TypeOK
<1>7. StepsToToken(s) \in 0 .. 3 * MaxSlots + 6
  <2>1. CASE pc \in {"idle", "parking", "waiting", "exited"}
    BY <2>1 DEF StepsToToken
  <2>2. CASE pc = "sample" /\ s \in todo
    <3>1. StepsToToken(s) = Cardinality({t \in todo : t <= s})
      BY <2>2, StepsAre
    <3> QED
      BY <1>5, <3>1
  <2>3. CASE pc = "sample" /\ s \notin todo
    <3>1. StepsToToken(s) = 2 * MaxSlots + 6 + Cardinality(todo)
      BY <2>3, StepsAre
    <3> QED
      BY <1>4, <3>1
  <2>4. CASE pc = "admit"
    <3>1. StepsToToken(s) = MaxSlots + 3 + Len(to_admit)
      BY <2>4, StepsAre
    <3> QED
      BY <1>3, <3>1
  <2>5. CASE pc \in {"loop", "drain", "build", "decode"}
    <3>1. StepsToToken(s) \in {MaxSlots + 1, MaxSlots + 2, 2 * MaxSlots + 4,
                              2 * MaxSlots + 5}
      BY <2>5, StepsAre
    <3> QED
      BY <3>1
  <2> QED
    BY <1>6, <2>1, <2>2, <2>3, <2>4, <2>5 DEF ControlPoints
<1> QED
  BY <1>2, <1>7

\* Every slot in use gets its next token, or is retired, within 3 MaxSlots + 7 steps
\* of the engine thread, and gets fewer tokens than its limit: the other slots and the
\* queue cannot starve it (164-278).
THEOREM SlotsAreServed ==
  Spec => /\ SlotsServed
          /\ [](\A s \in OccupiedIds :
                  /\ StepsToToken(s) \in 0 .. 3 * MaxSlots + 6
                  /\ tokens_generated[s] \in 0 .. Limit(slots[s].request) - 1)
<1> DEFINE Bounded == \A s \in OccupiedIds :
                        /\ StepsToToken(s) \in 0 .. 3 * MaxSlots + 6
                        /\ tokens_generated[s] \in 0 .. Limit(slots[s].request) - 1
           Served1 == EngineStep /\ pc' # "exited" =>
                        \A s \in OccupiedIds : slots'[s].occupied =>
                          \/ tokens_generated'[s] = tokens_generated[s] + 1
                          \/ /\ tokens_generated'[s] = tokens_generated[s]
                             /\ StepsToToken(s)' < StepsToToken(s)
<1>1. EngineInv /\ EngineInv' /\ [Next]_vars => Served1
  <2> SUFFICES ASSUME EngineInv, EngineInv', EngineStep, pc' # "exited",
                      NEW s \in OccupiedIds, slots'[s].occupied
               PROVE  Nearer(s)
    BY DEF Nearer
  <2>1. s \in OccupiedIds'
    BY DEF OccupiedIds
  <2> QED
    BY <2>1, NearerDecode, NearerToken DEF EngineStep
<1>2. EngineInv => Bounded
  BY StepsBounded
<1> HIDE DEF Bounded, Served1
<1>3. Spec => [][Served1]_vars /\ []Bounded
  BY <1>1, <1>2, EngineInvHolds, PTL DEF Spec
<1> QED
  BY <1>3 DEF Bounded, Served1, SlotsServed

-----------------------------------------------------------------------------
(* Every answer draws near: first those of the requests in slots. *)

\* One round less to go is worth more than any number of steps of the round.
LEMMA RoundLess ==
  ASSUME NEW K \in Nat, NEW a \in Nat, NEW b \in Nat, NEW x \in Nat, NEW y \in Nat,
         b < a, y < K
  PROVE  b * K + y < a * K + x
<1> DEFINE d == a - b - 1
<1>1. d \in Nat /\ a = b + 1 + d
  OBVIOUS
<1> HIDE DEF d
<1>2. a * K = b * K + K + d * K
  BY <1>1
<1>3. d * K \in Nat /\ b * K \in Nat
  BY <1>1
<1> HIDE DEF d
<1> DEFINE p == b * K   q == d * K
<1>4. p \in Nat /\ q \in Nat /\ a * K = p + K + q
  BY <1>2, <1>3
<1> HIDE DEF p, q
<1>5. p + y < p + K + q + x
  BY <1>4
<1> QED
  BY <1>4, <1>5 DEF p

\* The rounds still to come for the request in slot s, one for each token.
RoundsLeft(s) == Limit(slots[s].request) - tokens_generated[s] - 1

LEMMA AnswerSteps ==
  ASSUME EngineInv, NEW s \in OccupiedIds
  PROVE  /\ RoundsLeft(s) \in Nat /\ RoundsLeft(s) < Limit(slots[s].request)
         /\ StepsToToken(s) \in Nat /\ StepsToToken(s) < 3 * MaxSlots + 7
         /\ StepsToAnswer(s) = RoundsLeft(s) * (3 * MaxSlots + 7) + StepsToToken(s)
         /\ StepsToAnswer(s) \in Nat
         /\ StepsToAnswer(s) < Limit(slots[s].request) * (3 * MaxSlots + 7)
<1> DEFINE k == Limit(slots[s].request)   n == RoundsLeft(s)   t == StepsToToken(s)
           R == 3 * MaxSlots + 7
<1>1. k \in Nat \ {0} /\ tokens_generated[s] \in 0 .. k - 1
      /\ t \in 0 .. 3 * MaxSlots + 6
  BY StepsBounded, LimitType DEF EngineInv, SlotsInv, PoolOK, HoldersKnown
<1>2. n \in Nat /\ n < k /\ t \in Nat /\ t < R /\ R \in Nat
  BY <1>1, MaxSlotsAssumption DEF RoundsLeft
<1>3. StepsToAnswer(s) = n * R + t
  BY DEF StepsToAnswer, RoundsLeft
<1> HIDE DEF k, n, t, R
<1>4. n * R + t \in Nat
  BY <1>2
<1>5. n * R + t < k * R + 0
  BY <1>1, <1>2, RoundLess
<1>6. k * R \in Nat
  BY <1>1, <1>2
<1> QED
  BY <1>2, <1>3, <1>4, <1>5, <1>6 DEF k, n, t, R

AnswerStepsOK ==
  \A s \in OccupiedIds :
    /\ RoundsLeft(s) \in Nat /\ StepsToToken(s) \in Nat
    /\ StepsToToken(s) < 3 * MaxSlots + 7
    /\ StepsToAnswer(s) = RoundsLeft(s) * (3 * MaxSlots + 7) + StepsToToken(s)
    /\ StepsToAnswer(s) \in Nat

LEMMA AnswerStepsNext == EngineInv' => AnswerStepsOK'
<1>1. EngineInv => AnswerStepsOK
  BY AnswerSteps DEF AnswerStepsOK
<1> QED
  BY <1>1, PTL

\* A slot that gets its token has a round less, the others a step less of the round.
LEMMA NearerAnswer ==
  ASSUME EngineInv, EngineInv', NEW s \in OccupiedIds, s \in OccupiedIds', Nearer(s),
         slots'[s].request = slots[s].request
  PROVE  StepsToAnswer(s)' < StepsToAnswer(s)
<1> DEFINE n == RoundsLeft(s)    m == RoundsLeft(s)'
           t == StepsToToken(s)  u == StepsToToken(s)'
           R == 3 * MaxSlots + 7
<1>1. /\ n \in Nat /\ t \in Nat /\ StepsToAnswer(s) = n * R + t
      /\ m \in Nat /\ u \in Nat /\ u < R /\ StepsToAnswer(s)' = m * R + u
      /\ R \in Nat
  BY AnswerSteps, AnswerStepsNext, MaxSlotsAssumption DEF AnswerStepsOK
<1>2. /\ Limit(slots[s].request) \in Int /\ tokens_generated[s] \in Nat
      /\ s \in SlotIds
  BY LimitType DEF OccupiedIds, EngineInv, SlotsInv, TypeOK, PoolOK, HoldersKnown
<1>3. \/ m < n
      \/ m = n /\ u < t
  <2>1. CASE tokens_generated'[s] = tokens_generated[s] + 1
    BY <1>1, <1>2, <2>1 DEF RoundsLeft, Limit
  <2>2. CASE tokens_generated'[s] = tokens_generated[s] /\ StepsToToken(s)' < StepsToToken(s)
    BY <1>1, <1>2, <2>2 DEF RoundsLeft, Limit
  <2> QED
    BY <2>1, <2>2 DEF Nearer
<1> HIDE DEF n, m, t, u, R
<1>4. CASE m < n
  <2>1. m * R + u < n * R + t
    BY <1>1, <1>4, RoundLess
  <2> QED
    BY <1>1, <2>1
<1>5. CASE m = n /\ u < t
  <2>1. n * R \in Nat
    BY <1>1
  <2>2. n * R + u < n * R + t
    BY <1>1, <1>5, <2>1
  <2> QED
    BY <1>1, <1>5, <2>2
<1> QED
  BY <1>3, <1>4, <1>5

\* A step that is not the engine thread's: the control point changes only when the
\* thread is woken, when no slot is in use, and nothing else that the counts read does.
LEMMA OthersPutNothingOff ==
  ASSUME EngineInv, [Next]_vars, ~EngineStep
  PROVE  /\ UNCHANGED <<slots, tokens_generated, todo, to_admit, promise>>
         /\ pc' = pc \/ (pc = "waiting" /\ pc' = "idle" /\ OccupiedIds = {})
         /\ \A s \in OccupiedIds : StepsToAnswer(s)' = StepsToAnswer(s)
         /\ Waiting' = Waiting \/ \E r \in Requests : Waiting' = Append(Waiting, r)
<1>1. /\ UNCHANGED <<slots, tokens_generated, todo, to_admit, promise>>
      /\ pc' = pc \/ (pc = "waiting" /\ pc' = "idle")
  BY DEF Next, CallerStep, Enqueue, NotifyOne, DeadlinePasses, SpuriousWake, SetStop,
         NotifyAll, Join, Woken, vars, callerVars, loopVars, slotVars, arrayVars
<1>2. pc = "waiting" => OccupiedIds = {}
  BY DEF EngineInv, IdleInv
<1>3. ASSUME NEW s \in OccupiedIds PROVE StepsToAnswer(s)' = StepsToAnswer(s)
  <2>1. pc' = pc
    BY <1>1, <1>2, <1>3
  <2>2. StepsToToken(s)' = StepsToToken(s)
    BY <1>1, <2>1 DEF StepsToToken
  <2> QED
    BY <1>1, <2>2 DEF StepsToAnswer, Limit
<1>4. Waiting' = Waiting \/ \E r \in Requests : Waiting' = Append(Waiting, r)
  <2>1. CASE SetStop \/ NotifyAll \/ Join \/ SpuriousWake \/ UNCHANGED vars
             \/ \E r \in Requests : NotifyOne(r) \/ DeadlinePasses(r)
    BY <2>1, QuietEffects DEF Unmoved
  <2>2. ASSUME NEW r \in Requests, Enqueue(r)
        PROVE  Waiting' = Append(Waiting, r)
    BY <2>2, EnqueueEffects DEF Submitted
  <2> QED
    BY <2>1, <2>2 DEF Next, CallerStep
<1> QED
  BY <1>1, <1>2, <1>3, <1>4

\* What a step of the engine does to a slot in use: it stays with its request, or its
\* request is answered.
LEMMA HeldOrAnswered ==
  ASSUME EngineInv, ServiceInv, EngineInv', EngineStep, NEW s \in OccupiedIds
  PROVE  /\ s \in OccupiedIds' => slots'[s].request = slots[s].request
         /\ s \notin OccupiedIds' => promise'[slots[s].request].calls = 1
<1>1. slots[s].request \in Requests
  BY DEF EngineInv, SlotsInv, PoolOK, HoldersKnown
<1>2. CASE Unmoved \/ \E r \in Requests : Submitted(r)
  BY <1>2 DEF Unmoved, Submitted, SameHolders
<1>3. CASE Rejected \/ \E sid \in FreeIds : Started(sid)
  BY <1>3 DEF Rejected, Started, SameHolders
<1>4. ASSUME NEW S \in SUBSET OccupiedIds, NEW v \in Served, NEW text \in Texts,
             Answered(S, v, text), s \notin OccupiedIds'
      PROVE  promise'[slots[s].request].calls = 1
  <2>1. s \in S
    BY <1>4 DEF Answered
  <2>2. slots[s].request \in Held
    BY HeldIs
  <2>3. promise[slots[s].request].calls = 0
    BY <1>1, <2>2 DEF ServiceInv, OnePlaceEach
  <2> QED
    BY <1>1, <1>4, <2>1, <2>3 DEF Answered, Answer
<1>5. ASSUME NEW S \in SUBSET OccupiedIds, NEW v \in Served, NEW text \in Texts,
             Answered(S, v, text)
      PROVE  s \in OccupiedIds' => slots'[s].request = slots[s].request
  BY <1>5 DEF Answered
<1> QED
  BY <1>2, <1>3, <1>4, <1>5, StepEffects DEF Next

LEMMA SlotsDrawNear ==
  ASSUME EngineInv, ServiceInv, EngineInv', [Next]_vars, pc' # "exited",
         NEW s \in OccupiedIds
  PROVE  SlotDrawsNear(s)
<1>1. CASE EngineStep
  <2>1. CASE s \in OccupiedIds'
    <3>1. Nearer(s)
      BY <1>1, <2>1, NearerDecode, NearerToken DEF EngineStep
    <3>2. slots'[s].request = slots[s].request
      BY <1>1, <2>1, HeldOrAnswered
    <3> QED
      BY <2>1, <3>1, <3>2, NearerAnswer DEF SlotDrawsNear
  <2>2. CASE s \notin OccupiedIds'
    <3>1. promise'[slots[s].request].calls = 1
      BY <1>1, <2>2, HeldOrAnswered
    <3>2. ~slots'[s].occupied
      BY <2>2 DEF OccupiedIds
    <3> QED
      BY <3>1, <3>2 DEF SlotDrawsNear
  <2> QED
    BY <2>1, <2>2
<1>2. CASE ~EngineStep
  BY <1>2, OthersPutNothingOff DEF SlotDrawsNear
<1> QED
  BY <1>1, <1>2

-----------------------------------------------------------------------------
(* Then those of the requests in the queue. *)

LEMMA AdmitStepsAre ==
  /\ FreeIds = {} => StepsToAdmit = MaxSlots + 8 + StepsToAnswer(0)
  /\ FreeIds # {} =>
       /\ pc = "admit" /\ to_admit = <<>> => StepsToAdmit = MaxSlots + 8
       /\ pc = "admit" /\ to_admit # <<>> => StepsToAdmit = 1
       /\ pc = "build" => StepsToAdmit = MaxSlots + 7
       /\ pc = "decode" => StepsToAdmit = MaxSlots + 6
       /\ pc = "sample" => StepsToAdmit = Cardinality(todo) + 5
       /\ pc \in {"loop", "waiting"} => StepsToAdmit = 4
       /\ pc = "idle" => StepsToAdmit = 3
       /\ pc = "drain" => StepsToAdmit = 2
       /\ pc \in {"parking", "exited"} => StepsToAdmit = 0
  BY DEF StepsToAdmit

AdmitSteps ==
  /\ FreeIds = {} => 0 \in OccupiedIds /\ StepsToAnswer(0) \in Nat
  /\ StepsToAdmit \in Nat
  /\ FreeIds # {} => StepsToAdmit <= MaxSlots + 8

LEMMA AdmitStepsTyped == EngineInv => AdmitSteps
<1> SUFFICES ASSUME EngineInv PROVE AdmitSteps
  OBVIOUS
<1>1. FreeIds = {} => 0 \in OccupiedIds
  BY MaxSlotsAssumption DEF FreeIds, SlotIds
<1>2. 0 \in OccupiedIds => StepsToAnswer(0) \in Nat
  BY AnswerSteps
<1>3. /\ Cardinality(todo) \in Nat /\ Cardinality(todo) <= MaxSlots
      /\ MaxSlots \in Nat /\ pc \in ControlPoints
  BY SlotsCounted, MaxSlotsAssumption DEF EngineInv, SlotsInv, TypeOK
<1>4. CASE FreeIds = {}
  <2>1. StepsToAdmit = MaxSlots + 8 + StepsToAnswer(0)
    BY <1>4, AdmitStepsAre
  <2> QED
    BY <1>1, <1>2, <1>3, <1>4, <2>1 DEF AdmitSteps
<1>5. CASE FreeIds # {}
  <2>1. StepsToAdmit \in {MaxSlots + 8, MaxSlots + 7, MaxSlots + 6,
                          Cardinality(todo) + 5, 0, 1, 2, 3, 4}
    BY <1>3, <1>5, AdmitStepsAre, Zenon DEF ControlPoints
  <2> HIDE DEF StepsToAdmit
  <2>2. StepsToAdmit \in Nat /\ StepsToAdmit <= MaxSlots + 8
    BY <1>3, <2>1
  <2> QED
    BY <1>5, <2>2 DEF AdmitSteps
<1> QED
  BY <1>4, <1>5

LEMMA AdmitStepsNext ==
  /\ EngineInv' => AdmitSteps'
  /\ FreeIds' = {} => StepsToAdmit' = MaxSlots + 8 + StepsToAnswer(0)'
  /\ FreeIds' # {} =>
       /\ pc' = "admit" /\ to_admit' = <<>> => StepsToAdmit' = MaxSlots + 8
       /\ pc' = "admit" /\ to_admit' # <<>> => StepsToAdmit' = 1
       /\ pc' = "build" => StepsToAdmit' = MaxSlots + 7
       /\ pc' = "decode" => StepsToAdmit' = MaxSlots + 6
       /\ pc' = "sample" => StepsToAdmit' = Cardinality(todo') + 5
       /\ pc' \in {"loop", "waiting"} => StepsToAdmit' = 4
       /\ pc' = "idle" => StepsToAdmit' = 3
       /\ pc' = "drain" => StepsToAdmit' = 2
       /\ pc' \in {"parking", "exited"} => StepsToAdmit' = 0
<1>1. EngineInv' => AdmitSteps'
  BY AdmitStepsTyped, PTL
<1> QED
  BY <1>1 DEF StepsToAdmit

LEMMA QueueShrinks == EngineInv /\ Waiting # <<>> => Tail(Waiting) # Waiting
<1> SUFFICES ASSUME EngineInv, Waiting # <<>>, Tail(Waiting) = Waiting PROVE FALSE
  OBVIOUS
<1>1. Waiting \in Seq(Requests)
  BY WaitingTyped DEF EngineInv, SlotsInv
<1>2. PICK n \in Nat : n = Len(Waiting)
  BY <1>1, LenProperties
<1>3. Len(Tail(Waiting)) = n - 1
  BY <1>1, <1>2, HeadTailProperties
<1> QED
  BY <1>2, <1>3

\* A drain with a free slot takes someone, when someone waits (84-91).
LEMMA DrainTakes ==
  ASSUME EngineInv, Drain, FreeIds # {}, Waiting # <<>>
  PROVE  to_admit' # <<>>
<1>1. /\ to_admit = <<>> /\ pending \in Seq(Requests) /\ Len(pending) \in Nat
      /\ free_count = Cardinality(FreeIds) /\ Cardinality(FreeIds) \in Nat
  BY FreeIdsFinite DEF EngineInv, SlotsInv, Phases, Drain, PoolOK, FreeCountExact, TypeOK
<1>2. Cardinality(FreeIds) # 0
  BY FreeIdsFinite, FS_EmptySet
<1>3. pending # <<>>
  BY <1>1, ConcatEmptySeq DEF Waiting
<1>4. Len(pending) # 0
  BY <1>1, <1>3, EmptySeq
<1>5. CanAdmit \in 1 .. Len(pending)
  BY <1>1, <1>2, <1>4 DEF CanAdmit
<1> DEFINE k == CanAdmit
<1>6. k \in 1 .. Len(pending)
  BY <1>5
<1> HIDE DEF k
<1>7. Len(SubSeq(pending, 1, k)) = k
  BY <1>1, <1>6
<1>8. SubSeq(pending, 1, k) # <<>>
  BY <1>6, <1>7, EmptySeq
<1> QED
  BY <1>8 DEF Drain, k

\* No slot free, and one is now: the steps left are those of one iteration at most.
LEMMA SlotFreed ==
  ASSUME EngineInv, EngineInv', EngineStep, pc' # "exited", Waiting' = Waiting,
         Waiting # <<>>, FreeIds = {}, FreeIds' # {}
  PROVE  StepsToAdmit' < StepsToAdmit
<1> USE AdmitStepsNext, MaxSlotsAssumption
<1>1. /\ StepsToAdmit = MaxSlots + 8 + StepsToAnswer(0)
      /\ StepsToAnswer(0) \in Nat
  BY AdmitStepsAre, AdmitStepsTyped DEF AdmitSteps
<1>2. slots' # slots
  BY DEF FreeIds, OccupiedIds
<1>3. pc' \in {"build", "sample", "loop"}
  <2>1. ~AdmitOne
    BY NextToAdmit DEF AdmitOne, EngineInv
  <2>2. ~BuildBatch
    <3>1. ASSUME BuildBatch PROVE OccupiedIds' = OccupiedIds
      BY <3>1 DEF BuildBatch, OccupiedIds, EngineInv, SlotsInv, TypeOK, SlotTypeOK, Slot
    <3> QED
      BY <3>1 DEF FreeIds
  <2> QED
    BY <1>2, <2>1, <2>2 DEF EngineStep, LoopTop, IdleCheckPasses, IdleCheckFails, Park, Drain,
       RetireExpired, NothingActive, BuildBatch, DecodeOk, DecodeFail, SampleEos, SampleLast,
       SampleToken, EndIteration, Sampling, slotVars
<1>4. /\ Cardinality(todo') \in Nat /\ Cardinality(todo') <= MaxSlots
  BY SlotsCounted DEF EngineInv, SlotsInv, TypeOK
<1>5. StepsToAdmit' \in {MaxSlots + 7, Cardinality(todo') + 5, 4}
  BY <1>3
<1> QED
  BY <1>1, <1>4, <1>5

\* With a slot free every step leads to the drain, and to the request's turn.
LEMMA DrainDrawsNear ==
  ASSUME EngineInv, EngineInv', EngineStep, pc' # "exited", Waiting' = Waiting,
         Waiting # <<>>, FreeIds # {}, FreeIds' # {}
  PROVE  StepsToAdmit' < StepsToAdmit
<1> USE AdmitStepsAre, AdmitStepsNext, MaxSlotsAssumption
<1>1. /\ to_admit \in Seq(Requests) /\ pending \in Seq(Requests)
      /\ todo \in SUBSET SlotIds /\ todo' \in SUBSET SlotIds
      /\ pc # "admit" => to_admit = <<>>
  BY DEF EngineInv, SlotsInv, TypeOK, Phases
<1>2. pc # "admit" => pending # <<>>
  BY <1>1, ConcatEmptySeq DEF Waiting
<1>3. /\ Cardinality(todo) \in Nat /\ Cardinality(todo') \in Nat
      /\ Cardinality(todo') <= MaxSlots
  BY <1>1, SlotsCounted
<1>4. CASE LoopTop \/ IdleCheckPasses
  BY <1>4 DEF LoopTop, IdleCheckPasses
<1>5. ~IdleCheckFails /\ ~Park
  BY <1>2 DEF IdleCheckFails, Park, EngineInv, IdleInv
<1>6. CASE Drain
  <2>1. pc = "drain" /\ pc' = "admit" /\ to_admit' # <<>>
    BY <1>6, DrainTakes DEF Drain
  <2> QED
    BY <2>1
<1>7. ~AdmitOne
  BY QueueShrinks, AdmitEffects DEF Rejected, Started
<1>8. CASE RetireExpired
  <2>1. pc = "admit" /\ to_admit = <<>> /\ pc' = "build"
    BY <1>8 DEF RetireExpired
  <2> QED
    BY <2>1
<1>9. CASE NothingActive \/ BuildBatch
  <2>1. pc = "build" /\ pc' \in {"loop", "decode"}
    BY <1>9 DEF NothingActive, BuildBatch
  <2> QED
    BY <2>1
<1>10. CASE DecodeOk \/ DecodeFail
  <2>1. pc = "decode" /\ pc' \in {"loop", "sample"}
    BY <1>10 DEF DecodeOk, DecodeFail
  <2>2. StepsToAdmit = MaxSlots + 6 /\ StepsToAdmit' \in {4, Cardinality(todo') + 5}
    BY <2>1
  <2> QED
    BY <1>3, <2>2
<1>11. ASSUME NEW sid \in SlotIds,
              SampleEos(sid) \/ SampleLast(sid) \/ \E tok \in Tokens : SampleToken(sid, tok)
       PROVE  StepsToAdmit' < StepsToAdmit
  <2>1. pc = "sample" /\ pc' = "sample" /\ sid \in todo /\ todo' = todo \ {sid}
    BY <1>11 DEF SampleEos, SampleLast, SampleToken, Sampling
  <2>2. Cardinality(todo') = Cardinality(todo) - 1
    BY <1>1, <2>1, SlotsCounted
  <2>3. StepsToAdmit = Cardinality(todo) + 5 /\ StepsToAdmit' = Cardinality(todo') + 5
    BY <2>1
  <2> QED
    BY <1>3, <2>2, <2>3
<1>12. CASE EndIteration
  <2>1. pc = "sample" /\ pc' = "loop"
    BY <1>12 DEF EndIteration
  <2>2. StepsToAdmit = Cardinality(todo) + 5 /\ StepsToAdmit' = 4
    BY <2>1
  <2> QED
    BY <1>3, <2>2
<1> QED
  BY <1>4, <1>5, <1>6, <1>7, <1>8, <1>9, <1>10, <1>11, <1>12 DEF EngineStep

LEMMA QueueDraws ==
  ASSUME EngineInv, ServiceInv, EngineInv', [Next]_vars, pc' # "exited", Waiting # <<>>
  PROVE  QueueDrawsNear
<1>1. CASE EngineStep /\ Waiting' = Waiting
  <2>1. ASSUME FreeIds # {} PROVE FreeIds' # {}
    <3>1. \A sid \in FreeIds : ~Started(sid)
      BY <1>1, QueueShrinks DEF Started
    <3>2. OccupiedIds' \subseteq OccupiedIds
      BY <3>1, StepEffects DEF Unmoved, Submitted, Rejected, Answered, SameHolders
    <3> QED
      BY <2>1, <3>2 DEF FreeIds
  <2>2. CASE FreeIds = {} /\ FreeIds' = {}
    <3>1. /\ 0 \in OccupiedIds /\ 0 \in OccupiedIds'
          /\ StepsToAnswer(0) \in Nat /\ StepsToAnswer(0)' \in Nat
          /\ StepsToAdmit = MaxSlots + 8 + StepsToAnswer(0)
          /\ StepsToAdmit' = MaxSlots + 8 + StepsToAnswer(0)'
      BY <2>2, AdmitStepsAre, AdmitStepsTyped, AdmitStepsNext DEF AdmitSteps
    <3>2. slots'[0].occupied
      BY <3>1 DEF OccupiedIds
    <3>3. StepsToAnswer(0)' < StepsToAnswer(0)
      BY <1>1, <3>1, <3>2, SlotsDrawNear DEF SlotDrawsNear
    <3>4. StepsToAdmit' < StepsToAdmit
      BY <3>1, <3>3, MaxSlotsAssumption
    <3> QED
      BY <1>1, <3>4 DEF QueueDrawsNear
  <2> QED
    BY <1>1, <2>1, <2>2, SlotFreed, DrainDrawsNear DEF QueueDrawsNear
<1>2. CASE EngineStep /\ Waiting' # Waiting
  <2>1. ~(\E r \in Requests : Submitted(r))
    <3>1. ASSUME NEW r \in Requests, Submitted(r) PROVE FALSE
      <4>1. caller[r] = "new" /\ caller' = [caller EXCEPT ![r] = "pushed"]
            /\ caller \in [Requests -> {"new", "pushed", "notified"}]
        BY <3>1 DEF Submitted, EngineInv, SlotsInv, TypeOK
      <4>2. caller' = caller
        <5>1. EngineStep
          BY <1>2
        <5> QED
          BY <5>1 DEF EngineStep, LoopTop, IdleCheckPasses, IdleCheckFails, Park, Drain,
             AdmitOne, RetireExpired, NothingActive, BuildBatch, DecodeOk, DecodeFail,
             SampleEos, SampleLast, SampleToken, EndIteration, callerVars
      <4> QED
        BY <4>1, <4>2
    <3> QED
      BY <3>1
  <2> QED
    BY <1>2, <2>1, StepEffects DEF Unmoved, Started, Rejected, Answered, QueueDrawsNear
<1>3. CASE ~EngineStep
  <2>1. /\ FreeIds' = FreeIds /\ todo' = todo /\ to_admit' = to_admit
        /\ pc' = pc \/ (pc = "waiting" /\ pc' = "idle" /\ OccupiedIds = {})
        /\ \A s \in OccupiedIds : StepsToAnswer(s)' = StepsToAnswer(s)
        /\ Waiting' = Waiting \/ \E r \in Requests : Waiting' = Append(Waiting, r)
    BY <1>3, OthersPutNothingOff DEF FreeIds, OccupiedIds
  <2>2. /\ FreeIds = {} => 0 \in OccupiedIds
        /\ StepsToAdmit \in Nat /\ StepsToAdmit' \in Nat
    BY AdmitStepsTyped, AdmitStepsNext DEF AdmitSteps
  <2>3. CASE pc' = pc
    <3>1. StepsToAdmit' = StepsToAdmit
      BY <2>1, <2>2, <2>3 DEF StepsToAdmit
    <3>2. PICK n \in Nat : StepsToAdmit = n
      BY <2>2
    <3>3. StepsToAdmit' <= StepsToAdmit
      BY <3>1, <3>2
    <3> QED
      BY <1>3, <2>1, <3>3 DEF QueueDrawsNear
  <2>4. CASE pc = "waiting" /\ pc' = "idle" /\ OccupiedIds = {}
    <3>1. FreeIds # {}
      <4>1. OccupiedIds = {}
        BY <2>4
      <4>2. 0 \in SlotIds
        BY MaxSlotsAssumption DEF SlotIds
      <4> QED
        BY <4>1, <4>2 DEF FreeIds, OccupiedIds
    <3>2. StepsToAdmit = 4 /\ StepsToAdmit' = 3
      BY <2>1, <2>4, <3>1, AdmitStepsAre, AdmitStepsNext
    <3> QED
      BY <1>3, <2>1, <3>2 DEF QueueDrawsNear
  <2> QED
    BY <2>1, <2>3, <2>4
<1> QED
  BY <1>1, <1>2, <1>3

\* Every answer draws nearer with every step of the engine thread, by numbers that no
\* other step raises; a request in a slot is answered within Limit (3 MaxSlots + 7) steps,
\* and the wait of the oldest in the queue is a number too (64-70, 80-132, 164-278).
THEOREM AnswersComeNearer ==
  Spec => /\ AnswersDrawNear
          /\ [](/\ StepsToAdmit \in Nat
                /\ \A s \in OccupiedIds :
                     /\ StepsToAnswer(s) \in Nat
                     /\ StepsToAnswer(s) < Limit(slots[s].request) * (3 * MaxSlots + 7))
<1> DEFINE Numbers == /\ StepsToAdmit \in Nat
                      /\ \A s \in OccupiedIds :
                           /\ StepsToAnswer(s) \in Nat
                           /\ StepsToAnswer(s) < Limit(slots[s].request) * (3 * MaxSlots + 7)
           Near == pc' # "exited" => /\ \A s \in OccupiedIds : SlotDrawsNear(s)
                                     /\ Waiting # <<>> => QueueDrawsNear
<1>1. EngineInv /\ EngineInv' /\ ServiceInv /\ [Next]_vars => Near
  BY SlotsDrawNear, QueueDraws
<1>2. EngineInv => Numbers
  BY AnswerSteps, AdmitStepsTyped DEF AdmitSteps
<1> HIDE DEF Numbers, Near
<1>3. Spec => [][Near]_vars /\ []Numbers
  BY <1>1, <1>2, EngineInvHolds, ServiceInvHolds, PTL DEF Spec
<1> QED
  BY <1>3 DEF Numbers, Near, AnswersDrawNear
=============================================================================
