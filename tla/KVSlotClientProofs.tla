-------------------------- MODULE KVSlotClientProofs --------------------------
(***************************************************************************)
(* The pool under the most general caller that keeps its contract, for     *)
(* every number of slots and every set of requests.                        *)
(***************************************************************************)
EXTENDS KVSlotClient, KVSlotManagerProofs

\* A conjunction that is inductive: the cells need the types, not conversely.
ClientInv == PoolOK /\ CellsFollowHolder

LEMMA ClientInit == ASSUME SlotInit PROVE ClientInv
<1>1. CellsFollowHolder
  BY DEF SlotInit, CellsFollowHolder, EmptySlot
<1> QED
  BY <1>1, PoolInit DEF ClientInv

LEMMA AcquireKeepsCells ==
  ASSUME ClientInv, NEW sid \in SlotIds, NEW r \in Requests, Acquire(sid, r)
  PROVE  ClientInv'
<1> USE DEF ClientInv
<1>1. PoolOK'
  BY AcquirePool
<1>2. sid \in FreeIds
  BY AcquireFrees DEF PoolOK
<1>3. ASSUME NEW s \in SlotIds
      PROVE  kv'[s] = IF slots'[s].occupied
                        THEN {slots'[s].request} \X (0 .. slots'[s].kv_pos - 1)
                        ELSE {}
  <2>1. CASE s = sid
    <3>1. kv[s] = {}
      BY <1>2, <2>1 DEF CellsFollowHolder, FreeIds, OccupiedIds
    <3>2. kv'[s] = kv[s] /\ slots'[s] = NewSlot(r)
      BY <2>1 DEF Acquire, PoolOK, SlotTypeOK
    <3>3. 0 .. 0 - 1 = {}
      OBVIOUS
    <3>4. slots'[s].occupied /\ slots'[s].request = r /\ slots'[s].kv_pos = 0
      BY <3>2 DEF NewSlot
    <3>5. {r} \X (0 .. 0 - 1) = {}
      BY <3>3
    <3> QED
      BY <3>1, <3>2, <3>4, <3>5
  <2>2. CASE s # sid
    <3>1. kv'[s] = kv[s] /\ slots'[s] = slots[s]
      BY <2>2 DEF Acquire, PoolOK, SlotTypeOK
    <3> QED
      BY <3>1 DEF CellsFollowHolder
  <2> QED
    BY <2>1, <2>2
<1> QED
  BY <1>1, <1>3 DEF CellsFollowHolder

LEMMA UseKeepsCells ==
  ASSUME ClientInv, NEW sid \in SlotIds, NEW t \in Tokens, Use(sid, t)
  PROVE  ClientInv'
<1> USE DEF ClientInv
<1> DEFINE cell == <<slots[sid].request, slots[sid].kv_pos>>
<1>1. /\ slots \in [SlotIds -> Slot] /\ kv \in [SlotIds -> SUBSET Cells]
      /\ slots[sid] \in Slot /\ slots[sid].occupied
      /\ slots[sid].request \in Requests
      /\ slots[sid].kv_pos \in Nat
  BY DEF Use, PoolOK, SlotTypeOK, HoldersKnown, OccupiedIds, Slot
<1>2. /\ \A s \in SlotIds : s # sid => slots'[s] = slots[s]
      /\ slots'[sid] = [slots[sid] EXCEPT !.kv_pos = @ + 1, !.last_token = t]
      /\ DOMAIN slots' = SlotIds
      /\ slots' = [s \in SlotIds |-> slots'[s]]
  BY <1>1 DEF Use
<1>3. slots'[sid] = [occupied   |-> slots[sid].occupied,
                     request    |-> slots[sid].request,
                     kv_pos     |-> slots[sid].kv_pos + 1,
                     last_token |-> t]
  BY <1>1, <1>2 DEF Slot
<1>4. slots' \in [SlotIds -> Slot]
  <2>1. slots'[sid] \in Slot
    BY <1>1, <1>3 DEF Slot
  <2> QED
    BY <1>1, <1>2, <2>1
<1>5. /\ kv' = [kv EXCEPT ![sid] = @ \cup {cell}]
      /\ cell \in Cells
  BY <1>1 DEF Use, SeqOf, Cells
<1>6. kv' \in [SlotIds -> SUBSET Cells]
  BY <1>1, <1>5
<1>7. PoolOK'
  <2>1. free_count' = free_count /\ PoolOK
    BY DEF Use
  <2>2. \A s \in SlotIds : /\ slots'[s].occupied = slots[s].occupied
                           /\ slots'[s].request = slots[s].request
    <3>1. /\ slots'[sid].occupied = slots[sid].occupied
          /\ slots'[sid].request = slots[sid].request
      BY <1>3
    <3>2. \A s \in SlotIds : s # sid => slots'[s] = slots[s]
      BY <1>2
    <3> QED
      BY <3>1, <3>2
  <2> HIDE DEF ClientInv
  <2> QED
    BY <2>1, <2>2, <1>4, <1>6, SamePool
<1>8. ASSUME NEW s \in SlotIds
      PROVE  kv'[s] = IF slots'[s].occupied
                        THEN {slots'[s].request} \X (0 .. slots'[s].kv_pos - 1)
                        ELSE {}
  <2>1. CASE s = sid
    <3>1. kv[sid] = {slots[sid].request} \X (0 .. slots[sid].kv_pos - 1)
      BY <1>1 DEF CellsFollowHolder
    <3>2. 0 .. (slots[sid].kv_pos + 1) - 1
            = (0 .. slots[sid].kv_pos - 1) \cup {slots[sid].kv_pos}
      BY <1>1
    <3>3. kv'[sid] = {slots[sid].request} \X (0 .. (slots[sid].kv_pos + 1) - 1)
      BY <1>1, <1>5, <3>1, <3>2
    <3> QED
      BY <1>1, <1>3, <2>1, <3>3
  <2>2. CASE s # sid
    BY <1>1, <1>2, <1>5, <2>2 DEF CellsFollowHolder
  <2> QED
    BY <2>1, <2>2
<1> QED
  BY <1>7, <1>8 DEF CellsFollowHolder

LEMMA ReleaseKeepsCells ==
  ASSUME ClientInv, NEW S, S \subseteq OccupiedIds, Release(S)
  PROVE  ClientInv'
<1> USE DEF ClientInv
<1>1. PoolOK'
  BY ReleasePool
<1>2. CellsFollowHolder'
  BY DEF CellsFollowHolder, Release, Freed, EmptySlot
<1> QED
  BY <1>1, <1>2

LEMMA ClientNext == ASSUME ClientInv, [Next]_slotVars PROVE ClientInv'
<1>1. CASE \E sid \in SlotIds, r \in Requests \ Held : Acquire(sid, r)
  BY <1>1, AcquireKeepsCells
<1>2. CASE \E sid \in SlotIds, t \in Tokens : Use(sid, t)
  BY <1>2, UseKeepsCells
<1>3. CASE \E S \in SUBSET OccupiedIds : S # {} /\ Release(S)
  BY <1>3, ReleaseKeepsCells
<1>4. CASE UNCHANGED slotVars
  BY <1>4 DEF slotVars, ClientInv, PoolOK, SlotTypeOK, FreeCountExact, FreeIds,
              OccupiedIds, HoldersKnown, CellsFollowHolder
<1> QED
  BY <1>1, <1>2, <1>3, <1>4 DEF Next

\* The pool is consistent after any legal sequence of calls: types, exact
\* counter, and cells that are their holder's (kv_slot_manager.cpp:7-25).
THEOREM PoolInvariant == Spec => []ClientInv
  BY ClientInit, ClientNext, PTL DEF Spec

\* free_count() is the number of slots acquire() can hand out.
THEOREM CounterExact == Spec => []FreeCountExact
<1>1. ClientInv => FreeCountExact
  BY DEF ClientInv, PoolOK
<1> QED
  BY <1>1, PoolInvariant, PTL

\* No cell outlives its holder and none is another request's.
THEOREM CellsBelongToHolder == Spec => []CellsFollowHolder
<1>1. ClientInv => CellsFollowHolder
  BY DEF ClientInv
<1> QED
  BY <1>1, PoolInvariant, PTL

\* No step replaces the request of a slot in use: acquire() takes free slots
\* only (kv_slot_manager.cpp:9).
THEOREM HolderNeverReplaced == Spec => HolderStable
<1> DEFINE Stable == \A s \in SlotIds :
                       slots[s].occupied /\ slots'[s].occupied
                         => slots'[s].request = slots[s].request
<1>1. ASSUME ClientInv, [Next]_slotVars PROVE [Stable]_slotVars
  <2>1. ASSUME NEW sid \in SlotIds, NEW r \in Requests \ Held, Acquire(sid, r)
        PROVE  Stable
    <3>1. ~slots[sid].occupied
      BY <2>1 DEF Acquire, FirstFree, FreeIds, OccupiedIds
    <3>2. \A s \in SlotIds : s # sid => slots'[s] = slots[s]
      BY <1>1, <2>1 DEF Acquire, ClientInv, PoolOK, SlotTypeOK
    <3> QED
      BY <3>1, <3>2
  <2>2. ASSUME NEW sid \in SlotIds, NEW t \in Tokens, Use(sid, t)
        PROVE  Stable
    <3>1. \A s \in SlotIds : s # sid => slots'[s] = slots[s]
      BY <1>1, <2>2 DEF Use, ClientInv, PoolOK, SlotTypeOK
    <3>2. slots'[sid] = [slots[sid] EXCEPT !.kv_pos = @ + 1, !.last_token = t]
      BY <1>1, <2>2 DEF Use, ClientInv, PoolOK, SlotTypeOK
    <3>3. slots'[sid].request = slots[sid].request
      BY <1>1, <3>2 DEF ClientInv, PoolOK, SlotTypeOK, Slot
    <3> QED
      BY <3>1, <3>3
  <2>3. ASSUME NEW S \in SUBSET OccupiedIds, Release(S)
        PROVE  Stable
    BY <2>3 DEF Release, EmptySlot
  <2> QED
    BY <1>1, <2>1, <2>2, <2>3 DEF Next
<1> QED
  BY <1>1, PoolInvariant, PTL DEF Spec, HolderStable
=============================================================================
