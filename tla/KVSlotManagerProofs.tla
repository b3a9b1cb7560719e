-------------------------- MODULE KVSlotManagerProofs --------------------------
(***************************************************************************)
(* What every use of the pool can rely on, whatever its caller: the two    *)
(* operations keep the pool's types and keep the counter equal to the      *)
(* number of free slots.                                                   *)
(***************************************************************************)
EXTENDS KVSlotManager, FiniteSetTheorems, TLAPS

LEMMA SlotIdsFinite ==
  /\ IsFiniteSet(SlotIds)
  /\ Cardinality(SlotIds) = MaxSlots
  /\ SlotIds \subseteq Int
  BY FS_Interval, MaxSlotsAssumption DEF SlotIds

LEMMA FreeIdsFinite ==
  /\ FreeIds \subseteq SlotIds
  /\ IsFiniteSet(FreeIds)
  /\ Cardinality(FreeIds) \in 0 .. MaxSlots
<1>1. FreeIds \in SUBSET SlotIds
  BY DEF FreeIds
<1>2. IsFiniteSet(FreeIds) /\ Cardinality(FreeIds) <= MaxSlots
  BY <1>1, SlotIdsFinite, FS_Subset
<1>3. Cardinality(FreeIds) \in Nat
  BY <1>2, FS_CardinalityType
<1> QED
  BY <1>1, <1>2, <1>3, MaxSlotsAssumption

\* The constructor leaves the pool consistent (kv_slot_manager.cpp:3-5).
LEMMA PoolInit == ASSUME SlotInit PROVE PoolOK
<1>1. SlotTypeOK
  BY MaxSlotsAssumption DEF SlotInit, SlotTypeOK, EmptySlot, Slot
<1>2. FreeIds = SlotIds
  BY DEF SlotInit, FreeIds, OccupiedIds, EmptySlot
<1>3. HoldersKnown
  BY DEF SlotInit, HoldersKnown, OccupiedIds, EmptySlot
<1> QED
  BY <1>1, <1>2, <1>3, SlotIdsFinite DEF PoolOK, FreeCountExact, SlotInit

\* acquire() takes one slot off the free ones (kv_slot_manager.cpp:7-19).
LEMMA AcquireFrees ==
  ASSUME SlotTypeOK, NEW sid, NEW r, Acquire(sid, r)
  PROVE  /\ sid \in FreeIds
         /\ FreeIds' = FreeIds \ {sid}
         /\ Cardinality(FreeIds') = Cardinality(FreeIds) - 1
<1>1. sid \in FreeIds /\ sid \in SlotIds
  BY FreeIdsFinite DEF Acquire, FirstFree
<1>2. slots' = [slots EXCEPT ![sid] = NewSlot(r)]
  BY DEF Acquire
<1>3. FreeIds' = FreeIds \ {sid}
  BY <1>1, <1>2 DEF FreeIds, OccupiedIds, SlotTypeOK, NewSlot, SlotIds
<1> QED
  BY <1>1, <1>3, FreeIdsFinite, FS_RemoveElement

LEMMA AcquirePool ==
  ASSUME PoolOK, NEW sid, NEW r \in Requests, Acquire(sid, r)
  PROVE  PoolOK'
<1> USE DEF PoolOK
<1>1. sid \in FreeIds /\ Cardinality(FreeIds') = Cardinality(FreeIds) - 1
  BY AcquireFrees
<1>2. FreeCountExact'
  BY <1>1, FreeIdsFinite DEF FreeCountExact, Acquire
<1>3. free_count' \in 0 .. MaxSlots
  <2>1. Cardinality(FreeIds) # 0
    BY <1>1, FreeIdsFinite, FS_EmptySet
  <2> QED
    BY <1>1, <1>2, <2>1, FreeIdsFinite, MaxSlotsAssumption DEF FreeCountExact
<1>4. NewSlot(r) \in Slot
  BY DEF NewSlot, Slot
<1>5. slots' \in [SlotIds -> Slot] /\ kv' \in [SlotIds -> SUBSET Cells]
  BY <1>4 DEF Acquire, SlotTypeOK
<1>6. HoldersKnown'
  BY DEF Acquire, HoldersKnown, OccupiedIds, NewSlot, SlotTypeOK
<1> QED
  BY <1>2, <1>3, <1>5, <1>6 DEF SlotTypeOK

\* Releasing occupied slots adds exactly them to the free ones
\* (kv_slot_manager.cpp:21-25).
LEMMA ReleaseFrees ==
  ASSUME SlotTypeOK, NEW S, S \subseteq OccupiedIds, Release(S)
  PROVE  /\ IsFiniteSet(S) /\ Cardinality(S) \in Nat
         /\ FreeIds' = FreeIds \cup S
         /\ Cardinality(FreeIds') = Cardinality(FreeIds) + Cardinality(S)
<1>1. S \in SUBSET SlotIds /\ S \cap FreeIds = {}
  BY DEF OccupiedIds, FreeIds
<1>2. IsFiniteSet(S) /\ Cardinality(S) \in Nat
  BY <1>1, SlotIdsFinite, FS_Subset, FS_CardinalityType
<1>3. FreeIds' = FreeIds \cup S
  BY <1>1 DEF FreeIds, OccupiedIds, Release, EmptySlot
<1>4. Cardinality(FreeIds \cup S)
        = Cardinality(FreeIds) + Cardinality(S) - Cardinality(FreeIds \cap S)
  BY <1>2, FreeIdsFinite, FS_Union
<1>5. Cardinality(FreeIds \cap S) = 0
  BY <1>1, FS_EmptySet
<1> QED
  BY <1>2, <1>3, <1>4, <1>5, FreeIdsFinite

LEMMA ReleasePool ==
  ASSUME PoolOK, NEW S, S \subseteq OccupiedIds, Release(S)
  PROVE  PoolOK'
<1> USE DEF PoolOK
<1>1. FreeCountExact'
  BY ReleaseFrees, FreeIdsFinite DEF FreeCountExact, Release, Returned
<1>2. Cardinality(FreeIds') \in 0 .. MaxSlots
  <2>1. FreeIds' \in SUBSET SlotIds
    BY DEF FreeIds
  <2>2. IsFiniteSet(FreeIds') /\ Cardinality(FreeIds') <= MaxSlots
    BY <2>1, SlotIdsFinite, FS_Subset
  <2>3. Cardinality(FreeIds') \in Nat
    BY <2>2, FS_CardinalityType
  <2> QED
    BY <2>2, <2>3, MaxSlotsAssumption
<1>3. EmptySlot \in Slot
  BY DEF EmptySlot, Slot
<1>4. slots' \in [SlotIds -> Slot] /\ kv' \in [SlotIds -> SUBSET Cells]
  BY <1>3 DEF Release, Freed, SlotTypeOK
<1>5. HoldersKnown'
  BY DEF Release, HoldersKnown, OccupiedIds, EmptySlot
<1> QED
  BY <1>1, <1>2, <1>4, <1>5 DEF SlotTypeOK, FreeCountExact

\* The pool's invariant depends on flags and requests only: writing the other
\* fields of a record through slot() keeps it (kv_slot_manager.h:33).
LEMMA SamePool ==
  ASSUME PoolOK, slots' \in [SlotIds -> Slot], kv' \in [SlotIds -> SUBSET Cells],
         free_count' = free_count,
         \A s \in SlotIds : /\ slots'[s].occupied = slots[s].occupied
                            /\ slots'[s].request = slots[s].request
  PROVE  PoolOK'
<1>1. OccupiedIds' = OccupiedIds
  BY DEF OccupiedIds
<1>2. HoldersKnown'
  BY <1>1 DEF PoolOK, HoldersKnown, OccupiedIds
<1> QED
  BY <1>1, <1>2 DEF PoolOK, SlotTypeOK, FreeCountExact, FreeIds
=============================================================================
