---------------------------- MODULE KVSlotManager ----------------------------
(***************************************************************************)
(* The fixed pool of KV-cache slots (include/kv_slot_manager.h,            *)
(* src/kv_slot_manager.cpp).  A slot index doubles as the llama seq_id, so *)
(* the pool is modelled together with the cells the llama context holds    *)
(* for each sequence: free_fn, called by release, is what removes them.    *)
(*                                                                         *)
(* The operations are actions over the pool's three variables, conjoined   *)
(* by their caller with its own updates: the engine                        *)
(* (ContinuousBatchEngine), or the most general caller (KVSlotClient).     *)
(***************************************************************************)
EXTENDS Integers, FiniteSets

CONSTANTS
  MaxSlots,   \* number of slots (EngineConfig::max_slots)
  Requests,   \* the Request objects callers may submit
  Tokens,     \* the non-EOS tokens a sampler may return
  NoRequest   \* the default-constructed Request of an empty slot

ASSUME MaxSlotsAssumption  == MaxSlots \in Nat \ {0}
ASSUME NoRequestAssumption == NoRequest \notin Requests

VARIABLES
  slots,       \* slots[s]: the Slot record of slot s
  free_count,  \* the atomic counter read by free_count()
  kv           \* kv[s]: the cells of sequence s in the llama context

slotVars == <<slots, free_count, kv>>

SlotIds == 0 .. MaxSlots - 1
NoToken == -1

\* A KV cell, named by the request whose token it caches and its position.
Cells == Requests \X Nat

Slot == [occupied   : BOOLEAN,
         request    : Requests \cup {NoRequest},
         kv_pos     : Nat,
         last_token : Tokens \cup {NoToken}]

EmptySlot == [occupied   |-> FALSE,
              request    |-> NoRequest,
              kv_pos     |-> 0,
              last_token |-> NoToken]

NewSlot(r) == [occupied   |-> TRUE,
               request    |-> r,
               kv_pos     |-> 0,
               last_token |-> NoToken]

OccupiedIds == {s \in SlotIds : slots[s].occupied}
FreeIds     == SlotIds \ OccupiedIds
Held        == {slots[s].request : s \in OccupiedIds}

SlotInit ==
  /\ slots = [s \in SlotIds |-> EmptySlot]
  /\ free_count = MaxSlots
  /\ kv = [s \in SlotIds |-> {}]

-----------------------------------------------------------------------------
(* Operations.  acquire() returns -1 exactly when FreeIds = {}. *)

\* The scan finds the lowest slot that is free.
FirstFree(sid) == sid \in FreeIds /\ \A j \in FreeIds : sid <= j

\* acquire(r) returning sid.
Acquire(sid, r) ==
  /\ FirstFree(sid)
  /\ slots' = [slots EXCEPT ![sid] = NewSlot(r)]
  /\ free_count' = free_count - 1
  /\ UNCHANGED kv

\* Mutant: free_fn is never called, the sequence keeps its cells.
MutFreed(S) == kv
\* free_fn(seq_id), llama_kv_self_seq_rm(ctx, seq_id, 0, -1), for every s in S.
Freed(S)    == [s \in SlotIds |-> IF s \in S THEN {} ELSE kv[s]]

Returned(S)    == free_count + Cardinality(S)

\* release(s) for every s in S.
Release(S) ==
  /\ kv' = Freed(S)
  /\ slots' = [s \in SlotIds |-> IF s \in S THEN EmptySlot ELSE slots[s]]
  /\ free_count' = Returned(S)

-----------------------------------------------------------------------------
(* Properties. *)

\* Types of the pool's state (include/kv_slot_manager.h:7-12, 40-43).
SlotTypeOK ==
  /\ slots \in [SlotIds -> Slot]
  /\ free_count \in 0 .. MaxSlots
  /\ kv \in [SlotIds -> SUBSET Cells]

\* The counter kept beside the flags never drifts from them: free_count() is
\* the number of slots acquire() can still hand out (kv_slot_manager.cpp:14, 24).
FreeCountExact == free_count = Cardinality(FreeIds)

\* The request of a slot in use is one that a caller submitted.
HoldersKnown == \A s \in OccupiedIds : slots[s].request \in Requests

\* What the operations keep whoever calls them: the range of free_count follows
\* from its exactness only.
PoolOK == SlotTypeOK /\ FreeCountExact /\ HoldersKnown
=============================================================================
