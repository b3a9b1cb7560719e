----------------------------- MODULE KVSlotClient -----------------------------
(***************************************************************************)
(* KVSlotManager closed with the most general caller that keeps its        *)
(* contract: it moves a Request into at most one slot, writes only through *)
(* the slot() of an occupied slot, and releases only occupied slots, in    *)
(* any order and number (tests/test_kv_slot_manager.cpp drives the pool    *)
(* the same way, one operation at a time).                                 *)
(***************************************************************************)
EXTENDS KVSlotManager

CONSTANT MaxPos   \* bound on kv_pos

ASSUME MaxPosAssumption == MaxPos \in Nat

\* Mutant: the cell is decoded under the neighbouring seq_id.
MutSeqOf(sid) == (sid + 1) % MaxSlots
\* Each slot index doubles as the llama seq_id passed to llama_decode.
SeqOf(sid)    == sid

\* The caller decodes one token of slot sid and records it through slot(sid).
Use(sid, t) ==
  /\ slots[sid].occupied
  /\ slots[sid].kv_pos < MaxPos
  /\ kv' = [kv EXCEPT ![SeqOf(sid)] =
               @ \cup {<<slots[sid].request, slots[sid].kv_pos>>}]
  /\ slots' = [slots EXCEPT ![sid].kv_pos = @ + 1, ![sid].last_token = t]
  /\ UNCHANGED free_count

Next ==
  \/ \E sid \in SlotIds, r \in Requests \ Held : Acquire(sid, r)
  \/ \E sid \in SlotIds, t \in Tokens : Use(sid, t)
  \/ \E S \in SUBSET OccupiedIds : S # {} /\ Release(S)

Spec == SlotInit /\ [][Next]_slotVars

-----------------------------------------------------------------------------

\* A sequence's cells are its holder's, one per position below kv_pos, and an
\* empty slot leaves none for the next request to attend to
\* (kv_slot_manager.cpp:22; README.md:24 "without touching any other
\* sequence's state").
CellsFollowHolder ==
  \A s \in SlotIds :
    kv[s] = IF slots[s].occupied
              THEN {slots[s].request} \X (0 .. slots[s].kv_pos - 1)
              ELSE {}

\* A slot changes hands only through release: no acquire() overwrites the
\* request of a slot in use (kv_slot_manager.cpp:9).
HolderStable ==
  [][\A s \in SlotIds : slots[s].occupied /\ slots'[s].occupied
                          => slots'[s].request = slots[s].request]_slotVars
=============================================================================
