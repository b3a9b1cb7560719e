---------------------------- MODULE MCKVSlotClient ----------------------------
(* Model-checking instance of KVSlotClient: three slots, four requests. *)
EXTENDS KVSlotClient

CONSTANTS r1, r2, r3, r4, t1

MCRequests == {r1, r2, r3, r4}
MCTokens   == {t1}
=============================================================================
