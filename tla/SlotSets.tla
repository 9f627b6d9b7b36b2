------------------------------ MODULE SlotSets ------------------------------
(***************************************************************************)
(* What the slot bookkeeping of a cluster promises: every shard owns a set *)
(* of slots, no slot has two owners, and a move hands a range of slots     *)
(* from the one shard that owns slots of it to another shard.              *)
(***************************************************************************)
EXTENDS Slots

VARIABLE
    slots           \* slots[i]: the slots that shard i owns

Init ==
    /\ slots \in Seq(SUBSET Slot)
    /\ \A i, j \in DOMAIN slots : i # j => slots[i] \cap slots[j] = {}

Move(slot, target) ==
    \E source \in SourceShards(slots, slot) \ {target} :
        slots' = [slots EXCEPT ![source] = @ \ SlotsIn(slot),
                               ![target] = @ \cup SlotsIn(slot)]

Next == \E slot \in SlotRange, target \in DOMAIN slots : Move(slot, target)

Spec == Init /\ [][Next]_slots
=============================================================================
