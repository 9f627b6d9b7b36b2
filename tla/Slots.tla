-------------------------------- MODULE Slots --------------------------------
(***************************************************************************)
(* The slots of a cluster, ranges of them (store/slot.go), and how they    *)
(* are shared out among the shards.                                        *)
(***************************************************************************)
EXTENDS Integers, Sequences

CONSTANT
    MaxSlotID       \* the last slot; 16383 in the code

ASSUME MaxSlotIDAssumption == MaxSlotID \in Nat

Slot == 0 .. MaxSlotID

(* What NewSlotRange accepts: bounds in order and within the slot space.   *)
SlotRange == {r \in [start : Slot, stop : Slot] : r.start <= r.stop}

SlotsIn(r) == r.start .. r.stop

(* The last range is cut to the common size like the others.               *)
CalculateSlotRangesNoRest(n) ==
    LET size == (MaxSlotID + 1) \div n
    IN  [i \in 1 .. n |-> [start |-> (i - 1) * size, stop |-> i * size - 1]]

(* n consecutive ranges of equal size; the last one takes the rest.        *)
CalculateSlotRanges(n) ==
    LET size == (MaxSlotID + 1) \div n
    IN  [i \in 1 .. n |->
            [start |-> (i - 1) * size,
             stop  |-> IF i # n THEN i * size - 1 ELSE MaxSlotID]]

(* slot touches two maximal runs of the set S.                             *)
TouchesTwoRuns(S, slot) ==
    \E x, y \in S \cap SlotsIn(slot), gap \in SlotsIn(slot) \ S :
        x < gap /\ gap < y

(* FindShardIndexBySlot on a sequence of sets of slots.                    *)
SourceShards(slots, slot) ==
    {i \in DOMAIN slots :
        /\ slots[i] \cap SlotsIn(slot) # {}
        /\ ~TouchesTwoRuns(slots[i], slot)
        /\ \A j \in DOMAIN slots \ {i} : slots[j] \cap SlotsIn(slot) = {}}
==============================================================================
