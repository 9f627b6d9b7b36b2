----------------------------- MODULE SlotLists ------------------------------
(***************************************************************************)
(* The slot lists of the shards of one cluster, from their creation        *)
(* (NewCluster) or import (ParseCluster) through moves of slot ranges from *)
(* shard to shard, as MigrateSlot with slot_only and the migration loop    *)
(* make them.                                                              *)
(***************************************************************************)
EXTENDS SlotRanges

CONSTANTS
    MaxCreated,      \* bound on the number of shards of a new cluster
    MaxParsed,      \* bound on the number of shards in an imported topology
    MaxImported     \* bound on the ranges of a shard in an imported topology

(* With more shards than slots the ranges of CalculateSlotRanges would be  *)
(* of size 0.                                                              *)
ASSUME MaxCreatedAssumption == MaxCreated \in 1 .. MaxSlotID + 1

ASSUME ImportAssumption == MaxParsed \in Nat /\ MaxImported \in Nat

VARIABLE
    lists           \* lists[i]: the slot ranges of shard i, in list order

(* NewCluster: one range per shard, the shards cover the slot space.       *)
CreatedLists == {[i \in 1 .. n |-> <<CalculateSlotRanges(n)[i]>>] : n \in 1 .. MaxCreated}

(* ParseCluster: the ranges of a shard in the order in which the node      *)
(* prints them.  A node prints no slot twice; nothing else is known.       *)
ImportedList ==
    {l \in UNION {[1 .. n -> SlotRange] : n \in 0 .. MaxImported} :
        \A i, j \in DOMAIN l : i # j => ~HasOverlap(l[i], l[j])}

Imported ==
    {ls \in UNION {[1 .. n -> ImportedList] : n \in 1 .. MaxParsed} :
        \A i, j \in DOMAIN ls : i # j => Covered(ls[i]) \cap Covered(ls[j]) = {}}

ListsInit == lists \in CreatedLists \cup Imported

(* Removal and addition in the order of the code.                          *)
Move(slot, target) ==
    \E source \in FindShardIndexBySlot(lists, slot) \ {target} :
        \E left \in RemoveSlotFromSlotRanges(lists[source], slot),
           joined \in AddSlotToSlotRanges(lists[target], slot) :
            lists' = [lists EXCEPT ![source] = left, ![target] = joined]

ListsNext == \E slot \in SlotRange, target \in DOMAIN lists : Move(slot, target)

ListsSpec == ListsInit /\ [][ListsNext]_lists

-----------------------------------------------------------------------------
(* The lists only ever hold ranges that NewSlotRange would accept.         *)
ListsTypeOK == \A i \in DOMAIN lists : \A k \in DOMAIN lists[i] : lists[i][k] \in SlotRange

SlotSetsOf == INSTANCE SlotSets WITH
                slots <- [i \in DOMAIN lists |-> Covered(lists[i])]

(* The list algorithms implement the sets: whatever the order in which the *)
(* ranges were imported, a move takes exactly the slots of the range from  *)
(* the source, gives exactly them to the target and leaves every other     *)
(* shard alone (RemoveSlotFromSlotRanges, AddSlotToSlotRanges).            *)
ImplementsSlotSets == SlotSetsOf!Spec

(* Cluster-wide, no slot is ever listed twice, in one shard or in two:     *)
(* CalculateSlotRanges makes disjoint ranges and the moves keep them so.   *)
ListedOnce ==
    \A i, j \in DOMAIN lists : \A k \in DOMAIN lists[i], l \in DOMAIN lists[j] :
        HasOverlap(lists[i][k], lists[j][l]) => i = j /\ k = l

(* A cluster made by NewCluster owns every slot of the slot space, also    *)
(* when their number is not a multiple of the number of shards, and no     *)
(* sequence of moves ever leaves a slot without an owner.                  *)
CreatedStaysComplete ==
    lists \in CreatedLists => [](UNION {Covered(lists[i]) : i \in DOMAIN lists} = Slot)

(* A list in normal form stays in it, and a list that gains slots comes    *)
(* out in normal form whatever it was before (the sort and the merge of    *)
(* AddSlotToSlotRanges): the shards of a cluster made by NewCluster always *)
(* list their maximal runs.                                                *)
MovesNormalize ==
    [][\A i \in DOMAIN lists :
        Normal(lists[i]) \/ Covered(lists[i]) \subseteq Covered(lists'[i])
            => Normal(lists'[i]) \/ lists'[i] = lists[i]]_lists

(* On lists in normal form, the shard that findShardIndexBySlot finds by   *)
(* counting ranges is the shard found by looking at the sets.              *)
SourceAgreesWithSets ==
    (\A i \in DOMAIN lists : Normal(lists[i])) =>
        \A slot \in SlotRange :
            FindShardIndexBySlot(lists, slot)
                = SourceShards([i \in DOMAIN lists |-> Covered(lists[i])], slot)
=============================================================================
