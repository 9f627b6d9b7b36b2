------------------------------ MODULE Topology ------------------------------
(***************************************************************************)
(* The cluster topology of store/cluster.go and store/cluster_shard.go and *)
(* the edits that the controller makes to it.  A cluster is a list of      *)
(* shards; a shard has nodes with a role, the slots it owns and, while it  *)
(* is the source of a slot migration, the migrating range and the index of *)
(* the target shard.                                                       *)
(*                                                                         *)
(* A shard's node list is kept as the set of its masters and the set of    *)
(* its slaves, its slot list as the set it covers (module SlotLists shows  *)
(* that the lists implement the sets).  Shards are numbered from 1, so the *)
(* code's TargetShardIndex -1 is 0 here.                                   *)
(*                                                                         *)
(* An edit is the set of the shard lists it may produce: empty when the    *)
(* code returns an error, with several elements when the result depends on *)
(* what the nodes answer.                                                  *)
(***************************************************************************)
EXTENDS Slots

CONSTANTS
    Node,           \* the addresses of the Kvrocks nodes
    NotMigrating,   \* a nil MigratingSlot
    AnyMaster       \* an empty masterNodeID: whoever is master now

ASSUME TopologyAssumption ==
    /\ NotMigrating \notin SlotRange
    /\ AnyMaster \notin Node

NoTarget == 0

Shard ==
    [masters : SUBSET Node, slaves : SUBSET Node, slots : SUBSET Slot,
     migrating : SlotRange \cup {NotMigrating}, target : Nat]

IsMigrating(shard) == shard.migrating # NotMigrating /\ shard.target # NoTarget

IsServicing(shard) == shard.slots # {} \/ IsMigrating(shard)

(* The nodes of a shard in a request, first node first.  That no address   *)
(* is given twice is up to the caller: the handlers do not look.           *)
Group == {g \in [master : Node, slaves : SUBSET Node] : g.master \notin g.slaves}

(* A shard that has just been created, with its first node as the master.  *)
NewShard(group) ==
    [masters |-> {group.master}, slaves |-> group.slaves, slots |-> {},
     migrating |-> NotMigrating, target |-> NoTarget]

(* The groups are the nodes of the shards, first node first.               *)
NewCluster(groups) ==
    [i \in DOMAIN groups |->
        [NewShard(groups[i]) EXCEPT
            !.slots = SlotsIn(CalculateSlotRanges(Len(groups))[i])]]

-----------------------------------------------------------------------------
(* Slots *)

SlotsOfShards(shards) == [i \in DOMAIN shards |-> shards[i].slots]

(* The target gets one slot more than the source gives.                    *)
MoveSlotsOneMore(shards, source, target, slot) ==
    LET removed == [shards EXCEPT ![source].slots = @ \ SlotsIn(slot)]
    IN  [removed EXCEPT ![target].slots = @ \cup SlotsIn(slot) \cup {slot.stop + 1}]

(* RemoveSlotFromSlotRanges on the source, then AddSlotToSlotRanges on the *)
(* target, which need not be another shard.                                *)
MoveSlots(shards, source, target, slot) ==
    LET removed == [shards EXCEPT ![source].slots = @ \ SlotsIn(slot)]
    IN  [removed EXCEPT ![target].slots = @ \cup SlotsIn(slot)]

ClearMigrateState(shards, i) ==
    [shards EXCEPT ![i].migrating = NotMigrating, ![i].target = NoTarget]

(* The checks of MigrateSlot that precede the branch on slotOnly.          *)
MigrationSources(shards, slot, target) ==
    {source \in SourceShards(SlotsOfShards(shards), slot) :
        target \in DOMAIN shards /\ source # target}

(* The migration of the source goes on although its slots may be gone.     *)
MigrateSlotOnlyStillMigrating(shards, slot, target) ==
    {MoveSlots(shards, source, target, slot) :
        source \in MigrationSources(shards, slot, target)}

(* MigrateSlot with slotOnly: the topology changes, the data stays.        *)
MigrateSlotOnly(shards, slot, target) ==
    {MoveSlots(ClearMigrateState(shards, source), source, target, slot) :
        source \in MigrationSources(shards, slot, target)}

(* The sources from which MigrateSlot sends the data migration command.    *)
DataMigrationSources(shards, slot, target) ==
    {source \in MigrationSources(shards, slot, target) :
        ~IsMigrating(shards[source]) /\ ~IsMigrating(shards[target])}

(* MigrateSlot without slotOnly, once the source node has accepted.        *)
MigrateSlotData(shards, slot, target) ==
    {[shards EXCEPT ![source].migrating = slot, ![source].target = target] :
        source \in DataMigrationSources(shards, slot, target)}

(* The outcomes of a data migration (tryUpdateMigrationStatus).            *)
MigrationFailed(shards, i) == ClearMigrateState(shards, i)

MigrationSucceeded(shards, i) ==
    ClearMigrateState(MoveSlots(shards, i, shards[i].target, shards[i].migrating), i)

-----------------------------------------------------------------------------
(* Shards and nodes *)

CreateShard(shards, group) == {Append(shards, NewShard(group))}

(* A shard may be removed while it owns slots.                             *)
RemoveServicingShard(shards, i) ==
    {[j \in 1 .. Len(shards) - 1 |-> IF j < i THEN shards[j] ELSE shards[j + 1]] :
        k \in {i} \cap DOMAIN shards}

(* The shards behind the removed one move up by one place; the target      *)
(* indexes kept in the shards are left as they are.                        *)
RemoveShard(shards, i) ==
    {[j \in 1 .. Len(shards) - 1 |-> IF j < i THEN shards[j] ELSE shards[j + 1]] :
        k \in {i} \cap {j \in DOMAIN shards : ~IsServicing(shards[j])}}

(* addNode as a slave; a master is refused since no shard is without nodes. *)
AddNode(shards, i, node) ==
    {[shards EXCEPT ![k].slaves = @ \cup {node}] :
        k \in {i} \cap {j \in DOMAIN shards :
                            node \notin shards[j].masters \cup shards[j].slaves}}

RemoveNode(shards, i, node) ==
    {[shards EXCEPT ![k].slaves = @ \ {node}] :
        k \in {i} \cap {j \in DOMAIN shards :
                            node \in shards[j].slaves \ shards[j].masters}}

(* The old master keeps its role.                                          *)
PromoteWithoutDemotion(shards, i, masterNodeID) ==
    {[shards EXCEPT ![i].masters = @ \cup {p[2]}, ![i].slaves = @ \ {p[2]}] :
        p \in {q \in Node \X Node :
                /\ i \in DOMAIN shards
                /\ q[1] \in shards[i].masters
                /\ masterNodeID \in {AnyMaster, q[1]}
                /\ q[2] \in shards[i].slaves}}

(* Any slave may turn out to be the reachable one with the newest data.    *)
PromoteNewMaster(shards, i, masterNodeID) ==
    {[shards EXCEPT ![i].masters = (@ \ {p[1]}) \cup {p[2]},
                    ![i].slaves  = (@ \ {p[2]}) \cup {p[1]}] :
        p \in {q \in Node \X Node :
                /\ i \in DOMAIN shards
                /\ q[1] \in shards[i].masters
                /\ masterNodeID \in {AnyMaster, q[1]}
                /\ q[2] \in shards[i].slaves}}

-----------------------------------------------------------------------------
(* What makes a topology sound *)

OwnsEverySlotOnce(shards) ==
    \A s \in Slot : \E i \in DOMAIN shards :
        \A j \in DOMAIN shards : s \in shards[j].slots <=> j = i

MigratesOwnSlots(shards) ==
    \A i \in DOMAIN shards :
        IsMigrating(shards[i]) => SlotsIn(shards[i].migrating) \subseteq shards[i].slots

HasOneMaster(shard) ==
    \E m \in Node : shard.masters = {m} /\ m \notin shard.slaves

Sound(shards) ==
    /\ OwnsEverySlotOnce(shards)
    /\ MigratesOwnSlots(shards)
    /\ \A i \in DOMAIN shards : HasOneMaster(shards[i])
=============================================================================
