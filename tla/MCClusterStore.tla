--------------------------- MODULE MCClusterStore ---------------------------
(***************************************************************************)
(* Instances of ClusterStore: the clusters that exist at the start and the *)
(* requests of each run.                                                   *)
(***************************************************************************)
EXTENDS ClusterStore, TLC

CONSTANTS n1, n2, n3, n4, n5, n6

Nodes(master, slaves) == [master |-> master, slaves |-> slaves]
R(start, stop) == [start |-> start, stop |-> stop]

MoveSlot(slot, target) == [op |-> "moveSlot", slot |-> slot, target |-> target]
MigrateSlot(slot, target) == [op |-> "migrateSlot", slot |-> slot, target |-> target]
Failover(shard, master) == [op |-> "failover", shard |-> shard, master |-> master]

TwoShards == {<<Nodes(n1, {n2}), Nodes(n3, {})>>}
TwoMasters == {<<Nodes(n1, {}), Nodes(n2, {})>>}

Clients == Permutations(Client)

(* Changes of shards, nodes and masters, a move that empties shard 1, and  *)
(* the removal of the cluster and its creation on other nodes.             *)
TopologyRequests ==
    {[op |-> "createShard", group |-> Nodes(n4, {})],
     [op |-> "removeShard", shard |-> 1],
     Failover(1, AnyMaster), Failover(1, n1),
     [op |-> "addNode", shard |-> 1, node |-> n4],
     [op |-> "removeNode", shard |-> 1, node |-> n2],
     MoveSlot(R(0, 0), 2),
     [op |-> "removeCluster"],
     [op |-> "createCluster", groups |-> <<Nodes(n5, {n6})>>]}

(* Migrations in both directions, one of them of slots that a move may     *)
(* take away and one to a shard that may be removed again, with failovers  *)
(* of the source.                                                          *)
MigrationRequests ==
    {MigrateSlot(R(0, 0), 3), MigrateSlot(R(1, 2), 1), MoveSlot(R(2, 2), 1),
     Failover(1, AnyMaster),
     [op |-> "createShard", group |-> Nodes(n4, {})],
     [op |-> "removeShard", shard |-> 3]}

(* Two migrations of one source while other slots move and a shard is      *)
(* created; no node fails and no shard is removed.                         *)
ShardRequests ==
    {MigrateSlot(R(1, 1), 1), MigrateSlot(R(2, 2), 1), MoveSlot(R(0, 0), 2),
     [op |-> "createShard", group |-> Nodes(n3, {})]}

(* Shard 1 is emptied and removed while shard 2 migrates to shard 3.       *)
ThreeShards == {<<Nodes(n1, {}), Nodes(n2, {}), Nodes(n3, {})>>}
ShiftRequests ==
    {MoveSlot(R(0, 0), 2), MigrateSlot(R(1, 1), 3), MigrateSlot(R(2, 2), 2),
     [op |-> "removeShard", shard |-> 1]}

(* The source of a migration fails over.                                   *)
FailoverRequests == {MigrateSlot(R(0, 0), 2), Failover(1, n1)}
=============================================================================
