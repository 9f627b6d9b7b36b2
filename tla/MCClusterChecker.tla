-------------------------- MODULE MCClusterChecker --------------------------
(***************************************************************************)
(* The instance of ClusterChecker: two shards, of which the first has been *)
(* emptied and may be removed, so that the second takes its place.         *)
(***************************************************************************)
EXTENDS ClusterChecker

CONSTANTS n1, n2, n3

Shards ==
    <<NewShard([master |-> n3, slaves |-> {}]),
      [NewShard([master |-> n1, slaves |-> {n2}]) EXCEPT !.slots = Slot]>>

ShardRequests ==
    {[op |-> "removeShard", shard |-> 1],
     [op |-> "removeNode", shard |-> 2, node |-> n2]}

(* The operator makes n2 the master of its shard, with the next version    *)
(* unless the controller has used it meanwhile.                            *)
ByHand ==
    {[version |-> 2,
      shards |-> {[masters |-> {n2}, slaves |-> {n1}, slots |-> Slot]}]}
=============================================================================
