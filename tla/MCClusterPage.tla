---------------------------- MODULE MCClusterPage ----------------------------
(***************************************************************************)
(* Instances of ClusterPage: the shards at the start, the shards that      *)
(* others create and the slots that are typed.                             *)
(***************************************************************************)
EXTENDS ClusterPage

CONSTANTS n1, n2, n3, n4

AShard(master, slaves, slots) ==
    [NewShard([master |-> master, slaves |-> slaves]) EXCEPT !.slots = slots]

(* Two shards with slots, and one without that may be deleted.             *)
ThreeShards ==
    {<<AShard(n1, {}, {0, 1}), AShard(n2, {}, {}), AShard(n3, {}, {2})>>}

OneGroup == {[master |-> n4, slaves |-> {}]}

Clean(number) == [number |-> number, clean |-> TRUE]

Nodes == [nodes : {"ok", "blank", "none"}]

(* "2", "0-1", "1-0" and "0x".                                             *)
Typed ==
    {<<Clean(2)>>, <<Clean(0), Clean(1)>>, <<Clean(1), Clean(0)>>,
     <<[number |-> 0, clean |-> FALSE]>>}
=============================================================================
