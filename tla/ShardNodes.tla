----------------------------- MODULE ShardNodes -----------------------------
(***************************************************************************)
(* The API as the pages of a shard and of a node use it: the shards of a   *)
(* cluster, each with a list of nodes, one of them the master, and the     *)
(* requests that read and change them (server/api/shard.go, node.go,       *)
(* store/cluster.go, cluster_shard.go).  Other clients and the controller  *)
(* change them too.                                                        *)
(*                                                                         *)
(* A request names a shard by its number, counted from 1, and a node by    *)
(* its ID; every new node has a new ID.  The field id of a shard is an     *)
(* identity that the code does not have; version and removals count the    *)
(* changes, and those that move shards or nodes up.  They record what was  *)
(* seen or asked for, and no guard uses them.                              *)
(*                                                                         *)
(* Faults are among "request" and "answer", what the network loses, and    *)
(* "node", a replica that does not answer the server.                      *)
(***************************************************************************)
EXTENDS PageCalls, Integers, FiniteSets

CONSTANTS
    InitialShards,  \* the shards at the start
    InitialNodes,   \* their nodes are among 1 .. InitialNodes
    At,             \* the number of the shard in the address of the pages
    Automatic,      \* in place of a node: the server chooses the master
    MaxVersion      \* bound on the changes

VARIABLES
    shards,         \* the shards of the cluster
    version,        \* how often they have changed, counting from 1
    removals        \* how many shards or nodes have been removed

server == <<shards, version, removals>>

NoShard == 0

Node == 1 .. InitialNodes + MaxVersion

Listed(node, master) == [node |-> node, master |-> master]

Shard == [id : Nat, nodes : Seq([node : Node, master : BOOLEAN]), servicing : BOOLEAN]

Nodes(list) == {list[i].node : i \in DOMAIN list}

Replicas(list) == {list[i].node : i \in {j \in DOMAIN list : ~list[j].master}}

(* No node is in two places.                                               *)
NodesOnce(list) ==
    \A i, j \in DOMAIN list : \A k \in DOMAIN list[i].nodes, l \in DOMAIN list[j].nodes :
        list[i].nodes[k].node = list[j].nodes[l].node => i = j /\ k = l

ASSUME ShardNodesAssumption ==
    /\ InitialNodes \in Nat /\ MaxVersion \in Nat /\ At \in Nat
    /\ \A list \in InitialShards :
        /\ list \in Seq(Shard) /\ NodesOnce(list)
        /\ \A i \in DOMAIN list : list[i].id # NoShard /\ Nodes(list[i].nodes) \subseteq 1 .. InitialNodes

-----------------------------------------------------------------------------
(* Each edit is the set of its possible results, empty when it is refused. *)

(* append(list[:i], list[i+1:]...)                                         *)
Without(list, i) == SubSeq(list, 1, i - 1) \o SubSeq(list, i + 1, Len(list))

With(i, nodes) == [shards EXCEPT ![i].nodes = nodes]

RemoveFrom(i, places) == {With(i, Without(shards[i].nodes, j)) : j \in places}

(* A master can be removed as well.                                        *)
removeAnyNode(i, node) ==
    IF i \in DOMAIN shards
    THEN RemoveFrom(i, {j \in DOMAIN shards[i].nodes : shards[i].nodes[j].node = node})
    ELSE {}

removeNode(i, node) ==
    IF i \in DOMAIN shards
    THEN RemoveFrom(i, {j \in DOMAIN shards[i].nodes :
                        shards[i].nodes[j].node = node /\ ~shards[i].nodes[j].master})
    ELSE {}

(* An address that is there already is refused; see LoseRequest.           *)
addNode(i, master) ==
    IF i \in DOMAIN shards /\ (master => shards[i].nodes = << >>)
    THEN {With(i, Append(shards[i].nodes, Listed(InitialNodes + version, master)))}
    ELSE {}

(* The preferred node, or the newest when there is no such replica or it   *)
(* does not answer.                                                        *)
promoteNewMaster(i, preferred) ==
    IF i \in DOMAIN shards
    THEN {With(i, [j \in DOMAIN shards[i].nodes |->
                    Listed(shards[i].nodes[j].node, shards[i].nodes[j].node = new)]) :
            new \in IF preferred \in Replicas(shards[i].nodes) /\ "node" \notin Faults
                    THEN {preferred} ELSE Replicas(shards[i].nodes)}
    ELSE {}

RemoveShard(i) ==
    IF i \in DOMAIN shards /\ ~shards[i].servicing THEN {Without(shards, i)} ELSE {}

AllNodes(list) == UNION {Nodes(list[i].nodes) : i \in DOMAIN list}

Store(after) ==
    /\ version < MaxVersion
    /\ shards' = after
    /\ version' = version + 1
    /\ removals' = IF Len(after) < Len(shards) \/ ~(AllNodes(shards) \subseteq AllNodes(after))
                   THEN removals + 1 ELSE removals

-----------------------------------------------------------------------------
(* node is the node that is meant and at the shard.  An answer has the     *)
(* list of nodes or the number of shards, and in read the version that was *)
(* read or written.                                                        *)
Request(op, for, index, node) ==
    [op |-> op, for |-> for, status |-> "sent", index |-> index, node |-> node,
     at |-> NoShard, seen |-> 0, nodes |-> << >>, count |-> 0, read |-> 0]

(* What has been asked matters no more once it is answered.                *)
Reply(c, status, read) ==
    calls' = [calls EXCEPT ![c] = [Request(@.op, @.for, 0, Automatic) EXCEPT
                                        !.status = status, !.read = read]]

(* The request is carried out, and answered unless the answer is lost, or  *)
(* refused.  Past the bound the server refuses every change.               *)
Edit(c, edits, status) ==
    \/ /\ \E after \in edits : Store(after)
       /\ \E s \in {status} \cup (IF "answer" \in Faults THEN {"error"} ELSE {}) :
            Reply(c, s, version')
    \/ /\ edits = {} \/ version = MaxVersion
       /\ Reply(c, "error", 0)
       /\ UNCHANGED server

(* GET of a shard, or of the list of its nodes.                            *)
ServeNodes(c) ==
    /\ Sent(c, "nodes")
    /\ IF calls[c].index \in DOMAIN shards
       THEN calls' = [calls EXCEPT ![c].status = "data",
                          ![c].nodes = shards[calls[c].index].nodes,
                          ![c].at = shards[calls[c].index].id,
                          ![c].read = version, ![c].seen = removals]
       ELSE Reply(c, "error", 0)
    /\ UNCHANGED server

ServeShards(c) ==
    /\ Sent(c, "shards")
    /\ calls' = [calls EXCEPT ![c].status = "data", ![c].count = Len(shards)]
    /\ UNCHANGED server

ServeRemoveNode(c) ==
    Sent(c, "removeNode") /\ Edit(c, removeNode(calls[c].index, calls[c].node), "empty")

ServeCreateNode(c) ==
    /\ Sent(c, "createNode")
    /\ \E master \in BOOLEAN :
        Edit(c, addNode(calls[c].index, master), "data")

ServeFailover(c) ==
    /\ Sent(c, "failover")
    /\ Edit(c, promoteNewMaster(calls[c].index, calls[c].node), "data")

ServeRemoveShard(c) ==
    Sent(c, "removeShard") /\ Edit(c, RemoveShard(calls[c].index), "empty")

(* The request does not arrive, or the server fails to serve it, or has    *)
(* reasons to refuse it that are not modelled.                             *)
LoseRequest(c) ==
    /\ "request" \in Faults
    /\ calls[c] # NoCall /\ calls[c].status = "sent"
    /\ Reply(c, "error", 0)
    /\ UNCHANGED server

Serve(c) ==
    \/ ServeNodes(c) \/ ServeShards(c) \/ ServeRemoveNode(c) \/ ServeCreateNode(c)
    \/ ServeFailover(c) \/ ServeRemoveShard(c) \/ LoseRequest(c)

(* Another client, the controller, or a request of a page that is closed.  *)
Others ==
    \E i \in DOMAIN shards :
        \E after \in RemoveShard(i) \cup promoteNewMaster(i, Automatic) \cup addNode(i, FALSE)
                     \cup UNION {removeNode(i, n) : n \in Nodes(shards[i].nodes)} :
            Store(after)
=============================================================================
