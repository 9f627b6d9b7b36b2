--------------------------- MODULE ClusterChecker ---------------------------
(***************************************************************************)
(* The probe loop of a cluster's checker (controller/cluster.go) and the   *)
(* Kvrocks nodes of the cluster.  A round of the loop reads the cluster    *)
(* and probes its nodes in parallel, one goroutine for each: a node that   *)
(* is behind is sent the topology, a master that has failed too often is   *)
(* replaced, and when a node is ahead the store takes over its topology.   *)
(* Between the rounds a sync event sends the topology to all the nodes, by *)
(* goroutines that nobody waits for.                                       *)
(*                                                                         *)
(* One process holds the cluster's lock, so that GetCluster, UpdateCluster *)
(* and SetCluster are atomic, and the HTTP handlers are one atomic step    *)
(* here (module ClusterStore has them in detail, and the migration loop).  *)
(* Nodes fail and come back, and an operator may give a node a topology by *)
(* hand.                                                                   *)
(***************************************************************************)
EXTENDS Topology, FiniteSets

CONSTANTS
    InitialShards,      \* the shards of the cluster at the start
    Requests,           \* the requests that may arrive
    Operator,           \* the topologies that an operator may give to a node
    MaxFailureCount,    \* maxFailureCount; 5 in the code
    Fragile,            \* the nodes that may fail
    MaxRequests,        \* bound on the requests that are served
    MaxFailures,        \* bound on the failures of nodes
    MaxLate,            \* bound on the goroutines of earlier syncs at a sync
    NoCluster

ASSUME ClusterCheckerAssumption ==
    /\ InitialShards \in Seq(Shard)
    /\ MaxFailureCount \in Nat \ {0}
    /\ Fragile \subseteq Node

VARIABLES
    store,          \* the value of the cluster's key in the engine
    requests,       \* how many requests have been served
    status,         \* whether each node answers
    failures,       \* how many failures of nodes there have been
    view,           \* the topology each node has been given last
    operated,       \* whether the operator has given a node a topology
    round,          \* probeLoop is in parallelProbeNodes
    cluster,        \* the cluster that the round has read
    probing,        \* what the goroutine that probes each node does next
    promoted,       \* the edited copy of a goroutine that promotes a master
    failureCounts,  \* failureCounts, modulo MaxFailureCount
    latest,         \* latestNodeVersion and latestClusterNodesStr
    syncCh,         \* syncCh, of capacity 1, is full
    syncing,        \* what the goroutines of syncClusterToNodes have to send
    given           \* history: every topology stored or given by hand

storeVars == <<store, given>>
nodeVars == <<status, failures, view>>
envVars == <<requests, operated>>
roundVars == <<round, cluster, probing, promoted, latest>>
vars == <<storeVars, nodeVars, envVars, roundVars, failureCounts, syncCh, syncing>>

Cluster == [version : Nat, shards : Seq(Shard)]

(* What a node knows of a shard: CLUSTERX SETNODES carries no migrations.  *)
NodesShard == [masters : SUBSET Node, slaves : SUBSET Node, slots : SUBSET Slot]

(* The topology a node has been given; 0 is a cluster not initialized.     *)
View == [version : Nat, shards : SUBSET NodesShard]

NoView == [version |-> 0, shards |-> {}]

ASSUME OperatorAssumption ==
    /\ Operator \subseteq View
    /\ \A v \in Operator : IsFiniteSet(v.shards)

ASSUME RequestsAssumption == \A q \in Requests : q.op \in {"removeShard", "removeNode"}

Members(shards) == UNION {shards[i].masters \cup shards[i].slaves : i \in DOMAIN shards}

Masters(shards) == UNION {shards[i].masters : i \in DOMAIN shards}

(* ToSlotString: the text that is sent to the nodes of a cluster.          *)
ToSlotString(c) ==
    [version |-> c.version,
     shards  |-> {[masters |-> c.shards[i].masters, slaves |-> c.shards[i].slaves,
                   slots |-> c.shards[i].slots] : i \in DOMAIN c.shards}]

(* Shards.Less: by the first slot, shards without slots last.              *)
Less(a, b) ==
    a.slots # {} /\ (b.slots = {} \/ \E s \in a.slots : \A t \in b.slots : s < t)

(* The migrations that the text does not carry are left unset.             *)
ParseClusterPlain(v) ==
    {[version |-> v.version, shards |-> p] :
        p \in {q \in [1 .. Cardinality(v.shards) -> v.shards] :
                \A i, j \in DOMAIN q :
                    i < j => q[i] # q[j] /\ ~Less(q[j], q[i])}}

(* ParseCluster: the shards of CLUSTER NODES in the order of their slots,  *)
(* without what the text does not carry.                                   *)
ParseCluster(v) ==
    {[version |-> v.version,
      shards  |-> [i \in DOMAIN p |->
                    [masters |-> p[i].masters, slaves |-> p[i].slaves,
                     slots |-> p[i].slots,
                     migrating |-> NotMigrating, target |-> NoTarget]]] :
        p \in {q \in [1 .. Cardinality(v.shards) -> v.shards] :
                \A i, j \in DOMAIN q :
                    i < j => q[i] # q[j] /\ ~Less(q[j], q[i])}}

Init ==
    /\ store = [version |-> 1, shards |-> InitialShards]
    /\ given = {ToSlotString(store)}
    /\ requests = 0
    /\ status = [n \in Node |-> "up"]
    /\ failures = 0
    /\ view = [n \in Node |-> NoView]
    /\ operated = FALSE
    /\ round = FALSE
    /\ cluster = NoCluster
    /\ probing = [n \in Node |-> "done"]
    /\ promoted = [n \in Node |-> NoCluster]
    /\ failureCounts = [n \in Node |-> 0]
    /\ latest = NoView
    /\ syncCh = FALSE
    /\ syncing = {}

-----------------------------------------------------------------------------
(* The store and the nodes *)

(* What a write leaves behind: the version grows and an event is emitted,  *)
(* on which leaderEventLoop fills syncCh.                                  *)
Write(version, shards) ==
    /\ store' = [version |-> version + 1, shards |-> shards]
    /\ given' = given \cup {ToSlotString(store')}
    /\ syncCh' = TRUE

(* The copy is stored whatever has happened since it was read.             *)
UpdateClusterUnchecked(c) == Write(c.version, c.shards)

(* UpdateCluster: a copy older than the stored cluster is refused.         *)
UpdateCluster(c) ==
    \/ /\ store.version > c.version
       /\ UNCHANGED <<storeVars, syncCh>>
    \/ /\ store.version <= c.version
       /\ Write(c.version, c.shards)

(* SetCluster keeps the version and emits no event.                        *)
SetClusterUnchecked(c) ==
    /\ store' = c
    /\ UNCHANGED given

SetCluster(c) ==
    \/ /\ store.version > c.version
       /\ UNCHANGED storeVars
    \/ /\ store.version <= c.version
       /\ store' = c
       /\ UNCHANGED given

(* CLUSTERX SETNODES at a node: an older topology is refused, and so is    *)
(* another one of the same version.                                        *)
SetNodes(n, v) ==
    view' = [view EXCEPT ![n] =
                IF status[n] = "up" /\ v.version > @.version THEN v ELSE @]

-----------------------------------------------------------------------------
(* A round of probeLoop *)

(* The ticker fires.                                                       *)
Tick ==
    /\ ~round
    /\ round' = TRUE
    /\ cluster' = store
    /\ probing' = [n \in Node |-> IF n \in Members(store.shards) THEN "probe" ELSE "done"]
    /\ latest' = NoView
    /\ UNCHANGED <<storeVars, nodeVars, envVars, promoted, failureCounts, syncCh, syncing>>

Goto(n, step) == probing' = [probing EXCEPT ![n] = step]

ResetFailureCount(n) == failureCounts' = [failureCounts EXCEPT ![n] = 0]

(* The node is restoring the db from backup: neither good nor bad.         *)
ProbeRestoring(n) ==
    /\ probing[n] = "probe"
    /\ status[n] = "restoring"
    /\ Goto(n, "done")
    /\ UNCHANGED <<storeVars, nodeVars, envVars, round, cluster, promoted, latest,
                   failureCounts, syncCh, syncing>>

(* The node answers with its version.                                      *)
ProbeAnswered(n) ==
    /\ probing[n] = "probe"
    /\ status[n] = "up"
    /\ \/ /\ view[n].version < cluster.version
          /\ Goto(n, "sync")
          /\ UNCHANGED failureCounts
       \/ /\ view[n].version = cluster.version
          /\ Goto(n, "done")
          /\ ResetFailureCount(n)
       \/ /\ view[n].version > cluster.version
          /\ Goto(n, "ahead")
          /\ UNCHANGED failureCounts
    /\ UNCHANGED <<storeVars, nodeVars, envVars, round, cluster, promoted, latest,
                   syncCh, syncing>>

(* A node that is behind is left behind.                                   *)
SyncClusterInfoSkipped(n) ==
    /\ probing[n] = "sync"
    /\ ResetFailureCount(n)
    /\ Goto(n, "done")
    /\ UNCHANGED <<storeVars, nodeVars, envVars, round, cluster, promoted, latest,
                   syncCh, syncing>>

(* SyncClusterInfo to a node that is behind.                               *)
SyncClusterInfo(n) ==
    /\ probing[n] = "sync"
    /\ SetNodes(n, ToSlotString(cluster))
    /\ ResetFailureCount(n)
    /\ Goto(n, "done")
    /\ UNCHANGED <<storeVars, status, failures, envVars, round, cluster, promoted,
                   latest, syncCh, syncing>>

(* GetClusterNodesString of a node that is ahead; it may have failed since. *)
TakeLatest(n) ==
    /\ probing[n] = "ahead"
    /\ latest' = IF view[n].version <= latest.version THEN latest
                 ELSE IF status[n] = "up" THEN view[n]
                 ELSE [version |-> view[n].version, shards |-> {}]
    /\ ResetFailureCount(n)
    /\ Goto(n, "done")
    /\ UNCHANGED <<storeVars, nodeVars, envVars, round, cluster, promoted, syncCh, syncing>>

(* A master gets one chance to be replaced.                                *)
ProbeFailedOnce(n) ==
    /\ probing[n] = "probe"
    /\ status[n] = "down"
    /\ failureCounts' = [failureCounts EXCEPT ![n] =
                            IF @ <= MaxFailureCount THEN @ + 1 ELSE @]
    /\ Goto(n, IF /\ n \in Masters(cluster.shards)
                  /\ failureCounts'[n] = MaxFailureCount
               THEN "promote" ELSE "done")
    /\ UNCHANGED <<storeVars, nodeVars, envVars, round, cluster, promoted, latest,
                   syncCh, syncing>>

(* increaseFailureCount, up to the decision to promote a new master.       *)
ProbeFailed(n) ==
    /\ probing[n] = "probe"
    /\ status[n] = "down"
    /\ failureCounts' = [failureCounts EXCEPT ![n] = (@ + 1) % MaxFailureCount]
    /\ Goto(n, IF n \in Masters(cluster.shards) /\ failureCounts'[n] = 0
               THEN "promote" ELSE "done")
    /\ UNCHANGED <<storeVars, nodeVars, envVars, round, cluster, promoted, latest,
                   syncCh, syncing>>

(* getNewMasterNodeIndex: a node that answers and takes itself for a slave. *)
(* That its sequence is not 0 is left out: a slave that has been told so   *)
(* has begun to replicate.  Any candidate may be the newest.               *)
IsCandidate(m) ==
    status[m] = "up" /\ \E shard \in view[m].shards : m \in shard.slaves

(* The place in the list at which the round has found the node.            *)
ShardIndex(n) ==
    CHOOSE i \in DOMAIN cluster.shards :
        n \in cluster.shards[i].masters \cup cluster.shards[i].slaves

(* Whoever is master of the shard at that place now is replaced.           *)
PromotionsAnyMaster(n) ==
    {m \in Node \X PromoteNewMaster(store.shards, ShardIndex(n), AnyMaster) :
        IsCandidate(m[1]) /\ m[1] \in Masters(m[2]) \ Masters(store.shards)}

(* The new masters and topologies that PromoteNewMaster may come to, which *)
(* is given the node that has failed.                                      *)
Promotions(n) ==
    {m \in Node \X PromoteNewMaster(store.shards, ShardIndex(n), n) :
        IsCandidate(m[1]) /\ m[1] \in Masters(m[2]) \ Masters(store.shards)}

(* GetCluster and PromoteNewMaster.                                        *)
Promote(n) ==
    /\ probing[n] = "promote"
    /\ \/ \E m \in Promotions(n) :
            /\ promoted' = [promoted EXCEPT ![n] =
                                [version |-> store.version, shards |-> m[2]]]
            /\ ResetFailureCount(m[1])
            /\ Goto(n, "update")
       \/ /\ Promotions(n) = {}
          /\ Goto(n, "done")
          /\ UNCHANGED <<promoted, failureCounts>>
    /\ UNCHANGED <<storeVars, nodeVars, envVars, round, cluster, latest, syncCh, syncing>>

(* UpdateCluster with the new master.                                      *)
UpdatePromoted(n) ==
    /\ probing[n] = "update"
    /\ UpdateCluster(promoted[n])
    /\ promoted' = [promoted EXCEPT ![n] = NoCluster]
    /\ Goto(n, "done")
    /\ UNCHANGED <<nodeVars, envVars, round, cluster, latest, failureCounts, syncing>>

(* wg.Wait returns; the store takes over the topology of a node ahead.     *)
EndRound ==
    /\ round
    /\ \A n \in Node : probing[n] = "done"
    /\ \/ /\ latest.version > cluster.version /\ latest.shards # {}
          /\ \E c \in ParseCluster(latest) : SetCluster(c)
       \/ /\ latest.version <= cluster.version \/ latest.shards = {}
          /\ UNCHANGED storeVars
    /\ round' = FALSE
    /\ cluster' = NoCluster
    /\ UNCHANGED <<nodeVars, envVars, probing, promoted, latest, failureCounts,
                   syncCh, syncing>>

(* syncClusterToNodes.                                                     *)
SyncClusterToNodes ==
    /\ ~round
    /\ syncCh
    /\ Cardinality(syncing) <= MaxLate
    /\ syncCh' = FALSE
    /\ syncing' = syncing \cup {<<n, ToSlotString(store)>> : n \in Members(store.shards)}
    /\ UNCHANGED <<storeVars, nodeVars, envVars, roundVars, failureCounts>>

(* One of its goroutines reaches its node, or gives up.                    *)
Synced(s) ==
    /\ syncing' = syncing \ {s}
    /\ \/ SetNodes(s[1], s[2])
       \/ UNCHANGED view
    /\ UNCHANGED <<storeVars, status, failures, envVars, roundVars, failureCounts, syncCh>>

-----------------------------------------------------------------------------
(* The rest of the world *)

(* The requests that change which nodes a round finds, and where.          *)
Edited(shards, q) ==
    CASE q.op = "removeShard" -> RemoveShard(shards, q.shard)
      [] q.op = "removeNode"  -> RemoveNode(shards, q.shard, q.node)

(* A request is served.                                                    *)
Serve(q) ==
    /\ requests < MaxRequests
    /\ requests' = requests + 1
    /\ \E shards \in Edited(store.shards, q) : Write(store.version, shards)
    /\ UNCHANGED <<nodeVars, operated, roundVars, failureCounts, syncing>>

(* A node stops, or begins to restore its db from a backup.                *)
Fail(n) ==
    /\ n \in Fragile
    /\ failures < MaxFailures
    /\ failures' = failures + 1
    /\ status[n] = "up"
    /\ \E s \in {"down", "restoring"} : status' = [status EXCEPT ![n] = s]
    /\ UNCHANGED <<storeVars, view, envVars, roundVars, failureCounts, syncCh, syncing>>

(* A node is back, with the topology that it has saved.                    *)
Recover(n) ==
    /\ status[n] # "up"
    /\ status' = [status EXCEPT ![n] = "up"]
    /\ UNCHANGED <<storeVars, failures, view, envVars, roundVars, failureCounts,
                   syncCh, syncing>>

(* An operator gives a node a topology by hand.                            *)
Operate(n, v) ==
    /\ ~operated
    /\ operated' = TRUE
    /\ status[n] = "up"
    /\ SetNodes(n, v)
    /\ given' = given \cup {v}
    /\ UNCHANGED <<store, requests, status, failures, roundVars, failureCounts,
                   syncCh, syncing>>

Probe(n) ==
    \/ ProbeRestoring(n)
    \/ ProbeAnswered(n)
    \/ SyncClusterInfo(n)
    \/ TakeLatest(n)
    \/ ProbeFailed(n)
    \/ Promote(n)
    \/ UpdatePromoted(n)

Next ==
    \/ Tick
    \/ \E n \in Node : Probe(n)
    \/ EndRound
    \/ SyncClusterToNodes
    \/ \E s \in syncing : Synced(s)
    \/ \E q \in Requests : Serve(q)
    \/ \E n \in Node : Fail(n)
    \/ \E n \in Node : Recover(n)
    \/ \E n \in Node, v \in Operator : Operate(n, v)

Spec == Init /\ [][Next]_vars

(* The ticker keeps firing and every goroutine comes to its end; a restore *)
(* ends too, but a node that is down may stay down.                        *)
FairSpec ==
    /\ Spec
    /\ WF_vars(Tick)
    /\ WF_vars(EndRound)
    /\ \A n \in Node : WF_vars(Probe(n))
    /\ \A n \in Node : WF_vars(status[n] = "restoring" /\ Recover(n))

-----------------------------------------------------------------------------
(* Properties *)

(* What the nodes, the goroutines of a round and the store hold are        *)
(* topologies; in particular ParseCluster makes a cluster, without         *)
(* migrations, of what a node lists.                                       *)
TypeOK ==
    /\ store \in Cluster
    /\ given \in SUBSET View
    /\ requests \in Nat
    /\ status \in [Node -> {"up", "down", "restoring"}]
    /\ failures \in Nat
    /\ view \in [Node -> View]
    /\ operated \in BOOLEAN
    /\ round \in BOOLEAN
    /\ cluster \in Cluster \cup {NoCluster}
    /\ probing \in [Node -> {"done", "probe", "sync", "ahead", "promote", "update"}]
    /\ promoted \in [Node -> Cluster \cup {NoCluster}]
    /\ failureCounts \in [Node -> Nat]
    /\ latest \in View
    /\ syncCh \in BOOLEAN
    /\ syncing \in SUBSET (Node \X View)

Unambiguous == \A v, w \in given : v.version = w.version => v = w

(* A version names one topology: as long as no operator interferes,        *)
(* whatever the nodes have been given and whatever is stored under the     *)
(* same version is the same.  The checker relies on it when it compares    *)
(* nothing but versions (version < clusterVersion in parallelProbeNodes).  *)
OneTopologyPerVersion ==
    ~operated =>
        /\ Unambiguous
        /\ ToSlotString(store) \in given
        /\ \A n \in Node : view[n] = NoView \/ view[n] \in given

(* Neither the store nor a node goes back to an older version, also when   *)
(* the store takes over what a node knows while requests are served.       *)
VersionsGrow ==
    [][ /\ store'.version >= store.version
        /\ \A n \in Node : view'[n].version >= view[n].version ]_<<store, view>>

(* n is replaced as master by a slave of its shard, and that is all.       *)
FailsOver(n, shards, edited) ==
    \E i \in DOMAIN shards : \E m \in shards[i].slaves :
        /\ n \in shards[i].masters
        /\ edited = [shards EXCEPT ![i].masters = (@ \ {n}) \cup {m},
                                   ![i].slaves  = (@ \ {m}) \cup {n}]

(* A failover replaces the master that has failed, in the shard that it is *)
(* in by now, by a slave of that shard, and changes nothing else, also     *)
(* when requests have moved the shards since the round began               *)
(* (increaseFailureCount).                                                 *)
FailoverOfTheFailed ==
    [][\A n \in Node :
        (probing[n] = "update" /\ probing'[n] = "done" /\ store' # store)
            => FailsOver(n, store.shards, store'.shards)]_vars

(* Once requests and failures have come to an end, the nodes that are up   *)
(* have the stored topology for good: parallelProbeNodes makes up for lost *)
(* and late sync events, and it spreads the topology of an operator who    *)
(* has not used a version that the store has used for another one.         *)
NodesConverge ==
    []Unambiguous =>
        <>[](\A n \in Members(store.shards) :
                status[n] = "up" => view[n] = ToSlotString(store))

(* A master that is down does not stay master next to a slave that is up:  *)
(* increaseFailureCount tries again after every maxFailureCount failures.  *)
(* A slave that an operator has given another topology of the stored       *)
(* version may take itself for a master and is never promoted.             *)
FailedMasterIsReplaced ==
    []Unambiguous =>
        <>[](\A i \in DOMAIN store.shards :
                (\E m \in store.shards[i].slaves : status[m] = "up")
                    => \A n \in store.shards[i].masters : status[n] # "down")
=============================================================================
