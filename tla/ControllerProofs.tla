-------------------------- MODULE ControllerProofs --------------------------
(***************************************************************************)
(* The two modules of package controller, for any nodes, clusters, faults  *)
(* and bounds.  What ClusterChecker promises for every topology and all    *)
(* requests and failures: versions never go back, and while no operator    *)
(* interferes a version names one topology and no node is ahead of the     *)
(* cluster that a round has read.  And the safety of Controller's map of   *)
(* checkers.                                                               *)
(***************************************************************************)
EXTENDS ClusterChecker, Controller, TopologyProofs, FiniteSetTheorems

(* Few steps need arithmetic; those name SMT.                              *)
USE Zenon

(* The shape of the state as far as versions go.                           *)
Versions ==
    /\ store.version \in Nat
    /\ view = [n \in Node |-> view[n]]
    /\ \A n \in Node : view[n].version \in Nat
    /\ probing = [n \in Node |-> probing[n]]
    /\ promoted = [n \in Node |-> promoted[n]]
    /\ round \in BOOLEAN
    /\ ~round => \A n \in Node : probing[n] = "done"
    /\ round => cluster.version \in Nat
    /\ latest.version \in Nat
    /\ \A s \in syncing : s[2].version \in Nat
    /\ \A n \in Node : probing[n] = "update" => promoted[n].version \in Nat

(* A node that is given a topology keeps its own or takes over a newer one *)
(* (CLUSTERX SETNODES).                                                    *)
LEMMA SetNodesResult ==
    ASSUME view = [m \in Node |-> view[m]], \A m \in Node : view[m].version \in Nat,
           NEW n, NEW v, v.version \in Nat, SetNodes(n, v)
    PROVE  /\ view' = [m \in Node |-> view'[m]]
           /\ \A m \in Node : /\ view'[m] \in {view[m], v}
                              /\ view'[m].version \in Nat
                              /\ view'[m].version >= view[m].version
  BY SMTT(30) DEF SetNodes

(* The initial state has the shape.                                        *)
LEMMA VersionsInit == Init => Versions
<1> SUFFICES ASSUME Init PROVE Versions
    OBVIOUS
<1>1. /\ view = [n \in Node |-> view[n]]
      /\ probing = [n \in Node |-> probing[n]]
      /\ promoted = [n \in Node |-> promoted[n]]
    BY DEF Init
<1>2. \A n \in Node : view[n].version \in Nat /\ probing[n] = "done"
    BY DEF Init, NoView
<1>3. store.version \in Nat /\ latest.version \in Nat /\ round = FALSE /\ syncing = {}
    BY DEF Init, NoView
<1> QED
    BY <1>1, <1>2, <1>3 DEF Versions

(* Every step keeps the shape (the atomic version counter of a cluster is  *)
(* only ever copied or increased).                                         *)
LEMMA VersionsNext == Versions /\ [Next]_vars => Versions'
<1> SUFFICES ASSUME Versions, [Next]_vars PROVE Versions'
    OBVIOUS
<1> USE DEF Versions
<1>1. CASE Tick
    BY <1>1 DEF Tick, storeVars, nodeVars, NoView
<1>2. ASSUME NEW n \in Node, ProbeRestoring(n) PROVE Versions'
    BY <1>2 DEF ProbeRestoring, Goto, storeVars, nodeVars
<1>3. ASSUME NEW n \in Node, ProbeAnswered(n) PROVE Versions'
    BY <1>3 DEF ProbeAnswered, Goto, storeVars, nodeVars
<1>4. ASSUME NEW n \in Node, SyncClusterInfo(n) PROVE Versions'
    <2>1. round /\ ToSlotString(cluster).version \in Nat
        BY <1>4 DEF SyncClusterInfo, ToSlotString
    <2>2. /\ view' = [m \in Node |-> view'[m]]
          /\ \A m \in Node : view'[m].version \in Nat
        BY <1>4, <2>1, SetNodesResult DEF SyncClusterInfo
    <2> QED
        BY <1>4, <2>2 DEF SyncClusterInfo, Goto, storeVars
<1>5. ASSUME NEW n \in Node, TakeLatest(n) PROVE Versions'
    BY <1>5 DEF TakeLatest, Goto, storeVars, nodeVars
<1>6. ASSUME NEW n \in Node, ProbeFailed(n) PROVE Versions'
    BY <1>6 DEF ProbeFailed, Goto, storeVars, nodeVars
<1>7. ASSUME NEW n \in Node, Promote(n) PROVE Versions'
    BY <1>7, SMTT(30) DEF Promote, Goto, storeVars, nodeVars
<1>8. ASSUME NEW n \in Node, UpdatePromoted(n) PROVE Versions'
    <2>1. store'.version \in Nat
        BY <1>8, SMTT(30) DEF UpdatePromoted, UpdateCluster, Write, storeVars
    <2> QED
        BY <1>8, <2>1 DEF UpdatePromoted, Goto, nodeVars
<1>9. CASE EndRound
    <2>1. store'.version \in Nat
        BY <1>9, SMTT(30) DEF EndRound, SetCluster, ParseCluster, storeVars
    <2> QED
        BY <1>9, <2>1 DEF EndRound, nodeVars
<1>10. CASE SyncClusterToNodes
    BY <1>10, SMTT(30) DEF SyncClusterToNodes, storeVars, nodeVars, roundVars, ToSlotString
<1>11. ASSUME NEW s \in syncing, Synced(s) PROVE Versions'
    <2>1. /\ view' = [m \in Node |-> view'[m]]
          /\ \A m \in Node : view'[m].version \in Nat
        BY <1>11, SetNodesResult DEF Synced
    <2> QED
        BY <1>11, <2>1 DEF Synced, storeVars, roundVars
<1>12. ASSUME NEW q \in Requests, Serve(q) PROVE Versions'
    BY <1>12, SMTT(30) DEF Serve, Write, nodeVars, roundVars
<1>13. ASSUME NEW n \in Node, Fail(n) PROVE Versions'
    BY <1>13 DEF Fail, storeVars, roundVars
<1>14. ASSUME NEW n \in Node, Recover(n) PROVE Versions'
    BY <1>14 DEF Recover, storeVars, roundVars
<1>15. ASSUME NEW n \in Node, NEW v \in Operator, Operate(n, v) PROVE Versions'
    <2>1. v.version \in Nat
        BY OperatorAssumption DEF View
    <2>2. /\ view' = [m \in Node |-> view'[m]]
          /\ \A m \in Node : view'[m].version \in Nat
        BY <1>15, <2>1, SetNodesResult DEF Operate
    <2> QED
        BY <1>15, <2>2 DEF Operate, roundVars
<1>16. CASE UNCHANGED vars
    BY <1>16 DEF vars, storeVars, nodeVars, roundVars
<1> QED
    BY <1>1, <1>2, <1>3, <1>4, <1>5, <1>6, <1>7, <1>8, <1>9, <1>10, <1>11, <1>12,
       <1>13, <1>14, <1>15, <1>16 DEF Next, Probe

-----------------------------------------------------------------------------
(* While no operator interferes, everything that is stored, that the nodes *)
(* have and that is on its way has been stored under its version, no node  *)
(* and no message is newer than the cluster that the round has read, and   *)
(* no goroutine's copy is newer than the stored cluster.                   *)
Untouched ==
    ~operated =>
        /\ Unambiguous
        /\ ToSlotString(store) \in given
        /\ \A v \in given : v.version \in Nat /\ v.version <= store.version
        /\ \A n \in Node : view[n] = NoView \/ view[n] \in given
        /\ \A s \in syncing : s[2] \in given
        /\ round => ToSlotString(cluster) \in given
        /\ round => \A n \in Node : view[n].version <= cluster.version
        /\ round => \A s \in syncing : s[2].version <= cluster.version
        /\ \A n \in Node : probing[n] # "ahead"
        /\ latest = NoView
        /\ \A n \in Node : probing[n] = "update" => promoted[n].version <= store.version

(* A write under a version of its own leaves versions unambiguous.         *)
LEMMA WriteKeepsUnambiguous ==
    ASSUME store.version \in Nat, Unambiguous,
           \A v \in given : v.version \in Nat /\ v.version <= store.version,
           NEW shards, Write(store.version, shards)
    PROVE  /\ Unambiguous'
           /\ ToSlotString(store)' \in given'
           /\ \A v \in given' : v.version \in Nat /\ v.version <= store'.version
           /\ store'.version = store.version + 1
           /\ given \subseteq given'
<1>1. /\ store'.version = store.version + 1
      /\ ToSlotString(store').version = store.version + 1
      /\ given' = given \cup {ToSlotString(store')}
    BY DEF Write, ToSlotString
<1>2. \A v \in given : v.version # store.version + 1
    BY SMTT(30)
<1>3. \A v, w \in given' : v.version = w.version => v = w
    BY <1>1, <1>2 DEF Unambiguous
<1> QED
    BY <1>1, <1>3, SMTT(30) DEF Unambiguous

(* Nothing has been given but the initial cluster.                         *)
LEMMA UntouchedInit == Init => Untouched
<1> SUFFICES ASSUME Init PROVE Untouched
    OBVIOUS
<1>1. store.version = 1 /\ given = {ToSlotString(store)}
    BY DEF Init
<1>2. \A v \in given : v.version = 1
    BY <1>1, SMTT(30) DEF ToSlotString
<1>3. /\ \A n \in Node : view[n] = NoView
      /\ \A n \in Node : probing[n] = "done"
      /\ round = FALSE /\ syncing = {} /\ latest = NoView
    BY DEF Init
<1> QED
    BY <1>1, <1>2, <1>3, SMTT(30) DEF Untouched, Unambiguous

(* Every step keeps it: probeLoop does not begin a sync during a round, so *)
(* that nothing overtakes the copy of the round, and UpdateCluster refuses *)
(* a copy that has been overtaken.                                         *)
LEMMA UntouchedNext == Versions /\ Untouched /\ [Next]_vars => Untouched'
<1> SUFFICES ASSUME Versions, Untouched, [Next]_vars, ~operated' PROVE Untouched'
    BY DEF Untouched
<1> USE DEF Versions, Untouched
<1>1. CASE Tick
    <2>1. \A v \in given : v.version <= store.version
        BY <1>1 DEF Tick, envVars
    <2>2. \A n \in Node : view[n].version <= store.version
        BY <1>1, <2>1, SMTT(30) DEF Tick, envVars, NoView
    <2> QED
        BY <1>1, <2>1, <2>2, SMTT(30) DEF Tick, storeVars, nodeVars, envVars, Unambiguous, ToSlotString
<1>2. ASSUME NEW n \in Node, ProbeRestoring(n) PROVE Untouched'
    BY <1>2, SMTT(60) DEF ProbeRestoring, Goto, storeVars, nodeVars, envVars, Unambiguous, ToSlotString
<1>3. ASSUME NEW n \in Node, ProbeAnswered(n) PROVE Untouched'
    BY <1>3, SMTT(30) DEF ProbeAnswered, Goto, storeVars, nodeVars, envVars, Unambiguous, ToSlotString
<1>4. ASSUME NEW n \in Node, SyncClusterInfo(n) PROVE Untouched'
    <2>1. round /\ ToSlotString(cluster).version = cluster.version
        BY <1>4 DEF SyncClusterInfo, ToSlotString
    <2>2. \A m \in Node : view'[m] \in {view[m], ToSlotString(cluster)}
        BY <1>4, <2>1, SetNodesResult DEF SyncClusterInfo
    <2>3. /\ ~operated
          /\ UNCHANGED <<storeVars, round, cluster, latest, promoted, syncing>>
          /\ \A m \in Node : probing'[m] \in {probing[m], "done"}
        BY <1>4 DEF SyncClusterInfo, Goto, envVars
    <2>4. \A m \in Node : /\ view'[m] = NoView \/ view'[m] \in given
                         /\ view'[m].version <= cluster.version
        BY <2>1, <2>2, <2>3, SMTT(60)
    <2>5. Unambiguous' /\ ToSlotString(store)' \in given' /\ ToSlotString(cluster)' \in given'
        BY <2>1, <2>3, SMTT(30) DEF storeVars, Unambiguous, ToSlotString
    <2> QED
        BY <2>3, <2>4, <2>5 DEF storeVars
<1>5. ASSUME NEW n \in Node, TakeLatest(n) PROVE Untouched'
    BY <1>5 DEF TakeLatest, envVars
<1>6. ASSUME NEW n \in Node, ProbeFailed(n) PROVE Untouched'
    BY <1>6, SMTT(60) DEF ProbeFailed, Goto, storeVars, nodeVars, envVars, Unambiguous, ToSlotString
<1>7. ASSUME NEW n \in Node, Promote(n) PROVE Untouched'
    BY <1>7, SMTT(30) DEF Promote, Goto, storeVars, nodeVars, envVars, Unambiguous, ToSlotString
<1>8. ASSUME NEW n \in Node, UpdatePromoted(n) PROVE Untouched'
    <2>1. CASE UNCHANGED <<storeVars, syncCh>>
        BY <1>8, <2>1, SMTT(60)
        DEF UpdatePromoted, Goto, storeVars, nodeVars, envVars, Unambiguous, ToSlotString
    <2>2. CASE store.version <= promoted[n].version
               /\ Write(promoted[n].version, promoted[n].shards)
        <3>1. promoted[n].version = store.version /\ ~operated
            BY <1>8, <2>2, SMTT(30) DEF UpdatePromoted, envVars
        <3>2. /\ Unambiguous'
              /\ ToSlotString(store)' \in given'
              /\ \A v \in given' : v.version \in Nat /\ v.version <= store'.version
              /\ store'.version = store.version + 1
              /\ given \subseteq given'
            BY <2>2, <3>1, WriteKeepsUnambiguous
        <3> QED
            BY <1>8, <3>1, <3>2, SMTT(30) DEF UpdatePromoted, Goto, nodeVars, envVars, ToSlotString
    <2> QED
        BY <1>8, <2>1, <2>2 DEF UpdatePromoted, UpdateCluster
<1>9. CASE EndRound
    <2>1. UNCHANGED storeVars
        BY <1>9, SMTT(30) DEF EndRound, envVars, NoView
    <2> QED
        BY <1>9, <2>1, SMTT(30) DEF EndRound, storeVars, nodeVars, envVars, Unambiguous, ToSlotString
<1>10. CASE SyncClusterToNodes
    <2>1. /\ ~operated /\ ~round
          /\ UNCHANGED <<storeVars, nodeVars, envVars, roundVars>>
          /\ \A s \in syncing' : s \in syncing \/ s[2] = ToSlotString(store)
        BY <1>10, SMTT(60) DEF SyncClusterToNodes, envVars
    <2>2. Unambiguous' /\ ToSlotString(store)' \in given'
        BY <2>1, SMTT(60) DEF storeVars, Unambiguous, ToSlotString
    <2> QED
        BY <2>1, <2>2 DEF storeVars, nodeVars, roundVars
<1>11. ASSUME NEW s \in syncing, Synced(s) PROVE Untouched'
    <2>1. \A m \in Node : view'[m] \in {view[m], s[2]}
        BY <1>11, SetNodesResult DEF Synced
    <2> QED
        BY <1>11, <2>1, SMTT(60) DEF Synced, storeVars, envVars, roundVars, Unambiguous, ToSlotString
<1>12. ASSUME NEW q \in Requests, Serve(q) PROVE Untouched'
    <2>1. PICK shards : Write(store.version, shards)
        BY <1>12 DEF Serve
    <2>2. /\ Unambiguous'
          /\ ToSlotString(store)' \in given'
          /\ \A v \in given' : v.version \in Nat /\ v.version <= store'.version
          /\ store'.version = store.version + 1
          /\ given \subseteq given'
        BY <1>12, <2>1, WriteKeepsUnambiguous DEF Serve
    <2> QED
        BY <1>12, <2>2, SMTT(30) DEF Serve, nodeVars, roundVars, ToSlotString
<1>13. ASSUME NEW n \in Node, Fail(n) PROVE Untouched'
    BY <1>13, SMTT(60) DEF Fail, storeVars, envVars, roundVars, Unambiguous, ToSlotString
<1>14. ASSUME NEW n \in Node, Recover(n) PROVE Untouched'
    BY <1>14, SMTT(30) DEF Recover, storeVars, envVars, roundVars, Unambiguous, ToSlotString
<1>15. ASSUME NEW n \in Node, NEW v \in Operator, Operate(n, v) PROVE Untouched'
    BY <1>15 DEF Operate
<1>16. CASE UNCHANGED vars
    BY <1>16, SMTT(30) DEF vars, storeVars, nodeVars, envVars, roundVars, Unambiguous, ToSlotString
<1> QED
    BY <1>1, <1>2, <1>3, <1>4, <1>5, <1>6, <1>7, <1>8, <1>9, <1>10, <1>11, <1>12,
       <1>13, <1>14, <1>15, <1>16 DEF Next, Probe

-----------------------------------------------------------------------------
(* The copy of a goroutine that promotes a master is not newer than the    *)
(* stored cluster, and if it is not older it is the stored cluster with    *)
(* the failed master replaced.                                             *)
Pending ==
    \A n \in Node : probing[n] = "update" =>
        /\ promoted[n].version <= store.version
        /\ promoted[n].version = store.version
                => FailsOver(n, store.shards, promoted[n].shards)

(* What PromoteNewMaster comes to, given the master that has failed.       *)
LEMMA PromotionFailsOver ==
    ASSUME NEW n \in Node, NEW m \in Promotions(n)
    PROVE  FailsOver(n, store.shards, m[2])
<1>1. m[2] \in PromoteNewMaster(store.shards, ShardIndex(n), n)
    BY DEF Promotions
<1> DEFINE i == ShardIndex(n)
<1>2. PICK p \in Node \X Node :
        /\ i \in DOMAIN store.shards
        /\ p[1] \in store.shards[i].masters
        /\ n \in {AnyMaster, p[1]}
        /\ p[2] \in store.shards[i].slaves
        /\ m[2] = [store.shards EXCEPT ![i].masters = (@ \ {p[1]}) \cup {p[2]},
                                       ![i].slaves  = (@ \ {p[2]}) \cup {p[1]}]
    BY <1>1 DEF PromoteNewMaster
<1>3. p[1] = n
    BY <1>2, TopologyAssumption
<1> QED
    BY <1>2, <1>3 DEF FailsOver

(* No goroutine has a copy at the start.                                   *)
LEMMA PendingInit == Init => Pending
  BY DEF Init, Pending

(* Requests raise the version and so outdate the copies; SetCluster, which *)
(* need not, is called when the goroutines have come to their end.         *)
LEMMA PendingNext == Versions /\ Pending /\ [Next]_vars => Pending'
<1> SUFFICES ASSUME Versions, Pending, [Next]_vars, NEW k \in Node, probing'[k] = "update"
             PROVE  /\ promoted'[k].version <= store'.version
                    /\ promoted'[k].version = store'.version
                            => FailsOver(k, store'.shards, promoted'[k].shards)
    BY DEF Pending
<1> DEFINE Goal == /\ promoted'[k].version <= store'.version
                   /\ promoted'[k].version = store'.version
                            => FailsOver(k, store'.shards, promoted'[k].shards)
<1>0. ASSUME probing[k] = "update", UNCHANGED <<store, promoted>> PROVE Goal
    BY <1>0 DEF Pending
<1>1. CASE Tick
    BY <1>1 DEF Tick
<1>2. ASSUME NEW n \in Node, ProbeRestoring(n) PROVE Goal
    BY <1>0, <1>2 DEF ProbeRestoring, Goto, Versions, storeVars
<1>3. ASSUME NEW n \in Node, ProbeAnswered(n) PROVE Goal
    BY <1>0, <1>3 DEF ProbeAnswered, Goto, Versions, storeVars
<1>4. ASSUME NEW n \in Node, SyncClusterInfo(n) PROVE Goal
    BY <1>0, <1>4 DEF SyncClusterInfo, Goto, Versions, storeVars
<1>5. ASSUME NEW n \in Node, TakeLatest(n) PROVE Goal
    BY <1>0, <1>5 DEF TakeLatest, Goto, Versions, storeVars
<1>6. ASSUME NEW n \in Node, ProbeFailed(n) PROVE Goal
    BY <1>0, <1>6 DEF ProbeFailed, Goto, Versions, storeVars
<1>7. ASSUME NEW n \in Node, Promote(n) PROVE Goal
    <2>1. store' = store
        BY <1>7 DEF Promote, storeVars
    <2>2. CASE k # n
        <3>1. probing[k] = "update" /\ promoted'[k] = promoted[k]
            BY <1>7, <2>2 DEF Promote, Goto, Versions
        <3> QED
            BY <2>1, <3>1 DEF Pending
    <2>3. CASE k = n
        <3>1. ~Goto(n, "done")
            BY <2>3 DEF Goto, Versions
        <3>2. PICK m \in Promotions(n) :
                promoted'[n] = [version |-> store.version, shards |-> m[2]]
            BY <1>7, <3>1 DEF Promote, Versions
        <3>3. FailsOver(n, store.shards, m[2])
            BY PromotionFailsOver
        <3> QED
            BY <2>1, <2>3, <3>2, <3>3, SMTT(30) DEF Versions
    <2> QED
        BY <2>2, <2>3
<1>8. ASSUME NEW n \in Node, UpdatePromoted(n) PROVE Goal
    <2>1. probing[k] = "update" /\ promoted'[k] = promoted[k]
        BY <1>8 DEF UpdatePromoted, Goto, Versions
    <2>2. store' = store \/ store'.version > store.version
        BY <1>8, SMTT(30) DEF UpdatePromoted, UpdateCluster, Write, Versions, storeVars
    <2>3. store'.version \in Nat
        BY VersionsNext DEF Versions
    <2> QED
        BY <2>1, <2>2, <2>3, SMTT(30) DEF Pending, Versions
<1>9. CASE EndRound
    BY <1>9 DEF EndRound
<1>10. CASE SyncClusterToNodes
    BY <1>0, <1>10 DEF SyncClusterToNodes, storeVars, roundVars
<1>11. ASSUME NEW s \in syncing, Synced(s) PROVE Goal
    BY <1>0, <1>11 DEF Synced, storeVars, roundVars
<1>12. ASSUME NEW q \in Requests, Serve(q) PROVE Goal
    <2>1. store'.version = store.version + 1 /\ UNCHANGED <<probing, promoted>>
        BY <1>12, SMTT(60) DEF Serve, Write, roundVars
    <2> QED
        BY <2>1, SMTT(30) DEF Pending, Versions
<1>13. ASSUME NEW n \in Node, Fail(n) PROVE Goal
    BY <1>0, <1>13 DEF Fail, storeVars, roundVars
<1>14. ASSUME NEW n \in Node, Recover(n) PROVE Goal
    BY <1>0, <1>14 DEF Recover, storeVars, roundVars
<1>15. ASSUME NEW n \in Node, NEW v \in Operator, Operate(n, v) PROVE Goal
    BY <1>0, <1>15 DEF Operate, roundVars
<1>16. CASE UNCHANGED vars
    BY <1>0, <1>16 DEF vars, storeVars, roundVars
<1> QED
    BY <1>1, <1>2, <1>3, <1>4, <1>5, <1>6, <1>7, <1>8, <1>9, <1>10, <1>11, <1>12,
       <1>13, <1>14, <1>15, <1>16 DEF Next, Probe

-----------------------------------------------------------------------------
(* The inductive invariant.                                                *)
Inv == Versions /\ Untouched /\ Pending

(* The inductive invariant holds.                                          *)
THEOREM Invariance == Spec => []Inv
<1>1. Init => Inv
    BY VersionsInit, UntouchedInit, PendingInit DEF Inv
<1>2. Inv /\ [Next]_vars => Inv'
    BY VersionsNext, UntouchedNext, PendingNext DEF Inv
<1> QED
    BY <1>1, <1>2, PTL DEF Spec

(* While no operator interferes a version names one topology, in the store *)
(* and at every node (parallelProbeNodes compares versions only).          *)
THEOREM OneTopology == Spec => []OneTopologyPerVersion
<1>1. Inv => OneTopologyPerVersion
    BY DEF Inv, Untouched, OneTopologyPerVersion
<1> QED
    BY <1>1, Invariance, PTL

(* While no operator interferes no node is ahead of the cluster of a round *)
(* and so the store never takes over a topology (the end of                *)
(* parallelProbeNodes).                                                    *)
THEOREM NobodyIsAhead ==
    Spec => [](~operated => latest = NoView /\ \A n \in Node : probing[n] # "ahead")
<1>1. Inv => (~operated => latest = NoView /\ \A n \in Node : probing[n] # "ahead")
    BY DEF Inv, Untouched
<1> QED
    BY <1>1, Invariance, PTL

(* A failover replaces the master that has failed in the stored cluster    *)
(* and changes nothing else (increaseFailureCount).                        *)
THEOREM Failover == Spec => FailoverOfTheFailed
<1>1. ASSUME Inv, [Next]_vars, NEW n \in Node,
             probing[n] = "update", probing'[n] = "done", store' # store
      PROVE  FailsOver(n, store.shards, store'.shards)
    <2>1. UpdatePromoted(n) \/ ~(\E m \in Node : UpdatePromoted(m))
        BY <1>1 DEF UpdatePromoted, Goto, Inv, Versions
    <2>2. UpdatePromoted(n)
        BY <1>1, <2>1
        DEF Next, Probe, Tick, ProbeRestoring, ProbeAnswered, SyncClusterInfo, TakeLatest,
            ProbeFailed, Promote, EndRound, SyncClusterToNodes, Synced, Serve, Fail,
            Recover, Operate, vars, storeVars, roundVars
    <2>3. /\ store.version <= promoted[n].version
          /\ store'.shards = promoted[n].shards
        BY <1>1, <2>2, SMTT(60) DEF UpdatePromoted, UpdateCluster, Write, storeVars
    <2> QED
        BY <1>1, <2>3, SMTT(60) DEF Inv, Versions, Pending
<1>2. Inv /\ [Next]_vars =>
        [\A n \in Node :
            (probing[n] = "update" /\ probing'[n] = "done" /\ store' # store)
                => FailsOver(n, store.shards, store'.shards)]_vars
    BY <1>1
<1> QED
    BY <1>2, Invariance, PTL DEF Spec, FailoverOfTheFailed

(* Neither the store nor a node goes back to an older version, whatever an *)
(* operator does (the version checks of UpdateCluster and SetCluster).     *)
THEOREM Growth == Spec => VersionsGrow
<1> DEFINE Grows == /\ store'.version >= store.version
                    /\ \A n \in Node : view'[n].version >= view[n].version
<1>1. ASSUME Versions, Next PROVE Grows
    <2> USE <1>1 DEF Versions
    <2>1. ASSUME UNCHANGED <<store, view>> PROVE Grows
        BY <2>1, SMTT(30)
    <2>2. ASSUME NEW n \in Node, SyncClusterInfo(n) PROVE Grows
        <3>1. ToSlotString(cluster).version \in Nat /\ store' = store
            BY <2>2 DEF SyncClusterInfo, ToSlotString, storeVars
        <3> QED
            BY <2>2, <3>1, SetNodesResult, SMTT(60) DEF SyncClusterInfo
    <2>3. ASSUME NEW n \in Node, UpdatePromoted(n) PROVE Grows
        BY <2>3, SMTT(60) DEF UpdatePromoted, UpdateCluster, Write, storeVars, nodeVars
    <2>4. CASE EndRound
        BY <2>4, SMTT(30) DEF EndRound, SetCluster, storeVars, nodeVars, ParseCluster
    <2>5. ASSUME NEW s \in syncing, Synced(s) PROVE Grows
        BY <2>5, SetNodesResult, SMTT(30) DEF Synced, storeVars
    <2>6. ASSUME NEW q \in Requests, Serve(q) PROVE Grows
        BY <2>6, SMTT(30) DEF Serve, Write, nodeVars
    <2>7. ASSUME NEW n \in Node, NEW v \in Operator, Operate(n, v) PROVE Grows
        <3>1. v.version \in Nat /\ store' = store
            BY <2>7, OperatorAssumption DEF View, Operate
        <3> QED
            BY <2>7, <3>1, SetNodesResult, SMTT(30) DEF Operate
    <2> QED
        BY <2>1, <2>2, <2>3, <2>4, <2>5, <2>6, <2>7
        DEF Next, Probe, Tick, ProbeRestoring, ProbeAnswered, TakeLatest, ProbeFailed,
            Promote, SyncClusterToNodes, Fail, Recover, storeVars, nodeVars
<1>2. Inv /\ [Next]_vars => [Grows]_<<store, view>>
    BY <1>1 DEF Inv, vars, storeVars, nodeVars
<1> QED
    BY <1>2, Invariance, PTL DEF Spec, VersionsGrow

-----------------------------------------------------------------------------
(* Types *)

(* The topologies that can be written down: the text of CLUSTER NODES has  *)
(* finitely many lines.                                                    *)
FiniteView == {v \in View : IsFiniteSet(v.shards)}

(* The types, with what the goroutines of a round rely on: ParseCluster is *)
(* given a text, a round has a cluster, none of its goroutines outlives    *)
(* it, and one that updates the cluster has a copy of its own.             *)
Types ==
    /\ TypeOK
    /\ view \in [Node -> FiniteView]
    /\ latest \in FiniteView
    /\ syncing \in SUBSET (Node \X FiniteView)
    /\ round => cluster \in Cluster
    /\ ~round => \A n \in Node : probing[n] = "done"
    /\ \A n \in Node : probing[n] = "update" => promoted[n] \in Cluster

(* ToSlotString writes a topology down.                                    *)
LEMMA ToSlotStringType ==
    ASSUME NEW c \in Cluster
    PROVE  ToSlotString(c) \in FiniteView
<1> DEFINE Text(i) == [masters |-> c.shards[i].masters, slaves |-> c.shards[i].slaves,
                       slots |-> c.shards[i].slots]
           lines == {Text(i) : i \in DOMAIN c.shards}
<1>1. /\ c.version \in Nat /\ Len(c.shards) \in Nat /\ DOMAIN c.shards = 1 .. Len(c.shards)
      /\ \A i \in DOMAIN c.shards : c.shards[i] \in Shard
    BY LenProperties DEF Cluster
<1>2. \A i \in DOMAIN c.shards : Text(i) \in NodesShard
    BY <1>1 DEF NodesShard, Shard
<1>3. IsFiniteSet(lines)
    <2> DEFINE f == [i \in DOMAIN c.shards |-> Text(i)]
    <2> HIDE DEF Text
    <2>1. f \in Surjection(DOMAIN c.shards, lines)
        BY DEF Surjection
    <2>2. IsFiniteSet(DOMAIN c.shards)
        <3>1. 1 \in Int /\ Len(c.shards) \in Int
            BY <1>1, SMTT(30)
        <3>2. IsFiniteSet(1 .. Len(c.shards))
            BY <3>1, FS_Interval
        <3> QED
            BY <1>1, <3>2
    <2> HIDE DEF f, lines
    <2> QED
        BY <2>1, <2>2, FS_Surjection
<1>4. ToSlotString(c) = [version |-> c.version, shards |-> lines]
    BY DEF ToSlotString
<1>5. lines \in SUBSET NodesShard
    BY <1>2
<1> HIDE DEF lines
<1> QED
    BY <1>1, <1>3, <1>4, <1>5, SMTT(30) DEF FiniteView, View

(* ParseCluster makes a cluster of a text.                                 *)
LEMMA ParseClusterType ==
    ASSUME NEW v \in FiniteView, NEW c \in ParseCluster(v)
    PROVE  c \in Cluster
<1> DEFINE n == Cardinality(v.shards)
<1>1. v.version \in Nat /\ v.shards \in SUBSET NodesShard /\ n \in Nat
    BY FS_CardinalityType DEF FiniteView, View
<1> DEFINE Parsed(p) == [i \in DOMAIN p |->
                    [masters |-> p[i].masters, slaves |-> p[i].slaves,
                     slots |-> p[i].slots,
                     migrating |-> NotMigrating, target |-> NoTarget]]
<1>2. PICK p \in [1 .. n -> v.shards] :
            c = [version |-> v.version, shards |-> Parsed(p)]
    BY DEF ParseCluster
<1>3. \A i \in 1 .. n : p[i] \in NodesShard
    BY <1>1, <1>2
<1>4. \A i \in 1 .. n : Parsed(p)[i] \in Shard
    BY <1>2, <1>3 DEF NodesShard, Shard, NoTarget
<1>5. Parsed(p) = [i \in 1 .. n |-> Parsed(p)[i]]
    BY <1>2
<1> HIDE DEF Parsed, n
<1>6. Parsed(p) \in Seq(Shard)
    BY <1>1, <1>4, <1>5, SMTT(30)
<1> QED
    BY <1>1, <1>2, <1>6 DEF Cluster

(* The edits of requests and failovers leave lists of shards.              *)
LEMMA EditTypes ==
    ASSUME NEW shards \in Seq(Shard), NEW i, NEW node,
           NEW edited \in RemoveShard(shards, i) \cup RemoveNode(shards, i, node)
                            \cup PromoteNewMaster(shards, i, node)
    PROVE  edited \in Seq(Shard)
<1>1. i \in DOMAIN shards
    BY DEF RemoveShard, RemoveNode, PromoteNewMaster
<1>2. /\ Len(shards) \in Nat /\ DOMAIN shards = 1 .. Len(shards) /\ i \in 1 .. Len(shards)
      /\ \A j \in 1 .. Len(shards) : shards[j] \in Shard
    BY <1>1, LenProperties
<1>3. CASE edited \in RemoveShard(shards, i)
    <2>1. edited = [j \in 1 .. Len(shards) - 1 |-> IF j < i THEN shards[j] ELSE shards[j + 1]]
        BY <1>3 DEF RemoveShard
    <2>2. /\ Len(shards) - 1 \in Nat
          /\ \A j \in 1 .. Len(shards) - 1 :
                (IF j < i THEN shards[j] ELSE shards[j + 1]) \in Shard
        BY <1>2, SMTT(30)
    <2> QED
        BY <2>1, <2>2, IsASeq, SMTT(30)
<1>4. CASE edited \in RemoveNode(shards, i, node)
    <2> DEFINE shard == [shards[i] EXCEPT !.slaves = @ \ {node}]
    <2>1. edited = [shards EXCEPT ![i] = shard]
        BY <1>4 DEF RemoveNode
    <2>2. shard \in Shard
        BY <1>2 DEF Shard
    <2> HIDE DEF shard
    <2> QED
        BY <1>1, <2>1, <2>2, ReplaceShard
<1>5. CASE edited \in PromoteNewMaster(shards, i, node)
    <2>1. PICK p \in Node \X Node :
            edited = [shards EXCEPT ![i].masters = (@ \ {p[1]}) \cup {p[2]},
                                    ![i].slaves  = (@ \ {p[2]}) \cup {p[1]}]
        BY <1>5 DEF PromoteNewMaster
    <2> DEFINE shard == [shards[i] EXCEPT !.masters = (@ \ {p[1]}) \cup {p[2]},
                                          !.slaves  = (@ \ {p[2]}) \cup {p[1]}]
    <2>2. edited = [shards EXCEPT ![i] = shard]
        BY <1>1, <1>2, <2>1 DEF Shard
    <2>3. shard \in Shard
        BY <1>2, <2>1 DEF Shard
    <2> HIDE DEF shard
    <2> QED
        BY <1>1, <2>2, <2>3, ReplaceShard
<1> QED
    BY <1>3, <1>4, <1>5

(* A node that is given a topology has one.                                *)
LEMMA SetNodesType ==
    ASSUME view \in [Node -> FiniteView], NEW n \in Node, NEW v \in FiniteView, SetNodes(n, v)
    PROVE  view' \in [Node -> FiniteView]
  BY DEF SetNodes

(* A write leaves a cluster, and its text among those that have been given. *)
LEMMA WriteType ==
    ASSUME TypeOK, NEW version \in Nat, NEW shards \in Seq(Shard), Write(version, shards)
    PROVE  /\ store' \in Cluster /\ given' \in SUBSET View /\ syncCh' \in BOOLEAN
<1>1. store' \in Cluster
    BY SMTT(30) DEF Write, Cluster
<1>2. ToSlotString(store') \in View
    BY <1>1, ToSlotStringType DEF FiniteView
<1> QED
    BY <1>1, <1>2 DEF Write, TypeOK

(* The types hold at the start.                                            *)
LEMMA TypesInit == Init => Types
<1> SUFFICES ASSUME Init PROVE Types
    OBVIOUS
<1>1. NoView \in FiniteView /\ NoView \in View
    BY FS_EmptySet DEF NoView, FiniteView, View
<1>2. store \in Cluster
    BY ClusterCheckerAssumption DEF Init, Cluster
<1>3. given \in SUBSET View
    BY <1>2, ToSlotStringType DEF Init, FiniteView
<1>4. TypeOK
    BY <1>1, <1>2, <1>3 DEF Init, TypeOK
<1>5. /\ view \in [Node -> FiniteView] /\ latest \in FiniteView
      /\ syncing \in SUBSET (Node \X FiniteView)
    BY <1>1 DEF Init
<1>6. round = FALSE /\ \A n \in Node : probing[n] = "done"
    BY DEF Init
<1> QED
    BY <1>4, <1>5, <1>6 DEF Types

(* Every step keeps the types.                                             *)
LEMMA TypesNext == Types /\ [Next]_vars => Types'
<1> SUFFICES ASSUME Types, [Next]_vars PROVE Types'
    OBVIOUS
<1>0. /\ TypeOK /\ store \in Cluster /\ store.version \in Nat /\ store.shards \in Seq(Shard)
      /\ FiniteView \subseteq View
    BY DEF Types, TypeOK, Cluster, FiniteView
<1>1. CASE Tick
    <2>1. NoView \in FiniteView
        BY FS_EmptySet DEF NoView, FiniteView, View
    <2> QED
        BY <1>0, <1>1, <2>1 DEF Types, TypeOK, Tick, storeVars, nodeVars, envVars
<1>2. ASSUME NEW n \in Node, ProbeRestoring(n) \/ ProbeAnswered(n) \/ ProbeFailed(n)
      PROVE  Types'
    <2>1. failureCounts' \in [Node -> Nat]
        <3>1. failureCounts \in [Node -> Nat] /\ MaxFailureCount \in Nat \ {0}
            BY <1>0, ClusterCheckerAssumption DEF TypeOK
        <3>2. (failureCounts[n] + 1) % MaxFailureCount \in Nat
            BY <3>1, SMTT(30)
        <3>3. PICK k \in Nat : \/ failureCounts' = failureCounts
                               \/ failureCounts' = [failureCounts EXCEPT ![n] = k]
            BY <1>2, <3>2
            DEF ProbeRestoring, ProbeAnswered, ProbeFailed, ResetFailureCount
        <3> QED
            BY <3>1, <3>3
    <2>2. PICK step \in {"done", "sync", "ahead", "promote"} :
            probing' = [probing EXCEPT ![n] = step]
        BY <1>2 DEF ProbeRestoring, ProbeAnswered, ProbeFailed, Goto
    <2>3. /\ UNCHANGED <<storeVars, nodeVars, envVars, round, cluster, promoted, latest,
                         syncCh, syncing>>
          /\ probing[n] = "probe"
        BY <1>2 DEF ProbeRestoring, ProbeAnswered, ProbeFailed
    <2> QED
        BY <1>0, <2>1, <2>2, <2>3 DEF Types, TypeOK, storeVars, nodeVars, envVars
<1>4. ASSUME NEW n \in Node, SyncClusterInfo(n) PROVE Types'
    <2>1. round /\ cluster \in Cluster
        BY <1>4 DEF SyncClusterInfo, Types, TypeOK
    <2>2. view' \in [Node -> FiniteView]
        BY <1>4, <2>1, ToSlotStringType, SetNodesType DEF SyncClusterInfo, Types
    <2> QED
        BY <1>0, <1>4, <2>2
        DEF Types, TypeOK, SyncClusterInfo, Goto, ResetFailureCount, storeVars, envVars
<1>5. ASSUME NEW n \in Node, TakeLatest(n) PROVE Types'
    <2>1. view[n] \in FiniteView /\ latest \in FiniteView /\ view[n].version \in Nat
        BY DEF Types, FiniteView, View
    <2>2. [version |-> view[n].version, shards |-> {}] \in FiniteView
        BY <2>1, FS_EmptySet DEF FiniteView, View
    <2>3. latest' \in FiniteView
        BY <1>5, <2>1, <2>2 DEF TakeLatest
    <2> QED
        BY <1>0, <1>5, <2>3
        DEF Types, TypeOK, TakeLatest, Goto, ResetFailureCount, storeVars, nodeVars, envVars
<1>7. ASSUME NEW n \in Node, Promote(n) PROVE Types'
    <2>1. CASE \E m \in Promotions(n) :
                /\ promoted' = [promoted EXCEPT ![n] =
                                    [version |-> store.version, shards |-> m[2]]]
                /\ ResetFailureCount(m[1])
                /\ Goto(n, "update")
        <3>1. PICK m \in Promotions(n) :
                /\ promoted' = [promoted EXCEPT ![n] =
                                    [version |-> store.version, shards |-> m[2]]]
                /\ ResetFailureCount(m[1])
                /\ Goto(n, "update")
            BY <2>1
        <3>2. m[2] \in PromoteNewMaster(store.shards, ShardIndex(n), n)
            BY DEF Promotions
        <3>3. m[2] \in Seq(Shard)
            BY <1>0, <3>2, EditTypes
        <3>4. [version |-> store.version, shards |-> m[2]] \in Cluster
            BY <1>0, <3>3 DEF Cluster
        <3>5. failureCounts' \in [Node -> Nat]
            BY <1>0, <3>1 DEF TypeOK, ResetFailureCount
        <3> QED
            BY <1>0, <1>7, <3>1, <3>4, <3>5
            DEF Types, TypeOK, Promote, Goto, storeVars, nodeVars, envVars
    <2>2. CASE Goto(n, "done") /\ UNCHANGED <<promoted, failureCounts>>
        BY <1>0, <1>7, <2>2 DEF Types, TypeOK, Promote, Goto, storeVars, nodeVars, envVars
    <2> QED
        BY <1>7, <2>1, <2>2 DEF Promote
<1>8. ASSUME NEW n \in Node, UpdatePromoted(n) PROVE Types'
    <2>1. promoted[n] \in Cluster /\ promoted[n].version \in Nat
          /\ promoted[n].shards \in Seq(Shard)
        BY <1>8 DEF Types, UpdatePromoted, Cluster
    <2>2. store' \in Cluster /\ given' \in SUBSET View /\ syncCh' \in BOOLEAN
        BY <1>0, <1>8, <2>1, WriteType DEF UpdatePromoted, UpdateCluster, TypeOK, storeVars
    <2> QED
        BY <1>0, <1>8, <2>2 DEF Types, TypeOK, UpdatePromoted, Goto, nodeVars, envVars
<1>9. CASE EndRound
    <2>1. store' \in Cluster /\ given' \in SUBSET View
        BY <1>0, <1>9, ParseClusterType DEF EndRound, SetCluster, Types, TypeOK, storeVars
    <2> QED
        BY <1>0, <1>9, <2>1 DEF Types, TypeOK, EndRound, nodeVars, envVars
<1>10. CASE SyncClusterToNodes
    <2>1. \A n \in Members(store.shards) : n \in Node
        <3>1. \A i \in DOMAIN store.shards : store.shards[i] \in Shard
            BY <1>0, LenProperties
        <3> QED
            BY <3>1 DEF Members, Shard
    <2>2. ToSlotString(store) \in FiniteView
        BY <1>0, ToSlotStringType
    <2>3. syncing' \in SUBSET (Node \X FiniteView)
        BY <1>10, <2>1, <2>2, SMTT(30) DEF SyncClusterToNodes, Types
    <2> QED
        BY <1>0, <1>10, <2>3
        DEF Types, TypeOK, SyncClusterToNodes, storeVars, nodeVars, envVars, roundVars
<1>11. ASSUME NEW s \in syncing, Synced(s) PROVE Types'
    <2>1. s[1] \in Node /\ s[2] \in FiniteView
        BY DEF Types
    <2>2. view' \in [Node -> FiniteView]
        BY <1>11, <2>1, SetNodesType DEF Synced, Types
    <2> QED
        BY <1>0, <1>11, <2>2 DEF Types, TypeOK, Synced, storeVars, envVars, roundVars
<1>12. ASSUME NEW q \in Requests, Serve(q) PROVE Types'
    <2>1. PICK shards \in Edited(store.shards, q) : Write(store.version, shards)
        BY <1>12 DEF Serve
    <2>2. shards \in RemoveShard(store.shards, q.shard)
                        \cup RemoveNode(store.shards, q.shard, q.node)
        BY <2>1, RequestsAssumption DEF Edited
    <2>3. shards \in Seq(Shard)
        BY <1>0, <2>2, EditTypes
    <2>4. store' \in Cluster /\ given' \in SUBSET View /\ syncCh' \in BOOLEAN
        BY <1>0, <2>1, <2>3, WriteType
    <2> QED
        BY <1>0, <1>12, <2>4, SMTT(30) DEF Types, TypeOK, Serve, nodeVars, roundVars
<1>13. ASSUME NEW n \in Node, Fail(n) \/ Recover(n) PROVE Types'
    <2>1. /\ failures' \in Nat
          /\ UNCHANGED <<storeVars, view, envVars, roundVars, failureCounts, syncCh, syncing>>
        BY <1>0, <1>13, SMTT(30) DEF TypeOK, Fail, Recover
    <2>2. PICK s \in {"up", "down", "restoring"} : status' = [status EXCEPT ![n] = s]
        BY <1>13 DEF Fail, Recover
    <2> QED
        BY <1>0, <2>1, <2>2 DEF Types, TypeOK, storeVars, envVars, roundVars
<1>15. ASSUME NEW n \in Node, NEW v \in Operator, Operate(n, v) PROVE Types'
    <2>1. v \in FiniteView
        BY OperatorAssumption DEF FiniteView
    <2>2. view' \in [Node -> FiniteView]
        BY <1>15, <2>1, SetNodesType DEF Operate, Types
    <2> QED
        BY <1>0, <1>15, <2>1, <2>2 DEF Types, TypeOK, Operate, roundVars
<1>16. CASE UNCHANGED vars
    BY <1>0, <1>16 DEF Types, TypeOK, vars, storeVars, nodeVars, envVars, roundVars
<1> QED
    BY <1>1, <1>2, <1>4, <1>5, <1>7, <1>8, <1>9, <1>10, <1>11, <1>12, <1>13, <1>15,
       <1>16 DEF Next, Probe

(* Whatever the nodes list, the store, the copies of the goroutines and    *)
(* the texts on their way are topologies; ParseCluster turns no text into  *)
(* something else.                                                         *)
THEOREM TypeCorrect == Spec => []TypeOK
<1>1. Types => TypeOK
    BY DEF Types
<1> QED
    BY <1>1, TypesInit, TypesNext, PTL DEF Spec

-----------------------------------------------------------------------------
(* Stopping checkers keeps the map and the running checkers in step.       *)
LEMMA StopResult ==
    ASSUME ControllerInv, NEW keys \in SUBSET Key, Stop(keys)
    PROVE  /\ clusters' \in SUBSET Key /\ running' \in [Key -> Nat]
           /\ MappedIsRunning'
           /\ clusters' \subseteq clusters
           /\ OneAdder => \A k \in Key : running'[k] = IF k \in clusters' THEN 1 ELSE 0
  <1>1. ControllerTypeOK /\ MappedIsRunning
    BY DEF ControllerInv
  <1>2. clusters' = clusters \ keys
    BY DEF Stop
  <1>3. ASSUME NEW k \in Key
        PROVE  /\ k \in clusters \cap keys => running'[k] = running[k] - 1
               /\ k \notin clusters \cap keys => running'[k] = running[k]
    BY DEF Stop
  <1>4. \A k \in clusters : running[k] > 0
    BY <1>1 DEF MappedIsRunning
  <1>5. running' \in [Key -> Nat]
    <2>1. \A k \in Key : running'[k] \in Nat
      BY <1>1, <1>3, <1>4, SMTT(30) DEF ControllerTypeOK
    <2>2. QED
      BY <2>1 DEF Stop
  <1>6. MappedIsRunning'
    BY <1>1, <1>2, <1>3, <1>4 DEF MappedIsRunning, ControllerTypeOK
  <1>7. ASSUME OneAdder, NEW k \in Key PROVE running'[k] = IF k \in clusters' THEN 1 ELSE 0
    BY <1>1, <1>2, <1>3, <1>7, SMTT(30) DEF OneAdder, ControllerTypeOK
  <1>8. QED
    BY <1>1, <1>2, <1>5, <1>6, <1>7 DEF ControllerTypeOK

(* The steps of syncLoop that do not touch the map.                        *)
LEMMA SyncSteps ==
    ASSUME ControllerInv,
           \/ SyncStart \/ ListClusters \/ ResumeDone \/ MarkLeader
           \/ ReceiveLeaderChange \/ (\E key \in Key : ResumeCluster(key))
    PROVE  ControllerInv'
  <1>1. ControllerTypeOK /\ MappedIsRunning /\ (elections = 0 => OneAdder)
    BY DEF ControllerInv
  <1>2. UNCHANGED <<leader, elections, storedVars, mapVars, closed, exited>>
    BY DEF SyncStart, ListClusters, ResumeDone, MarkLeader, ReceiveLeaderChange,
           ResumeCluster, engineVars
  <1>3. ControllerTypeOK'
    <2>1. CASE SyncStart \/ ListClusters \/ ResumeDone \/ MarkLeader \/ ReceiveLeaderChange
      BY <1>1, <1>2, <2>1
         DEF ControllerTypeOK, SyncStart, ListClusters, ResumeDone, MarkLeader, ReceiveLeaderChange,
             engineVars, storedVars, mapVars, Leader
    <2>2. ASSUME NEW key \in Key, ResumeCluster(key) PROVE ControllerTypeOK'
      BY <1>1, <1>2, <2>2, ZenonT(60)
         DEF ControllerTypeOK, ResumeCluster, Lookup, Loop, engineVars, storedVars, mapVars
    <2>3. QED
      BY <2>1, <2>2
  <1>4. MappedIsRunning'
    BY <1>1, <1>2 DEF MappedIsRunning, mapVars
  <1>5. ASSUME elections = 0 PROVE OneAdder'
    <2>1. CASE SyncStart \/ ListClusters \/ ResumeDone \/ MarkLeader \/ ReceiveLeaderChange
      <3>1. UNCHANGED adding /\ (~ready \/ UNCHANGED ready)
        BY <2>1 DEF SyncStart, ListClusters, ResumeDone, MarkLeader, ReceiveLeaderChange
      <3>2. ready' \in BOOLEAN /\ (ready' <=> pc' \in {"select", "received"})
        BY <1>1, <1>3, <1>5, <2>1
           DEF ControllerTypeOK, OneAdder, SyncStart, ListClusters, ResumeDone, MarkLeader,
               ReceiveLeaderChange
      <3>3. pc' # "resume" => adding["sync"] = NoKey
        BY <1>1, <1>5, <2>1
           DEF OneAdder, SyncStart, ListClusters, ResumeDone, MarkLeader, ReceiveLeaderChange
      <3>4. ready' => prevTermLeader' = leader
        BY <1>1, <1>5, <2>1
           DEF OneAdder, SyncStart, ListClusters, ResumeDone, MarkLeader, ReceiveLeaderChange
      <3>5. ~ready' => ~ready
        BY <1>1, <3>1 DEF ControllerTypeOK
      <3>6. QED
        BY <1>1, <1>2, <1>5, <3>1, <3>2, <3>3, <3>4, <3>5
           DEF OneAdder, storedVars, mapVars
    <2>2. ASSUME NEW key \in Key, ResumeCluster(key) PROVE OneAdder'
      <3>1. adding' = [adding EXCEPT !["sync"] = IF key \in clusters THEN NoKey ELSE key]
        BY <2>2 DEF ResumeCluster, Lookup
      <3>2. adding'["sync"] \notin clusters /\ adding'["event"] = adding["event"]
        BY <1>1, <3>1, ControllerAssumption DEF ControllerTypeOK, Loop
      <3>3. ~ready /\ pc = "resume"
        BY <1>1, <1>5, <2>2 DEF OneAdder, ResumeCluster
      <3>4. QED
        BY <1>1, <1>2, <1>5, <2>2, <3>2, <3>3
           DEF OneAdder, ResumeCluster, Loop, storedVars, mapVars
    <2>3. QED
      BY <2>1, <2>2
  <1>6. QED
    BY <1>2, <1>3, <1>4, <1>5 DEF ControllerInv

(* A checker is started by the only loop that adds, or after an election.  *)
LEMMA StartStep ==
    ASSUME ControllerInv, NEW loop \in Loop, StartChecker(loop)
    PROVE  ControllerInv'
  <1>1. ControllerTypeOK /\ MappedIsRunning /\ (elections = 0 => OneAdder)
    BY DEF ControllerInv
  <1> DEFINE key == adding[loop]
  <1>2. /\ key \in Key
        /\ clusters' = clusters \cup {key}
        /\ running' = [running EXCEPT ![key] = @ + 1]
        /\ adding' = [adding EXCEPT ![loop] = NoKey]
        /\ UNCHANGED <<engineVars, storedVars, syncVars, closed, exited>>
    BY <1>1 DEF ControllerTypeOK, StartChecker
  <1> HIDE DEF key
  <1>3. ControllerTypeOK'
    BY <1>1, <1>2, SMTT(30) DEF ControllerTypeOK, engineVars, storedVars, syncVars
  <1>4. MappedIsRunning'
    BY <1>1, <1>2, SMTT(30) DEF ControllerTypeOK, MappedIsRunning
  <1>5. ASSUME elections = 0 PROVE OneAdder'
    <2>1. OneAdder /\ key \notin clusters
      BY <1>1, <1>5 DEF OneAdder, key
    <2>2. \A k \in Key : running'[k] = IF k \in clusters' THEN 1 ELSE 0
      BY <1>1, <1>2, <2>1, SMTT(30) DEF ControllerTypeOK, OneAdder
    <2>3. ASSUME NEW l \in Loop PROVE adding'[l] \notin clusters'
      <3>1. NoKey \notin clusters'
        BY <1>3, ControllerAssumption DEF ControllerTypeOK
      <3>2. CASE l = loop
        BY <1>1, <1>2, <3>1, <3>2 DEF ControllerTypeOK
      <3>3. CASE l # loop
        <4>1. adding[l] = NoKey
          BY <1>2, <2>1, <3>3, ControllerAssumption DEF OneAdder, Loop, key
        <4>2. QED
          BY <1>1, <1>2, <3>1, <3>3, <4>1 DEF ControllerTypeOK
      <3>4. QED
        BY <3>2, <3>3
    <2>4. \A l \in Loop : adding[l] = NoKey => adding'[l] = NoKey
      BY <1>1, <1>2 DEF ControllerTypeOK
    <2>5. QED
      BY <1>2, <2>1, <2>2, <2>3, <2>4
         DEF OneAdder, Loop, engineVars, storedVars, syncVars
  <1>6. QED
    BY <1>2, <1>3, <1>4, <1>5 DEF ControllerInv, engineVars

(* Checkers are stopped: by a suspension, a removal or Close.              *)
LEMMA StopSteps ==
    ASSUME ControllerInv, HandleLeaderChange \/ HandleEvent \/ Close
    PROVE  ControllerInv'
  <1>1. ControllerTypeOK /\ MappedIsRunning /\ (elections = 0 => OneAdder)
    BY DEF ControllerInv
  <1>2. CASE UNCHANGED mapVars /\ HandleLeaderChange
    <2>1. ControllerTypeOK'
      BY <1>1, <1>2
         DEF ControllerTypeOK, HandleLeaderChange, engineVars, storedVars, mapVars
    <2>2. MappedIsRunning'
      BY <1>1, <1>2 DEF MappedIsRunning, mapVars
    <2>3. elections = 0 => OneAdder'
      BY <1>1, <1>2
         DEF OneAdder, HandleLeaderChange, IsLeader, engineVars, storedVars, mapVars
    <2>4. QED
      BY <1>2, <2>1, <2>2, <2>3 DEF ControllerInv, HandleLeaderChange, engineVars
  <1>3. CASE HandleLeaderChange /\ suspend /\ pc' = "lost" /\ ~IsLeader /\ prevTermLeader = Self
    <2>1. /\ clusters' \in SUBSET Key /\ running' \in [Key -> Nat]
          /\ MappedIsRunning'
      BY <1>3, StopResult DEF suspend
    <2>2. ControllerTypeOK'
      BY <1>1, <1>3, <2>1 DEF ControllerTypeOK, HandleLeaderChange, engineVars, storedVars
    <2>3. elections # 0
      BY <1>1, <1>3 DEF OneAdder, HandleLeaderChange, IsLeader
    <2>4. QED
      BY <1>3, <2>1, <2>2, <2>3 DEF ControllerInv, HandleLeaderChange, engineVars
  <1>4. CASE Close
    <2>1. /\ clusters' \in SUBSET Key /\ running' \in [Key -> Nat]
          /\ MappedIsRunning'
          /\ clusters' \subseteq clusters
          /\ OneAdder => \A k \in Key : running'[k] = IF k \in clusters' THEN 1 ELSE 0
      BY <1>4, StopResult DEF Close, suspend
    <2>2. ControllerTypeOK'
      BY <1>1, <1>4, <2>1 DEF ControllerTypeOK, Close, engineVars, storedVars, syncVars
    <2>3. elections = 0 => OneAdder'
      BY <1>1, <1>4, <2>1 DEF OneAdder, Close, engineVars, storedVars, syncVars
    <2>4. QED
      BY <1>4, <2>1, <2>2, <2>3 DEF ControllerInv, Close, engineVars
  <1>5. CASE HandleEvent
    <2> DEFINE event == Head(events)
    <2>1. /\ event \in Event /\ events' \in Seq(Event) /\ events # <<>>
          /\ adding["event"] = NoKey
          /\ UNCHANGED <<engineVars, stored, writes, syncVars, closed, exited>>
      BY <1>1, <1>5, HeadTailProperties DEF ControllerTypeOK, HandleEvent
    <2>2. CASE Stop({event.key}) /\ UNCHANGED adding
      <3>1. {event.key} \in SUBSET Key
        BY <2>1 DEF Event
      <3>2. /\ clusters' \in SUBSET Key /\ running' \in [Key -> Nat]
            /\ MappedIsRunning'
            /\ clusters' \subseteq clusters
            /\ OneAdder => \A k \in Key : running'[k] = IF k \in clusters' THEN 1 ELSE 0
        BY <2>2, <3>1, StopResult
      <3>3. ControllerTypeOK'
        BY <1>1, <2>1, <2>2, <3>2 DEF ControllerTypeOK, engineVars, syncVars
      <3>4. elections = 0 => OneAdder'
        BY <1>1, <2>1, <2>2, <3>2 DEF OneAdder, engineVars, syncVars
      <3>5. QED
        BY <2>1, <3>2, <3>3, <3>4 DEF ControllerInv, engineVars
    <2>3. CASE UNCHANGED mapVars /\ (Lookup("event", event.key) \/ UNCHANGED adding)
      <3>1. adding' \in [Loop -> Key \cup {NoKey}]
        BY <1>1, <2>1, <2>3 DEF ControllerTypeOK, Event, Lookup
      <3>2. /\ adding'["sync"] = adding["sync"]
            /\ adding'["event"] \notin clusters
        BY <1>1, <2>1, <2>3, ControllerAssumption DEF ControllerTypeOK, Lookup, Loop
      <3>3. ControllerTypeOK'
        BY <1>1, <2>1, <2>3, <3>1 DEF ControllerTypeOK, engineVars, syncVars, mapVars
      <3>4. elections = 0 => OneAdder'
        BY <1>1, <2>1, <2>3, <3>2 DEF OneAdder, Loop, engineVars, syncVars, mapVars
      <3>5. MappedIsRunning'
        BY <1>1, <2>3 DEF MappedIsRunning, mapVars
      <3>6. QED
        BY <2>1, <3>3, <3>4, <3>5 DEF ControllerInv, engineVars
    <2>4. QED
      BY <1>5, <2>2, <2>3 DEF HandleEvent
  <1>6. QED
    BY <1>2, <1>3, <1>4, <1>5 DEF HandleLeaderChange

(* The environment, and the end of a loop.                                 *)
LEMMA OutsideSteps ==
    ASSUME ControllerInv,
           \/ \E loop \in Loop : Exit(loop)
           \/ \E id \in {Self, Other} : Elect(id)
           \/ \E key \in Key : WriteHere(key) \/ WriteElsewhere(key)
           \/ UNCHANGED controllerVars
    PROVE  ControllerInv'
  <1>1. ControllerTypeOK /\ MappedIsRunning /\ (elections = 0 => OneAdder)
    BY DEF ControllerInv
  <1>2. UNCHANGED <<mapVars, syncVars, adding>>
    BY DEF Exit, Elect, WriteHere, WriteElsewhere, WriteCluster, controllerVars
  <1>3. CASE \E id \in {Self, Other} : Elect(id)
    <2>1. ControllerTypeOK' /\ elections' # 0
      BY <1>1, <1>2, <1>3, SMTT(30) DEF ControllerTypeOK, Elect, Leader, storedVars, mapVars, syncVars
    <2>2. QED
      BY <1>1, <1>2, <2>1 DEF ControllerInv, MappedIsRunning, mapVars
  <1>4. CASE \E key \in Key : WriteHere(key) \/ WriteElsewhere(key)
    <2>1. /\ UNCHANGED <<engineVars, closed, exited>>
          /\ stored' \in SUBSET Key /\ writes' \in Nat /\ events' \in Seq(Event)
          /\ ~ready => events' = events
      <3>1. PICK key \in Key : WriteHere(key) \/ WriteElsewhere(key)
        BY <1>4
      <3>2. /\ UNCHANGED <<engineVars, closed, exited>>
            /\ stored' \in SUBSET Key /\ writes' \in Nat
        BY <1>1, <3>1, SMTT(30) DEF ControllerTypeOK, WriteHere, WriteElsewhere, WriteCluster
      <3>3. events' = events \/ (ready /\ \E event \in Event : events' = Append(events, event))
        <4>1. CASE WriteHere(key)
          <5>1. [key |-> key, command |-> IF key \in stored THEN "remove" ELSE "create"] \in Event
            BY DEF Event
          <5>2. QED
            BY <4>1, <5>1 DEF WriteHere, Served
        <4>2. CASE WriteElsewhere(key)
          BY <4>2 DEF WriteElsewhere
        <4>3. QED
          BY <3>1, <4>1, <4>2
      <3>4. \A event \in Event : Append(events, event) \in Seq(Event)
        BY <1>1, AppendProperties DEF ControllerTypeOK
      <3>5. events \in Seq(Event)
        BY <1>1 DEF ControllerTypeOK
      <3>6. QED
        BY <3>2, <3>3, <3>4, <3>5
    <2>2. ControllerTypeOK'
      BY <1>1, <1>2, <2>1 DEF ControllerTypeOK, engineVars, mapVars, syncVars
    <2>3. QED
      BY <1>1, <1>2, <2>1, <2>2
         DEF ControllerInv, MappedIsRunning, OneAdder, engineVars, mapVars, syncVars
  <1>5. CASE (\E loop \in Loop : Exit(loop)) \/ UNCHANGED controllerVars
    <2>1. UNCHANGED <<engineVars, storedVars, closed>> /\ exited' \in SUBSET Loop
      BY <1>1, <1>5 DEF ControllerTypeOK, Exit, controllerVars
    <2>2. ControllerTypeOK'
      BY <1>1, <1>2, <2>1 DEF ControllerTypeOK, engineVars, storedVars, mapVars, syncVars
    <2>3. QED
      BY <1>1, <1>2, <2>1, <2>2
         DEF ControllerInv, MappedIsRunning, OneAdder, engineVars, storedVars, mapVars, syncVars
  <1>6. QED
    BY <1>3, <1>4, <1>5

-----------------------------------------------------------------------------
(* Nothing has been started yet.                                           *)
LEMMA ControllerInitInv == ControllerInit => ControllerInv
  <1> SUFFICES ASSUME ControllerInit PROVE ControllerInv
    OBVIOUS
  <1>1. ControllerTypeOK
    BY EmptySeq DEF ControllerInit, ControllerTypeOK, Leader
  <1>2. MappedIsRunning /\ OneAdder
    BY DEF ControllerInit, MappedIsRunning, OneAdder, Loop
  <1>3. QED
    BY <1>1, <1>2 DEF ControllerInv

(* One step per action.                                                    *)
LEMMA ControllerNextInv ==
    ControllerInv /\ [ControllerNext]_controllerVars => ControllerInv'
  <1> SUFFICES ASSUME ControllerInv, [ControllerNext]_controllerVars PROVE ControllerInv'
    OBVIOUS
  <1>1. CASE SyncNext \/ EventNext
    BY <1>1, SyncSteps, StartStep, StopSteps DEF SyncNext, EventNext, Loop
  <1>2. CASE Close
    BY <1>2, StopSteps
  <1>3. QED
    BY <1>1, <1>2, OutsideSteps DEF ControllerNext

(* The types, and that both safety properties hold together.               *)
THEOREM ControllerInvariance == ControllerSpec => []ControllerInv
  <1>1. QED
    BY ControllerInitInv, ControllerNextInv, PTL DEF ControllerSpec

(* The map, the loops and the events have their types: in particular no    *)
(* checker is closed that does not run, so that the counts never go below  *)
(* zero.                                                                   *)
THEOREM ControllerTypeCorrect == ControllerSpec => []ControllerTypeOK
  <1>1. ControllerInv => ControllerTypeOK
    BY DEF ControllerInv
  <1>2. QED
    BY <1>1, ControllerInvariance, PTL

(* No call of suspend, removeCluster, addCluster or Close leaves a checker *)
(* in the map that has been closed.                                        *)
THEOREM CheckersInMapRun == ControllerSpec => []MappedIsRunning
  <1>1. ControllerInv => MappedIsRunning
    BY DEF ControllerInv
  <1>2. QED
    BY <1>1, ControllerInvariance, PTL

(* Until the leader changes, addCluster's look at the map and its entry in *)
(* it are not interleaved with another addCluster of the same cluster.     *)
THEOREM CheckersUnique == ControllerSpec => []OneCheckerPerCluster
  <1>1. ControllerInv => OneCheckerPerCluster
    <2> SUFFICES ASSUME ControllerInv, elections = 0, NEW k \in Key PROVE running[k] <= 1
      BY DEF OneCheckerPerCluster
    <2>1. running[k] = IF k \in clusters THEN 1 ELSE 0
      BY DEF ControllerInv, OneAdder
    <2>2. QED
      BY <2>1, SMTT(30)
  <1>2. QED
    BY <1>1, ControllerInvariance, PTL
=============================================================================
