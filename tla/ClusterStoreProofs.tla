------------------------ MODULE ClusterStoreProofs --------------------------
(***************************************************************************)
(* The safety properties of ClusterStore hold for any number of slots,     *)
(* nodes and clients, any requests, faults and bounds.  That a node is at  *)
(* no other migration than the recorded one holds where masters are        *)
(* steady.                                                                 *)
(***************************************************************************)
EXTENDS ClusterStore, TopologyProofs

-----------------------------------------------------------------------------
(* Lemmas about the operators *)

(* Whatever a handler makes of a sound topology is sound (Edits).          *)
LEMMA EditsSound ==
    ASSUME NEW shards \in Seq(Shard), Sound(shards), NEW q \in Requests,
           NEW edited \in Edits(shards, q)
    PROVE  edited \in Seq(Shard) /\ Sound(edited)
  <1>1. CASE q.op = "createShard"
    <2>1. q.group \in Group /\ edited \in CreateShard(shards, q.group)
      BY <1>1, ClusterStoreAssumption, Zenon DEF Edits
    <2>2. QED
      BY <2>1, CreateShardSound, Zenon
  <1>2. CASE q.op = "removeShard"
    <2>1. edited \in RemoveShard(shards, q.shard)
      BY <1>2, Zenon DEF Edits
    <2>2. QED
      BY <2>1, RemoveShardSound, Zenon
  <1>3. CASE q.op = "failover"
    <2>1. edited \in PromoteNewMaster(shards, q.shard, q.master)
      BY <1>3, Zenon DEF Edits
    <2>2. Node # {}
      BY <2>1, Zenon DEF PromoteNewMaster
    <2>3. QED
      BY <2>1, <2>2, NodeEditsSound, Zenon
  <1>4. CASE q.op = "addNode"
    <2>1. q.node \in Node /\ edited \in AddNode(shards, q.shard, q.node)
      BY <1>4, ClusterStoreAssumption, Zenon DEF Edits
    <2>2. QED
      BY <2>1, NodeEditsSound, Zenon
  <1>5. CASE q.op = "removeNode"
    <2>1. q.node \in Node /\ edited \in RemoveNode(shards, q.shard, q.node)
      BY <1>5, ClusterStoreAssumption, Zenon DEF Edits
    <2>2. QED
      BY <2>1, NodeEditsSound, Zenon
  <1>6. CASE q.op = "moveSlot"
    <2>1. q.slot \in SlotRange /\ edited \in MigrateSlotOnly(shards, q.slot, q.target)
      BY <1>6, ClusterStoreAssumption, Zenon DEF Edits, Migrates
    <2>2. QED
      BY <2>1, MigrateSlotOnlySound, Zenon
  <1>7. CASE q.op = "migrateSlot"
    <2>1. /\ q.slot \in SlotRange
          /\ q.target \in Nat
          /\ edited \in MigrateSlotData(shards, q.slot, q.target)
      BY <1>7, ClusterStoreAssumption, Zenon DEF Edits, Migrates
    <2>2. QED
      BY <2>1, MigrateSlotDataSound, Zenon
  <1>8. CASE q.op \notin {"createShard", "removeShard", "failover", "addNode",
                          "removeNode", "moveSlot", "migrateSlot"}
    BY <1>8, Zenon DEF Edits
  <1>9. QED
    BY <1>1, <1>2, <1>3, <1>4, <1>5, <1>6, <1>7, <1>8, Zenon

(* The migration loop stops at a shard that is migrating, or ends.         *)
LEMMA StepToMigrating ==
    ASSUME NEW shards \in Seq(Shard), NEW i, NEW l, l = StepTo(shards, i)
    PROVE  /\ l \in [at : Nat, answer : {"none", "success", "fail"}]
           /\ l.answer = "none"
           /\ l # Idle => l.at \in DOMAIN shards /\ IsMigrating(shards[l.at])
  <1> DEFINE rest == {j \in DOMAIN shards : j >= i /\ IsMigrating(shards[j])}
             first == CHOOSE j \in rest : \A k \in rest : j <= k
  <1>1. rest \subseteq Nat
    BY LenProperties
  <1>2. rest # {} => first \in rest
    <2> SUFFICES ASSUME rest # {} PROVE \E j \in rest : \A k \in rest : j <= k
      BY Zenon
    <2> DEFINE less == {ss \in Nat \X Nat : ss[1] < ss[2]}
    <2>1. IsWellFoundedOn(less, Nat)
      BY NatLessThanWellFounded, Zenon DEF OpToRel
    <2> HIDE DEF rest, less
    <2>2. PICK j \in rest : \A k \in rest : <<k, j>> \notin less
      BY <1>1, <2>1, WFMin, Zenon
    <2>3. ASSUME NEW k \in rest PROVE j <= k
      <3>1. j \in Nat /\ k \in Nat /\ <<k, j>> \notin less
        BY <1>1, <2>2, Zenon
      <3>2. ~ k < j
        BY <3>1, Zenon DEF less
      <3>3. QED
        BY <3>1, <3>2
    <2>4. QED
      BY <2>3, Zenon
  <1>3. l = [at |-> IF rest = {} THEN 0 ELSE first, answer |-> "none"]
    BY Zenon DEF StepTo
  <1> HIDE DEF first
  <1>4. CASE rest = {}
    BY <1>3, <1>4 DEF Idle
  <1>5. CASE rest # {}
    BY <1>1, <1>2, <1>3, <1>5
  <1>6. QED
    BY <1>4, <1>5, Zenon

(* An accepted update leaves every object behind the new version.          *)
LEMMA FitsAfterUpdate ==
    ASSUME NEW o \in Cluster \cup {NoCluster}, NEW st \in Cluster, NEW c \in Cluster,
           NEW new \in Cluster, NEW g, Fits(o, st, g), st # NoCluster,
           st.version <= c.version, new.gen = st.gen, new.version = c.version + 1
    PROVE  Fits(o, new, g)
  BY SMTT(60) DEF Fits, Cluster

(* A copy of what is stored fits.                                          *)
LEMMA FitsSelf ==
    ASSUME NEW st \in Cluster, NEW g, Sound(st.shards), st.gen <= g
    PROVE  Fits(st, st, g)
  BY DEF Fits, Cluster

(* No object, nothing to fit.                                              *)
LEMMA NoObjectFits ==
    ASSUME NEW st, NEW g
    PROVE  Fits(NoCluster, st, g)
  BY Zenon DEF Fits

(* EmitEvent leaves a list of events and a waiting one at most.            *)
LEMMA EmitType ==
    ASSUME events \in Seq(Event), waiting \in Waiting \cup {NoEvent},
           NEW event \in Event, NEW by \in {"api", "probe", "loop"}, Emit(event, by)
    PROVE  events' \in Seq(Event) /\ waiting' \in Waiting \cup {NoEvent}
  BY DEF Emit, Waiting

-----------------------------------------------------------------------------
(* The steps *)

(* A step that leaves the cluster objects and the position of the loop as  *)
(* they are preserves the invariant if it preserves the types.             *)
LEMMA Quiet ==
    ASSUME Inv, TypeOK', UNCHANGED <<store, gens, request, copy, cached, clone, loop>>
    PROVE  Inv'
  BY Zenon DEF Inv, InProgress, Serving, AllFit

(* Sending an event and handling one that starts or wakes the checker.     *)
LEMMA EventSteps ==
    ASSUME Inv, SendEvent \/ HandleCreate \/ HandleUpdate
    PROVE  Inv'
  <1>1. TypeOK
    BY Zenon DEF Inv
  <1>2. CASE SendEvent
    <2>1. waiting.event \in Event
      BY <1>1, <1>2, Zenon DEF TypeOK, SendEvent, Unlocked, Waiting
    <2>2. TypeOK' /\ UNCHANGED <<store, gens, request, copy, cached, clone, loop>>
      BY <1>1, <1>2, <2>1
         DEF TypeOK, SendEvent, clientVars, checkerVars, probeVars, loopVars
    <2>3. QED
      BY <2>2, Quiet, Zenon
  <1>3. CASE HandleCreate
    <2>1. TypeOK' /\ UNCHANGED <<store, gens, request, copy, cached, clone, loop>>
      BY <1>1, <1>3 DEF TypeOK, HandleCreate, NextEvent, clientVars, probeVars, loopVars
    <2>2. QED
      BY <2>1, Quiet, Zenon
  <1>4. CASE HandleUpdate
    <2>1. TypeOK' /\ UNCHANGED <<store, gens, request, copy, cached, clone, loop>>
      BY <1>1, <1>4 DEF TypeOK, HandleUpdate, NextEvent, clientVars, loopVars
    <2>2. QED
      BY <2>1, Quiet, Zenon
  <1>5. QED
    BY <1>2, <1>3, <1>4, Zenon

(* The probe loop, except for the read that it keeps.                      *)
LEMMA ProbeSteps ==
    ASSUME Inv, ProbeTick \/ ProbeReadFails \/ ProbeDone \/ SyncTick \/ SyncDone
    PROVE  Inv'
  <1>1. TypeOK
    BY Zenon DEF Inv
  <1>2. /\ UNCHANGED <<storeVars, clientVars, checker, cached, loopVars, task>>
        /\ probe' \in {"idle", "tick", "sync"}
        /\ sync' \in {sync, FALSE}
    BY Zenon DEF ProbeTick, ProbeReadFails, ProbeDone, SyncTick, SyncDone, ProbeStep
  <1>3. TypeOK'
    BY <1>1, <1>2, ZenonT(60) DEF TypeOK, storeVars, clientVars, loopVars
  <1>4. QED
    BY <1>2, <1>3, Quiet, Zenon DEF storeVars, clientVars, loopVars

(* A node is given a migration, ends it or forgets it.                     *)
LEMMA NodeSteps ==
    ASSUME Inv, NodeNext \/ (\E p \in Client : SendMigrate(p))
    PROVE  Inv'
  <1>1. TypeOK
    BY Zenon DEF Inv
  <1>2. UNCHANGED <<storeVars, request, copy, checkerVars>> /\ sent' \in SUBSET Client
    BY <1>1, Zenon DEF NodeNext, FinishTask, RestartNode, SendMigrate, clientVars, TypeOK
  <1>3. task' \in [Node -> Task \cup {NoTask}]
    <2>1. CASE NodeNext
      BY <1>1, <2>1 DEF NodeNext, FinishTask, RestartNode, TypeOK, Task
    <2>2. ASSUME NEW p \in Client, SendMigrate(p) PROVE task' \in [Node -> Task \cup {NoTask}]
      <3> DEFINE q == request[p]
                 shards == copy[p].shards
      <3>1. q \in Requests /\ q.op = "migrateSlot"
        BY <1>1, <2>2, Zenon DEF SendMigrate, Serving, TypeOK
      <3>2. q.slot \in SlotRange
        BY <3>1, ClusterStoreAssumption, SMTT(60) DEF Migrates
      <3>3. shards \in Seq(Shard)
        BY <1>1, <2>2, SMTT(60) DEF SendMigrate, Serving, TypeOK, Inv, InProgress, Cluster
      <3>4. PICK source \in DataMigrationSources(shards, q.slot, q.target) :
            \E from \in shards[source].masters, to \in shards[q.target].masters :
                task' = [task EXCEPT ![from] = [slot |-> q.slot, to |-> to, state |-> "start"]]
        BY <2>2, ZenonT(60) DEF SendMigrate
      <3>5. source \in DOMAIN shards /\ q.target \in DOMAIN shards
        BY <3>4, Zenon DEF DataMigrationSources, MigrationSources, SourceShards, SlotsOfShards
      <3> HIDE DEF q, shards
      <3>6. shards[q.target] \in Shard
        BY <3>3, <3>5, ElementOfSeq
      <3>7. shards[q.target].masters \subseteq Node
        BY <3>6, Zenon DEF Shard
      <3>8. PICK from \in shards[source].masters, to \in Node :
                task' = [task EXCEPT ![from] = [slot |-> q.slot, to |-> to, state |-> "start"]]
        BY <3>4, <3>7, ZenonT(60)
      <3>9. [slot |-> q.slot, to |-> to, state |-> "start"] \in Task
        BY <3>2, Zenon DEF Task
      <3>10. QED
        BY <1>1, <3>8, <3>9, ZenonT(60) DEF TypeOK
    <2>3. QED
      BY <2>1, <2>2, Zenon
  <1>4. TypeOK'
    BY <1>1, <1>2, <1>3 DEF TypeOK, storeVars, checkerVars, probeVars, loopVars
  <1>5. QED
    BY <1>2, <1>4, Quiet, Zenon DEF storeVars, checkerVars, loopVars

(* The cluster is stored under a generation that no object has yet, or is  *)
(* gone, in which case nothing constrains the objects of old generations.  *)
LEMMA CreateAndRemove ==
    ASSUME Inv, NEW q \in Requests, CreateCluster(q) \/ RemoveCluster(q)
    PROVE  Inv'
  <1>1. TypeOK /\ InProgress /\ AllFit
    BY Zenon DEF Inv
  <1>2. UNCHANGED <<clientVars, checkerVars, task>>
    BY Zenon DEF RemoveCluster, CreateCluster
  <1>3. events' \in Seq(Event) /\ waiting' \in Waiting \cup {NoEvent}
    BY <1>1, EmitType, Zenon DEF RemoveCluster, CreateCluster, TypeOK, Event
  <1>4. InProgress'
    BY <1>1, <1>2, Zenon DEF InProgress, Serving, clientVars, checkerVars, loopVars
  <1>5. CASE RemoveCluster(q)
    <2>1. store' = NoCluster /\ gens' = gens
      BY <1>5, Zenon DEF RemoveCluster
    <2>2. TypeOK'
      BY <1>1, <1>2, <1>3, <2>1, SMTT(60)
         DEF TypeOK, clientVars, checkerVars, probeVars, loopVars
    <2>3. AllFit'
      BY <1>1, <1>2, <2>1, Zenon DEF AllFit, Fits, clientVars, checkerVars, loopVars
    <2>4. QED
      BY <1>4, <2>2, <2>3, Zenon DEF Inv
  <1>6. CASE CreateCluster(q)
    <2>1. store' = Created(q.groups, gens + 1) /\ gens' = gens + 1
      BY <1>6, SMTT(60) DEF CreateCluster
    <2>2. NewCluster(q.groups) \in Seq(Shard) /\ Sound(NewCluster(q.groups))
      BY <1>6, ClusterStoreAssumption, NewClusterSound, SMTT(60) DEF CreateCluster
    <2>3. /\ store' \in Cluster
          /\ store'.gen = gens + 1
          /\ Sound(store'.shards)
      BY <1>1, <2>1, <2>2, SMTT(60) DEF Created, Cluster, TypeOK
    <2>4. TypeOK'
      BY <1>1, <1>2, <1>3, <2>1, <2>3, SMTT(60)
         DEF TypeOK, clientVars, checkerVars, probeVars, loopVars
    <2>5. Fits(store', store', gens')
      BY <1>1, <2>1, <2>3, FitsSelf, SMTT(60) DEF TypeOK
    <2>6. ASSUME NEW o \in Cluster \cup {NoCluster}, Fits(o, store, gens)
          PROVE  Fits(o, store', gens')
      BY <1>1, <2>1, <2>3, <2>6, SMTT(60) DEF Fits, TypeOK, Cluster
    <2>7. AllFit'
      BY <1>1, <1>2, <2>5, <2>6, Zenon DEF AllFit, TypeOK, clientVars, checkerVars, loopVars
    <2>8. QED
      BY <1>4, <2>4, <2>7, Zenon DEF Inv
  <1>7. QED
    BY <1>5, <1>6, Zenon

(* A client and the probe loop read what is stored.                        *)
LEMMA ReadSteps ==
    ASSUME Inv, ProbeRead \/ (\E p \in Client, q \in Requests : Receive(p, q))
    PROVE  Inv'
  <1>1. TypeOK /\ InProgress /\ AllFit
    BY Zenon DEF Inv
  <1>2. CASE ProbeRead
    <2>1. /\ cached' = store
          /\ UNCHANGED <<storeVars, clientVars, checker, sync, clone, loop, task>>
      BY <1>2, Zenon DEF ProbeRead
    <2>2. TypeOK'
      BY <1>1, <1>2, Zenon DEF TypeOK, ProbeRead, storeVars, clientVars
    <2>3. InProgress' /\ AllFit'
      BY <1>1, <2>1, Zenon DEF InProgress, AllFit, Serving, storeVars, clientVars
    <2>4. QED
      BY <2>2, <2>3, Zenon DEF Inv
  <1>3. ASSUME NEW p \in Client, NEW q \in Requests, Receive(p, q) PROVE Inv'
    <2>1. /\ store # NoCluster
          /\ request' = [request EXCEPT ![p] = q]
          /\ copy' = [copy EXCEPT ![p] = store]
          /\ UNCHANGED <<storeVars, sent, checkerVars, task>>
      BY <1>3, Zenon DEF Receive
    <2>2. TypeOK'
      BY <1>1, <2>1, SMTT(60) DEF TypeOK, storeVars, checkerVars, probeVars, loopVars
    <2>3. InProgress'
      BY <1>1, <2>1, Zenon DEF InProgress, Serving, TypeOK, storeVars, checkerVars, loopVars
    <2>4. AllFit'
      BY <1>1, <2>1, Zenon DEF AllFit, TypeOK, storeVars, checkerVars, loopVars
    <2>5. QED
      BY <2>2, <2>3, <2>4, SMTT(60) DEF Inv
  <1>4. QED
    BY <1>2, <1>3, Zenon

(* Objects are dropped: a handler fails, the checker or the process ends.  *)
LEMMA DropSteps ==
    ASSUME Inv, HandleRemove \/ Reboot \/ (\E p \in Client : Fail(p))
    PROVE  Inv'
  <1>1. TypeOK /\ InProgress /\ AllFit
    BY Zenon DEF Inv
  <1>2. CASE HandleRemove
    <2>1. /\ events' = Tail(events) /\ events # <<>>
          /\ checker' = FALSE /\ sync' = FALSE /\ cached' = NoCluster
          /\ UNCHANGED <<store, gens, waiting, clientVars, probe, loopVars, task>>
      BY <1>2, Zenon DEF HandleRemove, NextEvent
    <2>2. events' \in Seq(Event)
      BY <1>1, <2>1, HeadTailProperties, Zenon DEF TypeOK
    <2>3. TypeOK'
      BY <1>1, <2>1, <2>2, Zenon DEF TypeOK, clientVars, loopVars
    <2>4. InProgress' /\ AllFit'
      BY <1>1, <2>1, NoObjectFits, Zenon DEF InProgress, AllFit, Serving, clientVars, loopVars
    <2>5. QED
      BY <2>3, <2>4, Zenon DEF Inv
  <1>3. CASE Reboot
    <2>1. loop' = Idle /\ clone' = NoCluster /\ aliased' = FALSE
      BY <1>3, Zenon DEF Reboot, Continue
    <2>2. checker' \in BOOLEAN /\ events' \in Seq(Event)
      BY <1>3 DEF Reboot
    <2>3. TypeOK'
      BY <1>1, <1>3, <2>1, <2>2, ZenonT(60) DEF TypeOK, Reboot, Idle
    <2>4. InProgress' /\ AllFit'
      BY <1>1, <1>3, <2>1, NoObjectFits, Zenon DEF InProgress, AllFit, Serving, Reboot
    <2>5. QED
      BY <2>3, <2>4, Zenon DEF Inv
  <1>4. ASSUME NEW p \in Client, Fail(p) PROVE Inv'
    <2>1. Return(p) /\ UNCHANGED <<storeVars, checkerVars, task>>
      BY <1>4, Zenon DEF Fail
    <2>2. TypeOK'
      BY <1>1, <2>1, SMTT(60) DEF TypeOK, Return, storeVars, checkerVars, probeVars, loopVars
    <2>3. InProgress'
      BY <1>1, <2>1, Zenon DEF InProgress, Serving, TypeOK, Return, checkerVars, loopVars
    <2>4. AllFit'
      BY <1>1, <2>1, NoObjectFits, Zenon DEF AllFit, TypeOK, Return, storeVars, checkerVars, loopVars
    <2>5. QED
      BY <2>2, <2>3, <2>4, SMTT(60) DEF Inv
  <1>5. QED
    BY <1>2, <1>3, <1>4, Zenon

(* UpdateCluster stores a sound topology under a version that no object    *)
(* has reached.                                                            *)
LEMMA UpdateResult ==
    ASSUME Inv, NEW c \in Cluster, NEW shards \in Seq(Shard), Sound(shards),
           NEW by \in {"api", "probe", "loop"}, UpdateCluster(c, shards, by)
    PROVE  /\ store' \in Cluster /\ store'.shards = shards /\ gens' = gens
           /\ events' \in Seq(Event) /\ waiting' \in Waiting \cup {NoEvent}
           /\ Fits(store', store', gens')
           /\ \A o \in Cluster \cup {NoCluster} :
                 Fits(o, store, gens) => Fits(o, store', gens')
  <1>1. TypeOK /\ Fits(store, store, gens)
    BY Zenon DEF Inv, AllFit
  <1>2. /\ store # NoCluster /\ store.version <= c.version
        /\ store' = Updated(c, shards) /\ gens' = gens
        /\ Emit("update", by)
    BY Zenon DEF UpdateCluster, Accepts
  <1>3. store \in Cluster
    BY <1>1, <1>2, SMTT(60) DEF TypeOK
  <1>4. /\ store' \in Cluster /\ store'.shards = shards
        /\ store'.gen = store.gen /\ store'.version = c.version + 1
    BY <1>2, <1>3 DEF Updated, Cluster
  <1>5. events' \in Seq(Event) /\ waiting' \in Waiting \cup {NoEvent}
    BY <1>1, <1>2, EmitType, Zenon DEF TypeOK, Event
  <1>6. Fits(store', store', gens')
    <2>1. store.gen <= gens
      BY <1>1, <1>2, SMTT(60) DEF Fits
    <2>2. QED
      BY <1>2, <1>4, <2>1, FitsSelf, Zenon
  <1>7. ASSUME NEW o \in Cluster \cup {NoCluster}, Fits(o, store, gens)
        PROVE  Fits(o, store', gens')
    BY <1>2, <1>3, <1>4, <1>7, FitsAfterUpdate, SMTT(60)
  <1>8. QED
    BY <1>2, <1>4, <1>5, <1>6, <1>7, Zenon

(* A handler stores its edit of the cluster it has read.                   *)
LEMMA ApplyStep ==
    ASSUME Inv, NEW p \in Client, Apply(p)
    PROVE  Inv'
  <1>1. TypeOK /\ InProgress /\ AllFit
    BY Zenon DEF Inv
  <1>2. Return(p) /\ UNCHANGED <<checkerVars, task>>
    BY SMTT(60) DEF Apply
  <1>3. copy[p] \in Cluster /\ request[p] \in Requests
    BY <1>1, SMTT(60) DEF Apply, Serving, InProgress, TypeOK
  <1>4. copy[p].shards \in Seq(Shard) /\ Sound(copy[p].shards)
    BY <1>1, <1>3, NoClusterAssumption, SMTT(60) DEF AllFit, Fits, Cluster
  <1>5. PICK shards \in Edits(copy[p].shards, request[p]), by \in {"api", "probe"} :
            UpdateCluster(copy[p], shards, by)
    BY Zenon DEF Apply
  <1>6. shards \in Seq(Shard) /\ Sound(shards)
    BY <1>3, <1>4, EditsSound, SMTT(60)
  <1>7. /\ store' \in Cluster /\ gens' = gens
        /\ events' \in Seq(Event) /\ waiting' \in Waiting \cup {NoEvent}
        /\ Fits(store', store', gens')
        /\ \A o \in Cluster \cup {NoCluster} :
              Fits(o, store, gens) => Fits(o, store', gens')
    BY <1>3, <1>5, <1>6, UpdateResult, SMTT(60)
  <1>8. TypeOK'
    BY <1>1, <1>2, <1>7, SMTT(60) DEF TypeOK, Return, checkerVars, probeVars, loopVars
  <1>9. InProgress'
    BY <1>1, <1>2, SMTT(60) DEF InProgress, Serving, TypeOK, Return, checkerVars, loopVars
  <1>10. AllFit'
    BY <1>1, <1>2, <1>7, NoObjectFits, SMTT(60) DEF AllFit, TypeOK, Return, checkerVars, loopVars
  <1>11. QED
    BY <1>8, <1>9, <1>10, Zenon DEF Inv

(* The round goes on at a shard that is migrating, or ends.                *)
LEMMA ContinueResult ==
    ASSUME NEW object \in Cluster, NEW isCached \in BOOLEAN, NEW l,
           l = Idle \/ (\E i : l = StepTo(object.shards, i)), Continue(l, object, isCached)
    PROVE  /\ loop' \in [at : Nat, answer : {"none", "success", "fail"}]
           /\ aliased' \in BOOLEAN
           /\ clone' \in {NoCluster, object}
           /\ loop' # Idle => /\ clone' # NoCluster
                             /\ loop'.at \in DOMAIN clone'.shards
                             /\ IsMigrating(clone'.shards[loop'.at])
                             /\ loop'.answer = "none"
  <1>1. loop' = l /\ aliased' \in BOOLEAN /\ clone' = IF l = Idle THEN NoCluster ELSE object
    BY Zenon DEF Continue
  <1>2. CASE l = Idle
    BY <1>1, <1>2, SMTT(60) DEF Idle
  <1>3. ASSUME l # Idle, NEW i, l = StepTo(object.shards, i)
        PROVE  /\ l \in [at : Nat, answer : {"none", "success", "fail"}]
               /\ l.answer = "none"
               /\ l.at \in DOMAIN object.shards
               /\ IsMigrating(object.shards[l.at])
    <2>1. object.shards \in Seq(Shard)
      BY Zenon DEF Cluster
    <2>2. QED
      BY <1>3, <2>1, StepToMigrating, Zenon
  <1>4. QED
    BY <1>1, <1>2, <1>3, NoClusterAssumption, SMTT(60)

(* A round starts, passes over a shard or is given up: its object stays.   *)
LEMMA RoundSteps ==
    ASSUME Inv, MigrationTick \/ SkipShard \/ GiveUpRound
    PROVE  Inv'
  <1>1. TypeOK /\ InProgress /\ AllFit
    BY Zenon DEF Inv
  <1>2. UNCHANGED <<storeVars, clientVars, checker, probeVars, cached, task>>
    BY Zenon DEF MigrationTick, SkipShard, GiveUpRound
  <1>3. PICK object \in {cached, clone}, isCached \in BOOLEAN :
            /\ object # NoCluster
            /\ \E l : /\ l = Idle \/ (\E i : l = StepTo(object.shards, i))
                     /\ Continue(l, object, isCached)
    <2>1. CASE MigrationTick
      BY <2>1, ZenonT(60) DEF MigrationTick
    <2>2. CASE SkipShard \/ GiveUpRound
      <3>1. clone # NoCluster /\ aliased \in BOOLEAN
        BY <1>1, <2>2, SMTT(60) DEF SkipShard, GiveUpRound, Asking, InProgress, Idle, TypeOK
      <3>2. CASE SkipShard
        BY <3>1, <3>2, ZenonT(60) DEF SkipShard
      <3>3. CASE GiveUpRound
        BY <3>1, <3>3, SMTT(60) DEF GiveUpRound
      <3>4. QED
        BY <2>2, <3>2, <3>3, SMTT(60)
    <2>3. QED
      BY <2>1, <2>2, Zenon
  <1>4. object \in Cluster /\ Fits(object, store, gens)
    BY <1>1, <1>3, SMTT(60) DEF TypeOK, AllFit
  <1>5. /\ loop' \in [at : Nat, answer : {"none", "success", "fail"}]
        /\ aliased' \in BOOLEAN
        /\ clone' \in {NoCluster, object}
        /\ loop' # Idle => /\ clone' # NoCluster
                          /\ loop'.at \in DOMAIN clone'.shards
                          /\ IsMigrating(clone'.shards[loop'.at])
                          /\ loop'.answer = "none"
    BY <1>3, <1>4, ContinueResult, SMTT(60)
  <1>6. TypeOK'
    BY <1>1, <1>2, <1>4, <1>5, SMTT(60) DEF TypeOK, storeVars, clientVars, probeVars
  <1>7. InProgress'
    BY <1>1, <1>2, <1>5, SMTT(60) DEF InProgress, Serving, clientVars
  <1>8. AllFit'
    BY <1>1, <1>2, <1>4, <1>5, NoObjectFits, SMTT(60) DEF AllFit, storeVars, clientVars
  <1>9. QED
    BY <1>6, <1>7, <1>8, Zenon DEF Inv

(* The migration loop learns that the source is done.                      *)
LEMMA TakeAnswerStep ==
    ASSUME Inv, TakeAnswer
    PROVE  Inv'
  <1>1. TypeOK /\ InProgress /\ AllFit
    BY Zenon DEF Inv
  <1>2. /\ loop # Idle
        /\ task[Source] # NoTask
        /\ clone.shards[loop.at].target \in DOMAIN clone.shards
        /\ task[Source].state # "start"
        /\ loop' = [loop EXCEPT !.answer = task[Source].state]
        /\ UNCHANGED <<storeVars, clientVars, checker, probeVars, cached, clone, aliased, task>>
    BY DEF TakeAnswer, Asking, Idle
  <1>3. task[Source].state \in {"success", "fail"}
    <2>1. clone.shards[loop.at] \in Shard /\ HasOneMaster(clone.shards[loop.at])
      BY <1>1, <1>2, NoClusterAssumption, SMTT(60)
         DEF TypeOK, InProgress, AllFit, Fits, Sound, Cluster
    <2>2. Source \in Node
      BY <2>1, Zenon DEF Source, HasOneMaster
    <2>3. QED
      BY <1>1, <1>2, <2>2, SMTT(60) DEF TypeOK, Task
  <1>4. loop'.at = loop.at /\ loop' \in [at : Nat, answer : {"none", "success", "fail"}]
    BY <1>1, <1>2, <1>3, Zenon DEF TypeOK
  <1>5. TypeOK'
    BY <1>1, <1>2, <1>4, SMTT(60) DEF TypeOK, storeVars, clientVars, probeVars
  <1>6. InProgress' /\ AllFit'
    BY <1>1, <1>2, <1>4, SMTT(60) DEF InProgress, AllFit, Serving, storeVars, clientVars
  <1>7. QED
    BY <1>5, <1>6, Zenon DEF Inv

(* What the loop makes of its object is sound.                             *)
LEMMA SettledResult ==
    ASSUME Inv, loop.answer # "none"
    PROVE  /\ clone \in Cluster /\ clone # NoCluster
           /\ Settled \in Seq(Shard) /\ Sound(Settled)
           /\ clone.gen <= gens
  <1>1. TypeOK /\ InProgress /\ AllFit
    BY SMTT(60) DEF Inv
  <1>2. /\ clone \in Cluster /\ clone # NoCluster
        /\ loop.at \in DOMAIN clone.shards
        /\ IsMigrating(clone.shards[loop.at])
        /\ clone.shards[loop.at].target \in DOMAIN clone.shards
    BY <1>1, SMTT(60) DEF TypeOK, InProgress, Idle
  <1>3. clone.shards \in Seq(Shard) /\ Sound(clone.shards) /\ clone.gen <= gens
    BY <1>1, <1>2, Zenon DEF AllFit, Fits, Cluster
  <1>4. Settled \in {MigrationFailed(clone.shards, loop.at), MigrationSucceeded(clone.shards, loop.at)}
    BY Zenon DEF Settled
  <1>5. QED
    BY <1>2, <1>3, <1>4, SettledSound, Zenon

(* The migration loop stores the outcome of a migration.                   *)
LEMMA SettleStep ==
    ASSUME Inv, Settle
    PROVE  Inv'
  <1>1. TypeOK /\ InProgress /\ AllFit
    BY Zenon DEF Inv
  <1>2. /\ loop.answer # "none"
        /\ UpdateCluster(clone, Settled, "loop")
        /\ UNCHANGED <<clientVars, checker, probeVars, task>>
    BY Zenon DEF Settle
  <1>3. clone \in Cluster /\ Settled \in Seq(Shard) /\ Sound(Settled)
    BY <1>2, SettledResult, SMTT(60)
  <1>4. /\ store' \in Cluster /\ store'.shards = Settled /\ gens' = gens
        /\ events' \in Seq(Event) /\ waiting' \in Waiting \cup {NoEvent}
        /\ Fits(store', store', gens')
        /\ \A o \in Cluster \cup {NoCluster} :
              Fits(o, store, gens) => Fits(o, store', gens')
    BY <1>2, <1>3, UpdateResult, Zenon
  <1>5. PICK object \in {store', clone}, isCached \in BOOLEAN :
            /\ \E l : /\ l = Idle \/ (\E i : l = StepTo(object.shards, i))
                     /\ Continue(l, object, isCached)
            /\ cached' \in {store', cached}
    <2>1. aliased \in BOOLEAN
      BY <1>1, Zenon DEF TypeOK
    <2>2. CASE <<events, waiting>>' # <<events, waiting>>
      <3>1. /\ StepTo(Settled, loop.at + 1) = StepTo(store'.shards, loop.at + 1)
            /\ Continue(StepTo(Settled, loop.at + 1), store', TRUE)
            /\ cached' = store'
        BY <1>4, <2>2, Zenon DEF Settle
      <3>2. QED
        BY <3>1, Zenon
    <2>3. CASE <<events, waiting>>' = <<events, waiting>>
      <3>1. Continue(Idle, clone, aliased) /\ cached' \in {store', cached}
        BY <2>3, Zenon DEF Settle
      <3>2. QED
        BY <2>1, <3>1, Zenon
    <2>4. QED
      BY <2>2, <2>3, Zenon
  <1>6. object \in Cluster
    BY <1>3, <1>4, <1>5, SMTT(60)
  <1>7. /\ loop' \in [at : Nat, answer : {"none", "success", "fail"}]
        /\ aliased' \in BOOLEAN
        /\ clone' \in {NoCluster, object}
        /\ loop' # Idle => /\ clone' # NoCluster
                          /\ loop'.at \in DOMAIN clone'.shards
                          /\ IsMigrating(clone'.shards[loop'.at])
                          /\ loop'.answer = "none"
    BY <1>5, <1>6, ContinueResult, SMTT(60)
  <1>8. TypeOK'
    BY <1>1, <1>2, <1>4, <1>5, <1>6, <1>7, SMTT(60) DEF TypeOK, clientVars, probeVars
  <1>9. InProgress'
    BY <1>1, <1>2, <1>7, SMTT(60) DEF InProgress, Serving, clientVars
  <1>10. AllFit'
    <2>1. Fits(clone', store', gens')
      BY <1>1, <1>3, <1>4, <1>5, <1>7, NoObjectFits, SMTT(60) DEF AllFit
    <2>2. Fits(cached', store', gens')
      BY <1>1, <1>4, <1>5, SMTT(60) DEF AllFit, TypeOK
    <2>3. ASSUME NEW p \in Client PROVE Fits(copy'[p], store', gens')
      BY <1>1, <1>2, <1>4, Zenon DEF AllFit, TypeOK, clientVars
    <2>4. QED
      BY <1>4, <2>1, <2>2, <2>3, SMTT(60) DEF AllFit
  <1>11. QED
    BY <1>8, <1>9, <1>10, Zenon DEF Inv

(* A failed update may leave its edit in the checker's cluster, which then *)
(* is not what any version of the store holds: saved records that.         *)
LEMMA SettleFailsStep ==
    ASSUME Inv, SettleFails
    PROVE  Inv'
  <1>1. TypeOK /\ InProgress /\ AllFit
    BY Zenon DEF Inv
  <1>2. /\ loop.answer # "none"
        /\ Continue(Idle, clone, aliased)
        /\ UNCHANGED <<storeVars, clientVars, checker, probeVars, task>>
    BY Zenon DEF SettleFails
  <1>3. /\ clone \in Cluster /\ clone # NoCluster /\ clone.gen <= gens
        /\ Settled \in Seq(Shard) /\ Sound(Settled)
    BY <1>2, SettledResult, Zenon
  <1>4. loop' = Idle /\ clone' = NoCluster /\ aliased' = FALSE
    BY <1>2, Zenon DEF Continue
  <1>5. cached' \in Cluster \cup {NoCluster} /\ Fits(cached', store, gens)
    <2>1. PICK raised \in {0, 1} :
            cached' = IF aliased THEN [clone EXCEPT !.shards = Settled, !.saved = FALSE,
                                                    !.version = @ + raised]
                                 ELSE cached
      BY Zenon DEF SettleFails
    <2>2. CASE aliased
      <3> HIDE DEF Settled
      <3>1. cached' = [gen |-> clone.gen, version |-> clone.version + raised,
                       shards |-> Settled, saved |-> FALSE]
        BY <1>3, <2>1, <2>2, Zenon DEF Cluster
      <3>2. cached' \in Cluster
        BY <1>3, <3>1, SMTT(60) DEF Cluster
      <3>3. cached'.gen = clone.gen /\ cached'.shards = Settled /\ cached'.saved = FALSE
        BY <3>1, Zenon
      <3>4. QED
        BY <1>3, <3>2, <3>3, Zenon DEF Fits
    <2>3. CASE ~aliased
      BY <1>1, <2>1, <2>3, Zenon DEF TypeOK, AllFit
    <2>4. QED
      BY <2>2, <2>3, Zenon
  <1>6. TypeOK'
    BY <1>1, <1>2, <1>4, <1>5, Zenon DEF TypeOK, Idle, storeVars, clientVars, probeVars
  <1>7. InProgress'
    BY <1>1, <1>2, <1>4, SMTT(60) DEF InProgress, Serving, clientVars
  <1>8. AllFit'
    BY <1>1, <1>2, <1>4, <1>5, NoObjectFits, SMTT(60) DEF AllFit, storeVars, clientVars
  <1>9. QED
    BY <1>6, <1>7, <1>8, Zenon DEF Inv

-----------------------------------------------------------------------------
(* The theorems *)

(* A cluster as CreateCluster makes it, and nothing in progress.           *)
LEMMA InitInv == Init => Inv
  <1> SUFFICES ASSUME Init PROVE Inv
    BY Zenon
  <1>1. PICK groups \in Initial : store = Created(groups, 1)
    BY Zenon DEF Init
  <1>2. NewCluster(groups) \in Seq(Shard) /\ Sound(NewCluster(groups))
    BY ClusterStoreAssumption, NewClusterSound, SMTT(60)
  <1>3. store \in Cluster /\ store.gen = 1 /\ Sound(store.shards)
    BY <1>1, <1>2, Zenon DEF Created, Cluster
  <1>4. events \in Seq(Event)
    BY DEF Init
  <1>5. TypeOK
    BY <1>3, <1>4, ZenonT(60) DEF Init, TypeOK, Idle
  <1>6. InProgress
    BY Zenon DEF Init, InProgress, Serving
  <1>7. AllFit
    BY <1>3, FitsSelf, NoObjectFits DEF Init, AllFit
  <1>8. QED
    BY <1>5, <1>6, <1>7, Zenon DEF Inv

(* One step per action.                                                    *)
LEMMA NextInv == Inv /\ [Next]_vars => Inv'
  <1> SUFFICES ASSUME Inv, [Next]_vars PROVE Inv'
    BY Zenon
  <1>1. CASE ClientNext
    <2>1. CASE \E p \in Client : SendMigrate(p)
      BY <2>1, NodeSteps, Zenon
    <2>2. CASE \E p \in Client : Apply(p)
      BY <2>2, ApplyStep, Zenon
    <2>3. CASE \E p \in Client : Fail(p)
      BY <2>3, DropSteps, SMTT(60)
    <2>4. CASE \E p \in Client, q \in Requests : Receive(p, q)
      BY <2>4, ReadSteps, SMTT(60)
    <2>5. CASE \E q \in Requests : CreateCluster(q) \/ RemoveCluster(q)
      BY <2>5, CreateAndRemove, Zenon
    <2>6. QED
      BY <1>1, <2>1, <2>2, <2>3, <2>4, <2>5, SMTT(60) DEF ClientNext
  <1>2. CASE SendEvent \/ EventNext
    BY <1>2, EventSteps, DropSteps, Zenon DEF EventNext
  <1>3. CASE ProbeLoopNext
    BY <1>3, ProbeSteps, ReadSteps, Zenon DEF ProbeLoopNext
  <1>4. CASE MigrationLoopNext
    <2>1. CASE MigrationTick \/ SkipShard \/ GiveUpRound
      BY <2>1, RoundSteps, Zenon
    <2>2. CASE TakeAnswer
      BY <2>2, TakeAnswerStep, Zenon
    <2>3. CASE Settle
      BY <2>3, SettleStep, SMTT(60)
    <2>4. CASE SettleFails
      BY <2>4, SettleFailsStep, Zenon
    <2>5. CASE Panic
      BY <2>5, DropSteps, Zenon DEF Panic
    <2>6. QED
      BY <1>4, <2>1, <2>2, <2>3, <2>4, <2>5, SMTT(60) DEF MigrationLoopNext
  <1>5. CASE Restart
    BY <1>5, DropSteps, Zenon DEF Restart
  <1>6. CASE NodeNext
    BY <1>6, NodeSteps, Zenon
  <1>7. CASE UNCHANGED vars
    <2>1. /\ UNCHANGED <<store, gens, request, copy, cached, clone, loop>>
          /\ UNCHANGED <<events, waiting, sent, checker, probe, sync, aliased, task>>
      BY <1>7, SMTT(60) DEF vars, storeVars, clientVars, checkerVars, probeVars, loopVars
    <2>2. TypeOK'
      BY <2>1 DEF Inv, TypeOK
    <2>3. QED
      BY <2>1, <2>2, Quiet, SMTT(60)
  <1>8. QED
    BY <1>1, <1>2, <1>3, <1>4, <1>5, <1>6, <1>7, SMTT(60) DEF Next

(* Every object that a handler or a loop holds is sound, none is ahead of  *)
(* the store, and one with the stored version holds what is stored,        *)
(* whatever the handlers, the checker, the engine and crashes do.          *)
THEOREM Invariance == Spec => []Inv
  <1>1. QED
    BY InitInv, NextInv, PTL DEF Spec

(* The types of the state of the store, the handlers and the checker.      *)
THEOREM TypeCorrect == Spec => []TypeOK
  <1>1. Inv => TypeOK
    BY Zenon DEF Inv
  <1>2. QED
    BY <1>1, Invariance, PTL

(* The stored object is sound whenever there is one.                       *)
LEMMA StoreSound ==
  ASSUME Inv, store # NoCluster
  PROVE  Sound(store.shards)
  <1>1. Fits(store, store, gens)
    BY Zenon DEF Inv, AllFit
  <1>2. QED
    BY <1>1, Zenon DEF Fits

(* MigrateSlot, the migration loop, RemoveShard and every other writer     *)
(* leave each slot with exactly one owner in the store.                    *)
THEOREM SlotsOwnedOnce == Spec => []EverySlotHasOneOwner
  <1>1. Inv => EverySlotHasOneOwner
    BY StoreSound, Zenon DEF Sound, EverySlotHasOneOwner
  <1>2. QED
    BY <1>1, Invariance, PTL

(* A recorded migration is one of slots that its source still owns.        *)
THEOREM MigrationsOfOwnSlots == Spec => []PendingOwnedBySource
  <1>1. Inv => PendingOwnedBySource
    BY StoreSound, Zenon DEF Sound, PendingOwnedBySource
  <1>2. QED
    BY <1>1, Invariance, PTL

(* Failovers of the API and of the checker leave one master per shard.     *)
THEOREM MastersUnique == Spec => []OneMasterPerShard
  <1>1. Inv => OneMasterPerShard
    BY StoreSound, Zenon DEF Sound, OneMasterPerShard
  <1>2. QED
    BY <1>1, Invariance, PTL

(* The version check of UpdateCluster admits no stale object, apart from   *)
(* one of an earlier cluster of the same name and one that failed to be    *)
(* stored.                                                                 *)
THEOREM NoUpdateIsLost == Spec => []NoStaleWrite
  <1>1. Inv => NoStaleWrite
    <2> SUFFICES ASSUME Inv, NEW c \in Objects, Accepts(c), c.gen = store.gen, c.saved
                 PROVE  c.shards = store.shards
      BY Zenon DEF NoStaleWrite
    <2>1. store \in Cluster /\ store # NoCluster /\ store.version <= c.version
      BY SMTT(60) DEF Inv, TypeOK, Accepts
    <2>2. c \in Cluster /\ c # NoCluster /\ Fits(c, store, gens)
      BY DEF Inv, TypeOK, AllFit, Objects
    <2>3. c.version <= store.version /\ (c.version = store.version => c.shards = store.shards)
      BY <2>1, <2>2, SMTT(60) DEF Fits
    <2>4. c.version \in Nat /\ store.version \in Nat
      BY <2>1, <2>2, Zenon DEF Cluster
    <2>5. QED
      BY <2>1, <2>3, <2>4
  <1>2. QED
    BY <1>1, Invariance, PTL

-----------------------------------------------------------------------------
(* The tasks of the nodes *)

(* What keeps a node from being the master of a migration that it was not  *)
(* given: nobody fails over, the cluster is created once, and the engine   *)
(* stores what it is asked to.                                             *)
SteadyMasters ==
    /\ \A q \in Requests : q.op # "failover"
    /\ MaxGen \in Nat /\ MaxGen <= 1
    /\ "engine" \notin Faults

(* No node is the master of two of the shards.                             *)
ApartMasters(shards) ==
    \A i \in DOMAIN shards, j \in DOMAIN shards, m \in Node :
        m \in shards[i].masters /\ m \in shards[j].masters => i = j

(* The callers have given no address to two shards of the stored cluster.  *)
MastersApart == store # NoCluster => ApartMasters(store.shards)

(* An object is not ahead of the store st, and if it has the version of st *)
(* it holds what is stored, edited or not.                                 *)
Behind(c, st) ==
    c # NoCluster /\ st # NoCluster =>
        /\ c.version <= st.version
        /\ c.version = st.version => c.shards = st.shards

NoRemoval ==
    /\ waiting.event # "remove"
    /\ \A i \in DOMAIN events : events[i] # "remove"

(* The version check recognises every stale object: a cluster that is      *)
(* removed stays removed, and no event of a removal is under way before.   *)
StaleInv ==
    /\ Behind(cached, store)
    /\ Behind(clone, store)
    /\ \A p \in Client : Behind(copy[p], store)
    /\ gens >= MaxGen
    /\ store # NoCluster => NoRemoval

(* The stored object is not behind itself.                                 *)
LEMMA BehindSelf ==
    ASSUME NEW st \in Cluster \cup {NoCluster}
    PROVE  Behind(st, st)
  BY DEF Behind, Cluster

(* An accepted update leaves every object behind the new version.          *)
LEMMA BehindAfterUpdate ==
    ASSUME NEW o \in Cluster \cup {NoCluster}, NEW st \in Cluster, NEW c \in Cluster,
           NEW new \in Cluster, Behind(o, st), st # NoCluster,
           st.version <= c.version, new.version = c.version + 1
    PROVE  Behind(o, new)
  BY SMTT(60) DEF Behind, Cluster

(* An object that UpdateCluster accepts holds what is stored.              *)
LEMMA AcceptedIsStored ==
    ASSUME NEW c \in Cluster, c # NoCluster, store \in Cluster \cup {NoCluster},
           Behind(c, store), Accepts(c)
    PROVE  /\ store \in Cluster /\ store # NoCluster
           /\ store.version <= c.version /\ c.shards = store.shards
  BY SMTT(60) DEF Behind, Accepts, Cluster

(* UpdateCluster of such an object leaves all others behind.               *)
LEMMA UpdateLeavesBehind ==
    ASSUME TypeOK, StaleInv, NEW c \in Cluster, NEW shards \in Seq(Shard), NEW by,
           UpdateCluster(c, shards, by)
    PROVE  /\ store' \in Cluster /\ store' # NoCluster /\ gens' = gens
           /\ NoRemoval'
           /\ \A o \in Cluster \cup {NoCluster} : Behind(o, store) => Behind(o, store')
  <1>1. /\ store # NoCluster /\ store.version <= c.version
        /\ store' = Updated(c, shards) /\ gens' = gens
        /\ Emit("update", by)
    BY Zenon DEF UpdateCluster, Accepts
  <1>2. store \in Cluster
    BY <1>1, SMTT(60) DEF TypeOK
  <1>3. store' \in Cluster /\ store'.version = c.version + 1
    BY <1>1, <1>2 DEF Updated, Cluster
  <1>4. NoRemoval'
    <2>1. NoRemoval /\ events \in Seq(Event)
      BY <1>1, Zenon DEF StaleInv, TypeOK
    <2>2. QED
      BY <1>1, <2>1, SMTT(60) DEF NoRemoval, Emit
  <1>5. ASSUME NEW o \in Cluster \cup {NoCluster}, Behind(o, store)
        PROVE  Behind(o, store')
    BY <1>1, <1>2, <1>3, <1>5, BehindAfterUpdate, SMTT(60)
  <1>6. QED
    BY <1>1, <1>3, <1>4, <1>5, NoClusterAssumption, Zenon

(* Steps that write neither the store nor a cluster object.                *)
LEMMA StaleQuiet ==
    ASSUME StaleInv, UNCHANGED <<store, gens, copy>>, cached' \in {cached, NoCluster},
           clone' \in {cached, clone, NoCluster}, NoRemoval => NoRemoval'
    PROVE  StaleInv'
  BY Zenon DEF StaleInv, Behind

(* Sending and handling events brings no removal about.                    *)
LEMMA StaleEvents ==
    ASSUME Inv, StaleInv, SendEvent \/ EventNext
    PROVE  StaleInv'
  <1>1. events \in Seq(Event)
    BY Zenon DEF Inv, TypeOK
  <1>2. CASE SendEvent
    <2>1. NoRemoval => NoRemoval'
      BY <1>1, <1>2, SMTT(60) DEF SendEvent, NoRemoval, NoEvent
    <2>2. UNCHANGED <<store, gens, copy, cached, clone>>
      BY <1>2, Zenon DEF SendEvent, clientVars, checkerVars, loopVars
    <2>3. QED
      BY <2>1, <2>2, StaleQuiet, Zenon
  <1>3. CASE EventNext
    <2>1. /\ events # <<>> /\ events' = Tail(events)
          /\ UNCHANGED <<store, gens, copy, clone, waiting>>
          /\ cached' \in {cached, NoCluster}
      BY <1>3, Zenon DEF EventNext, HandleCreate, HandleRemove, HandleUpdate, NextEvent,
                  clientVars, loopVars
    <2>2. NoRemoval => NoRemoval'
      BY <1>1, <2>1, SMTT(60) DEF NoRemoval
    <2>3. QED
      BY <2>1, <2>2, StaleQuiet, Zenon
  <1>4. QED
    BY <1>2, <1>3, Zenon

(* The probe loop keeps what it reads, the migration loop works on that or *)
(* on what it has; neither they nor the nodes write the store.             *)
LEMMA StaleLoops ==
    ASSUME Inv, StaleInv,
           \/ ProbeLoopNext
           \/ MigrationTick \/ SkipShard \/ GiveUpRound \/ TakeAnswer
           \/ NodeNext
           \/ \E p \in Client : SendMigrate(p)
    PROVE  StaleInv'
  <1>1. CASE ProbeRead
    <2>1. cached' = store /\ UNCHANGED <<store, gens, copy, clone, events, waiting>>
      BY <1>1, Zenon DEF ProbeRead, storeVars, clientVars
    <2>2. Behind(store, store)
      BY BehindSelf, Zenon DEF Inv, TypeOK
    <2>3. QED
      BY <2>1, <2>2, Zenon DEF StaleInv, NoRemoval
  <1>2. CASE ProbeTick \/ ProbeReadFails \/ ProbeDone \/ SyncTick \/ SyncDone
    <2>1. UNCHANGED <<storeVars, clientVars, cached, loopVars>>
      BY <1>2, Zenon DEF ProbeTick, ProbeReadFails, ProbeDone, SyncTick, SyncDone, ProbeStep
    <2>2. QED
      BY <2>1, StaleQuiet, Zenon DEF storeVars, clientVars, loopVars, NoRemoval
  <1>3. CASE MigrationTick \/ SkipShard \/ GiveUpRound \/ TakeAnswer
    <2>1. UNCHANGED <<storeVars, clientVars, cached>> /\ clone' \in {cached, clone, NoCluster}
      BY <1>3, ZenonT(60) DEF MigrationTick, SkipShard, GiveUpRound, TakeAnswer, Continue
    <2>2. QED
      BY <2>1, StaleQuiet, Zenon DEF storeVars, clientVars, NoRemoval
  <1>4. CASE NodeNext \/ \E p \in Client : SendMigrate(p)
    <2>1. UNCHANGED <<storeVars, copy, checkerVars>>
      BY <1>4, Zenon DEF NodeNext, FinishTask, RestartNode, SendMigrate, clientVars
    <2>2. QED
      BY <2>1, StaleQuiet, Zenon DEF storeVars, checkerVars, loopVars, NoRemoval
  <1>5. QED
    BY <1>1, <1>2, <1>3, <1>4, Zenon DEF ProbeLoopNext

(* The cluster is not created again.                                       *)
LEMMA StaleCreateAndRemove ==
    ASSUME Inv, StaleInv, SteadyMasters, NEW q \in Requests,
           CreateCluster(q) \/ RemoveCluster(q)
    PROVE  StaleInv'
  <1>1. gens \in Nat
    BY Zenon DEF Inv, TypeOK
  <1>2. CASE RemoveCluster(q)
    <2>1. store' = NoCluster /\ gens' = gens
      BY <1>2, Zenon DEF RemoveCluster
    <2>2. QED
      BY <2>1, Zenon DEF StaleInv, Behind
  <1>3. CASE CreateCluster(q)
    BY <1>1, <1>3, SMTT(60) DEF CreateCluster, StaleInv, SteadyMasters
  <1>4. QED
    BY <1>2, <1>3, Zenon

(* A handler reads the cluster, stores its edit or gives up.               *)
LEMMA StaleHandlers ==
    ASSUME Inv, StaleInv, NEW p \in Client, NEW q,
           Receive(p, q) \/ Apply(p) \/ Fail(p)
    PROVE  StaleInv'
  <1>1. TypeOK /\ InProgress /\ AllFit
    BY Zenon DEF Inv
  <1>2. CASE Receive(p, q)
    <2>1. /\ copy' = [copy EXCEPT ![p] = store]
          /\ UNCHANGED <<store, gens, cached, clone, events, waiting>>
      BY <1>2, Zenon DEF Receive, storeVars, checkerVars, loopVars
    <2>2. Behind(store, store)
      BY <1>1, BehindSelf, Zenon DEF TypeOK
    <2>3. QED
      BY <1>1, <2>1, <2>2, Zenon DEF StaleInv, NoRemoval, TypeOK
  <1>3. CASE Fail(p)
    <2>1. /\ copy' = [copy EXCEPT ![p] = NoCluster]
          /\ UNCHANGED <<store, gens, cached, clone, events, waiting>>
      BY <1>3, Zenon DEF Fail, Return, storeVars, checkerVars, loopVars
    <2>2. Behind(NoCluster, store)
      BY Zenon DEF Behind
    <2>3. QED
      BY <1>1, <2>1, <2>2, Zenon DEF StaleInv, NoRemoval, TypeOK
  <1>4. CASE Apply(p)
    <2>1. copy[p] \in Cluster /\ request[p] \in Requests
      BY <1>1, <1>4, SMTT(60) DEF Apply, Serving, InProgress, TypeOK
    <2>2. copy[p].shards \in Seq(Shard) /\ Sound(copy[p].shards)
      BY <1>1, <2>1, NoClusterAssumption, SMTT(60) DEF AllFit, Fits, Cluster
    <2>3. PICK shards \in Edits(copy[p].shards, request[p]), by \in {"api", "probe"} :
              UpdateCluster(copy[p], shards, by)
      BY <1>4, Zenon DEF Apply
    <2>4. shards \in Seq(Shard)
      BY <2>1, <2>2, EditsSound, SMTT(60)
    <2>5. /\ store' # NoCluster /\ gens' = gens /\ NoRemoval'
          /\ \A o \in Cluster \cup {NoCluster} : Behind(o, store) => Behind(o, store')
      BY <1>1, <2>1, <2>3, <2>4, UpdateLeavesBehind, SMTT(60)
    <2>6. copy' = [copy EXCEPT ![p] = NoCluster] /\ UNCHANGED <<cached, clone>>
      BY <1>4, SMTT(60) DEF Apply, Return, checkerVars, loopVars
    <2>7. Behind(NoCluster, store')
      BY Zenon DEF Behind
    <2>8. QED
      BY <1>1, <2>5, <2>6, <2>7, SMTT(60) DEF StaleInv, TypeOK
  <1>5. QED
    BY <1>2, <1>3, <1>4, Zenon

(* The migration loop stores an outcome; if the version check refuses it,  *)
(* the edited object stays behind the store.  A crash leaves no object.    *)
LEMMA StaleSettle ==
    ASSUME Inv, StaleInv, SteadyMasters, Settle \/ SettleFails \/ Reboot
    PROVE  StaleInv'
  <1>1. TypeOK /\ InProgress /\ AllFit
    BY Zenon DEF Inv
  <1>2. CASE Settle
    <2>1. /\ loop.answer # "none"
          /\ UpdateCluster(clone, Settled, "loop")
          /\ UNCHANGED clientVars
      BY <1>2, Zenon DEF Settle
    <2>2. clone \in Cluster /\ Settled \in Seq(Shard)
      BY <2>1, SettledResult, SMTT(60)
    <2>3. /\ store' \in Cluster /\ store' # NoCluster /\ gens' = gens /\ NoRemoval'
          /\ \A o \in Cluster \cup {NoCluster} : Behind(o, store) => Behind(o, store')
      BY <1>1, <2>1, <2>2, UpdateLeavesBehind, Zenon
    <2>4. cached' \in {store', cached} /\ clone' \in {store', clone, NoCluster}
      BY <1>2, Zenon DEF Settle, Continue
    <2>5. Behind(store', store') /\ Behind(NoCluster, store')
      BY <2>3, BehindSelf, SMTT(60) DEF Behind
    <2>6. Behind(cached', store')
      BY <1>1, <2>3, <2>4, <2>5, SMTT(60) DEF StaleInv, TypeOK
    <2>7. Behind(clone', store')
      BY <1>1, <2>3, <2>4, <2>5, SMTT(60) DEF StaleInv, TypeOK
    <2>8. \A p \in Client : Behind(copy'[p], store')
      BY <1>1, <2>1, <2>3, SMTT(60) DEF StaleInv, TypeOK, clientVars
    <2>9. QED
      BY <2>3, <2>6, <2>7, <2>8, SMTT(60) DEF StaleInv
  <1>3. CASE SettleFails
    <2>1. /\ loop.answer # "none"
          /\ Accepts(clone) => Cancelled
          /\ clone' = NoCluster
          /\ UNCHANGED <<store, gens, copy, events, waiting>>
      BY <1>3, Zenon DEF SettleFails, Continue, storeVars, clientVars, SteadyMasters
    <2>2. clone \in Cluster /\ clone # NoCluster /\ Settled \in Seq(Shard)
      BY <2>1, SettledResult, Zenon
    <2>3. ~Accepts(clone)
      <3> SUFFICES ASSUME Accepts(clone) PROVE FALSE
        BY Zenon
      <3>1. events # <<>> /\ Head(events) = "remove" /\ events \in Seq(Event)
        BY <1>1, <2>1, Zenon DEF Cancelled, TypeOK
      <3>2. 1 \in DOMAIN events /\ events[1] = "remove"
        BY <3>1, SMTT(60)
      <3>3. QED
        BY <3>2, Zenon DEF Accepts, StaleInv, NoRemoval
    <2>4. Behind(cached', store)
      <3>1. PICK raised \in {0, 1} :
              /\ raised = 1 => Accepts(clone)
              /\ cached' = IF aliased THEN [clone EXCEPT !.shards = Settled, !.saved = FALSE,
                                                         !.version = @ + raised]
                                      ELSE cached
        BY <1>3, Zenon DEF SettleFails
      <3>2. CASE aliased
        <4>1. raised = 0
          BY <2>3, <3>1, Zenon
        <4> HIDE DEF Settled
        <4>2. cached' = [gen |-> clone.gen, version |-> clone.version + raised,
                         shards |-> Settled, saved |-> FALSE]
          BY <2>2, <3>1, <3>2, Zenon DEF Cluster
        <4>3. cached'.version = clone.version
          BY <2>2, <4>1, <4>2, SMTT(60) DEF Cluster
        <4>4. store # NoCluster => store \in Cluster /\ clone.version < store.version
          BY <1>1, <2>2, <2>3, SMTT(60) DEF Accepts, TypeOK, Cluster
        <4>5. QED
          BY <2>2, <4>3, <4>4, SMTT(60) DEF Behind, Cluster
      <3>3. CASE ~aliased
        BY <3>1, <3>3, Zenon DEF StaleInv
      <3>4. QED
        BY <3>2, <3>3, Zenon
    <2>5. QED
      BY <2>1, <2>4, Zenon DEF StaleInv, Behind, NoRemoval
  <1>4. CASE Reboot
    <2>1. /\ UNCHANGED <<store, gens>>
          /\ cached' = NoCluster /\ clone' = NoCluster
          /\ copy' = [p \in Client |-> NoCluster]
          /\ events' = <<>> /\ waiting' = NoEvent
      BY <1>4, Zenon DEF Reboot, Continue
    <2>2. QED
      BY <2>1 DEF StaleInv, Behind, NoRemoval, NoEvent
  <1>5. QED
    BY <1>2, <1>3, <1>4, Zenon

(* Nothing is in progress at the start, and the cluster has been created.  *)
LEMMA StaleInit == SteadyMasters /\ Init => StaleInv
  <1> SUFFICES ASSUME SteadyMasters, Init PROVE StaleInv
    BY Zenon
  <1>1. /\ cached = NoCluster /\ clone = NoCluster /\ gens = 1
        /\ copy = [p \in Client |-> NoCluster]
        /\ events = <<>> /\ waiting = NoEvent
    BY Zenon DEF Init
  <1>2. QED
    BY <1>1 DEF StaleInv, Behind, NoRemoval, NoEvent, SteadyMasters

(* One step per group of actions.                                          *)
LEMMA StaleNext == SteadyMasters /\ Inv /\ StaleInv /\ [Next]_vars => StaleInv'
  <1> SUFFICES ASSUME SteadyMasters, Inv, StaleInv, [Next]_vars PROVE StaleInv'
    BY Zenon
  <1>1. CASE ClientNext
    <2>1. CASE \E p \in Client : SendMigrate(p)
      BY <2>1, StaleLoops, Zenon
    <2>2. CASE \E p \in Client : Apply(p) \/ Fail(p)
      BY <2>2, StaleHandlers, Zenon
    <2>3. CASE \E p \in Client, q \in Requests : Receive(p, q)
      BY <2>3, StaleHandlers, Zenon
    <2>4. CASE \E q \in Requests : CreateCluster(q) \/ RemoveCluster(q)
      BY <2>4, StaleCreateAndRemove, Zenon
    <2>5. QED
      BY <1>1, <2>1, <2>2, <2>3, <2>4, SMTT(60) DEF ClientNext
  <1>2. CASE SendEvent \/ EventNext
    BY <1>2, StaleEvents, Zenon
  <1>3. CASE ProbeLoopNext \/ NodeNext
    BY <1>3, StaleLoops, Zenon
  <1>4. CASE MigrationLoopNext \/ Restart
    <2>1. CASE MigrationTick \/ SkipShard \/ GiveUpRound \/ TakeAnswer
      BY <2>1, StaleLoops, Zenon
    <2>2. CASE Settle \/ SettleFails \/ Reboot
      BY <2>2, StaleSettle, Zenon
    <2>3. QED
      BY <1>4, <2>1, <2>2, SMTT(60) DEF MigrationLoopNext, Panic, Restart
  <1>5. CASE UNCHANGED vars
    <2>1. UNCHANGED <<store, gens, copy, cached, clone, events, waiting>>
      BY <1>5, SMTT(60) DEF vars, storeVars, clientVars, checkerVars, loopVars
    <2>2. QED
      BY <2>1, StaleQuiet, Zenon DEF NoRemoval
  <1>6. QED
    BY <1>1, <1>2, <1>3, <1>4, <1>5, SMTT(60) DEF Next

(* Every migration recorded in new is recorded in old, under the same      *)
(* master; the indexes of the shards may differ.                           *)
MigrationsAmong(new, old) ==
    \A i \in DOMAIN new : IsMigrating(new[i]) =>
        \E j \in DOMAIN old :
            /\ IsMigrating(old[j])
            /\ old[j].masters = new[i].masters
            /\ old[j].migrating = new[i].migrating

(* The masters of the shards that are migrating are at no other migration. *)
Matched(shards, tasks) ==
    \A i \in DOMAIN shards : IsMigrating(shards[i]) =>
        \A m \in shards[i].masters :
            tasks[m] # NoTask => tasks[m].slot = shards[i].migrating

(* The node that is the source for q is at no other migration.             *)
Told(shards, q, tasks) ==
    \A source \in DataMigrationSources(shards, q.slot, q.target) :
        \A from \in shards[source].masters :
            tasks[from] # NoTask => tasks[from].slot = q.slot

(* Every task of new is the task that the node has in old.                 *)
TasksAmong(new, old) ==
    \A n \in Node : new[n] # NoTask => old[n] # NoTask /\ new[n].slot = old[n].slot

MigratesAt(p) == p \in Serving /\ Migrates(request[p])

(* The lock of MigrateSlot admits one handler, whose object still has      *)
(* every migration that is stored; between the command to the source and   *)
(* the record in the store the source is at no other migration.            *)
TaskInv ==
    /\ \A p \in Client, o \in Client : MigratesAt(p) /\ MigratesAt(o) => p = o
    /\ \A p \in Client : MigratesAt(p) =>
          /\ ApartMasters(copy[p].shards)
          /\ store # NoCluster => MigrationsAmong(store.shards, copy[p].shards)
    /\ \A p \in sent :
          /\ p \in Serving
          /\ request[p].op = "migrateSlot"
          /\ Told(copy[p].shards, request[p], task)
    /\ store # NoCluster => Matched(store.shards, task)

(* The nodes of a shard are nodes.                                         *)
LEMMA MastersAreNodes ==
    ASSUME NEW shards \in Seq(Shard), NEW i \in DOMAIN shards
    PROVE  shards[i] \in Shard /\ shards[i].masters \subseteq Node
  <1>1. shards[i] \in Shard
    BY LenProperties, Zenon
  <1>2. QED
    BY <1>1, Zenon DEF Shard

(* Fewer migrations of fewer tasks still match.                            *)
LEMMA MatchedAmong ==
    ASSUME NEW new, NEW old, NEW tasks, MigrationsAmong(new, old), Matched(old, tasks)
    PROVE  Matched(new, tasks)
  BY Zenon DEF MigrationsAmong, Matched

(* No new migrations twice are no new migrations.                          *)
LEMMA AmongAmong ==
    ASSUME NEW a, NEW b, NEW c, MigrationsAmong(a, b), MigrationsAmong(b, c)
    PROVE  MigrationsAmong(a, c)
  BY DEF MigrationsAmong

(* One step more or less of a node.                                        *)
LEMMA FewerTasks ==
    ASSUME NEW shards \in Seq(Shard), NEW new, NEW old, TasksAmong(new, old)
    PROVE  /\ Matched(shards, old) => Matched(shards, new)
           /\ \A q : Told(shards, q, old) => Told(shards, q, new)
  <1>1. \A i \in DOMAIN shards : shards[i].masters \subseteq Node
    BY MastersAreNodes, Zenon
  <1>2. \A q, source : source \in DataMigrationSources(shards, q.slot, q.target) => source \in DOMAIN shards
    BY Zenon DEF DataMigrationSources, MigrationSources, SourceShards, SlotsOfShards
  <1>3. Matched(shards, old) => Matched(shards, new)
    BY <1>1, Zenon DEF Matched, TasksAmong
  <1>4. ASSUME NEW q, Told(shards, q, old) PROVE Told(shards, q, new)
    BY <1>1, <1>2, <1>4, Zenon DEF Told, TasksAmong
  <1>5. QED
    BY <1>3, <1>4, Zenon

(* Only promotions and migrations with data give a master a migration.     *)
LEMMA ReplacedAmong ==
    ASSUME NEW shards, NEW edited, DOMAIN edited = DOMAIN shards,
           \A i \in DOMAIN shards : IsMigrating(edited[i]) =>
               /\ IsMigrating(shards[i])
               /\ edited[i].masters = shards[i].masters
               /\ edited[i].migrating = shards[i].migrating
    PROVE  MigrationsAmong(edited, shards)
  BY Zenon DEF MigrationsAmong

(* Moving slots leaves the migrations and the masters as they are.         *)
LEMMA MoveAmong ==
    ASSUME NEW shards \in Seq(Shard), NEW source \in DOMAIN shards,
           NEW target \in DOMAIN shards, NEW slot \in SlotRange,
           NEW edited, edited = MoveSlots(shards, source, target, slot)
    PROVE  /\ edited \in Seq(Shard) /\ DOMAIN edited = DOMAIN shards
           /\ \A i \in DOMAIN shards :
                 /\ IsMigrating(edited[i]) <=> IsMigrating(shards[i])
                 /\ edited[i].masters = shards[i].masters
                 /\ edited[i].migrating = shards[i].migrating
           /\ MigrationsAmong(edited, shards)
  <1>1. IsMove(shards, source, target, slot, edited)
    BY MoveSlotsResult, Zenon
  <1>2. /\ edited \in Seq(Shard) /\ DOMAIN edited = DOMAIN shards
        /\ \A i \in DOMAIN shards :
              /\ IsMigrating(edited[i]) <=> IsMigrating(shards[i])
              /\ edited[i].masters = shards[i].masters
              /\ edited[i].migrating = shards[i].migrating
    BY <1>1, Zenon DEF IsMove, IsMigrating
  <1>3. QED
    BY <1>2, ReplacedAmong, Zenon

(* ClearMigrateState only ends a migration.                                *)
LEMMA ClearAmong ==
    ASSUME NEW shards \in Seq(Shard), NEW i \in DOMAIN shards,
           NEW edited, edited = ClearMigrateState(shards, i)
    PROVE  /\ edited \in Seq(Shard) /\ DOMAIN edited = DOMAIN shards
           /\ MigrationsAmong(edited, shards)
  <1>1. /\ edited \in Seq(Shard) /\ DOMAIN edited = DOMAIN shards
        /\ ~IsMigrating(edited[i])
        /\ \A j \in DOMAIN shards : j # i => edited[j] = shards[j]
    BY ClearResult, Zenon
  <1>2. QED
    BY <1>1, ReplacedAmong, Zenon

(* The edits of a handler, except for a failover and a migration with      *)
(* data, record no migration.                                              *)
LEMMA EditsAmong ==
    ASSUME NEW shards \in Seq(Shard), NEW q \in Requests, q.op # "failover",
           q.op # "migrateSlot", NEW edited \in Edits(shards, q)
    PROVE  MigrationsAmong(edited, shards)
  <1>1. CASE q.op = "createShard"
    <2>1. q.group \in Group /\ edited = Append(shards, NewShard(q.group))
      BY <1>1, ClusterStoreAssumption, Zenon DEF Edits, CreateShard
    <2> DEFINE shard == NewShard(q.group)
    <2>2. shard \in Shard /\ ~IsMigrating(shard)
      BY <2>1, NewShardInOrder, Zenon
    <2> HIDE DEF shard
    <2>3. /\ DOMAIN edited = 1 .. Len(shards) + 1
          /\ DOMAIN shards = 1 .. Len(shards)
          /\ Len(shards) \in Nat
          /\ \A i \in DOMAIN shards : edited[i] = shards[i]
          /\ edited[Len(shards) + 1] = shard
      BY <2>1, <2>2 DEF shard
    <2>4. \A i \in DOMAIN edited : i \in DOMAIN shards \/ i = Len(shards) + 1
      BY <2>3
    <2>5. QED
      BY <2>2, <2>3, <2>4, Zenon DEF MigrationsAmong
  <1>2. CASE q.op = "removeShard"
    <2>1. /\ q.shard \in DOMAIN shards
          /\ edited = [j \in 1 .. Len(shards) - 1 |->
                            IF j < q.shard THEN shards[j] ELSE shards[j + 1]]
      BY <1>2, Zenon DEF Edits, RemoveShard
    <2>2. \A i \in DOMAIN edited : \E j \in DOMAIN shards : edited[i] = shards[j]
      BY <2>1
    <2>3. QED
      BY <2>2, Zenon DEF MigrationsAmong
  <1>3. CASE q.op \in {"addNode", "removeNode"}
    <2>1. PICK i \in DOMAIN shards : \E slaves : edited = [shards EXCEPT ![i].slaves = slaves]
      BY <1>3, ZenonT(60) DEF Edits, AddNode, RemoveNode
    <2>2. /\ DOMAIN edited = DOMAIN shards
          /\ \A j \in DOMAIN shards :
                /\ edited[j].masters = shards[j].masters
                /\ edited[j].migrating = shards[j].migrating
                /\ edited[j].target = shards[j].target
      BY <2>1 DEF Shard
    <2>3. QED
      BY <2>2, ReplacedAmong, Zenon DEF IsMigrating
  <1>4. CASE q.op = "moveSlot"
    <2>1. q.slot \in SlotRange /\ edited \in MigrateSlotOnly(shards, q.slot, q.target)
      BY <1>4, ClusterStoreAssumption, Zenon DEF Edits, Migrates
    <2>2. PICK source \in MigrationSources(shards, q.slot, q.target) :
              edited = MoveSlots(ClearMigrateState(shards, source), source, q.target, q.slot)
      BY <2>1, Zenon DEF MigrateSlotOnly
    <2>3. source \in DOMAIN shards /\ q.target \in DOMAIN shards
      BY <2>2, Zenon DEF MigrationSources, SourceShards, SlotsOfShards
    <2> DEFINE cleared == ClearMigrateState(shards, source)
    <2>4. edited = MoveSlots(cleared, source, q.target, q.slot)
      BY <2>2, Zenon
    <2> HIDE DEF cleared
    <2>5. /\ cleared \in Seq(Shard) /\ DOMAIN cleared = DOMAIN shards
          /\ MigrationsAmong(cleared, shards)
      BY <2>3, ClearAmong, Zenon DEF cleared
    <2>6. MigrationsAmong(edited, cleared)
      BY <2>1, <2>3, <2>4, <2>5, MoveAmong, Zenon
    <2>7. QED
      BY <2>5, <2>6, AmongAmong, Zenon
  <1>5. QED
    BY <1>1, <1>2, <1>3, <1>4, ZenonT(60) DEF Edits

(* Nor does the outcome of a migration.                                    *)
LEMMA SettledAmong ==
    ASSUME Inv, loop.answer # "none"
    PROVE  MigrationsAmong(Settled, clone.shards)
  <1> DEFINE shards == clone.shards
             i == loop.at
  <1>1. TypeOK /\ InProgress
    BY Zenon DEF Inv
  <1>2. /\ shards \in Seq(Shard) /\ i \in DOMAIN shards
        /\ IsMigrating(shards[i]) /\ shards[i].target \in DOMAIN shards
    BY <1>1, NoClusterAssumption, SMTT(60) DEF TypeOK, InProgress, Idle, Cluster
  <1>3. Settled \in {ClearMigrateState(shards, i),
                     ClearMigrateState(MoveSlots(shards, i, shards[i].target, shards[i].migrating), i)}
    BY Zenon DEF Settled, MigrationSucceeded, MigrationFailed
  <1> HIDE DEF shards, i
  <1>4. shards[i].migrating \in SlotRange
    BY <1>2, MastersAreNodes, Zenon DEF IsMigrating, Shard
  <1> DEFINE moved == MoveSlots(shards, i, shards[i].target, shards[i].migrating)
  <1>5. CASE Settled = ClearMigrateState(shards, i)
    BY <1>2, <1>5, ClearAmong, Zenon DEF shards
  <1>6. CASE Settled = ClearMigrateState(moved, i)
    <2> HIDE DEF moved
    <2>1. moved \in Seq(Shard) /\ DOMAIN moved = DOMAIN shards /\ MigrationsAmong(moved, shards)
      BY <1>2, <1>4, MoveAmong DEF moved
    <2>2. MigrationsAmong(Settled, moved)
      BY <1>2, <1>6, <2>1, ClearAmong, Zenon
    <2>3. QED
      BY <2>1, <2>2, AmongAmong, Zenon DEF shards
  <1>7. QED
    BY <1>3, <1>5, <1>6, Zenon

(* Steps that neither handle a request nor write the store nor give a node *)
(* a migration.                                                            *)
LEMMA TaskQuiet ==
    ASSUME Inv, TaskInv, UNCHANGED <<request, copy, sent>>, store' \in {store, NoCluster},
           TasksAmong(task', task)
    PROVE  TaskInv'
  <1>1. TypeOK /\ InProgress
    BY Zenon DEF Inv
  <1>2. /\ store # NoCluster => store.shards \in Seq(Shard)
        /\ \A p \in Serving : copy[p].shards \in Seq(Shard)
    BY <1>1, SMTT(60) DEF TypeOK, InProgress, Serving, Cluster
  <1>3. Serving' = Serving /\ \A p \in Client : MigratesAt(p)' = MigratesAt(p)
    BY Zenon DEF Serving, MigratesAt
  <1>4. ASSUME NEW p \in sent
        PROVE  /\ p \in Serving
               /\ request[p].op = "migrateSlot"
               /\ Told(copy[p].shards, request[p], task')
    <2>1. p \in Serving /\ request[p].op = "migrateSlot" /\ Told(copy[p].shards, request[p], task)
      BY Zenon DEF TaskInv
    <2>2. copy[p].shards \in Seq(Shard)
      BY <1>2, <2>1, Zenon
    <2>3. QED
      BY <2>1, <2>2, FewerTasks, Zenon
  <1>5. store' # NoCluster => store' = store /\ Matched(store.shards, task')
    BY <1>2, FewerTasks, Zenon DEF TaskInv
  <1>6. QED
    BY <1>3, <1>4, <1>5, Zenon DEF TaskInv

(* The nodes end or forget what they were given.                           *)
LEMMA NodesAmong ==
    ASSUME Inv, NodeNext
    PROVE  TasksAmong(task', task)
  <1>1. task \in [Node -> Task \cup {NoTask}]
    BY Zenon DEF Inv, TypeOK
  <1>2. PICK n \in Node : FinishTask(n) \/ RestartNode(n)
    BY Zenon DEF NodeNext
  <1>3. CASE FinishTask(n)
    <2>1. PICK state : task[n] # NoTask /\ task' = [task EXCEPT ![n].state = state]
      BY <1>3, Zenon DEF FinishTask
    <2>2. task[n] \in Task
      BY <1>1, <2>1, Zenon
    <2>3. task'[n].slot = task[n].slot /\ \A m \in Node : m # n => task'[m] = task[m]
      BY <1>1, <2>1, <2>2, Zenon DEF Task
    <2>4. QED
      BY <2>1, <2>3, Zenon DEF TasksAmong
  <1>4. CASE RestartNode(n)
    BY <1>1, <1>4, Zenon DEF RestartNode, TasksAmong
  <1>5. QED
    BY <1>2, <1>3, <1>4, Zenon

(* The command reaches a master whose shard is not migrating in the object *)
(* of the only handler that migrates, and so not in the store either.      *)
LEMMA TaskSend ==
    ASSUME Inv, TaskInv, NEW p \in Client, SendMigrate(p)
    PROVE  TaskInv'
  <1> DEFINE q == request[p]
             shards == copy[p].shards
  <1>1. TypeOK /\ InProgress /\ AllFit
    BY Zenon DEF Inv
  <1>2. /\ p \in Serving /\ p \notin sent /\ q.op = "migrateSlot" /\ q \in Requests
        /\ sent' = sent \cup {p}
        /\ UNCHANGED <<store, request, copy>>
    BY <1>1, Zenon DEF SendMigrate, storeVars, Serving, TypeOK
  <1>3. q.slot \in SlotRange
    BY <1>2, ClusterStoreAssumption, SMTT(60) DEF Migrates
  <1>4. shards \in Seq(Shard) /\ Sound(shards)
    BY <1>1, <1>2, NoClusterAssumption, SMTT(60) DEF InProgress, TypeOK, AllFit, Fits, Cluster
  <1>5. PICK source \in DataMigrationSources(shards, q.slot, q.target) :
            \E from \in shards[source].masters : \E to :
                task' = [task EXCEPT ![from] = [slot |-> q.slot, to |-> to, state |-> "start"]]
    BY ZenonT(60) DEF SendMigrate
  <1>6. MigratesAt(p)
    BY <1>2, Zenon DEF MigratesAt, Migrates
  <1>7. /\ ApartMasters(shards)
        /\ store # NoCluster => MigrationsAmong(store.shards, shards)
    BY <1>6, Zenon DEF TaskInv
  <1> HIDE DEF q, shards
  <1>8. source \in SourceShards(SlotsOfShards(shards), q.slot) /\ ~IsMigrating(shards[source])
    BY Zenon DEF DataMigrationSources, MigrationSources
  <1> PICK from \in shards[source].masters : \E to :
           task' = [task EXCEPT ![from] = [slot |-> q.slot, to |-> to, state |-> "start"]]
    BY <1>5, Zenon
  <1>9. source \in DOMAIN shards /\ from \in Node
    BY <1>4, <1>8, MastersAreNodes, Zenon DEF SourceShards, SlotsOfShards
  <1>10. /\ task'[from].slot = q.slot
         /\ \A m \in Node : m # from => task'[m] = task[m]
    <2>1. DOMAIN task = Node
      BY <1>1, Zenon DEF TypeOK
    <2>2. PICK to :
            task' = [task EXCEPT ![from] = [slot |-> q.slot, to |-> to, state |-> "start"]]
      OBVIOUS
    <2>3. QED
      BY <1>9, <2>1, <2>2
  <1>11. Told(shards, q, task')
    <2> SUFFICES ASSUME NEW s \in DataMigrationSources(shards, q.slot, q.target),
                        NEW m \in shards[s].masters
                 PROVE  task'[m].slot = q.slot
      BY Zenon DEF Told
    <2>1. s \in SourceShards(SlotsOfShards(shards), q.slot)
      BY Zenon DEF DataMigrationSources, MigrationSources
    <2>2. s = source
      BY <1>8, <2>1, Zenon DEF SourceShards, SlotsOfShards
    <2>3. HasOneMaster(shards[source])
      BY <1>4, <1>9, Zenon DEF Sound
    <2>4. m = from
      BY <2>2, <2>3, Zenon DEF HasOneMaster
    <2>5. QED
      BY <1>10, <2>4, Zenon
  <1>12. ASSUME store # NoCluster PROVE Matched(store.shards, task')
    <2> SUFFICES ASSUME NEW i \in DOMAIN store.shards, IsMigrating(store.shards[i]),
                        NEW m \in store.shards[i].masters, task'[m] # NoTask
                 PROVE  task'[m].slot = store.shards[i].migrating
      BY Zenon DEF Matched
    <2>1. store.shards \in Seq(Shard)
      <3>1. store \in Cluster
        BY <1>1, <1>12, Zenon DEF TypeOK
      <3>2. QED
        BY <3>1, Zenon DEF Cluster
    <2>2. m \in Node
      BY <2>1, MastersAreNodes, Zenon
    <2>3. PICK j \in DOMAIN shards : IsMigrating(shards[j]) /\ shards[j].masters = store.shards[i].masters
      BY <1>7, <1>12, Zenon DEF MigrationsAmong
    <2>4. m # from
      BY <1>7, <1>8, <1>9, <2>2, <2>3, Zenon DEF ApartMasters
    <2>5. task'[m] = task[m]
      BY <1>10, <2>2, <2>4, Zenon
    <2>6. Matched(store.shards, task)
      BY <1>12, Zenon DEF TaskInv
    <2>7. QED
      BY <2>5, <2>6, Zenon DEF Matched
  <1>13. ASSUME NEW o \in sent PROVE o = p
    <2>1. o \in Client /\ MigratesAt(o)
      BY <1>1, Zenon DEF TaskInv, MigratesAt, Migrates, TypeOK
    <2>2. QED
      BY <1>6, <2>1, Zenon DEF TaskInv
  <1>14. Serving' = Serving /\ \A o \in Client : MigratesAt(o)' = MigratesAt(o)
    BY <1>2, Zenon DEF Serving, MigratesAt
  <1>15. \A o \in sent' : /\ o \in Serving'
                         /\ request'[o].op = "migrateSlot"
                         /\ Told(copy'[o].shards, request'[o], task')
    BY <1>2, <1>11, <1>13, <1>14, Zenon DEF q, shards
  <1>16. QED
    BY <1>2, <1>12, <1>14, <1>15, Zenon DEF TaskInv

(* A handler that ends gives the lock back.                                *)
LEMMA TaskReturn ==
    ASSUME Inv, TaskInv, NEW p \in Client, Return(p), UNCHANGED task,
           store' # NoCluster => Matched(store'.shards, task),
           \A o \in Client : o # p /\ MigratesAt(o) /\ store' # NoCluster =>
               MigrationsAmong(store'.shards, copy[o].shards)
    PROVE  TaskInv'
  <1>1. TypeOK
    BY Zenon DEF Inv
  <1>2. /\ sent' = sent \ {p}
        /\ Serving' = Serving \ {p}
        /\ \A o \in Client : o # p => request'[o] = request[o] /\ copy'[o] = copy[o]
    BY <1>1, Zenon DEF Return, Serving, TypeOK
  <1>3. \A o \in Client : MigratesAt(o)' => o # p /\ MigratesAt(o)
    BY <1>2, Zenon DEF MigratesAt
  <1>4. sent \subseteq Client
    BY <1>1, Zenon DEF TypeOK
  <1>5. \A o \in sent' : /\ o \in Serving'
                        /\ request'[o].op = "migrateSlot"
                        /\ Told(copy'[o].shards, request'[o], task')
    BY <1>2, <1>4, Zenon DEF TaskInv
  <1>6. QED
    BY <1>2, <1>3, <1>5, Zenon DEF TaskInv

(* A handler reads the cluster, having the lock if it migrates.            *)
LEMMA TaskReceive ==
    ASSUME Inv, TaskInv, MastersApart, NEW p \in Client, NEW q \in Requests, Receive(p, q)
    PROVE  TaskInv'
  <1>1. TypeOK
    BY Zenon DEF Inv
  <1>2. /\ p \notin Serving /\ store # NoCluster
        /\ Migrates(q) => \A o \in Serving : ~Migrates(request[o])
        /\ request' = [request EXCEPT ![p] = q]
        /\ copy' = [copy EXCEPT ![p] = store]
        /\ UNCHANGED <<store, sent, task>>
    BY Zenon DEF Receive, storeVars
  <1>3. /\ request'[p] = q /\ copy'[p] = store
        /\ \A o \in Client : o # p => request'[o] = request[o] /\ copy'[o] = copy[o]
    BY <1>1, <1>2, Zenon DEF TypeOK
  <1>4. \A o \in Client : o # p => MigratesAt(o)' = MigratesAt(o)
    BY <1>3, Zenon DEF MigratesAt, Serving
  <1>5. MigratesAt(p)' => \A o \in Client : ~MigratesAt(o)
    BY <1>2, <1>3, Zenon DEF MigratesAt
  <1>6. ApartMasters(store.shards) /\ MigrationsAmong(store.shards, store.shards)
    BY <1>2, Zenon DEF MastersApart, MigrationsAmong
  <1>7. \A o \in sent : /\ o \in Serving'
                       /\ request'[o].op = "migrateSlot"
                       /\ Told(copy'[o].shards, request'[o], task')
    <2>1. \A o \in sent : o \in Serving /\ o # p /\ o \in Client
      BY <1>2, Zenon DEF TaskInv, Serving
    <2>2. QED
      BY <1>2, <1>3, <2>1, Zenon DEF TaskInv, Serving
  <1>8. QED
    BY <1>2, <1>3, <1>4, <1>5, <1>6, <1>7, Zenon DEF TaskInv

(* A handler stores its edit of what is stored: a record of the migration  *)
(* that its source was given, or no new record.                            *)
LEMMA TaskApply ==
    ASSUME Inv, StaleInv, TaskInv, SteadyMasters, NEW p \in Client, Apply(p)
    PROVE  TaskInv'
  <1>1. TypeOK /\ InProgress /\ AllFit
    BY Zenon DEF Inv
  <1>2. Return(p) /\ UNCHANGED task
    BY SMTT(60) DEF Apply
  <1>3. copy[p] \in Cluster /\ copy[p] # NoCluster /\ request[p] \in Requests /\ p \in Serving
    BY <1>1, SMTT(60) DEF Apply, Serving, InProgress, TypeOK
  <1>4. copy[p].shards \in Seq(Shard) /\ Sound(copy[p].shards)
    BY <1>1, <1>3, SMTT(60) DEF AllFit, Fits, Cluster
  <1>5. PICK shards \in Edits(copy[p].shards, request[p]) :
            \E by : UpdateCluster(copy[p], shards, by)
    BY Zenon DEF Apply
  <1>6. Accepts(copy[p]) /\ store'.shards = shards
    <2>1. Accepts(copy[p]) /\ store' = Updated(copy[p], shards)
      BY <1>5, Zenon DEF UpdateCluster
    <2>2. QED
      BY <2>1 DEF Updated
  <1>7. store # NoCluster /\ copy[p].shards = store.shards
    BY <1>1, <1>3, <1>6, AcceptedIsStored, Zenon DEF StaleInv, TypeOK
  <1>8. Matched(store.shards, task)
    BY <1>7, Zenon DEF TaskInv
  <1>9. CASE request[p].op = "migrateSlot"
    <2> DEFINE q == request[p]
               old == copy[p].shards
    <2>1. p \in sent
      BY <1>9, Zenon DEF Apply
    <2>2. MigratesAt(p) /\ Told(old, q, task)
      BY <1>3, <1>9, <2>1, Zenon DEF MigratesAt, Migrates, TaskInv
    <2>3. PICK source \in DataMigrationSources(old, q.slot, q.target) :
              shards = [old EXCEPT ![source].migrating = q.slot, ![source].target = q.target]
      BY <1>5, <1>9, Zenon DEF Edits, MigrateSlotData
    <2>4. Matched(old, task)
      BY <1>7, <1>8, Zenon
    <2> HIDE DEF q, old
    <2>5. source \in DOMAIN old
      BY <2>3, Zenon DEF DataMigrationSources, MigrationSources, SourceShards, SlotsOfShards
    <2>6. old \in Seq(Shard)
      BY <1>4, Zenon DEF old
    <2>7. old[source] \in Shard
      BY <2>5, <2>6, MastersAreNodes, Zenon
    <2>8. /\ DOMAIN shards = DOMAIN old
          /\ shards[source].masters = old[source].masters
          /\ shards[source].migrating = q.slot
          /\ \A i \in DOMAIN old : i # source => shards[i] = old[i]
      BY <2>3, <2>5, <2>7, Zenon DEF Shard
    <2>9. Matched(shards, task)
      BY <2>2, <2>3, <2>4, <2>8 DEF Matched, Told
    <2>10. \A o \in Client : MigratesAt(o) => o = p
      BY <2>2, Zenon DEF TaskInv
    <2>11. QED
      BY <1>2, <1>6, <2>9, <2>10, TaskReturn, Zenon
  <1>10. CASE request[p].op # "migrateSlot"
    <2>1. MigrationsAmong(shards, copy[p].shards)
      BY <1>3, <1>4, <1>10, EditsAmong, Zenon DEF SteadyMasters
    <2>2. MigrationsAmong(store'.shards, store.shards)
      BY <1>6, <1>7, <2>1, Zenon
    <2>3. Matched(store'.shards, task)
      BY <1>8, <2>2, MatchedAmong, Zenon
    <2>4. \A o \in Client : MigratesAt(o) => MigrationsAmong(store'.shards, copy[o].shards)
      BY <1>7, <2>2, AmongAmong, Zenon DEF TaskInv
    <2>5. QED
      BY <1>2, <2>3, <2>4, TaskReturn, Zenon
  <1>11. QED
    BY <1>9, <1>10, Zenon

(* The migration loop stores an outcome, which records no migration.       *)
LEMMA TaskSettle ==
    ASSUME Inv, StaleInv, TaskInv, Settle
    PROVE  TaskInv'
  <1>1. TypeOK
    BY Zenon DEF Inv
  <1>2. /\ loop.answer # "none"
        /\ UpdateCluster(clone, Settled, "loop")
        /\ UNCHANGED <<request, copy, sent, task>>
    BY Zenon DEF Settle, clientVars
  <1>3. Accepts(clone) /\ store'.shards = Settled
    BY <1>2, Zenon DEF UpdateCluster, Updated
  <1>4. clone \in Cluster /\ clone # NoCluster
    BY <1>2, SettledResult, Zenon
  <1>5. store # NoCluster /\ clone.shards = store.shards
    BY <1>1, <1>3, <1>4, AcceptedIsStored, Zenon DEF StaleInv, TypeOK
  <1>6. MigrationsAmong(store'.shards, store.shards)
    BY <1>2, <1>3, <1>5, SettledAmong, Zenon
  <1>7. Matched(store'.shards, task)
    BY <1>5, <1>6, MatchedAmong, Zenon DEF TaskInv
  <1>8. \A p \in Client : MigratesAt(p) => MigrationsAmong(store'.shards, copy[p].shards)
    BY <1>5, <1>6, AmongAmong, Zenon DEF TaskInv
  <1>9. Serving' = Serving /\ \A p \in Client : MigratesAt(p)' = MigratesAt(p)
    BY <1>2, Zenon DEF Serving, MigratesAt
  <1>10. QED
    BY <1>2, <1>7, <1>8, <1>9, Zenon DEF TaskInv

(* A crash ends every handler.                                             *)
LEMMA TaskReboot ==
    ASSUME TaskInv, Reboot
    PROVE  TaskInv'
  <1>1. UNCHANGED <<store, task>> /\ sent' = {} /\ Serving' = {}
    BY Zenon DEF Reboot, Serving
  <1>2. QED
    BY <1>1, Zenon DEF TaskInv, MigratesAt

(* Nothing is migrating at the start.                                      *)
LEMMA TaskInit == Init => TaskInv
  <1> SUFFICES ASSUME Init PROVE TaskInv
    BY Zenon
  <1>1. /\ Serving = {} /\ sent = {}
        /\ task = [n \in Node |-> NoTask]
    BY Zenon DEF Init, Serving
  <1>2. PICK groups \in Initial : store = Created(groups, 1)
    BY Zenon DEF Init
  <1>3. store.shards \in Seq(Shard)
    BY <1>2, ClusterStoreAssumption, NewClusterSound, SMTT(60) DEF Created
  <1>4. Matched(store.shards, task)
    BY <1>1, <1>3, MastersAreNodes, Zenon DEF Matched
  <1>5. QED
    BY <1>1, <1>4, Zenon DEF TaskInv, MigratesAt

(* One step per group of actions.                                          *)
LEMMA TaskNext ==
    SteadyMasters /\ Inv /\ StaleInv /\ TaskInv /\ MastersApart /\ [Next]_vars => TaskInv'
  <1> SUFFICES ASSUME SteadyMasters, Inv, StaleInv, TaskInv, MastersApart, [Next]_vars
               PROVE  TaskInv'
    BY Zenon
  <1>1. ASSUME UNCHANGED <<store, request, copy, sent, task>> PROVE TaskInv'
    <2>1. TasksAmong(task', task)
      BY <1>1, Zenon DEF TasksAmong
    <2>2. QED
      BY <1>1, <2>1, TaskQuiet, Zenon
  <1>2. CASE ClientNext
    <2>1. CASE \E p \in Client : SendMigrate(p)
      BY <2>1, TaskSend, Zenon
    <2>2. CASE \E p \in Client : Apply(p)
      BY <2>2, TaskApply, Zenon
    <2>3. ASSUME NEW p \in Client, Fail(p) PROVE TaskInv'
      <3>1. Return(p) /\ UNCHANGED <<store, task>>
        BY <2>3, Zenon DEF Fail, storeVars
      <3>2. QED
        BY <3>1, TaskReturn, Zenon DEF TaskInv
    <2>4. CASE \E p \in Client, q \in Requests : Receive(p, q)
      BY <2>4, TaskReceive, Zenon
    <2>5. ASSUME NEW q \in Requests, CreateCluster(q) \/ RemoveCluster(q) PROVE TaskInv'
      <3>1. gens \in Nat /\ ~CreateCluster(q)
        BY SMTT(60) DEF Inv, TypeOK, CreateCluster, StaleInv, SteadyMasters
      <3>2. store' = NoCluster /\ UNCHANGED <<request, copy, sent, task>>
        BY <2>5, <3>1, Zenon DEF RemoveCluster, clientVars
      <3>3. TasksAmong(task', task)
        BY <3>2, Zenon DEF TasksAmong
      <3>4. QED
        BY <3>2, <3>3, TaskQuiet, Zenon
    <2>6. QED
      BY <1>2, <2>1, <2>2, <2>3, <2>4, <2>5, SMTT(60) DEF ClientNext
  <1>3. CASE SendEvent \/ EventNext
    BY <1>1, <1>3, Zenon DEF SendEvent, EventNext, HandleCreate, HandleRemove, HandleUpdate,
                      NextEvent, clientVars
  <1>4. CASE ProbeLoopNext
    <2>1. UNCHANGED <<storeVars, clientVars, task>>
      BY <1>4, Zenon DEF ProbeLoopNext, ProbeRead, ProbeTick, ProbeReadFails, ProbeDone,
                         SyncTick, SyncDone, ProbeStep
    <2>2. QED
      BY <1>1, <2>1, Zenon DEF storeVars, clientVars
  <1>5. CASE MigrationLoopNext \/ Restart
    <2>1. CASE MigrationTick \/ SkipShard \/ GiveUpRound \/ TakeAnswer \/ SettleFails
      <3>1. UNCHANGED <<storeVars, clientVars, task>>
        BY <2>1, Zenon DEF MigrationTick, SkipShard, GiveUpRound, TakeAnswer, SettleFails
      <3>2. QED
        BY <1>1, <3>1, Zenon DEF storeVars, clientVars
    <2>2. CASE Settle
      BY <2>2, TaskSettle, Zenon
    <2>3. CASE Reboot
      BY <2>3, TaskReboot, Zenon
    <2>4. QED
      BY <1>5, <2>1, <2>2, <2>3, SMTT(60) DEF MigrationLoopNext, Panic, Restart
  <1>6. CASE NodeNext
    <2>1. UNCHANGED <<store, request, copy, sent>>
      BY <1>6, Zenon DEF NodeNext, FinishTask, RestartNode, storeVars, clientVars
    <2>2. QED
      BY <1>6, <2>1, NodesAmong, TaskQuiet, Zenon
  <1>7. CASE UNCHANGED vars
    BY <1>1, <1>7, SMTT(60) DEF vars, storeVars, clientVars
  <1>8. QED
    BY <1>2, <1>3, <1>4, <1>5, <1>6, <1>7, SMTT(60) DEF Next

(* As long as no address is the master of two shards, the source of a      *)
(* recorded migration is at no other one, whatever handlers, rounds of the *)
(* loop, crashes of the process and restarts of nodes interleave.  Without *)
(* SteadyMasters it may be: a failover back to an earlier master, a write  *)
(* of an object from before the cluster was created again and a write that *)
(* failed half-way bring migrations and tasks together that do not belong  *)
(* together.                                                               *)
THEOREM TasksMatch ==
    ASSUME SteadyMasters
    PROVE  Spec /\ []MastersApart => []PendingMatchesNode
  <1>1. Init => Inv /\ StaleInv /\ TaskInv
    BY InitInv, StaleInit, TaskInit, Zenon
  <1>2. Inv /\ StaleInv /\ TaskInv /\ MastersApart /\ [Next]_vars => (Inv /\ StaleInv /\ TaskInv)'
    BY NextInv, StaleNext, TaskNext, Zenon
  <1>3. TaskInv => PendingMatchesNode
    BY Zenon DEF TaskInv, Matched, PendingMatchesNode
  <1>4. QED
    BY <1>1, <1>2, <1>3, PTL DEF Spec
=============================================================================
