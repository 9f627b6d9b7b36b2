---------------------------- MODULE ClusterStore ----------------------------
(***************************************************************************)
(* One cluster in the store of one controller process and everything that  *)
(* writes it: the HTTP handlers (server/api), the failover of the checker  *)
(* (increaseFailureCount) and its migration loop, each of which reads a    *)
(* copy, edits it and hands it to UpdateCluster, which compares versions   *)
(* under the cluster's lock (store/store.go).                              *)
(*                                                                         *)
(* The lock makes GetCluster and UpdateCluster atomic; between the two     *)
(* anything may happen.  The process may crash and restart, the engine may *)
(* fail a write or lose its answer, nodes may be unreachable or restart.   *)
(*                                                                         *)
(* No node knows a newer version than the store: a cluster that is created *)
(* again has other nodes, so that the refresh of the store from a node     *)
(* that is ahead (the end of parallelProbeNodes) does not happen here.     *)
(***************************************************************************)
EXTENDS Topology

CONSTANTS
    Client,         \* goroutines that serve a request or fail over a shard
    Requests,       \* the requests that may arrive
    Initial,        \* the node groups of the clusters that exist at the start
    Faults,         \* the faults that may happen: "engine", "node", "restart"
    EventCap,       \* capacity of eventNotifyCh and the event that
                    \* leaderEventLoop is handling; 101 in the code
    MaxShards,      \* bound on the number of shards
    MaxVersion,     \* bound on the version at which requests still arrive
    MaxGen,         \* bound on the number of times the cluster is created
    NoCluster, NoRequest, NoTask

Migrates(q) == q.op \in {"moveSlot", "migrateSlot"}

ASSUME ClusterStoreAssumption ==
    /\ EventCap \in Nat
    /\ Initial \subseteq Seq(Group) \ {<<>>}
    /\ \A q \in Requests :
          /\ q.op = "createCluster" => q.groups \in Seq(Group) \ {<<>>}
          /\ q.op = "createShard" => q.group \in Group
          /\ q.op \in {"addNode", "removeNode"} => q.node \in Node
          /\ Migrates(q) => q.slot \in SlotRange /\ q.target \in Nat

VARIABLES
    store,          \* the value of the cluster's key in the engine
    gens,           \* how often the cluster has been created
    events,         \* eventNotifyCh; the head may be in leaderEventLoop's hands
    waiting,        \* the event that the holder of the cluster's lock has
                    \* stored but cannot send, and who holds the lock
    request,        \* the request each client is serving
    copy,           \* the cluster each client has read
    sent,           \* the clients whose CLUSTERX MIGRATE has been accepted
    checker,        \* whether the controller runs a checker for the cluster
    probe,          \* what probeLoop is doing
    sync,           \* syncCh, of capacity 1, is full
    cached,         \* ClusterChecker.cluster
    clone,          \* clonedCluster of the round of the migration loop
    aliased,        \* cached and clone are one object
    loop,           \* the shard the round is at, and its source's answer
    task            \* the last slot migration each node has been given

storeVars == <<store, gens, events, waiting>>
clientVars == <<request, copy, sent>>
probeVars == <<probe, sync>>
loopVars == <<clone, aliased, loop>>
checkerVars == <<checker, probeVars, cached, loopVars>>
vars == <<storeVars, clientVars, checkerVars, task>>

(* gen tells the clusters that have had this name apart and saved is FALSE *)
(* once an object has been edited and the edit has not been stored; the    *)
(* code has neither.                                                       *)
Cluster == [gen : Nat, version : Nat, shards : Seq(Shard), saved : BOOLEAN]

ASSUME NoClusterAssumption == NoCluster \notin Cluster

Task == [slot : SlotRange, to : Node, state : {"start", "success", "fail"}]

Idle == [at |-> 0, answer |-> "none"]

Event == {"create", "update", "remove"}

Waiting == [event : Event, by : {"api", "probe", "loop"}]

NoEvent == [event |-> "none", by |-> "none"]

(* Every copy of the cluster that the store, a handler or a loop of the    *)
(* checker holds is a cluster: no edit leaves the types of the source.     *)
TypeOK ==
    /\ store \in Cluster \cup {NoCluster}
    /\ gens \in Nat
    /\ events \in Seq(Event)
    /\ waiting \in Waiting \cup {NoEvent}
    /\ request \in [Client -> Requests \cup {NoRequest}]
    /\ copy \in [Client -> Cluster \cup {NoCluster}]
    /\ sent \in SUBSET Client
    /\ checker \in BOOLEAN
    /\ probe \in {"idle", "tick", "sync", "probing"}
    /\ sync \in BOOLEAN
    /\ cached \in Cluster \cup {NoCluster}
    /\ clone \in Cluster \cup {NoCluster}
    /\ aliased \in BOOLEAN
    /\ loop \in [at : Nat, answer : {"none", "success", "fail"}]
    /\ task \in [Node -> Task \cup {NoTask}]

Created(groups, gen) ==
    [gen |-> gen, version |-> 1, shards |-> NewCluster(groups), saved |-> TRUE]

Init ==
    /\ store \in {Created(groups, 1) : groups \in Initial}
    /\ gens = 1
    /\ events = <<>>
    /\ waiting = NoEvent
    /\ request = [p \in Client |-> NoRequest]
    /\ copy = [p \in Client |-> NoCluster]
    /\ sent = {}
    /\ checker = TRUE
    /\ probe = "idle"
    /\ sync = FALSE
    /\ cached = NoCluster
    /\ clone = NoCluster
    /\ aliased = FALSE
    /\ loop = Idle
    /\ task = [n \in Node |-> NoTask]

-----------------------------------------------------------------------------
(* store/store.go *)

(* Everyone who reads or writes the cluster takes its lock, which a writer *)
(* keeps until its event is sent.                                          *)
Unlocked == waiting = NoEvent

(* EmitEvent, which blocks while the channel is full.  No event is sent    *)
(* when the engine has stored the value but its answer is lost.            *)
Emit(event, by) ==
    \/ /\ Len(events) < EventCap
       /\ events' = Append(events, event)
       /\ UNCHANGED waiting
    \/ /\ Len(events) = EventCap
       /\ waiting' = [event |-> event, by |-> by]
       /\ UNCHANGED events
    \/ /\ "engine" \in Faults
       /\ UNCHANGED <<events, waiting>>

(* There is room at last.                                                  *)
SendEvent ==
    /\ ~Unlocked
    /\ Len(events) < EventCap
    /\ events' = Append(events, waiting.event)
    /\ waiting' = NoEvent
    /\ UNCHANGED <<store, gens, clientVars, checkerVars, task>>

(* The versions are not compared.                                          *)
AcceptsAny(c) == store # NoCluster

(* The version check of UpdateCluster.                                     *)
Accepts(c) == store # NoCluster /\ store.version <= c.version

(* UpdateCluster of the object c, edited to have these shards.             *)
Updated(c, shards) ==
    [gen |-> store.gen, version |-> c.version + 1, shards |-> shards, saved |-> TRUE]

UpdateCluster(c, shards, by) ==
    /\ Unlocked
    /\ Accepts(c)
    /\ store' = Updated(c, shards)
    /\ Emit("update", by)
    /\ UNCHANGED gens

CreateCluster(q) ==
    /\ q.op = "createCluster"
    /\ Unlocked
    /\ store = NoCluster
    /\ gens < MaxGen
    /\ store' = Created(q.groups, gens + 1)
    /\ gens' = gens + 1
    /\ Emit("create", "api")
    /\ UNCHANGED <<clientVars, checkerVars, task>>

RemoveCluster(q) ==
    /\ q.op = "removeCluster"
    /\ Unlocked
    /\ store # NoCluster
    /\ store' = NoCluster
    /\ Emit("remove", "api")
    /\ UNCHANGED <<gens, clientVars, checkerVars, task>>

-----------------------------------------------------------------------------
(* server/api: a request on an existing cluster *)

(* The shard lists that the handler of q may make of the ones it has read. *)
Edits(shards, q) ==
    CASE q.op = "createShard" -> CreateShard(shards, q.group)
      [] q.op = "removeShard" -> RemoveShard(shards, q.shard)
      [] q.op = "failover"    -> PromoteNewMaster(shards, q.shard, q.master)
      [] q.op = "addNode"     -> AddNode(shards, q.shard, q.node)
      [] q.op = "removeNode"  -> RemoveNode(shards, q.shard, q.node)
      [] q.op = "moveSlot"    -> MigrateSlotOnly(shards, q.slot, q.target)
      [] q.op = "migrateSlot" -> MigrateSlotData(shards, q.slot, q.target)
      [] OTHER                -> {}

(* A failover that names the master comes from the probes of the checker.  *)
IsProbe(q) == q.op = "failover" /\ q.master # AnyMaster

Serving == {p \in Client : request[p] # NoRequest}

(* MigrateSlot does not take the handler's lock.                           *)
ReceiveUnlocked(p, q) ==
    /\ p \notin Serving
    /\ q.op \notin {"createCluster", "removeCluster"}
    /\ Unlocked
    /\ store # NoCluster
    /\ store.version < MaxVersion
    /\ q.op = "createShard" => Len(store.shards) < MaxShards
    /\ IsProbe(q) => probe = "probing"
    /\ request' = [request EXCEPT ![p] = q]
    /\ copy' = [copy EXCEPT ![p] = store]
    /\ UNCHANGED <<storeVars, sent, checkerVars, task>>

(* RequiredCluster or the handler itself reads the cluster; MigrateSlot    *)
(* holds the handler's lock from before the read until it returns.         *)
Receive(p, q) ==
    /\ p \notin Serving
    /\ q.op \notin {"createCluster", "removeCluster"}
    /\ Unlocked
    /\ store # NoCluster
    /\ store.version < MaxVersion
    /\ q.op = "createShard" => Len(store.shards) < MaxShards
    /\ Migrates(q) => \A o \in Serving : ~Migrates(request[o])
    /\ IsProbe(q) => probe = "probing"
    /\ request' = [request EXCEPT ![p] = q]
    /\ copy' = [copy EXCEPT ![p] = store]
    /\ UNCHANGED <<storeVars, sent, checkerVars, task>>

Return(p) ==
    /\ request' = [request EXCEPT ![p] = NoRequest]
    /\ copy' = [copy EXCEPT ![p] = NoCluster]
    /\ sent' = sent \ {p}

(* The data migration starts on the source node before it is recorded.     *)
SendMigrate(p) ==
    /\ p \in Serving \ sent
    /\ request[p].op = "migrateSlot"
    /\ LET q == request[p]
           shards == copy[p].shards
       IN  \E source \in DataMigrationSources(shards, q.slot, q.target) :
           \E from \in shards[source].masters, to \in shards[q.target].masters :
              /\ task[from] # NoTask => task[from].state # "start"
              /\ task' = [task EXCEPT ![from] =
                            [slot |-> q.slot, to |-> to, state |-> "start"]]
    /\ sent' = sent \cup {p}
    /\ UNCHANGED <<storeVars, request, copy, checkerVars>>

Apply(p) ==
    /\ p \in Serving
    /\ request[p].op = "migrateSlot" => p \in sent
    /\ \E shards \in Edits(copy[p].shards, request[p]) :
          UpdateCluster(copy[p], shards, IF IsProbe(request[p]) THEN "probe" ELSE "api")
    /\ Return(p)
    /\ UNCHANGED <<checkerVars, task>>

(* The handler answers with an error: the edit is not possible, a node or  *)
(* the engine fails, or the version check refuses the update.              *)
Fail(p) ==
    /\ p \in Serving
    /\ \/ Edits(copy[p].shards, request[p]) = {}
       \/ request[p].op \in {"failover", "migrateSlot"} /\ p \notin sent
       \/ Unlocked /\ ("engine" \in Faults \/ ~Accepts(copy[p]))
    /\ Return(p)
    /\ UNCHANGED <<storeVars, checkerVars, task>>

-----------------------------------------------------------------------------
(* controller/controller.go: the events of the store *)

NextEvent(event) ==
    /\ events # <<>>
    /\ Head(events) = event
    /\ events' = Tail(events)
    /\ UNCHANGED <<store, gens, waiting, clientVars, task>>

(* addCluster does nothing if the cluster has a checker already.           *)
HandleCreate ==
    /\ NextEvent("create")
    /\ checker' = TRUE
    /\ UNCHANGED <<probeVars, cached, loopVars>>

(* removeCluster has cancelled the context of the checker, so that the     *)
(* calls the checker makes fail, and waits in Close for its loops to end.  *)
Cancelled == checker /\ events # <<>> /\ Head(events) = "remove"

HandleRemove ==
    /\ NextEvent("remove")
    /\ checker => probe = "idle" /\ loop = Idle /\ waiting.by # "loop"
    /\ checker' = FALSE
    /\ sync' = FALSE
    /\ cached' = NoCluster
    /\ UNCHANGED <<probe, loopVars>>

(* updateCluster waits in sendSyncEvent while syncCh is full.              *)
HandleUpdate ==
    /\ NextEvent("update")
    /\ ~sync
    /\ sync' = checker
    /\ UNCHANGED <<checker, probe, cached, loopVars>>

-----------------------------------------------------------------------------
(* controller/cluster.go: the probe loop of the checker.  What it sends to *)
(* the nodes is left out; the failovers it starts are requests.            *)

ProbeStep(from, to) ==
    /\ checker
    /\ probe = from
    /\ probe' = to
    /\ UNCHANGED <<storeVars, clientVars, checker, loopVars, task>>

ProbeTick == ProbeStep("idle", "tick") /\ UNCHANGED <<sync, cached>>

(* The copy is never refreshed.                                            *)
ProbeReadOnce ==
    /\ Unlocked
    /\ store # NoCluster
    /\ cached' = IF cached = NoCluster THEN store ELSE cached
    /\ aliased' = FALSE
    /\ probe = "tick"
    /\ probe' = "probing"
    /\ UNCHANGED <<storeVars, clientVars, checker, sync, clone, loop, task>>

(* GetCluster, which waits for the lock.  When the cluster is gone it      *)
(* fails and the old copy stays.                                           *)
ProbeRead ==
    /\ Unlocked
    /\ store # NoCluster
    /\ cached' = store
    /\ aliased' = FALSE
    /\ probe = "tick"
    /\ probe' = "probing"
    /\ UNCHANGED <<storeVars, clientVars, checker, sync, clone, loop, task>>

ProbeReadFails ==
    /\ Unlocked
    /\ store = NoCluster \/ Cancelled \/ "engine" \in Faults
    /\ ProbeStep("tick", "idle")
    /\ UNCHANGED <<sync, cached>>

(* parallelProbeNodes waits for the failovers that it has started.         *)
ProbeDone ==
    /\ \A p \in Serving : ~IsProbe(request[p])
    /\ waiting.by # "probe"
    /\ ProbeStep("probing", "idle")
    /\ UNCHANGED <<sync, cached>>

SyncTick ==
    /\ sync
    /\ sync' = FALSE
    /\ ProbeStep("idle", "sync")
    /\ UNCHANGED cached

(* syncClusterToNodes reads the cluster, which it does not keep.           *)
SyncDone ==
    /\ Unlocked
    /\ ProbeStep("sync", "idle")
    /\ UNCHANGED <<sync, cached>>

-----------------------------------------------------------------------------
(* controller/cluster.go: the migration loop of the checker *)

(* The loop passes over shards that are not migrating; the round ends      *)
(* behind the last one.                                                    *)
StepTo(shards, i) ==
    LET rest == {j \in DOMAIN shards : j >= i /\ IsMigrating(shards[j])}
    IN  [at |-> IF rest = {} THEN 0 ELSE CHOOSE j \in rest : \A k \in rest : j <= k,
         answer |-> "none"]

(* The object of a round that is over is garbage.                          *)
Continue(l, object, isCached) ==
    /\ loop' = l
    /\ clone' = IF l = Idle THEN NoCluster ELSE object
    /\ aliased' = (l # Idle /\ isCached)

MigrationTick ==
    /\ checker
    /\ loop = Idle
    /\ waiting.by # "loop"
    /\ cached # NoCluster
    /\ \E i \in DOMAIN cached.shards : IsMigrating(cached.shards[i])
    /\ Continue(StepTo(cached.shards, 1), cached, FALSE)
    /\ UNCHANGED <<storeVars, clientVars, checker, probeVars, cached, task>>

Asking == loop.at # 0 /\ loop.answer = "none" /\ waiting.by # "loop"

Source == CHOOSE m \in Node : m \in clone.shards[loop.at].masters

(* GetClusterInfo fails, the node is migrating something else or is still  *)
(* at it: on to the next shard.                                            *)
SkipShard ==
    /\ Asking
    /\ LET shard == clone.shards[loop.at]
       IN  \/ "node" \in Faults \/ Cancelled
           \/ /\ task[Source] # NoTask
              /\ \/ task[Source].slot # shard.migrating
                 \/ task[Source].state = "start" /\ shard.target \in DOMAIN clone.shards
    /\ Continue(StepTo(clone.shards, loop.at + 1), clone, aliased)
    /\ UNCHANGED <<storeVars, clientVars, checker, probeVars, cached, task>>

(* The target shard does not exist: the whole round is given up.           *)
GiveUpRound ==
    /\ Asking
    /\ task[Source] # NoTask
    /\ task[Source].slot = clone.shards[loop.at].migrating
    /\ clone.shards[loop.at].target \notin DOMAIN clone.shards
    /\ Continue(Idle, clone, aliased)
    /\ UNCHANGED <<storeVars, clientVars, checker, probeVars, cached, task>>

(* The target shard index is not checked.                                  *)
TakeAnswerAnyTarget ==
    /\ Asking
    /\ task[Source] # NoTask
    /\ task[Source].slot = clone.shards[loop.at].migrating
    /\ task[Source].state # "start"
    /\ loop' = [loop EXCEPT !.answer = task[Source].state]
    /\ UNCHANGED <<storeVars, clientVars, checker, probeVars, cached, clone, aliased, task>>

(* The node is done.  An unknown state is treated like "fail".             *)
TakeAnswer ==
    /\ Asking
    /\ task[Source] # NoTask
    /\ task[Source].slot = clone.shards[loop.at].migrating
    /\ clone.shards[loop.at].target \in DOMAIN clone.shards
    /\ task[Source].state # "start"
    /\ loop' = [loop EXCEPT !.answer = task[Source].state]
    /\ UNCHANGED <<storeVars, clientVars, checker, probeVars, cached, clone, aliased, task>>

Settled == IF loop.answer = "success" THEN MigrationSucceeded(clone.shards, loop.at)
                                      ELSE MigrationFailed(clone.shards, loop.at)

(* UpdateCluster succeeds and the clone becomes the checker's cluster,     *)
(* which the rest of the round keeps editing.  If only the answer of the   *)
(* engine is lost the round ends instead.                                  *)
Settle ==
    /\ loop.answer # "none"
    /\ UpdateCluster(clone, Settled, "loop")
    /\ IF <<events, waiting>>' # <<events, waiting>>
       THEN /\ cached' = store'
            /\ Continue(StepTo(Settled, loop.at + 1), store', TRUE)
       ELSE /\ cached' = IF aliased THEN store' ELSE cached
            /\ Continue(Idle, clone, aliased)
    /\ UNCHANGED <<clientVars, checker, probeVars, task>>

(* The version check refuses the update, or a call of the engine fails     *)
(* before or after the version of the object has been raised.              *)
SettleFails ==
    /\ loop.answer # "none"
    /\ Unlocked
    /\ Accepts(clone) => "engine" \in Faults \/ Cancelled
    /\ \E raised \in {0, 1} :
          /\ raised = 1 => Accepts(clone)
          /\ LET edited == [clone EXCEPT !.shards = Settled, !.saved = FALSE,
                                         !.version = @ + raised]
             IN  cached' = IF aliased THEN edited ELSE cached
    /\ Continue(Idle, clone, aliased)
    /\ UNCHANGED <<storeVars, clientVars, checker, probeVars, task>>

-----------------------------------------------------------------------------
(* Crashes and nodes *)

(* The process starts again with nothing but the store: resume starts a    *)
(* checker for the cluster that exists.                                    *)
Reboot ==
    /\ events' = <<>>
    /\ waiting' = NoEvent
    /\ request' = [p \in Client |-> NoRequest]
    /\ copy' = [p \in Client |-> NoCluster]
    /\ sent' = {}
    /\ checker' = (store # NoCluster)
    /\ probe' = "idle"
    /\ sync' = FALSE
    /\ cached' = NoCluster
    /\ Continue(Idle, NoCluster, FALSE)
    /\ UNCHANGED <<store, gens, task>>

Restart == "restart" \in Faults /\ Reboot

(* The source reports no migration at all: MigratingSlot is nil and the    *)
(* comparison with it panics.                                              *)
Panic == Asking /\ task[Source] = NoTask /\ Reboot

(* A node ends the migration it has been given.                            *)
FinishTask(n) ==
    /\ task[n] # NoTask
    /\ task[n].state = "start"
    /\ \E state \in {"success", "fail"} : task' = [task EXCEPT ![n].state = state]
    /\ UNCHANGED <<storeVars, clientVars, checkerVars>>

(* A node that restarts has forgotten its migration.                       *)
RestartNode(n) ==
    /\ "node" \in Faults
    /\ task[n] # NoTask
    /\ task' = [task EXCEPT ![n] = NoTask]
    /\ UNCHANGED <<storeVars, clientVars, checkerVars>>

-----------------------------------------------------------------------------
ClientNext ==
    \/ \E p \in Client : SendMigrate(p) \/ Apply(p) \/ Fail(p)
    \/ \E p \in Client, q \in Requests : Receive(p, q)
    \/ \E q \in Requests : CreateCluster(q) \/ RemoveCluster(q)

EventNext == HandleCreate \/ HandleRemove \/ HandleUpdate

ProbeLoopNext == ProbeTick \/ ProbeRead \/ ProbeReadFails \/ ProbeDone \/ SyncTick \/ SyncDone

MigrationLoopNext ==
    \/ MigrationTick
    \/ SkipShard
    \/ GiveUpRound
    \/ TakeAnswer
    \/ Settle
    \/ SettleFails
    \/ Panic

NodeNext == \E n \in Node : FinishTask(n) \/ RestartNode(n)

Next ==
    \/ ClientNext
    \/ SendEvent
    \/ EventNext
    \/ ProbeLoopNext
    \/ MigrationLoopNext
    \/ Restart
    \/ NodeNext

Spec == Init /\ [][Next]_vars

(* The event loop, both loops of the checker and the handlers are          *)
(* goroutines that the scheduler keeps running, with tickers that keep     *)
(* firing; a node brings every migration to an end.  The select of         *)
(* probeLoop chooses at random among the channels that are ready, so that  *)
(* neither of them is passed over for ever.                                *)
Fairness ==
    /\ WF_vars(SendEvent)
    /\ WF_vars(EventNext)
    /\ SF_vars(ProbeTick)
    /\ SF_vars(SyncTick)
    /\ WF_vars(ProbeLoopNext)
    /\ WF_vars(MigrationLoopNext)
    /\ \A p \in Client : WF_vars(SendMigrate(p) \/ Apply(p) \/ Fail(p))
    /\ \A n \in Node : WF_vars(FinishTask(n))

FairSpec == Spec /\ Fairness

-----------------------------------------------------------------------------
(* Properties *)

(* The cluster objects in the memory of the process that may be written.   *)
Objects == ({copy[p] : p \in Client} \cup {cached, clone}) \ {NoCluster}

(* No interleaving of handlers, failovers, migration rounds, crashes and   *)
(* engine faults leaves a slot of the stored topology without an owner or  *)
(* with two: RemoveShard refuses shards with slots, a move takes what it   *)
(* gives, and every write replaces the topology as a whole.                *)
EverySlotHasOneOwner == store # NoCluster => OwnsEverySlotOnce(store.shards)

(* The range that a shard is migrating away is still its own, so that      *)
(* applying the outcome of the migration cannot take slots from a third    *)
(* shard: a slot_only move cancels the migration of its source, and no     *)
(* second migration of the same source starts.                             *)
PendingOwnedBySource == store # NoCluster => MigratesOwnSlots(store.shards)

(* Whatever failovers of the API and of the checker race with changes of   *)
(* the nodes, a stored shard has exactly one master, and it is not listed  *)
(* as a slave as well.                                                     *)
OneMasterPerShard ==
    store # NoCluster => \A i \in DOMAIN store.shards : HasOneMaster(store.shards[i])

(* No update is lost: an object in memory that the version check of        *)
(* UpdateCluster would accept holds the shards that are stored, so writing *)
(* it undoes nothing.  Two kinds of objects are excepted because the check *)
(* does not recognise them: one read before the cluster was removed and    *)
(* created again, and one whose last update the engine failed to store.    *)
NoStaleWrite ==
    \A c \in Objects :
        Accepts(c) /\ c.gen = store.gen /\ c.saved => c.shards = store.shards

(* The node that is the source of a recorded migration is never at another *)
(* one: MigrateSlot's lock keeps a second command from reaching the node   *)
(* between the first command and its record in the store.                  *)
PendingMatchesNode ==
    store # NoCluster =>
        \A i \in DOMAIN store.shards :
            IsMigrating(store.shards[i]) =>
                \A m \in store.shards[i].masters :
                    task[m] # NoTask => task[m].slot = store.shards[i].migrating

(* Slots that the migration loop hands over go to the shard of the node    *)
(* that the source was told to send the data to.                           *)
MigratedToTarget ==
    [][loop.answer = "success" /\ Settle =>
        \E i \in DOMAIN store'.shards :
            /\ task[Source].to \in store'.shards[i].masters \cup store'.shards[i].slaves
            /\ SlotsIn(clone.shards[loop.at].migrating) \subseteq store'.shards[i].slots]_vars

(* The migration loop never meets a source without a migrating slot, so it *)
(* never panics.                                                           *)
NeverPanics == Asking => task[Source] # NoTask

Pending == store # NoCluster /\ \E i \in DOMAIN store.shards : IsMigrating(store.shards[i])

(* Every recorded migration is settled once requests stop arriving: the    *)
(* loop sees its end however the handlers, the failovers, the events and   *)
(* the rounds of the loop have interleaved before.                         *)
MigrationsEnd == Pending ~> ~Pending

-----------------------------------------------------------------------------
(* The inductive invariant behind the safety properties *)

(* A client that serves a request has read the cluster, and the shard that *)
(* the migration loop is at is migrating, to a target that exists once the *)
(* answer of the node has been taken.                                      *)
InProgress ==
    /\ \A p \in Serving : copy[p] # NoCluster
    /\ loop # Idle =>
          /\ clone # NoCluster
          /\ loop.at \in DOMAIN clone.shards
          /\ IsMigrating(clone.shards[loop.at])
          /\ loop.answer # "none" => clone.shards[loop.at].target \in DOMAIN clone.shards

(* An object of the cluster that is stored now as st, the last of g that   *)
(* have been created, is sound by itself; it is not ahead of the store,    *)
(* and if it has the stored version it holds what is stored.               *)
Fits(c, st, g) ==
    c # NoCluster =>
        /\ Sound(c.shards)
        /\ c.gen <= g
        /\ st # NoCluster /\ c.gen = st.gen /\ c.saved =>
              /\ c.version <= st.version
              /\ c.version = st.version => c.shards = st.shards

AllFit ==
    /\ Fits(store, store, gens)
    /\ Fits(cached, store, gens)
    /\ Fits(clone, store, gens)
    /\ \A p \in Client : Fits(copy[p], store, gens)

(* What every step of the handlers, the loops and the faults preserves.    *)
Inv == TypeOK /\ InProgress /\ AllFit
=============================================================================
