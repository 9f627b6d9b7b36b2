----------------------------- MODULE Controller -----------------------------
(***************************************************************************)
(* Which clusters a controller process checks (controller/controller.go).  *)
(* syncLoop starts a checker for every stored cluster when the process     *)
(* becomes the leader and stops them when it no longer is; leaderEventLoop *)
(* starts and stops them as clusters are created and removed.  Both share  *)
(* the map of checkers, whose mutex each call takes for itself.            *)
(*                                                                         *)
(* The engine tells the leader and announces every change of it on an      *)
(* unbuffered channel, so the leader does not change again before syncLoop *)
(* has received the announcement.  Other processes share the store.  Full  *)
(* event channels and the updates of a cluster are in ClusterStore.        *)
(***************************************************************************)
EXTENDS Naturals, Sequences, FiniteSets

CONSTANTS
    Key,            \* the clusters, by namespace and name
    Self,           \* the ID of this process
    Other,          \* the ID of another one
    Faults,         \* what may happen: "list", "startup", "flap", "remote"
    MaxElections,   \* bound on the announcements of the engine
    MaxWrites,      \* bound on the clusters created and removed
    NoKey, NoLeader

ASSUME ControllerAssumption ==
    /\ NoKey \notin Key
    /\ Cardinality({Self, Other, NoLeader}) = 3

VARIABLES
    leader,         \* the leader as the engine knows it
    announced,      \* the engine is sending on leaderChangeCh
    elections,      \* how often it has
    stored,         \* the clusters in the store
    writes,         \* how often one has been created or removed
    events,         \* eventNotifyCh
    clusters,       \* the keys of the map of checkers
    running,        \* how many checkers of each cluster run
    pc,             \* where syncLoop is
    ready,          \* it has sent on readyCh, and the API is served
    prevTermLeader,
    todo,           \* the listed clusters that resume has not added yet
    adding,         \* the cluster that each loop has not found in the map
    closed,         \* Close has been called
    exited          \* the loops that have returned

engineVars == <<leader, announced, elections>>
storedVars == <<stored, writes, events>>
mapVars == <<clusters, running>>
syncVars == <<pc, ready, prevTermLeader, todo>>
controllerVars == <<engineVars, storedVars, mapVars, syncVars, adding, closed, exited>>

Loop == {"sync", "event"}
Leader == {Self, Other, NoLeader}
Event == [command : {"create", "remove"}, key : Key]

(* The map, the loops and the events of the controller have their types;   *)
(* in particular no checker is stopped that is not running.                *)
ControllerTypeOK ==
    /\ leader \in Leader
    /\ announced \in BOOLEAN
    /\ elections \in Nat
    /\ stored \in SUBSET Key
    /\ writes \in Nat
    /\ events \in Seq(Event)
    /\ clusters \in SUBSET Key
    /\ running \in [Key -> Nat]
    /\ pc \in {"start", "list", "resume", "mark", "select", "received", "lost"}
    /\ ready \in BOOLEAN
    /\ prevTermLeader \in Leader
    /\ todo \in SUBSET Key
    /\ adding \in [Loop -> Key \cup {NoKey}]
    /\ closed \in BOOLEAN
    /\ exited \in SUBSET Loop

(* NoLeader stands for the "" that prevTermLeader starts with.             *)
ControllerInit ==
    /\ leader \in Leader
    /\ announced \in BOOLEAN
    /\ elections = 0
    /\ stored \in SUBSET Key
    /\ writes = 0
    /\ events = <<>>
    /\ clusters = {}
    /\ running = [k \in Key |-> 0]
    /\ pc = "start"
    /\ ready = FALSE
    /\ prevTermLeader = NoLeader
    /\ todo = {}
    /\ adding = [l \in Loop |-> NoKey]
    /\ closed = FALSE
    /\ exited = {}

-----------------------------------------------------------------------------
(* The map of checkers *)

IsLeader == leader = Self

(* The checkers stay in the map.                                           *)
StopWithoutDelete(keys) ==
    /\ UNCHANGED clusters
    /\ running' = [k \in Key |-> IF k \in clusters \cap keys THEN running[k] - 1
                                                             ELSE running[k]]

(* A checker is closed whether the map has it or not.                      *)
StopMissing(keys) ==
    /\ clusters' = clusters \ keys
    /\ running' = [k \in Key |-> IF k \in keys THEN running[k] - 1 ELSE running[k]]

(* Close and delete of the checkers of these clusters under the mutex.     *)
Stop(keys) ==
    /\ clusters' = clusters \ keys
    /\ running' = [k \in Key |-> IF k \in clusters \cap keys THEN running[k] - 1
                                                             ELSE running[k]]

suspend == Stop(Key)

(* The first half of addCluster: a cluster that is in the map is left as   *)
(* it is.                                                                  *)
Lookup(loop, key) ==
    adding' = [adding EXCEPT ![loop] = IF key \in clusters THEN NoKey ELSE key]

(* The second half: a checker is started and put into the map, in place of *)
(* the one that has been put there meanwhile.                              *)
StartChecker(loop) ==
    /\ adding[loop] # NoKey
    /\ clusters' = clusters \cup {adding[loop]}
    /\ running' = [running EXCEPT ![adding[loop]] = @ + 1]
    /\ adding' = [adding EXCEPT ![loop] = NoKey]
    /\ UNCHANGED <<engineVars, storedVars, syncVars, closed, exited>>

-----------------------------------------------------------------------------
(* syncLoop *)

SyncStart ==
    /\ pc = "start"
    /\ pc' = IF IsLeader THEN "list" ELSE "mark"
    /\ UNCHANGED <<engineVars, storedVars, mapVars, ready, prevTermLeader, todo,
                   adding, closed, exited>>

(* resume lists the clusters; when that fails it adds none.                *)
ListClusters ==
    /\ pc = "list"
    /\ pc' = "resume"
    /\ todo' \in {stored} \cup (IF "list" \in Faults THEN {{}} ELSE {})
    /\ UNCHANGED <<engineVars, storedVars, mapVars, ready, prevTermLeader,
                   adding, closed, exited>>

ResumeCluster(key) ==
    /\ pc = "resume"
    /\ adding["sync"] = NoKey
    /\ key \in todo
    /\ todo' = todo \ {key}
    /\ Lookup("sync", key)
    /\ UNCHANGED <<engineVars, storedVars, mapVars, pc, ready, prevTermLeader, closed, exited>>

ResumeDone ==
    /\ pc = "resume"
    /\ adding["sync"] = NoKey
    /\ todo = {}
    /\ pc' = IF ready THEN "select" ELSE "mark"
    /\ prevTermLeader' = IF ready THEN Self ELSE prevTermLeader
    /\ UNCHANGED <<engineVars, storedVars, mapVars, ready, todo, adding, closed, exited>>

(* The leader is read once more after the start, and again after a         *)
(* suspension.                                                             *)
MarkLeader ==
    /\ pc \in {"mark", "lost"}
    /\ pc' = "select"
    /\ ready' = TRUE
    /\ prevTermLeader' = leader
    /\ UNCHANGED <<engineVars, storedVars, mapVars, todo, adding, closed, exited>>

ReceiveLeaderChange ==
    /\ pc = "select"
    /\ "sync" \notin exited
    /\ announced
    /\ announced' = FALSE
    /\ pc' = "received"
    /\ UNCHANGED <<leader, elections, storedVars, mapVars, ready, prevTermLeader, todo,
                   adding, closed, exited>>

(* Gaining the leadership is taken for a renewal of it.                    *)
HandleLeaderLoss ==
    /\ pc = "received"
    /\ CASE ~IsLeader /\ prevTermLeader = Self ->
              pc' = "lost" /\ suspend
         [] OTHER ->
              pc' = "select" /\ UNCHANGED mapVars
    /\ UNCHANGED <<engineVars, storedVars, ready, prevTermLeader, todo, adding, closed, exited>>

(* A change is one only if this process gained or lost the leadership.     *)
HandleLeaderChange ==
    /\ pc = "received"
    /\ CASE IsLeader /\ prevTermLeader # Self ->
              pc' = "list" /\ UNCHANGED mapVars
         [] ~IsLeader /\ prevTermLeader = Self ->
              pc' = "lost" /\ suspend
         [] OTHER ->
              pc' = "select" /\ UNCHANGED mapVars
    /\ UNCHANGED <<engineVars, storedVars, ready, prevTermLeader, todo, adding, closed, exited>>

-----------------------------------------------------------------------------
(* leaderEventLoop *)

(* Events are dropped unless this process is the leader.                   *)
HandleEvent ==
    /\ "event" \notin exited
    /\ adding["event"] = NoKey
    /\ events # <<>>
    /\ events' = Tail(events)
    /\ LET event == Head(events)
       IN  CASE IsLeader /\ event.command = "create" ->
                  Lookup("event", event.key) /\ UNCHANGED mapVars
             [] IsLeader /\ event.command = "remove" ->
                  Stop({event.key}) /\ UNCHANGED adding
             [] OTHER -> UNCHANGED <<mapVars, adding>>
    /\ UNCHANGED <<engineVars, stored, writes, syncVars, closed, exited>>

-----------------------------------------------------------------------------
(* Close: the checkers are stopped, then both loops return from select.    *)

Close ==
    /\ ready
    /\ ~closed
    /\ closed' = TRUE
    /\ suspend
    /\ UNCHANGED <<engineVars, storedVars, syncVars, adding, exited>>

Exit(loop) ==
    /\ closed
    /\ loop \notin exited
    /\ adding[loop] = NoKey
    /\ loop = "sync" => pc = "select"
    /\ exited' = exited \cup {loop}
    /\ UNCHANGED <<engineVars, storedVars, mapVars, syncVars, adding, closed>>

-----------------------------------------------------------------------------
(* The environment *)

(* The engine learns of a leader and announces it, the same one perhaps.   *)
(* Without the faults it does so neither before syncLoop has started up    *)
(* nor while it handles the last announcement, which takes a few           *)
(* instructions outside of resume.                                         *)
Elect(id) ==
    /\ ~announced
    /\ elections < MaxElections
    /\ ~ready => "startup" \in Faults
    /\ pc \in {"received", "lost"} => "flap" \in Faults
    /\ leader' = id
    /\ announced' = TRUE
    /\ elections' = elections + 1
    /\ UNCHANGED <<storedVars, mapVars, syncVars, adding, closed, exited>>

WriteCluster(key) ==
    /\ writes < MaxWrites
    /\ writes' = writes + 1
    /\ stored' = IF key \in stored THEN stored \ {key} ELSE stored \cup {key}
    /\ UNCHANGED <<engineVars, mapVars, syncVars, adding, closed, exited>>

(* The API is served at once.                                              *)
ServedAtOnce == TRUE

(* The server waits for the controller before it serves the API.           *)
Served == ready

(* CreateCluster and RemoveCluster by a handler of this process.  It runs  *)
(* whoever the leader is: RedirectIfNotLeader does not abort the request.  *)
WriteHere(key) ==
    /\ Served
    /\ WriteCluster(key)
    /\ events' = Append(events, [key |-> key,
                                 command |-> IF key \in stored THEN "remove" ELSE "create"])

(* The same by another process, whose events do not reach this one.        *)
(* Without the fault it does so only when this process is not the leader   *)
(* and has handled, or dropped, the events of its own.                     *)
WriteElsewhere(key) ==
    /\ IsLeader \/ events # <<>> => "remote" \in Faults
    /\ WriteCluster(key)
    /\ UNCHANGED events

-----------------------------------------------------------------------------
SyncNext ==
    \/ SyncStart
    \/ ListClusters
    \/ \E key \in Key : ResumeCluster(key)
    \/ ResumeDone
    \/ MarkLeader
    \/ ReceiveLeaderChange
    \/ HandleLeaderChange
    \/ StartChecker("sync")

EventNext == HandleEvent \/ StartChecker("event")

ControllerNext ==
    \/ SyncNext
    \/ EventNext
    \/ Close
    \/ \E loop \in Loop : Exit(loop)
    \/ \E id \in {Self, Other} : Elect(id)
    \/ \E key \in Key : WriteHere(key) \/ WriteElsewhere(key)

ControllerSpec == ControllerInit /\ [][ControllerNext]_controllerVars

(* Both loops are goroutines that the scheduler keeps running.             *)
FairControllerSpec ==
    /\ ControllerSpec
    /\ WF_controllerVars(SyncNext)
    /\ WF_controllerVars(EventNext)

-----------------------------------------------------------------------------
(* Properties *)

(* A checker in the map is one that runs: whatever suspensions, removals   *)
(* and additions of the two loops interleave, none is closed and kept.  An *)
(* update of a cluster is therefore never sent to a checker that is gone.  *)
MappedIsRunning == \A k \in clusters : running[k] > 0

(* As long as the leader does not change no cluster has two checkers: the  *)
(* clusters that are stored at the start are all added before the API may  *)
(* create another one.                                                     *)
OneCheckerPerCluster == elections = 0 => \A k \in Key : running[k] <= 1

(* A process that stays the leader ends up with a checker for every        *)
(* cluster in the store: whatever resume has not listed has an event that  *)
(* leaderEventLoop does not drop.                                          *)
EveryClusterIsChecked ==
    <>[](IsLeader /\ ~closed) => <>[](stored \subseteq clusters)

-----------------------------------------------------------------------------
(* The inductive invariant behind the safety properties *)

(* While the leader is the one of the start, the loops take turns:         *)
(* syncLoop adds until it is ready, leaderEventLoop afterwards, and        *)
(* neither is about to add a cluster that the map has.                     *)
OneAdder ==
    /\ \A k \in Key : running[k] = IF k \in clusters THEN 1 ELSE 0
    /\ \A l \in Loop : adding[l] \notin clusters
    /\ ready <=> pc \in {"select", "received"}
    /\ ~ready => events = <<>> /\ adding["event"] = NoKey
    /\ pc # "resume" => adding["sync"] = NoKey
    /\ ready => prevTermLeader = leader

ControllerInv ==
    /\ ControllerTypeOK
    /\ MappedIsRunning
    /\ elections = 0 => OneAdder
=============================================================================
