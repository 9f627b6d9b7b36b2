--------------------------- MODULE NamespaceData ----------------------------
(***************************************************************************)
(* The API as the pages of the namespaces use it: the namespaces with      *)
(* their clusters and the requests that read and change them               *)
(* (server/api/namespace.go, cluster.go, store/store.go), and the handlers *)
(* of a page that await them.  Other clients and the controller change the *)
(* clusters too.                                                           *)
(*                                                                         *)
(* A running handler is a task.  It awaits one request, or one for each    *)
(* cluster after Promise.all.  The code before an await and the code after *)
(* it are different actions.  version counts the changes; the versions     *)
(* that were read are recorded, and no guard uses them.                    *)
(***************************************************************************)
EXTENDS WebApi, Integers, FiniteSets, Functions

CONSTANTS
    Name,           \* names of namespaces
    ClusterName,    \* names of clusters
    ClusterShards,  \* the lists of shards that a cluster may have
    NewShards,      \* those of a new cluster
    InitialSpaces,  \* the namespaces at the start
    MaxVersion,     \* bound on the changes
    Task,           \* places for running handlers: a bound on how many
    Main,           \* what a handler awaits outside Promise.all
    None,           \* no name
    MaxUpsets       \* bound on what others change and the network loses

VARIABLES
    spaces,         \* for each namespace its clusters, each a list of shards
    version,        \* how often they have changed, counting from 1
    upsets,         \* how many changes of others, lost requests and lost answers
    tasks           \* the running handlers of the page

server == <<spaces, version, upsets>>

(* How migrating_slot is sent: null, "7" or "7-9".                         *)
MigratingSlot == {"null", "slot", "range"}

Shard == [nodes : Nat, slots : BOOLEAN, migrating : MigratingSlot]

NoClusters == [c \in {} |-> << >>]

(* The function f with the value v at x, and the one that has no other.    *)
Put(f, x, v) == [y \in DOMAIN f \cup {x} |-> IF y = x THEN v ELSE f[y]]

Just(x, v) == [y \in {x} |-> v]

(* Finitely many namespaces, each with finitely many clusters.             *)
ASSUME SpacesAssumption ==
    /\ ClusterShards \subseteq Seq(Shard) /\ NewShards \in Seq(Shard)
    /\ \A s \in InitialSpaces :
        /\ DOMAIN s \subseteq Name /\ IsFiniteSet(DOMAIN s) /\ s = [n \in DOMAIN s |-> s[n]]
        /\ \A n \in DOMAIN s :
            /\ DOMAIN s[n] \subseteq ClusterName /\ IsFiniteSet(DOMAIN s[n])
            /\ s[n] \in [DOMAIN s[n] -> Seq(Shard)]

ASSUME TaskAssumption == Task # {}

-----------------------------------------------------------------------------
(* Each edit is the set of its possible results, empty when it is refused. *)

CreateNamespace(n) ==
    IF n \in DOMAIN spaces THEN {} ELSE {Put(spaces, n, NoClusters)}

RemoveNamespace(n) ==
    IF n \in DOMAIN spaces /\ DOMAIN spaces[n] = {}
    THEN {Restrict(spaces, DOMAIN spaces \ {n})} ELSE {}

CreateCluster(n, c) ==
    IF n \in DOMAIN spaces /\ c \notin DOMAIN spaces[n]
    THEN {[spaces EXCEPT ![n] = Put(@, c, NewShards)]} ELSE {}

RemoveCluster(n, c) ==
    IF n \in DOMAIN spaces /\ c \in DOMAIN spaces[n]
    THEN {[spaces EXCEPT ![n] = Restrict(@, DOMAIN @ \ {c})]} ELSE {}

(* Shards, nodes, slots and migrations of a cluster change.                *)
UpdateCluster(n, c) ==
    {[spaces EXCEPT ![n][c] = list] : list \in ClusterShards \ {spaces[n][c]}}

Store(after) ==
    /\ version < MaxVersion
    /\ spaces' = after
    /\ version' = version + 1

-----------------------------------------------------------------------------
(* row is what has been counted so far, not a part of the request.         *)
Request(op, name, cluster, index, row) ==
    [op |-> op, name |-> name, cluster |-> cluster, index |-> index, status |-> "sent",
     names |-> {}, shards |-> << >>, count |-> 0, read |-> 0, row |-> row]

(* rows are those that the handler has put together, or has in its         *)
(* closure; names and clusters those that it has still to visit.           *)
Running(for, request) ==
    [for |-> for, awaits |-> Just(Main, request), rows |-> NoClusters,
     names |-> {}, clusters |-> {}, since |-> 0, whole |-> TRUE]

NoTask == [for |-> "none"]

FreeTask(t) == tasks[t] = NoTask /\ t = CHOOSE u \in Task : tasks[u] = NoTask

OnlyTask(task) == [t \in Task |-> IF t = (CHOOSE u \in Task : TRUE) THEN task ELSE NoTask]

Awaiting(t, b) == tasks[t] # NoTask /\ b \in DOMAIN tasks[t].awaits

Sent(t, b) == Awaiting(t, b) /\ tasks[t].awaits[b].status = "sent"

Answered(t, b, for, op) ==
    /\ Awaiting(t, b) /\ tasks[t].for = for
    /\ tasks[t].awaits[b].status # "sent" /\ tasks[t].awaits[b].op = op

Ended(t) == tasks' = [tasks EXCEPT ![t] = NoTask]

Reply(t, b, answer) ==
    tasks' = [tasks EXCEPT ![t].awaits[b] = answer,
                           ![t].whole = @ /\ answer.status # "error"]

Failed(request) == [request EXCEPT !.status = "error"]

(* Which cluster it was matters no more when a change has failed.          *)
Refuse(t) == Reply(t, Main, [Failed(tasks[t].awaits[Main]) EXCEPT !.cluster = None])

Upset == upsets < MaxUpsets /\ upsets' = upsets + 1

(* GET of the names of the namespaces or of the clusters of one, of a      *)
(* cluster or its list of shards, and of the list of nodes of a shard.     *)
Read(request) ==
    LET here == request.name \in DOMAIN spaces
        cluster == here /\ request.cluster \in DOMAIN spaces[request.name]
        data == [request EXCEPT !.status = "data"]
    IN  CASE request.op = "namespaces" ->
                [data EXCEPT !.names = DOMAIN spaces, !.read = version]
          [] request.op = "clusters" /\ here ->
                [data EXCEPT !.names = DOMAIN spaces[request.name], !.read = version]
          [] request.op \in {"cluster", "shards"} /\ cluster ->
                [data EXCEPT !.shards = spaces[request.name][request.cluster]]
          [] /\ request.op = "nodes" /\ cluster
             /\ request.index \in DOMAIN spaces[request.name][request.cluster] ->
                [data EXCEPT !.count = spaces[request.name][request.cluster][request.index].nodes]
          [] OTHER -> Failed(request)

ServeRead(t, b) ==
    /\ Sent(t, b)
    /\ tasks[t].awaits[b].op \in {"namespaces", "clusters", "cluster", "shards", "nodes"}
    /\ Reply(t, b, Read(tasks[t].awaits[b]))
    /\ UNCHANGED server

Edits(request) ==
    CASE request.op = "createNamespace" -> CreateNamespace(request.name)
      [] request.op = "removeNamespace" -> RemoveNamespace(request.name)
      [] request.op = "createCluster" -> CreateCluster(request.name, request.cluster)
      [] request.op = "removeCluster" -> RemoveCluster(request.name, request.cluster)

(* The request is carried out, and answered unless the answer is lost, or  *)
(* refused.  Past the bound the server refuses every change.               *)
ServeEdit(t) ==
    /\ Sent(t, Main)
    /\ LET request == tasks[t].awaits[Main]
           ok == IF request.op \in {"removeNamespace", "removeCluster"} THEN "empty" ELSE "data"
       IN
        /\ request.op \in {"createNamespace", "removeNamespace", "createCluster", "removeCluster"}
        /\ \/ /\ \E after \in Edits(request) : Store(after)
              /\ \/ Reply(t, Main, [request EXCEPT !.status = ok]) /\ UNCHANGED upsets
                 \/ Refuse(t) /\ Upset
           \/ /\ Edits(request) = {} \/ version = MaxVersion
              /\ Refuse(t)
              /\ UNCHANGED server

(* The request does not arrive, or the server fails to serve it, or has    *)
(* reasons to refuse it that are not modelled.                             *)
LoseRequest(t, b) ==
    /\ Sent(t, b)
    /\ Reply(t, b, Failed(tasks[t].awaits[b]))
    /\ Upset
    /\ UNCHANGED <<spaces, version>>

(* Another client, the controller, or a request of a page that is closed.  *)
Others ==
    \E n \in Name :
        \E after \in CreateNamespace(n) \cup RemoveNamespace(n)
                     \cup (UNION {CreateCluster(n, c) \cup RemoveCluster(n, c) : c \in ClusterName})
                     \cup (IF n \in DOMAIN spaces
                           THEN UNION {UpdateCluster(n, c) : c \in DOMAIN spaces[n]} ELSE {}) :
            Store(after) /\ Upset
=============================================================================
