--------------------------- MODULE NamespacesPage ---------------------------
(***************************************************************************)
(* The page of the namespaces (webui/src/app/namespaces/page.tsx): its     *)
(* effect visits every namespace, cluster and shard one after the other,   *)
(* and a removal only edits the rows that are shown.                       *)
(***************************************************************************)
EXTENDS NamespaceSidebar

Row(clusters) == [clusters |-> clusters, shards |-> 0, nodes |-> 0]

(* The loops of the effect: what the task awaits next.                     *)

NextNamespace(task) ==
    IF task.names = {} THEN [task EXCEPT !.awaits = NoClusters]
    ELSE LET n == CHOOSE n \in task.names : TRUE IN
         [task EXCEPT !.names = @ \ {n},
                      !.awaits = Just(Main, Request("clusters", n, None, 0, None))]

NextCluster(task, name, row) ==
    IF task.clusters = {}
    THEN NextNamespace([task EXCEPT !.rows = Put(@, name, row)])
    ELSE LET c == CHOOSE c \in task.clusters : TRUE IN
         [task EXCEPT !.clusters = @ \ {c},
                      !.awaits = Just(Main, Request("shards", name, c, 0, row))]

NextShard(task, request, index, shards, row) ==
    IF index > Len(shards) THEN NextCluster(task, request.name, row)
    ELSE [task EXCEPT !.awaits = Just(Main,
            [Request("nodes", request.name, request.cluster, index, row) EXCEPT !.shards = shards])]

(* The task awaits something more, or the rows are complete.               *)
Visit(t, task) ==
    IF task.awaits # NoClusters
    THEN tasks' = [tasks EXCEPT ![t] = task] /\ UNCHANGED pageVars
    ELSE /\ page' = [page EXCEPT !.rows = task.rows, !.count = Cardinality(DOMAIN task.rows),
                                 !.since = task.since, !.whole = task.whole,
                                 !.loading = FALSE]
         /\ Ended(t)
         /\ UNCHANGED <<view, form>>

NamespacesFetched(t) ==
    /\ Answered(t, Main, "load", "namespaces")
    /\ Visit(t, NextNamespace([tasks[t] EXCEPT !.names = tasks[t].awaits[Main].names,
                                               !.since = tasks[t].awaits[Main].read]))
    /\ UNCHANGED server

ClustersFetched(t) ==
    /\ Answered(t, Main, "load", "clusters")
    /\ LET request == tasks[t].awaits[Main] IN
       Visit(t, NextCluster([tasks[t] EXCEPT !.clusters = request.names],
                            request.name, Row(Cardinality(request.names))))
    /\ UNCHANGED server

ShardsFetched(t) ==
    /\ Answered(t, Main, "load", "shards")
    /\ LET request == tasks[t].awaits[Main] IN
       Visit(t, NextShard(tasks[t], request, 1, request.shards,
                          [request.row EXCEPT !.shards = @ + Len(request.shards)]))
    /\ UNCHANGED server

(* The count starts with the second shard.                                 *)
NodesFetchedFromTwo(t) ==
    /\ Answered(t, Main, "load", "nodes")
    /\ LET request == tasks[t].awaits[Main] IN
       Visit(t, NextShard(tasks[t], request, request.index + 1, request.shards,
                          [request.row EXCEPT !.nodes = request.count]))
    /\ UNCHANGED server

NodesFetched(t) ==
    /\ Answered(t, Main, "load", "nodes")
    /\ LET request == tasks[t].awaits[Main] IN
       Visit(t, NextShard(tasks[t], request, request.index + 1, request.shards,
                          [request.row EXCEPT !.nodes = @ + request.count]))
    /\ UNCHANGED server

-----------------------------------------------------------------------------
NamespaceFilter == {"all", "with-clusters", "no-clusters"}

(* The names of the rows that are shown; their order does not matter, as   *)
(* links and buttons go by name.                                           *)
filteredNamespaces(filterOption) ==
    {n \in DOMAIN page.rows :
        /\ filterOption = "with-clusters" => page.rows[n].clusters > 0
        /\ filterOption = "no-clusters" => page.rows[n].clusters = 0}

FollowNamespace ==
    /\ Reachable
    /\ \E filterOption \in NamespaceFilter : \E n \in filteredNamespaces(filterOption) : Open(n)
    /\ UNCHANGED server

(* handleDeleteNamespace up to the await; the rows of its closure go with  *)
(* it.                                                                     *)
handleDeleteNamespace(t) ==
    /\ FreeTask(t) /\ Reachable
    /\ \E filterOption \in NamespaceFilter : \E n \in filteredNamespaces(filterOption) :
        /\ page.deleting # n
        /\ page' = [page EXCEPT !.deleting = n,
                        !.overlap = @ \/ \E u \in Task : tasks[u] # NoTask /\ tasks[u].for = "delete"]
        /\ tasks' = [tasks EXCEPT ![t] =
                [Running("delete", Request("removeNamespace", n, None, 0, None)) EXCEPT
                    !.rows = page.rows]]
    /\ UNCHANGED <<server, view, form>>

(* The row goes, but the number of namespaces only when it was removed.    *)
NamespaceDeletedCountRemovals(t) ==
    /\ Answered(t, Main, "delete", "removeNamespace")
    /\ LET request == tasks[t].awaits[Main] IN
       page' = [page EXCEPT !.rows = Restrict(tasks[t].rows, DOMAIN tasks[t].rows \ {request.name}),
                    !.count = IF handleDeleteResponse(request.status) = "" THEN @ - 1 ELSE @,
                    !.deleting = None, !.whole = FALSE]
    /\ Ended(t)
    /\ UNCHANGED <<server, view, form>>

(* The row goes although the server may have refused: deleteNamespace      *)
(* returns its message, and does not throw.                                *)
NamespaceDeleted(t) ==
    /\ Answered(t, Main, "delete", "removeNamespace")
    /\ LET request == tasks[t].awaits[Main] IN
       page' = [page EXCEPT !.rows = Restrict(tasks[t].rows, DOMAIN tasks[t].rows \ {request.name}),
                    !.count = @ - 1, !.deleting = None, !.whole = FALSE]
    /\ Ended(t)
    /\ UNCHANGED <<server, view, form>>

HomeContinue(t) ==
    \/ NamespacesFetched(t) \/ ClustersFetched(t) \/ ShardsFetched(t) \/ NodesFetched(t)
    \/ NamespaceDeleted(t)
=============================================================================
