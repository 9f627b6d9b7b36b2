--------------------------- MODULE NamespacePage ----------------------------
(***************************************************************************)
(* The page of one namespace                                               *)
(* (webui/src/app/namespaces/[namespace]/page.tsx), whose name is view.    *)
(* Its effect, and every removal of a cluster, ask for the clusters and    *)
(* then visit them side by side, each with its shards one after the other. *)
(***************************************************************************)
EXTENDS NamespaceSidebar

(* migrating_slot >= 0, which JavaScript finds true of null and of the     *)
(* string of one slot, and false of the string of a range.                 *)
NotNegative(migrating) == migrating \in {"null", "slot"}

(* The row of a cluster.  No shard has an import_slot.                     *)
ClusterRow(shards) ==
    [shards |-> Len(shards), nodes |-> 0,
     hasSlots |-> \E i \in DOMAIN shards : shards[i].slots,
     hasMigration |-> \E i \in DOMAIN shards : NotNegative(shards[i].migrating),
     hasImporting |-> FALSE]

GiveUp(t) ==
    /\ page' = [page EXCEPT !.loading = FALSE]
    /\ Ended(t)
    /\ UNCHANGED <<view, form>>

(* The handler of a namespace that is not found just returns.              *)
LookedUpOrStuck(t) ==
    /\ Answered(t, Main, "load", "namespaces")
    /\ IF view \in tasks[t].awaits[Main].names
       THEN /\ tasks' = [tasks EXCEPT ![t].awaits = Just(Main, Request("clusters", view, None, 0, None))]
            /\ UNCHANGED pageVars
       ELSE Ended(t) /\ UNCHANGED pageVars
    /\ UNCHANGED server

(* A namespace that is not found: notFound throws inside of the handler,   *)
(* which catches it, and the page is empty.                                *)
LookedUp(t) ==
    /\ Answered(t, Main, "load", "namespaces")
    /\ IF view \in tasks[t].awaits[Main].names
       THEN /\ tasks' = [tasks EXCEPT ![t].awaits = Just(Main, Request("clusters", view, None, 0, None))]
            /\ UNCHANGED pageVars
       ELSE GiveUp(t)
    /\ UNCHANGED server

(* Promise.all ends with the last of the clusters.                         *)
Collect(t, task) ==
    IF task.awaits # NoClusters
    THEN tasks' = [tasks EXCEPT ![t] = task] /\ UNCHANGED pageVars
    ELSE /\ page' = [page EXCEPT !.rows = task.rows, !.since = task.since, !.whole = task.whole,
                                 !.loading = FALSE,
                                 !.deleting = IF task.for = "delete" THEN None ELSE @]
         /\ Ended(t)
         /\ UNCHANGED <<view, form>>

ClustersListed(t) ==
    /\ Answered(t, Main, "load", "clusters") \/ Answered(t, Main, "delete", "clusters")
    /\ LET request == tasks[t].awaits[Main] IN
       Collect(t, [tasks[t] EXCEPT !.since = request.read,
                    !.awaits = [c \in request.names |-> Request("cluster", view, c, 0, None)]])
    /\ UNCHANGED server

EndBranch(task, c) == [task EXCEPT !.awaits = Restrict(@, DOMAIN @ \ {c})]

NextNodes(task, c, index, shards, row) ==
    IF index > Len(shards)
    THEN EndBranch([task EXCEPT !.rows = Put(@, c, row)], c)
    ELSE [task EXCEPT !.awaits[c] =
            [Request("nodes", view, c, index, row) EXCEPT !.shards = shards]]

(* A cluster that cannot be read has no row.                               *)
ClusterFetched(t, c) ==
    /\ Answered(t, c, "load", "cluster") \/ Answered(t, c, "delete", "cluster")
    /\ LET request == tasks[t].awaits[c] IN
       Collect(t, IF request.status = "data"
                  THEN NextNodes(tasks[t], c, 1, request.shards, ClusterRow(request.shards))
                  ELSE EndBranch(tasks[t], c))
    /\ UNCHANGED server

ShardCounted(t, c) ==
    /\ Answered(t, c, "load", "nodes") \/ Answered(t, c, "delete", "nodes")
    /\ LET request == tasks[t].awaits[c] IN
       Collect(t, NextNodes(tasks[t], c, request.index + 1, request.shards,
                            [request.row EXCEPT !.nodes = @ + request.count]))
    /\ UNCHANGED server

-----------------------------------------------------------------------------
ClusterFilter ==
    {"all", "with-migration", "no-migration", "with-slots", "no-slots", "with-importing"}

(* The names of the rows that are shown, as in filteredNamespaces.         *)
filteredClusters(filterOption) ==
    {c \in DOMAIN page.rows :
        CASE filterOption = "with-migration" -> page.rows[c].hasMigration
          [] filterOption = "no-migration" -> ~page.rows[c].hasMigration
          [] filterOption = "with-slots" -> page.rows[c].hasSlots
          [] filterOption = "no-slots" -> ~page.rows[c].hasSlots
          [] filterOption = "with-importing" -> page.rows[c].hasImporting
          [] OTHER -> TRUE}

FollowCluster ==
    /\ Reachable
    /\ \E filterOption \in ClusterFilter : filteredClusters(filterOption) # {}
    /\ OpenCluster(view)
    /\ UNCHANGED server

(* handleDeleteCluster up to the first await.                              *)
handleDeleteCluster(t) ==
    /\ FreeTask(t) /\ Reachable
    /\ \E filterOption \in ClusterFilter : \E c \in filteredClusters(filterOption) :
        /\ page.deleting # c
        /\ page' = [page EXCEPT !.deleting = c]
        /\ tasks' = [tasks EXCEPT ![t] =
                Running("delete", Request("removeCluster", view, c, 0, None))]
    /\ UNCHANGED <<server, view, form>>

(* The button stays disabled after a refusal.                              *)
ClusterRefusedDisabled(t) ==
    /\ Answered(t, Main, "delete", "removeCluster")
    /\ handleDeleteResponse(tasks[t].awaits[Main].status) # ""
    /\ page' = [page EXCEPT !.loading = FALSE]
    /\ Ended(t)
    /\ UNCHANGED <<server, view, form>>

(* The finally of a removal that is refused takes the spinner away even    *)
(* if another handler has put it there.                                    *)
ClusterRefused(t) ==
    /\ Answered(t, Main, "delete", "removeCluster")
    /\ handleDeleteResponse(tasks[t].awaits[Main].status) # ""
    /\ page' = [page EXCEPT !.loading = FALSE, !.deleting = None]
    /\ Ended(t)
    /\ UNCHANGED <<server, view, form>>

ClusterRemoved(t) ==
    /\ Answered(t, Main, "delete", "removeCluster")
    /\ handleDeleteResponse(tasks[t].awaits[Main].status) = ""
    /\ page' = [page EXCEPT !.loading = TRUE]
    /\ form' = NoForm
    /\ tasks' = [Unmounted(tasks) EXCEPT
                    ![t].awaits = Just(Main, Request("clusters", view, None, 0, None))]
    /\ UNCHANGED <<server, view>>

(* The forms that create or import a cluster; one request stands for both. *)
SubmitCluster(t) ==
    \E c \in ClusterName, formData \in FormInputs :
        /\ ClusterCreation(formData) \/ ImportCluster(formData)
        /\ Submit(t, Request("createCluster", view, c, 0, None))

InsideContinue(t) ==
    \/ LookedUp(t) \/ ClustersListed(t) \/ ClusterRefused(t) \/ ClusterRemoved(t)
    \/ \E c \in ClusterName : ClusterFetched(t, c) \/ ShardCounted(t, c)
=============================================================================
