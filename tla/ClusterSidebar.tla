--------------------------- MODULE ClusterSidebar ---------------------------
(***************************************************************************)
(* The ClusterSidebar beside the page of a cluster                         *)
(* (webui/src/app/ui/sidebar.tsx, sidebarItem.tsx): the clusters of        *)
(* namespace page.space when it was mounted, links to their pages, their   *)
(* removal, and the form for a new one.  The page of the cluster itself is *)
(* that of ClusterPage.                                                    *)
(***************************************************************************)
EXTENDS NamespaceSidebar

(* The list stays as it is until the page is left or shows its spinner.    *)
ClustersShown(t) ==
    /\ Answered(t, Main, "side", "clusters")
    /\ LET request == tasks[t].awaits[Main] IN
       page' = [page EXCEPT !.items = request.names, !.since = request.read,
                            !.whole = tasks[t].whole]
    /\ Ended(t)
    /\ UNCHANGED <<server, view, form>>

(* The page of another cluster of the namespace, or this one after its     *)
(* spinner.                                                                *)
FollowClusterItem ==
    /\ OpenCluster(page.space)
    /\ UNCHANGED server

(* openDeleteConfirmDialog, and confirmDelete up to the await, as for a    *)
(* namespace.                                                              *)
confirmDeleteCluster(t) ==
    /\ FreeTask(t) /\ Reachable
    /\ \E c \in page.items : tasks' = [tasks EXCEPT ![t] =
            Running("item", Request("removeCluster", page.space, c, 0, None))]
    /\ UNCHANGED <<server, pageVars>>

(* After a removal the page of the namespace is next.                      *)
ClusterItemDone(t) ==
    /\ Answered(t, Main, "item", "removeCluster")
    /\ IF handleDeleteResponse(tasks[t].awaits[Main].status) = ""
       THEN Open(page.space)
       ELSE Ended(t) /\ UNCHANGED pageVars
    /\ UNCHANGED server

SubmitSideCluster(t) ==
    \E c \in ClusterName, formData \in FormInputs :
        ClusterCreation(formData) /\ Submit(t, Request("createCluster", page.space, c, 0, None))

SideContinue(t) == ClustersShown(t) \/ ClusterItemDone(t)
=============================================================================
