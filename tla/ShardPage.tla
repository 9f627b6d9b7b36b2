------------------------------ MODULE ShardPage ------------------------------
(***************************************************************************)
(* The page of shard number At                                             *)
(* (webui/src/app/namespaces/[namespace]/clusters/[cluster]/shards/        *)
(* [shard]/page.tsx) with its FailoverDialog                               *)
(* (webui/src/app/ui/failoverDialog.tsx), its form for new nodes, and the  *)
(* ShardSidebar beside it (webui/src/app/ui/sidebar.tsx, sidebarItem.tsx). *)
(*                                                                         *)
(* While loading is set the page shows a spinner and nothing else: dialog, *)
(* form and sidebar are unmounted, their state is lost, and what they have *)
(* sent is answered to a component that is gone ("stray").  Messages are   *)
(* left out.                                                               *)
(***************************************************************************)
EXTENDS ShardNodes, FormDialog

CONSTANT FormInputs     \* what is typed into the form

VARIABLES
    page,           \* nodesData, loading, deletingNodeIndex
    dialog,         \* the FailoverDialog; open is failoverDialogOpen of the page
    side            \* the shards of the sidebar, and the one whose removal is asked about

shardVars == <<page, dialog, side, form>>

(* at, read and seen belong to the nodes; done is the version of the last  *)
(* change the page has asked for and been told of; overlap, that nodes     *)
(* have been asked for twice at a time.                                    *)
Loading == [nodes |-> << >>, at |-> NoShard, read |-> 0, seen |-> 0, loading |-> TRUE,
            deleting |-> 0, done |-> 0, overlap |-> FALSE]

NoDialog == [open |-> FALSE, selected |-> Automatic, busy |-> FALSE]

NoSide == [items |-> 0, confirm |-> 0]

FetchShard(for) == Request("nodes", for, At, Automatic)

(* The page is opened.                                                     *)
Open ==
    /\ page' = Loading
    /\ dialog' = NoDialog
    /\ side' = NoSide
    /\ form' = NoForm
    /\ calls' = Only(FetchShard("load"))

-----------------------------------------------------------------------------
(* Lists *)

FilterOption == {"all", "master", "replica"}

SortOption == {"none", "uptime-asc", "uptime-desc"}

Passes(n, filterOption) ==
    \/ filterOption = "all"
    \/ filterOption = "master" /\ n.master
    \/ filterOption = "replica" /\ ~n.master

(* The places in page.nodes that are left by the filter and by searchTerm, *)
(* which finds one node, or all of them if it is 0.                        *)
filteredNodes(searchTerm, filterOption) ==
    {i \in DOMAIN page.nodes : searchTerm \in {0, i} /\ Passes(page.nodes[i], filterOption)}

(* The nodes have no index: the sort by index changes nothing.  The age of *)
(* a node is the order of its creation.                                    *)
Before(i, j, sortOption) ==
    CASE sortOption = "none" -> i < j
      [] sortOption = "uptime-asc" -> page.nodes[i].node < page.nodes[j].node
      [] sortOption = "uptime-desc" -> page.nodes[i].node > page.nodes[j].node

(* The rows: a node and its place among those that are shown.              *)
filteredAndSortedNodes(searchTerm, filterOption, sortOption) ==
    LET shown == filteredNodes(searchTerm, filterOption) IN
    {row \in [place : DOMAIN page.nodes, node : Node] :
        \E i \in shown :
            /\ row.node = page.nodes[i].node
            /\ row.place = Cardinality({j \in shown : ~Before(i, j, sortOption)})}

(* The rows that may be on the screen: the options can be changed at any   *)
(* time.                                                                   *)
ShownRows ==
    UNION {filteredAndSortedNodes(searchTerm, filterOption, sortOption) :
           searchTerm \in 0 .. Len(page.nodes),
           filterOption \in FilterOption, sortOption \in SortOption}

-----------------------------------------------------------------------------
(* Loading *)

(* The dialog is still there when its answer comes.                        *)
UnmountedSideOnly ==
    [c \in Call |->
        IF calls[c] # NoCall /\ calls[c].for = "side" THEN NoCall ELSE calls[c]]

Unmounted ==
    [c \in Call |->
        IF calls[c] # NoCall /\ calls[c].for \in {"dialog", "form"}
        THEN [calls[c] EXCEPT !.for = "stray"]
        ELSE IF calls[c] # NoCall /\ calls[c].for = "side" THEN NoCall
        ELSE calls[c]]

Fetching == \E c \in Call : Outstanding(c, "nodes")

(* setLoading(true) and the request for the nodes, after a change.         *)
StartFetch(c, for) ==
    /\ page' = [page EXCEPT !.loading = TRUE, !.overlap = @ \/ Fetching,
                            !.done = IF calls[c].read > @ THEN calls[c].read ELSE @]
    /\ dialog' = [NoDialog EXCEPT !.open = dialog.open /\ for # "refresh"]
    /\ side' = NoSide
    /\ form' = NoForm
    /\ calls' = [Unmounted EXCEPT ![c] = FetchShard(for)]

Shown(c) ==
    [page EXCEPT !.nodes = FetchedList(calls[c].status, calls[c].nodes),
                 !.at = calls[c].at, !.read = calls[c].read, !.seen = calls[c].seen]

(* setLoading(false): the sidebar is mounted and asks for its shards.      *)
EndLoading(c, after) ==
    /\ page' = [after EXCEPT !.loading = FALSE]
    /\ calls' = [calls EXCEPT ![c] =
            IF page.loading THEN Request("shards", "side", 0, Automatic) ELSE NoCall]
    /\ UNCHANGED <<server, dialog, side, form>>

(* A load that fails is not noticed.                                       *)
LoadDoneOnData(c) ==
    /\ AnsweredTo(c, "nodes", "load") \/ AnsweredTo(c, "nodes", "refresh")
    /\ calls[c].status = "data"
    /\ EndLoading(c, Shown(c))

(* The end of fetchData and of refreshShardData.                           *)
LoadDone(c) ==
    /\ AnsweredTo(c, "nodes", "load") \/ AnsweredTo(c, "nodes", "refresh")
    /\ EndLoading(c, Shown(c))

SideLoaded(c) ==
    /\ AnsweredTo(c, "shards", "side")
    /\ side' = [side EXCEPT !.items = calls[c].count]
    /\ Done(c)
    /\ UNCHANGED <<server, page, dialog, form>>

-----------------------------------------------------------------------------
(* Removing a node *)

(* A dialog covers the rest of the page.                                   *)
Reachable == ~page.loading /\ ~dialog.open /\ ~form.open /\ side.confirm = 0

ForShown(request) == [request EXCEPT !.at = page.at, !.seen = page.seen]

(* The request has the index of the row in place of the ID.                *)
DeleteClickByIndex(c) ==
    /\ Free(c) /\ Reachable
    /\ \E p \in DOMAIN page.nodes \ {page.deleting} :
        /\ page' = [page EXCEPT !.deleting = p]
        /\ calls' = [calls EXCEPT ![c] = ForShown(Request("removeNode", "page", At, p - 1))]
    /\ UNCHANGED <<server, dialog, side, form>>

(* The button's handler up to the await, the question answered with yes.   *)
(* The button is disabled for the place of deletingNodeIndex.              *)
DeleteClick(c) ==
    /\ Free(c) /\ Reachable
    /\ \E row \in ShownRows :
        /\ row.place # page.deleting
        /\ page' = [page EXCEPT !.deleting = row.place]
        /\ calls' = [calls EXCEPT
                ![c] = ForShown(Request("removeNode", "page", At, row.node))]
    /\ UNCHANGED <<server, dialog, side, form>>

(* The shard is not fetched again.                                         *)
DeleteDoneInPlace(c) ==
    /\ AnsweredTo(c, "removeNode", "page")
    /\ EndLoading(c, [page EXCEPT !.deleting = 0,
                                  !.done = IF calls[c].read > @ THEN calls[c].read ELSE @])

(* An alert and the finally clause, or the shard is fetched again.         *)
DeleteDone(c) ==
    /\ AnsweredTo(c, "removeNode", "page")
    /\ \/ /\ handleDeleteResponse(calls[c].status) # ""
          /\ EndLoading(c, [page EXCEPT !.deleting = 0])
       \/ /\ handleDeleteResponse(calls[c].status) = ""
          /\ StartFetch(c, "delete")
          /\ UNCHANGED server

DeleteFetched(c) ==
    AnsweredTo(c, "nodes", "delete") /\ EndLoading(c, [Shown(c) EXCEPT !.deleting = 0])

-----------------------------------------------------------------------------
(* The failover dialog *)

OpenFailover ==
    /\ Reachable /\ Replicas(page.nodes) # {}
    /\ dialog' = [dialog EXCEPT !.open = TRUE]
    /\ UNCHANGED <<server, page, side, form, calls>>

(* A radio button, also while a request is outstanding.                    *)
SelectNode ==
    /\ dialog.open /\ ~page.loading
    /\ \E node \in Replicas(page.nodes) \cup {Automatic} :
        dialog' = [dialog EXCEPT !.selected = node]
    /\ UNCHANGED <<server, page, side, form, calls>>

(* handleFailover up to the await.                                         *)
handleFailover(c) ==
    /\ Free(c)
    /\ dialog.open /\ ~page.loading /\ ~dialog.busy /\ Replicas(page.nodes) # {}
    /\ dialog' = [dialog EXCEPT !.busy = TRUE]
    /\ calls' = [calls EXCEPT
            ![c] = ForShown(Request("failover", "dialog", At, dialog.selected))]
    /\ UNCHANGED <<server, page, side, form>>

(* The rest of it.  What it does to the page it also does after its dialog *)
(* has been unmounted.                                                     *)
FailoverDone(c) ==
    /\ Answered(c, "failover")
    /\ \/ /\ failoverShard(calls[c].status) # ""
          /\ dialog' = IF calls[c].for = "dialog"
                       THEN [dialog EXCEPT !.busy = FALSE] ELSE dialog
          /\ Done(c)
          /\ UNCHANGED <<page, side, form>>
       \/ /\ failoverShard(calls[c].status) = ""
          /\ StartFetch(c, "refresh")
    /\ UNCHANGED server

(* handleClose.                                                            *)
CloseFailover ==
    /\ dialog.open /\ ~page.loading /\ ~dialog.busy
    /\ dialog' = NoDialog
    /\ UNCHANGED <<server, page, side, form, calls>>

-----------------------------------------------------------------------------
(* The form for a new node *)

OpenForm == Reachable /\ openDialog /\ UNCHANGED <<server, page, dialog, side, calls>>

LeaveForm == closeDialog /\ UNCHANGED <<server, page, dialog, side, calls>>

SubmitForm(c) ==
    /\ Free(c)
    /\ \E formData \in FormInputs :
        /\ NodeCreation(formData) /\ handleSubmit
        /\ calls' = [calls EXCEPT ![c] = ForShown(Request("createNode", "form", At, Automatic))]
    /\ UNCHANGED <<server, page, dialog, side>>

(* Success loads the page anew.  What else it has sent may still be        *)
(* served, as a request of others.                                         *)
FormDone(c) ==
    /\ Answered(c, "createNode")
    /\ \/ handleCreateResponse(calls[c].status) = "" /\ Open
       \/ /\ handleCreateResponse(calls[c].status) # ""
          /\ IF calls[c].for = "form" THEN EndSubmit(handleError) ELSE UNCHANGED form
          /\ Done(c)
          /\ UNCHANGED <<page, dialog, side>>
    /\ UNCHANGED server

-----------------------------------------------------------------------------
(* The sidebar *)

(* Shards are shown with their numbers.                                    *)
AskRemoval ==
    /\ Reachable
    /\ \E i \in 1 .. side.items : side' = [side EXCEPT !.confirm = i]
    /\ UNCHANGED <<server, page, dialog, form, calls>>

(* confirmDelete up to the await.  The question stays, and its button can  *)
(* be used again.                                                          *)
confirmDelete(c) ==
    /\ Free(c) /\ ~page.loading /\ side.confirm # 0
    /\ calls' = [calls EXCEPT
            ![c] = Request("removeShard", "item", side.confirm, Automatic)]
    /\ UNCHANGED <<server, page, dialog, side, form>>

CancelRemoval ==
    /\ ~page.loading /\ side.confirm # 0
    /\ side' = [side EXCEPT !.confirm = 0]
    /\ UNCHANGED <<server, page, dialog, form, calls>>

(* Success leads to the page of the cluster, from where this page may be   *)
(* opened again.                                                           *)
ConfirmDone(c) ==
    /\ Answered(c, "removeShard")
    /\ \/ handleDeleteResponse(calls[c].status) = "" /\ Open
       \/ /\ handleDeleteResponse(calls[c].status) # ""
          /\ Done(c)
          /\ UNCHANGED shardVars
    /\ UNCHANGED server

-----------------------------------------------------------------------------
ShardContinue(c) ==
    \/ LoadDone(c) \/ SideLoaded(c) \/ DeleteDone(c) \/ DeleteFetched(c)
    \/ FailoverDone(c) \/ FormDone(c) \/ ConfirmDone(c)

(* What the user does that sends a request.                                *)
ShardUser(c) == DeleteClick(c) \/ handleFailover(c) \/ SubmitForm(c) \/ confirmDelete(c)

ShardClick ==
    \/ OpenFailover \/ SelectNode \/ CloseFailover
    \/ OpenForm \/ LeaveForm \/ AskRemoval \/ CancelRemoval
=============================================================================
