------------------------------ MODULE NodePage ------------------------------
(***************************************************************************)
(* The page of a node                                                      *)
(* (webui/src/app/namespaces/[namespace]/clusters/[cluster]/shards/        *)
(* [shard]/nodes/[node]/page.tsx) with the NodeSidebar beside it           *)
(* (webui/src/app/ui/sidebar.tsx, sidebarItem.tsx).  The address names the *)
(* node by a place in the list of the nodes of shard number At.            *)
(***************************************************************************)
EXTENDS ShardNodes

(* The page and its sidebar each send a request when the page is opened.   *)
ASSUME NodePageAssumption == \E c, d \in Call : c # d

VARIABLE visit      \* the address, nodeData, loading, and the nodes of the sidebar

(* node, from and seen record the node that the link stood for and what    *)
(* its list was read from; read and at belong to the nodes.                *)
Visit(index, node, from, seen) ==
    [index |-> index, node |-> node, from |-> from, seen |-> seen,
     nodes |-> << >>, at |-> NoShard, read |-> 0, loading |-> TRUE,
     items |-> << >>, itemsSeen |-> 0, itemsAt |-> NoShard, confirm |-> 0]

NoVisit == [Visit(0, 0, NoShard, 0) EXCEPT !.loading = FALSE]

(* The link of node n at this place is followed.                           *)
GoTo(index, n, from, seen) ==
    /\ visit' = Visit(index, n, from, seen)
    /\ LET visited == Only(Request("nodes", "visit", At, Automatic)) IN
       calls' = [visited EXCEPT
                    ![FirstFree(visited)] = Request("nodes", "nodeSide", At, Automatic)]

NodeLoaded(c) ==
    /\ AnsweredTo(c, "nodes", "visit")
    /\ visit' = [visit EXCEPT !.loading = FALSE, !.at = calls[c].at, !.read = calls[c].seen,
                              !.nodes = FetchedList(calls[c].status, calls[c].nodes)]
    /\ Done(c)
    /\ UNCHANGED server

(* 0 where the page says that the node is not found.                       *)
currentNode ==
    IF visit.index \in DOMAIN visit.nodes THEN visit.nodes[visit.index].node ELSE 0

NodeSideLoaded(c) ==
    /\ AnsweredTo(c, "nodes", "nodeSide")
    /\ visit' = [visit EXCEPT !.itemsSeen = calls[c].seen, !.itemsAt = calls[c].at,
                              !.items = FetchedList(calls[c].status, calls[c].nodes)]
    /\ Done(c)
    /\ UNCHANGED server

(* The link has the number that is shown, which counts from one.           *)
FollowItemNumber ==
    /\ \E i \in DOMAIN visit.items :
        GoTo(i + 1, visit.items[i].node, visit.itemsAt, visit.itemsSeen)
    /\ UNCHANGED server

(* A link of the sidebar names a node by its place there.  The menu of an  *)
(* item and its question are inside of the link: a click on them follows   *)
(* it too, at some time before or after what it is meant for.              *)
FollowItem ==
    /\ \E i \in DOMAIN visit.items :
        GoTo(i, visit.items[i].node, visit.itemsAt, visit.itemsSeen)
    /\ UNCHANGED server

AskNodeRemoval ==
    /\ visit.confirm = 0
    /\ \E i \in DOMAIN visit.items : visit' = [visit EXCEPT !.confirm = visit.items[i].node]
    /\ UNCHANGED <<server, calls>>

(* confirmDelete up to the await; the request has the ID of the node.      *)
confirmDeleteNode(c) ==
    /\ Free(c) /\ visit.confirm # 0
    /\ calls' = [calls EXCEPT ![c] = Request("removeNode", "nodeItem", At, visit.confirm)]
    /\ UNCHANGED <<server, visit>>

CancelNodeRemoval ==
    /\ visit.confirm # 0
    /\ visit' = [visit EXCEPT !.confirm = 0]
    /\ UNCHANGED <<server, calls>>

(* A removal that is refused leaves the page as it is.                     *)
ItemRefused(c) ==
    /\ AnsweredTo(c, "removeNode", "nodeItem")
    /\ handleDeleteResponse(calls[c].status) # ""
    /\ Done(c)
    /\ UNCHANGED <<server, visit>>

(* Otherwise the page of the shard is next.                                *)
ItemRemoved(c) ==
    /\ AnsweredTo(c, "removeNode", "nodeItem")
    /\ handleDeleteResponse(calls[c].status) = ""
    /\ visit' = NoVisit

NodeContinue(c) == NodeLoaded(c) \/ NodeSideLoaded(c) \/ ItemRefused(c)

NodeClick == FollowItem \/ AskNodeRemoval \/ CancelNodeRemoval
=============================================================================
