----------------------------- MODULE ShardPages -----------------------------
(***************************************************************************)
(* The page of a shard and the pages of its nodes, with the links between  *)
(* them: one browser tab over the shards that others change as well.       *)
(***************************************************************************)
EXTENDS ShardPage, NodePage

VARIABLE view       \* "shard" or "node": which page is open

vars == <<server, shardVars, visit, view, calls>>

Init ==
    /\ shards \in InitialShards
    /\ version = 1
    /\ removals = 0
    /\ page = Loading
    /\ dialog = NoDialog
    /\ side = NoSide
    /\ form = NoForm
    /\ visit = NoVisit
    /\ view = "shard"
    /\ calls = Only(FetchShard("load"))

(* The shard page is left: nothing of it remains.                          *)
Closed ==
    /\ page' = [Loading EXCEPT !.loading = FALSE]
    /\ dialog' = NoDialog
    /\ side' = NoSide
    /\ form' = NoForm

(* The link of a row names the node by its place among the rows that are   *)
(* shown.  A place among fewer or rearranged rows stands for no node.      *)
FollowLink ==
    /\ view = "shard" /\ Reachable
    /\ \/ \E p \in DOMAIN page.nodes : GoTo(p, page.nodes[p].node, page.at, page.seen)
       \/ \E p \in {row.place : row \in ShownRows} : GoTo(p, 0, page.at, page.seen)
    /\ view' = "node"
    /\ Closed
    /\ UNCHANGED server

(* To the page of the shard, from a node, from another page or anew, by    *)
(* the user or by a handler whose page has been left: at any time.         *)
GoBack ==
    /\ view' = "shard"
    /\ visit' = NoVisit
    /\ Open
    /\ UNCHANGED server

ItemDone(c) ==
    /\ ItemRemoved(c)
    /\ view' = "shard"
    /\ Open
    /\ UNCHANGED server

OnShard(A) == view = "shard" /\ A /\ UNCHANGED <<visit, view>>

OnNode(A) == view = "node" /\ A /\ UNCHANGED <<shardVars, view>>

Continue(c) == OnShard(ShardContinue(c)) \/ OnNode(NodeContinue(c)) \/ ItemDone(c)

User(c) == OnShard(ShardUser(c)) \/ OnNode(confirmDeleteNode(c))

Click == OnShard(ShardClick) \/ OnNode(NodeClick)

Answer(c) == Serve(c) /\ UNCHANGED <<shardVars, visit, view>>

Next ==
    \/ \E c \in Call : Answer(c) \/ Continue(c) \/ User(c)
    \/ Click \/ FollowLink \/ GoBack
    \/ Others /\ UNCHANGED <<shardVars, visit, view, calls>>

Spec == Init /\ [][Next]_vars

(* Every request is answered or fails in the end, and the event loop of    *)
(* the browser runs what awaits the answer.                                *)
Fairness == \A c \in Call : WF_vars(Answer(c) \/ Continue(c))

FairSpec == Spec /\ Fairness

-----------------------------------------------------------------------------
(* Properties *)

NodeList == Seq([node : Node, master : BOOLEAN])

CallType ==
    [op : {"nodes", "shards", "removeNode", "createNode", "failover", "removeShard"},
     for : {"load", "refresh", "delete", "side", "page", "dialog", "form", "stray", "item",
            "visit", "nodeSide", "nodeItem"},
     status : Status, index : Nat, node : Node \cup {Automatic}, at : Nat, seen : Nat,
     nodes : NodeList, count : Nat, read : Nat]

ASSUME NoCallAssumption == NoCall \notin CallType

(* The state of the pages, and the requests, have the types that the code  *)
(* gives them.                                                             *)
TypeOK ==
    /\ shards \in Seq(Shard)
    /\ version \in Nat /\ removals \in Nat
    /\ page \in [nodes : NodeList, at : Nat, read : Nat, seen : Nat, loading : BOOLEAN,
                 deleting : Nat, done : Nat, overlap : BOOLEAN]
    /\ dialog \in [open : BOOLEAN, selected : Node \cup {Automatic}, busy : BOOLEAN]
    /\ side \in [items : Nat, confirm : Nat]
    /\ form \in FormType
    /\ visit \in [index : Nat, node : Node \cup {0}, from : Nat, seen : Nat,
                  nodes : NodeList, at : Nat, read : Nat, loading : BOOLEAN,
                  items : NodeList, itemsSeen : Nat, itemsAt : Nat,
                  confirm : Node \cup {0}]
    /\ view \in {"shard", "node"}
    /\ calls \in [Call -> CallType \cup {NoCall}]

(* The pages name their shard by a number and a node by a place in a list. *)
(* Until a shard or node has been removed, the number is that of the shard *)
(* whose nodes are shown, so that a failover, a removal or a new node goes *)
(* to that shard however late it is served, and a link of the sidebar or   *)
(* of the list with all rows in their order leads to the node it shows.    *)
AlignedUntilRemoval ==
    /\ page.at # NoShard /\ page.seen = removals =>
        At \in DOMAIN shards /\ shards[At].id = page.at
    /\ \A c \in Call :
        /\ calls[c] # NoCall /\ calls[c].status = "sent"
        /\ calls[c].at # NoShard /\ calls[c].seen = removals
        => calls[c].index \in DOMAIN shards /\ shards[calls[c].index].id = calls[c].at
    /\ visit.node # 0 /\ visit.at # NoShard /\ visit.read = visit.seen =>
        visit.at = visit.from /\ currentNode = visit.node

(* A removal that a page asks for takes away the node that was confirmed   *)
(* or none, even when rows have moved, a filter or an order is set, or the *)
(* number of the page denotes another shard by now; and never a master,    *)
(* even when the roles have changed since they were shown.                 *)
DeletesConfirmedNode ==
    [][\A c \in Call : ServeRemoveNode(c) /\ shards' # shards =>
        /\ calls[c].node \in Replicas(shards[calls[c].index].nodes)
        /\ Nodes(shards'[calls[c].index].nodes) =
                Nodes(shards[calls[c].index].nodes) \ {calls[c].node}
        /\ calls[c].at = NoShard \/ shards[calls[c].index].id = calls[c].at]_vars

AwaitedBy(for) == {c \in Call : calls[c] # NoCall /\ calls[c].for \in for}

(* Spinner, disabled button, busy dialog and busy form each stand for a    *)
(* request that is really outstanding, although a refused removal takes    *)
(* the spinner away under another handler, and the spinner unmounts dialog *)
(* and form under their requests.  A mounted dialog or form has one        *)
(* request at most.                                                        *)
BusyIsOutstanding ==
    /\ page.loading => \E c \in AwaitedBy({"load", "refresh", "delete"}) : calls[c].op = "nodes"
    /\ page.deleting # 0 => AwaitedBy({"page", "delete"}) # {}
    /\ dialog.busy <=> AwaitedBy({"dialog"}) # {}
    /\ form.submitting <=> AwaitedBy({"form"}) # {}
    /\ \A for \in {"dialog", "form"} : \A c, d \in AwaitedBy({for}) : c = d
    /\ visit.loading => AwaitedBy({"visit"}) # {}

(* Once nothing is awaited the page shows what its own removals and        *)
(* failovers have done, or is empty because the shard could not be read,   *)
(* unless the nodes were asked for twice at a time: then the older list    *)
(* may come last and stay.                                                 *)
OwnWritesAreShown ==
    ~Fetching /\ ~page.overlap /\ page.read # 0 => page.read >= page.done

Idle ==
    ~page.loading /\ page.deleting = 0 /\ ~dialog.busy /\ ~form.submitting /\ ~visit.loading

NothingSent ==
    view' = view /\ ~GoBack /\ \A c \in Call : calls[c] = NoCall => calls'[c] = NoCall

(* Whatever is refused or lost, and in whatever order the answers come,    *)
(* everything that waits stops waiting once the user stays on the page and *)
(* sends nothing more.                                                     *)
Responsive == <>[][NothingSent]_vars => <>[]Idle
=============================================================================
