--------------------------- MODULE NamespacePages ---------------------------
(***************************************************************************)
(* The page of the namespaces, the pages of the single namespaces and the  *)
(* sidebar of the pages of clusters, with the links between them: one      *)
(* browser tab over namespaces and clusters that others change as well.    *)
(***************************************************************************)
EXTENDS NamespacesPage, NamespacePage, ClusterSidebar

vars == <<server, tasks, pageVars>>

Init ==
    /\ spaces \in InitialSpaces
    /\ version = 1
    /\ upsets = 0
    /\ view = "home"
    /\ page = Loading
    /\ form = NoForm
    /\ tasks = OnlyTask(Running("load", Request("namespaces", None, None, 0, None)))

(* A link above the page, back and forward, or the router.push of a        *)
(* handler whose page has been left: at any time.                          *)
Navigate ==
    /\ \E v \in {"home"} \cup Name : v # view /\ Open(v)
    /\ UNCHANGED server

Home(A) == view = "home" /\ A

Inside(A) == view \in Name /\ A

Beside(A) == view = "cluster" /\ A

Continue(t) ==
    \/ Home(HomeContinue(t)) \/ Inside(InsideContinue(t)) \/ Beside(SideContinue(t))
    \/ ConfirmDone(t) \/ FormDone(t)

User(t) ==
    \/ Home(handleDeleteNamespace(t)) \/ Inside(handleDeleteCluster(t))
    \/ Inside(confirmDelete(t)) \/ Beside(confirmDeleteCluster(t))
    \/ Home(SubmitNamespace(t)) \/ Inside(SubmitNamespace(t)) \/ Inside(SubmitCluster(t))
    \/ Beside(SubmitSideCluster(t))

Click ==
    \/ Home(FollowNamespace) \/ Inside(FollowCluster) \/ Navigate
    \/ Home(FollowItem) \/ Inside(FollowItem) \/ Beside(FollowClusterItem)
    \/ OpenForm \/ LeaveForm

Answer(t) ==
    /\ \/ ServeEdit(t)
       \/ \E b \in {Main} \cup ClusterName : ServeRead(t, b) \/ LoseRequest(t, b)
    /\ UNCHANGED pageVars

Next ==
    \/ \E t \in Task : Answer(t) \/ Continue(t) \/ User(t)
    \/ Click
    \/ Others /\ UNCHANGED <<tasks, pageVars>>

Spec == Init /\ [][Next]_vars

(* Every request is answered or fails in the end, and the event loop of    *)
(* the browser runs what awaits the answer.                                *)
Fairness == \A t \in Task : WF_vars(Answer(t) \/ Continue(t))

FairSpec == Spec /\ Fairness

-----------------------------------------------------------------------------
(* Properties *)

Nodes(list) == SumFunction([i \in DOMAIN list |-> list[i].nodes])

Total(n, Size(_)) == SumFunction([c \in DOMAIN spaces[n] |-> Size(spaces[n][c])])

NamespaceRowsTrue ==
    /\ \A n \in DOMAIN page.rows :
        /\ n \in DOMAIN spaces
        /\ page.rows[n].clusters <= Cardinality(DOMAIN spaces[n])
        /\ page.rows[n].shards <= Total(n, Len)
        /\ page.rows[n].nodes <= Total(n, Nodes)
    /\ page.whole =>
        /\ DOMAIN page.rows = DOMAIN spaces
        /\ \A n \in DOMAIN spaces :
            /\ page.rows[n].shards = Total(n, Len)
            /\ page.rows[n].nodes = Total(n, Nodes)
        /\ filteredNamespaces("no-clusters") = {n \in DOMAIN spaces : DOMAIN spaces[n] = {}}

ClusterRowsTrue ==
    /\ view \in DOMAIN spaces
    /\ \A c \in DOMAIN page.rows :
        /\ c \in DOMAIN spaces[view]
        /\ page.rows[c].shards = Len(spaces[view][c])
        /\ page.rows[c].nodes <= Nodes(spaces[view][c])
    /\ page.whole =>
        /\ DOMAIN page.rows = DOMAIN spaces[view]
        /\ \A c \in DOMAIN page.rows : page.rows[c].nodes = Nodes(spaces[view][c])
        /\ filteredClusters("with-slots") =
                {c \in DOMAIN spaces[view] : \E i \in DOMAIN spaces[view][c] : spaces[view][c][i].slots}

ClusterItemsTrue ==
    /\ page.space \in DOMAIN spaces
    /\ page.items = DOMAIN spaces[page.space]

(* While the server has not changed since the list behind the rows was     *)
(* read, no row is invented and no count is too high, whichever requests   *)
(* of the long visit failed and whatever older visit ended last.  If none  *)
(* failed, every namespace or cluster has its row, the counts are exact    *)
(* and the filters tell empty from used.                                   *)
RowsAreTrue ==
    page.since = version =>
        CASE view = "home" -> NamespaceRowsTrue
          [] view = "cluster" -> ClusterItemsTrue
          [] OTHER -> ClusterRowsTrue

(* The number of namespaces above the list is never more than the rows,    *)
(* and is their number unless removals overlapped: then each of them puts  *)
(* back the row of the other, but both count.                              *)
CountsAgree ==
    view = "home" =>
        /\ page.count <= Cardinality(DOMAIN page.rows)
        /\ ~page.overlap => page.count = Cardinality(DOMAIN page.rows)

RunningFor(for) == {t \in Task : tasks[t] # NoTask /\ tasks[t].for \in for}

(* Spinner, disabled button and busy form each stand for a handler that is *)
(* really running, although a refused removal takes the spinner away under *)
(* another handler, and the spinner unmounts the form under its request.   *)
BusyIsOutstanding ==
    /\ page.loading => RunningFor({"load", "delete"}) # {}
    /\ page.deleting # None => RunningFor({"delete"}) # {}
    /\ form.submitting <=> RunningFor({"form"}) # {}
    /\ Cardinality(RunningFor({"form"})) <= 1
    /\ \A t \in Task : tasks[t] # NoTask => tasks[t].awaits # NoClusters

Idle == ~page.loading /\ page.deleting = None /\ ~form.submitting

NothingStarted == view' = view /\ \A t \in Task : tasks[t] = NoTask => tasks'[t] = NoTask

(* Whatever is refused or lost, and in whatever order the answers come,    *)
(* everything that waits stops waiting once the user stays on the page and *)
(* starts nothing more, however many requests a visit takes.               *)
Responsive == <>[][NothingStarted]_vars => <>[]Idle

(* The filter for migrations shows the clusters that have one.  The API is *)
(* documented to send -1 in place of a slot when there is none, and the    *)
(* page compares with 0.                                                   *)
MigrationIsShown ==
    view \in Name /\ page.since = version /\ page.whole =>
        filteredClusters("with-migration") =
            {c \in DOMAIN spaces[view] :
                \E i \in DOMAIN spaces[view][c] : spaces[view][c][i].migrating # "null"}
=============================================================================
