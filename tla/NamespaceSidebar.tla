-------------------------- MODULE NamespaceSidebar --------------------------
(***************************************************************************)
(* What the page of the namespaces and the page of one namespace have in   *)
(* common: the NamespaceSidebar with its items (webui/src/app/ui/          *)
(* sidebar.tsx, sidebarItem.tsx), the form that creates a namespace        *)
(* (webui/src/app/ui/formCreation.tsx), and how a page is opened.  While a *)
(* page shows its spinner, sidebar and forms are not there.  Of the forms  *)
(* of a page, one is followed.  The sidebar reads its list of namespaces   *)
(* when it is mounted and never again, so that any name may be in it.      *)
(***************************************************************************)
EXTENDS NamespaceData, FormDialog

CONSTANT FormInputs     \* what the user types into a form

VARIABLES
    view,       \* "home", the name of a namespace, or "cluster"
    page        \* the state of the page

(* No namespace is taken for one of the other pages.                       *)
ASSUME ViewAssumption == "home" \notin Name /\ "cluster" \notin Name

pageVars == <<view, page, form>>

(* deleting is deletingNamespace or deletingCluster, count the number of   *)
(* namespaces; space and items are the namespace and the sidebar of the    *)
(* page of a cluster.  since, whole and overlap record since which version *)
(* the rows or items were read, whether all of them were, and whether      *)
(* removals overlapped.                                                    *)
Loading ==
    [rows |-> NoClusters, count |-> 0, loading |-> TRUE, deleting |-> None,
     space |-> None, items |-> {}, since |-> 0, whole |-> TRUE, overlap |-> FALSE]

(* The spinner is gone, and no modal dialog is in front of the page.       *)
Reachable == ~page.loading /\ ~form.open

(* useEffect of the page that is opened.  Nothing is left of the other.    *)
Open(v) ==
    /\ view' = v
    /\ page' = Loading
    /\ form' = NoForm
    /\ tasks' = OnlyTask(Running("load", Request("namespaces", None, None, 0, None)))

(* The page of a cluster of namespace n has loaded, and mounts its         *)
(* sidebar.                                                                *)
OpenCluster(n) ==
    /\ view' = "cluster"
    /\ page' = [Loading EXCEPT !.loading = FALSE, !.space = n]
    /\ form' = NoForm
    /\ tasks' = OnlyTask(Running("side", Request("clusters", n, None, 0, None)))

(* The handler of a form goes on when the spinner takes its place, but     *)
(* what it tells the form is lost.                                         *)
Unmounted(running) ==
    [t \in Task |->
        IF running[t] # NoTask /\ running[t].for = "form"
        THEN [running[t] EXCEPT !.for = "stray"]
        ELSE running[t]]

FollowItem ==
    /\ Reachable
    /\ \E n \in Name : Open(n)
    /\ UNCHANGED server

(* openDeleteConfirmDialog, and confirmDelete up to the await.  The dialog *)
(* stays, and its button can be pressed again.  On the page of the         *)
(* namespaces this leaves the page as it is, and is one of Others.  Menu   *)
(* and dialog are inside of the link of the item: a click on them follows  *)
(* it too, as FollowItem, before or after what it is meant for.            *)
confirmDelete(t) ==
    /\ FreeTask(t) /\ Reachable
    /\ \E n \in Name : tasks' = [tasks EXCEPT ![t] =
            Running("item", Request("removeNamespace", n, None, 0, None))]
    /\ UNCHANGED <<server, pageVars>>

(* After a removal the page of the namespaces is next.                     *)
ConfirmDone(t) ==
    /\ Answered(t, Main, "item", "removeNamespace")
    /\ IF handleDeleteResponse(tasks[t].awaits[Main].status) = ""
       THEN Open("home")
       ELSE Ended(t) /\ UNCHANGED pageVars
    /\ UNCHANGED server

-----------------------------------------------------------------------------
OpenForm == Reachable /\ openDialog /\ UNCHANGED <<server, tasks, view, page>>

LeaveForm == closeDialog /\ UNCHANGED <<server, tasks, view, page>>

Submit(t, request) ==
    /\ FreeTask(t)
    /\ handleSubmit
    /\ tasks' = [tasks EXCEPT ![t] = Running("form", request)]
    /\ UNCHANGED <<server, view, page>>

SubmitNamespace(t) ==
    \E n \in Name, formData \in FormInputs :
        NamespaceCreation(formData) /\ Submit(t, Request("createNamespace", n, None, 0, None))

(* The page of the new namespace or cluster is next, even if the form has  *)
(* been left meanwhile, or is not there any more.                          *)
Created(t) ==
    LET request == tasks[t].awaits[Main] IN
    /\ handleCreateResponse(request.status) = ""
    /\ IF request.op = "createNamespace" THEN Open(request.name) ELSE OpenCluster(request.name)

Refused(t) ==
    /\ handleCreateResponse(tasks[t].awaits[Main].status) # ""
    /\ IF tasks[t].for = "form" THEN EndSubmit(handleError) ELSE UNCHANGED form
    /\ Ended(t)
    /\ UNCHANGED <<view, page>>

FormDone(t) ==
    /\ \E for \in {"form", "stray"}, op \in {"createNamespace", "createCluster"} :
        Answered(t, Main, for, op)
    /\ Created(t) \/ Refused(t)
    /\ UNCHANGED server
=============================================================================
