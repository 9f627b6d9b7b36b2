------------------------ MODULE NamespaceRowsProofs -------------------------
(***************************************************************************)
(* The rows that the pages of the namespaces show are those of the server  *)
(* as it was when the list behind them was read: RowsAreTrue of            *)
(* NamespacePages, for any namespaces and clusters, however long the visit *)
(* and whichever of its requests fail.                                     *)
(***************************************************************************)
EXTENDS NamespacePagesProofs

(* Few steps need arithmetic; those name SMT.                              *)
USE Zenon

-----------------------------------------------------------------------------
(* Steps of the page of the namespaces *)

(* A request that has just been made, and is not yet answered.             *)
LEMMA FreshAnswer ==
    ASSUME NEW q, Fresh(q), NEW sp, NEW ver \in Nat, ver > 0
    PROVE  AnswerInv(sp, ver, q) /\ q.status # "error" /\ Current(sp, q)
<1>1. AnswerInv(sp, ver, q)  BY SMT DEF Fresh, AnswerInv
<1> QED  BY <1>1 DEF Fresh, Current

(* A handler under another state of the page.                              *)
LEMMA OtherTask ==
    ASSUME NEW sp, NEW ver, NEW v, NEW p, NEW task, TaskInv(sp, ver, v, p, task),
           NEW new, new.space = p.space,
           new.since = p.since \/ v # "home" \/ task.for # "delete"
    PROVE  TaskInv(sp, ver, v, new, task)
BY DEF TaskInv

(* The handler of the effect that awaits its next answer.                  *)
LEMMA ProceedsTask ==
    ASSUME NEW sp, NEW ver \in Nat, ver > 0, NEW v, v = "home", NEW p,
           NEW next, Proceeds(sp, ver, next), next.awaits # NoClusters
    PROVE  TaskInv(sp, ver, v, p, next)
<1>1. PICK q : next.awaits = Just(Main, q) /\ Fresh(q) /\ q.op \in VisitOp  BY DEF Proceeds
<1>2. DOMAIN next.awaits = {Main} /\ next.awaits[Main] = q  BY <1>1, JustFacts
<1>3. AnswerInv(sp, ver, q) /\ q.status # "error"  BY <1>1, FreshAnswer
<1>4. next.for = "load" /\ next.since <= ver /\ (next.since = ver => Visiting(sp, next, q))
  BY <1>2 DEF Proceeds, Visited
<1>5. HomeTask(sp, ver, next)  BY <1>1, <1>2, <1>4 DEF HomeTask, VisitOp
<1>6. v \notin Name /\ v # "cluster"  BY ViewAssumption
<1> QED  BY <1>2, <1>3, <1>4, <1>5, <1>6 DEF TaskInv

(* The visit goes on, or its rows are shown.                               *)
LEMMA VisitRows ==
    ASSUME Inv, RowsInv, view = "home", NEW t \in Task, KindOf(tasks, t) = "load",
           NEW next, Proceeds(spaces, version, next), Visit(t, next), UNCHANGED server
    PROVE  RowsInv'
<1>1. /\ tasks \in Tasks(view) /\ page \in PageType(view) /\ version \in Nat
      /\ BusyInv /\ CountInv
  BY DEF Inv, TypeInv
<1>2. /\ version > 0 /\ PageInv(spaces, version, view, page)
      /\ \A u \in Task : tasks[u] # NoTask => TaskInv(spaces, version, view, page, tasks[u])
  BY DEF RowsInv
<1>3. spaces' = spaces /\ version' = version /\ view' = view
  BY DEF Visit, server, pageVars
<1>4. CASE next.awaits # NoClusters
  <2>1. tasks' = [tasks EXCEPT ![t] = next] /\ page' = page  BY <1>4 DEF Visit, pageVars
  <2>2. tasks'[t] = next /\ \A u \in Task \ {t} : tasks'[u] = tasks[u]  BY <1>1, <2>1 DEF Tasks
  <2>3. TaskInv(spaces, version, view, page, next)  BY <1>1, <1>2, <1>4, ProceedsTask
  <2>4. \A u \in Task : tasks'[u] # NoTask => TaskInv(spaces, version, view, page, tasks'[u])
    BY <1>2, <2>2, <2>3
  <2> QED  BY <1>2, <1>3, <2>1, <2>4 DEF RowsInv
<1>5. CASE ~(next.awaits # NoClusters)
  <2>1. /\ page' = [page EXCEPT !.rows = next.rows, !.count = Cardinality(DOMAIN next.rows),
                                !.since = next.since, !.whole = next.whole, !.loading = FALSE]
        /\ Ended(t)
    BY <1>5 DEF Visit
  <2>2. /\ page'.rows = next.rows /\ page'.since = next.since /\ page'.whole = next.whole
        /\ page'.space = page.space
    BY <1>1, <2>1 DEF PageType
  <2>3. tasks'[t] = NoTask /\ \A u \in Task \ {t} : tasks'[u] = tasks[u]
    BY <1>1, <2>1, EndedTask
  <2>4. next.since <= version /\ (next.since = version =>
            SpaceRows(spaces, next.whole, next.rows) /\ DOMAIN next.rows = DOMAIN spaces)
    BY <1>5 DEF Proceeds, Visited
  <2>5. PageInv(spaces, version, view, page')  BY <2>2, <2>4, ViewAssumption DEF PageInv
  <2>6. \A u \in Task : KindOf(tasks, u) # "delete"  BY <1>1 DEF CountInv, BusyInv
  <2>7. ASSUME NEW u \in Task, tasks'[u] # NoTask
        PROVE  TaskInv(spaces, version, view, page', tasks'[u])
    <3>1. tasks'[u] = tasks[u] /\ tasks[u] # NoTask  BY <2>3, <2>7
    <3>2. tasks[u].for # "delete"  BY <1>1, <2>6, <3>1, KindFacts
    <3>3. TaskInv(spaces, version, view, page, tasks[u])  BY <1>2, <3>1
    <3> QED  BY <2>2, <3>1, <3>2, <3>3, OtherTask
  <2> QED  BY <1>2, <1>3, <2>5, <2>7 DEF RowsInv
<1> QED  BY <1>4, <1>5

(* The visit of the namespaces, after each of its awaits.                  *)
LEMMA FetchedRows ==
    ASSUME Inv, RowsInv, view = "home", NEW t \in Task,
           NamespacesFetched(t) \/ ClustersFetched(t) \/ ShardsFetched(t) \/ NodesFetched(t)
    PROVE  RowsInv'
<1>1. tasks \in Tasks(view) /\ spaces \in Spaces /\ version \in Nat  BY DEF Inv, TypeInv
<1>2. \A u \in Task : tasks[u] # NoTask => TaskInv(spaces, version, view, page, tasks[u])
  BY DEF RowsInv
<1>3. ASSUME NEW op \in Op, Answered(t, Main, "load", op)
      PROVE  /\ tasks[t] \in TaskType(view) /\ tasks[t].for = "load" /\ KindOf(tasks, t) = "load"
             /\ TaskInv(spaces, version, view, page, tasks[t])
             /\ Main \in DOMAIN tasks[t].awaits
             /\ tasks[t].awaits[Main].status # "sent" /\ tasks[t].awaits[Main].op = op
  <2>1. /\ tasks[t] # NoTask /\ tasks[t].for = "load" /\ Main \in DOMAIN tasks[t].awaits
        /\ tasks[t].awaits[Main].status # "sent" /\ tasks[t].awaits[Main].op = op
    BY <1>3 DEF Answered, Awaiting
  <2>2. tasks[t] \in TaskType(view) /\ KindOf(tasks, t) = tasks[t].for  BY <1>1, <2>1, KindFacts
  <2> QED  BY <1>2, <2>1, <2>2
<1> DEFINE q == tasks[t].awaits[Main]
<1>4. UNCHANGED server  BY DEF NamespacesFetched, ClustersFetched, ShardsFetched, NodesFetched
<1>5. CASE NamespacesFetched(t)
  <2> DEFINE next == NextNamespace([tasks[t] EXCEPT !.names = q.names, !.since = q.read])
  <2>1. Answered(t, Main, "load", "namespaces") /\ Visit(t, next)  BY <1>5 DEF NamespacesFetched
  <2>2. Proceeds(spaces, version, next)  BY <1>1, <1>3, <2>1, NamespacesProceed DEF Op
  <2>3. KindOf(tasks, t) = "load"  BY <1>3, <2>1 DEF Op
  <2> HIDE DEF next
  <2> QED  BY <1>4, <2>1, <2>2, <2>3, VisitRows
<1>6. CASE ClustersFetched(t)
  <2> DEFINE next == NextCluster([tasks[t] EXCEPT !.clusters = q.names], q.name,
                                 Row(Cardinality(q.names)))
  <2>1. Answered(t, Main, "load", "clusters") /\ Visit(t, next)  BY <1>6 DEF ClustersFetched
  <2>2. Proceeds(spaces, version, next)  BY <1>1, <1>3, <2>1, ClustersProceed DEF Op
  <2>3. KindOf(tasks, t) = "load"  BY <1>3, <2>1 DEF Op
  <2> HIDE DEF next
  <2> QED  BY <1>4, <2>1, <2>2, <2>3, VisitRows
<1>7. CASE ShardsFetched(t)
  <2> DEFINE next == NextShard(tasks[t], q, 1, q.shards,
                               [q.row EXCEPT !.shards = @ + Len(q.shards)])
  <2>1. Answered(t, Main, "load", "shards") /\ Visit(t, next)  BY <1>7 DEF ShardsFetched
  <2>2. Proceeds(spaces, version, next)  BY <1>1, <1>3, <2>1, ShardsProceed DEF Op
  <2>3. KindOf(tasks, t) = "load"  BY <1>3, <2>1 DEF Op
  <2> HIDE DEF next
  <2> QED  BY <1>4, <2>1, <2>2, <2>3, VisitRows
<1>8. CASE NodesFetched(t)
  <2> DEFINE next == NextShard(tasks[t], q, q.index + 1, q.shards,
                               [q.row EXCEPT !.nodes = @ + q.count])
  <2>1. Answered(t, Main, "load", "nodes") /\ Visit(t, next)  BY <1>8 DEF NodesFetched
  <2>2. Proceeds(spaces, version, next)  BY <1>1, <1>3, <2>1, NodesProceed DEF Op
  <2>3. KindOf(tasks, t) = "load"  BY <1>3, <2>1 DEF Op
  <2> HIDE DEF next
  <2> QED  BY <1>4, <2>1, <2>2, <2>3, VisitRows
<1> QED  BY <1>5, <1>6, <1>7, <1>8

(* A part of the rows, of which less may be known.                         *)
LEMMA SpaceRowsLess ==
    ASSUME NEW sp, NEW whole, NEW rows, SpaceRows(sp, whole, rows),
           NEW less, less => whole, NEW part, DOMAIN part \subseteq DOMAIN rows,
           \A n \in DOMAIN part : part[n] = rows[n]
    PROVE  SpaceRows(sp, less, part)
<1>1. \A a, b : UpTo(whole, a, b) => UpTo(less, a, b)  BY DEF UpTo
<1>2. ASSUME NEW n \in DOMAIN part
      PROVE  SpaceRow(sp, less, n, part[n])
  <2>1. SpaceRow(sp, whole, n, part[n])  BY <1>2 DEF SpaceRows
  <2> QED  BY <1>1, <2>1 DEF SpaceRow, Reached
<1> QED  BY <1>2 DEF SpaceRows

(* The row of the removed namespace goes.                                  *)
LEMMA NamespaceDeletedRows ==
    ASSUME Inv, RowsInv, view = "home", NEW t \in Task, NamespaceDeleted(t)
    PROVE  RowsInv'
<1>0. PICK for \in For, op \in Op : for = "delete" /\ op = "removeNamespace"  BY DEF For, Op
<1>1. /\ tasks \in Tasks(view) /\ page \in PageType(view)
  BY DEF Inv, TypeInv
<1>2. /\ version > 0 /\ PageInv(spaces, version, view, page)
      /\ \A u \in Task : tasks[u] # NoTask => TaskInv(spaces, version, view, page, tasks[u])
  BY DEF RowsInv
<1>3. Answered(t, Main, for, op)  BY <1>0 DEF NamespaceDeleted
<1>4. tasks[t] # NoTask /\ tasks[t] \in TaskType(view) /\ tasks[t].for = for
  BY <1>1, <1>3, AnsweredFacts
<1> DEFINE old == tasks[t].rows
           rows == Restrict(old, DOMAIN old \ {tasks[t].awaits[Main].name})
<1>5. /\ page' = [page EXCEPT !.rows = rows, !.count = @ - 1, !.deleting = None, !.whole = FALSE]
      /\ Ended(t) /\ UNCHANGED <<spaces, version, view>>
  BY DEF NamespaceDeleted, server
<1>6. DOMAIN rows \subseteq DOMAIN old /\ \A n \in DOMAIN rows : rows[n] = old[n]
  BY DEF Restrict
<1> HIDE DEF rows
<1>7. /\ page'.rows = rows /\ page'.since = page.since /\ page'.whole = FALSE
      /\ page'.space = page.space
  BY <1>1, <1>5 DEF PageType
<1>8. ASSUME page.since = version
      PROVE  SpaceRows(spaces, page'.whole, page'.rows)
  <2>1. TaskInv(spaces, version, view, page, tasks[t])  BY <1>2, <1>4
  <2>2. PICK whole \in BOOLEAN : SpaceRows(spaces, whole, old)
    BY <1>0, <1>4, <1>8, <2>1 DEF TaskInv
  <2> HIDE DEF old
  <2>3. PICK less : less = FALSE  OBVIOUS
  <2>4. less => whole  BY <2>3
  <2>5. SpaceRows(spaces, less, rows)  BY <1>6, <2>2, <2>4, SpaceRowsLess
  <2> QED  BY <1>7, <2>3, <2>5
<1>9. PageInv(spaces, version, view, page')
  BY <1>2, <1>7, <1>8, ViewAssumption DEF PageInv
<1>10. tasks'[t] = NoTask /\ \A u \in Task \ {t} : tasks'[u] = tasks[u]  BY <1>1, <1>5, EndedTask
<1>11. ASSUME NEW u \in Task, tasks'[u] # NoTask
       PROVE  TaskInv(spaces, version, view, page', tasks'[u])
  <2>1. tasks'[u] = tasks[u] /\ TaskInv(spaces, version, view, page, tasks[u])
    BY <1>2, <1>10, <1>11
  <2> QED  BY <1>7, <2>1, OtherTask
<1> QED  BY <1>2, <1>5, <1>9, <1>11 DEF RowsInv

-----------------------------------------------------------------------------
(* Other steps of handlers *)

(* What the rows and items of a page depend on.                            *)
SamePage(p, new) ==
    /\ new.rows = p.rows /\ new.since = p.since /\ new.whole = p.whole
    /\ new.space = p.space /\ new.items = p.items

(* One handler is replaced, started or ended, under the same rows.         *)
LEMMA PutTask ==
    ASSUME Inv, RowsInv, NEW t \in Task, NEW new, tasks' = [tasks EXCEPT ![t] = new],
           new # NoTask => TaskInv(spaces, version, view, page, new),
           SamePage(page, page'), UNCHANGED server, view' = view
    PROVE  RowsInv'
<1>1. tasks \in Tasks(view)  BY DEF Inv, TypeInv
<1>2. /\ version > 0 /\ PageInv(spaces, version, view, page)
      /\ \A u \in Task : tasks[u] # NoTask => TaskInv(spaces, version, view, page, tasks[u])
  BY DEF RowsInv
<1>3. spaces' = spaces /\ version' = version  BY DEF server
<1>4. tasks'[t] = new /\ \A u \in Task \ {t} : tasks'[u] = tasks[u]  BY <1>1 DEF Tasks
<1>5. PageInv(spaces, version, view, page')  BY <1>2 DEF PageInv, SamePage
<1>6. ASSUME NEW u \in Task, tasks'[u] # NoTask
      PROVE  TaskInv(spaces, version, view, page', tasks'[u])
  <2>1. TaskInv(spaces, version, view, page, tasks'[u])  BY <1>2, <1>4, <1>6
  <2>2. page'.space = page.space /\ page'.since = page.since  BY DEF SamePage
  <2> QED  BY <2>1, <2>2, OtherTask
<1> QED  BY <1>2, <1>3, <1>5, <1>6 DEF RowsInv

(* The handler of a first request.                                         *)
LEMMA RunningTask ==
    ASSUME NEW sp, NEW ver \in Nat, ver > 0, NEW v, NEW p, NEW for, NEW q,
           Fresh(q) \/ (q.op \notin ReadOp /\ q.status = "sent"),
           for = "load" => q.op = "namespaces",
           for = "delete" /\ v \in Name => q.op = "removeCluster",
           for = "side" => q.op = "clusters" /\ q.name = p.space
    PROVE  TaskInv(sp, ver, v, p, Running(for, q))
<1> DEFINE task == Running(for, q)
<1>1. /\ task.for = for /\ task.awaits = Just(Main, q) /\ task.rows = NoClusters /\ task.since = 0
  BY DEF Running
<1> HIDE DEF task
<1>2. DOMAIN task.awaits = {Main} /\ task.awaits[Main] = q  BY <1>1, JustFacts, SMT
<1>3. AnswerInv(sp, ver, q) /\ q.status # "error"
  <2>1. CASE Fresh(q)  BY <2>1, FreshAnswer
  <2>2. CASE q.op \notin ReadOp /\ q.status = "sent"  BY <2>2 DEF AnswerInv
  <2> QED  BY <2>1, <2>2
<1>4. task.since <= ver /\ task.since # ver  BY <1>1, SMT
<1>5. for = "load" => HomeTask(sp, ver, task)  BY <1>1, <1>2 DEF HomeTask
<1>6. \E whole \in BOOLEAN : SpaceRows(sp, whole, task.rows)
  <2>1. DOMAIN task.rows = {}  BY <1>1 DEF NoClusters
  <2> QED  BY <2>1 DEF SpaceRows
<1>7. v \in Name /\ for \in {"load", "delete"} => InsideTask(sp, ver, v, task)
  BY <1>1, <1>2 DEF InsideTask
<1>8. for = "side" => SideTask(p.space, task)  BY <1>2 DEF SideTask
<1>9. TaskInv(sp, ver, v, p, task)
  BY <1>1, <1>2, <1>3, <1>4, <1>5, <1>6, <1>7, <1>8 DEF TaskInv
<1> QED  BY <1>9 DEF task

(* The rows as they were.                                                  *)
LEMMA SamePageFacts ==
    ASSUME NEW v, page \in PageType(v)
    PROVE  /\ SamePage(page, page)
           /\ \A b : SamePage(page, [page EXCEPT !.loading = b])
           /\ \A b, d : SamePage(page, [page EXCEPT !.loading = b, !.deleting = d])
           /\ \A d : SamePage(page, [page EXCEPT !.deleting = d])
           /\ \A d, o : SamePage(page, [page EXCEPT !.deleting = d, !.overlap = o])
BY DEF SamePage, PageType

(* A removal of a namespace starts with the rows that are shown.           *)
LEMMA HandleDeleteNamespaceRows ==
    ASSUME Inv, RowsInv, view = "home", NEW t \in Task, handleDeleteNamespace(t)
    PROVE  RowsInv'
<1>1. page \in PageType(view) /\ version \in Nat  BY DEF Inv, TypeInv
<1>2. version > 0 /\ PageInv(spaces, version, view, page)  BY DEF RowsInv
<1>3. PICK n : /\ \E o : page' = [page EXCEPT !.deleting = n, !.overlap = o]
               /\ tasks' = [tasks EXCEPT ![t] =
                    [Running("delete", Request("removeNamespace", n, None, 0, None)) EXCEPT
                        !.rows = page.rows]]
  BY DEF handleDeleteNamespace
<1>4. UNCHANGED server /\ view' = view  BY DEF handleDeleteNamespace
<1> DEFINE q == Request("removeNamespace", n, None, 0, None)
           new == [Running("delete", q) EXCEPT !.rows = page.rows]
<1>5. q.op = "removeNamespace" /\ q.status = "sent"  BY DEF Request
<1> HIDE DEF q
<1>6. /\ new.for = "delete" /\ new.awaits = Just(Main, q) /\ new.rows = page.rows
      /\ new.since = 0
  BY DEF Running
<1> HIDE DEF new
<1>7. DOMAIN new.awaits = {Main} /\ new.awaits[Main] = q  BY <1>6, JustFacts
<1>8. AnswerInv(spaces, version, q)  BY <1>5 DEF AnswerInv, ReadOp
<1>9. page.since = version => \E whole \in BOOLEAN : SpaceRows(spaces, whole, new.rows)
  <2>1. page.whole \in BOOLEAN  BY <1>1 DEF PageType
  <2> QED  BY <1>2, <1>6, <2>1 DEF PageInv
<1>10. view \notin Name  BY ViewAssumption
<1>11. TaskInv(spaces, version, view, page, new)
  BY <1>1, <1>5, <1>6, <1>7, <1>8, <1>9, <1>10, SMT DEF TaskInv
<1>12. SamePage(page, page')
  <2>1. PICK o : page' = [page EXCEPT !.deleting = n, !.overlap = o]  BY <1>3
  <2> QED  BY <1>1, <2>1, SamePageFacts
<1>13. tasks' = [tasks EXCEPT ![t] = new]  BY <1>3 DEF new, q
<1> QED  BY <1>4, <1>11, <1>12, <1>13, PutTask

(* A handler of the sidebar or of a form starts, or the removal of a       *)
(* cluster.                                                                *)
LEMMA StartRows ==
    ASSUME Inv, RowsInv, NEW t \in Task,
           \/ confirmDelete(t) \/ confirmDeleteCluster(t) \/ SubmitNamespace(t)
           \/ SubmitCluster(t) \/ SubmitSideCluster(t)
           \/ handleDeleteCluster(t) /\ view \in Name
    PROVE  RowsInv'
<1>1. page \in PageType(view) /\ version \in Nat  BY DEF Inv, TypeInv
<1>2. version > 0  BY DEF RowsInv
<1>3. ASSUME NEW for, NEW op, NEW n, NEW c, op \notin ReadOp,
             for \in {"item", "form"} \/ (for = "delete" /\ op = "removeCluster"),
             tasks' = [tasks EXCEPT ![t] = Running(for, Request(op, n, c, 0, None))],
             SamePage(page, page'), UNCHANGED server, view' = view
      PROVE  RowsInv'
  <2> DEFINE q == Request(op, n, c, 0, None)
             new == Running(for, q)
  <2>1. q.op = op /\ q.status = "sent"  BY DEF Request
  <2> HIDE DEF q
  <2>2. TaskInv(spaces, version, view, page, new)
    BY <1>1, <1>2, <1>3, <2>1, RunningTask
  <2>3. tasks' = [tasks EXCEPT ![t] = new]  BY <1>3 DEF q
  <2> HIDE DEF new
  <2> QED  BY <1>3, <2>2, <2>3, PutTask
<1>4. SamePage(page, page)  BY <1>1, SamePageFacts
<1>5. PICK none : none = None  OBVIOUS
<1>6. PICK item, frm, del : item = "item" /\ frm = "form" /\ del = "delete"  OBVIOUS
<1>7. PICK rn, rc, cn, cc : /\ rn = "removeNamespace" /\ rc = "removeCluster"
                            /\ cn = "createNamespace" /\ cc = "createCluster"
  OBVIOUS
<1>8. rn \notin ReadOp /\ rc \notin ReadOp /\ cn \notin ReadOp /\ cc \notin ReadOp
  BY <1>7 DEF ReadOp
<1>9. CASE confirmDelete(t)
  <2>1. /\ \E n \in Name : tasks' = [tasks EXCEPT ![t] = Running(item, Request(rn, n, none, 0, None))]
        /\ page' = page /\ UNCHANGED server /\ view' = view
    BY <1>5, <1>6, <1>7, <1>9 DEF confirmDelete, pageVars
  <2> QED  BY <1>3, <1>4, <1>6, <1>8, <2>1
<1>10. CASE confirmDeleteCluster(t)
  <2>1. /\ \E c \in page.items :
            tasks' = [tasks EXCEPT ![t] = Running(item, Request(rc, page.space, c, 0, None))]
        /\ page' = page /\ UNCHANGED server /\ view' = view
    BY <1>6, <1>7, <1>10 DEF confirmDeleteCluster, pageVars
  <2> QED  BY <1>3, <1>4, <1>6, <1>8, <2>1
<1>11. CASE SubmitNamespace(t)
  <2>1. /\ \E n \in Name : tasks' = [tasks EXCEPT ![t] = Running(frm, Request(cn, n, none, 0, None))]
        /\ page' = page /\ UNCHANGED server /\ view' = view
    BY <1>5, <1>6, <1>7, <1>11 DEF SubmitNamespace, Submit
  <2> QED  BY <1>3, <1>4, <1>6, <1>8, <2>1
<1>12. CASE SubmitCluster(t)
  <2>1. /\ \E c \in ClusterName :
            tasks' = [tasks EXCEPT ![t] = Running(frm, Request(cc, view, c, 0, None))]
        /\ page' = page /\ UNCHANGED server /\ view' = view
    BY <1>6, <1>7, <1>12 DEF SubmitCluster, Submit
  <2> QED  BY <1>3, <1>4, <1>6, <1>8, <2>1
<1>13. CASE SubmitSideCluster(t)
  <2>1. /\ \E c \in ClusterName :
            tasks' = [tasks EXCEPT ![t] = Running(frm, Request(cc, page.space, c, 0, None))]
        /\ page' = page /\ UNCHANGED server /\ view' = view
    BY <1>6, <1>7, <1>13 DEF SubmitSideCluster, Submit
  <2> QED  BY <1>3, <1>4, <1>6, <1>8, <2>1
<1>14. CASE handleDeleteCluster(t) /\ view \in Name
  <2>1. PICK c : /\ page' = [page EXCEPT !.deleting = c]
                 /\ tasks' = [tasks EXCEPT ![t] = Running(del, Request(rc, view, c, 0, None))]
    BY <1>6, <1>7, <1>14 DEF handleDeleteCluster
  <2>2. UNCHANGED server /\ view' = view  BY <1>14 DEF handleDeleteCluster
  <2>3. SamePage(page, page')  BY <1>1, <2>1, SamePageFacts
  <2> QED  BY <1>3, <1>6, <1>7, <1>8, <2>1, <2>2, <2>3
<1> QED  BY <1>9, <1>10, <1>11, <1>12, <1>13, <1>14

(* A handler ends that leaves the rows alone.                              *)
LEMMA EndRows ==
    ASSUME Inv, RowsInv, NEW t \in Task, Ended(t), SamePage(page, page'),
           UNCHANGED server, view' = view
    PROVE  RowsInv'
<1>1. PICK none : none = NoTask  OBVIOUS
<1>2. tasks' = [tasks EXCEPT ![t] = none]  BY <1>1 DEF Ended
<1> QED  BY <1>1, <1>2, PutTask

(* A page is opened: nothing is shown yet.                                 *)
LEMMA OpenRows ==
    ASSUME Inv, RowsInv, NEW v, Open(v), UNCHANGED server
    PROVE  RowsInv'
<1> DEFINE q == Request("namespaces", None, None, 0, None)
           task == Running("load", q)
<1>0. PICK for : for = "load"  OBVIOUS
<1>1. Fresh(q) /\ q.op = "namespaces"  BY DEF Request, Fresh, ReadOp
<1> HIDE DEF q
<1>2. version \in Nat /\ version > 0  BY DEF Inv, TypeInv, RowsInv
<1>3. TaskInv(spaces, version, v, Loading, Running(for, q))
  BY <1>0, <1>1, <1>2, RunningTask
<1>4. /\ view' = v /\ page' = Loading /\ tasks' = OnlyTask(task)
      /\ spaces' = spaces /\ version' = version
  BY DEF Open, server, q
<1>5. TaskInv(spaces, version, v, Loading, task)  BY <1>0, <1>3
<1> HIDE DEF task
<1>6. \A u \in Task : tasks'[u] = task \/ tasks'[u] = NoTask  BY <1>4 DEF OnlyTask
<1>7. Loading.since = 0  BY DEF Loading
<1>8. PageInv(spaces, version, v, Loading)  BY <1>2, <1>7, SMT DEF PageInv
<1>9. ASSUME NEW u \in Task, tasks'[u] # NoTask
      PROVE  TaskInv(spaces, version, v, Loading, tasks'[u])
  BY <1>5, <1>6, <1>9
<1> QED  BY <1>2, <1>4, <1>8, <1>9 DEF RowsInv

(* So it is for the page of a cluster.                                     *)
LEMMA OpenClusterRows ==
    ASSUME Inv, RowsInv, NEW n, OpenCluster(n), UNCHANGED server
    PROVE  RowsInv'
<1> DEFINE q == Request("clusters", n, None, 0, None)
           task == Running("side", q)
           p == [Loading EXCEPT !.loading = FALSE, !.space = n]
<1>0. PICK for, v : for = "side" /\ v = "cluster"  OBVIOUS
<1>1. Fresh(q) /\ q.op = "clusters" /\ q.name = n  BY DEF Request, Fresh, ReadOp
<1> HIDE DEF q
<1>2. version \in Nat /\ version > 0  BY DEF Inv, TypeInv, RowsInv
<1>3. p.since = 0 /\ p.space = n  BY DEF Loading
<1>4. /\ view' = v /\ page' = p /\ tasks' = OnlyTask(task)
      /\ spaces' = spaces /\ version' = version
  BY <1>0 DEF OpenCluster, server, q
<1> HIDE DEF p
<1>5. TaskInv(spaces, version, v, p, Running(for, q))
  BY <1>0, <1>1, <1>2, <1>3, RunningTask
<1>6. TaskInv(spaces, version, v, p, task)  BY <1>0, <1>5
<1> HIDE DEF task
<1>7. \A u \in Task : tasks'[u] = task \/ tasks'[u] = NoTask  BY <1>4 DEF OnlyTask
<1>8. PageInv(spaces, version, v, p)  BY <1>2, <1>3, SMT DEF PageInv
<1>9. ASSUME NEW u \in Task, tasks'[u] # NoTask
      PROVE  TaskInv(spaces, version, v, p, tasks'[u])
  BY <1>6, <1>7, <1>9
<1> QED  BY <1>2, <1>4, <1>8, <1>9 DEF RowsInv

(* The handlers of the sidebars and forms end, and may open a page.        *)
LEMMA DoneRows ==
    ASSUME Inv, RowsInv, NEW t \in Task, ConfirmDone(t) \/ ClusterItemDone(t) \/ FormDone(t)
    PROVE  RowsInv'
<1>1. SamePage(page, page)  BY SamePageFacts DEF Inv, TypeInv
<1>2. UNCHANGED server  BY DEF ConfirmDone, ClusterItemDone, FormDone
<1>3. \/ \E v : Open(v)
      \/ \E n : OpenCluster(n)
      \/ Ended(t) /\ page' = page /\ view' = view
  <2>1. CASE ConfirmDone(t)  BY <2>1 DEF ConfirmDone, pageVars
  <2>2. CASE ClusterItemDone(t)  BY <2>2 DEF ClusterItemDone, pageVars
  <2>3. CASE FormDone(t)
    <3>1. Created(t) \/ Refused(t)  BY <2>3 DEF FormDone
    <3>2. CASE Created(t)  BY <3>2 DEF Created
    <3>3. CASE Refused(t)  BY <3>3 DEF Refused
    <3> QED  BY <3>1, <3>2, <3>3
  <2> QED  BY <2>1, <2>2, <2>3
<1> QED  BY <1>1, <1>2, <1>3, EndRows, OpenRows, OpenClusterRows

(* The pages are left by links, and forms are opened and left.             *)
LEMMA ClickRows ==
    ASSUME Inv, RowsInv, Click
    PROVE  RowsInv'
<1>1. CASE OpenForm \/ LeaveForm
  <2>1. UNCHANGED <<spaces, version, tasks, view, page>>  BY <1>1 DEF OpenForm, LeaveForm, server
  <2> QED  BY <2>1 DEF RowsInv
<1>2. CASE FollowNamespace \/ FollowItem \/ Navigate
  <2>1. (\E v : Open(v)) /\ UNCHANGED server  BY <1>2 DEF FollowNamespace, FollowItem, Navigate
  <2> QED  BY <2>1, OpenRows
<1>3. CASE FollowCluster \/ FollowClusterItem
  <2>1. (\E n : OpenCluster(n)) /\ UNCHANGED server  BY <1>3 DEF FollowCluster, FollowClusterItem
  <2> QED  BY <2>1, OpenClusterRows
<1> QED  BY <1>1, <1>2, <1>3 DEF Click, Home, Inside, Beside

-----------------------------------------------------------------------------
(* Steps of the page of a namespace *)

(* The handler has listed the clusters, and awaits what it has asked of    *)
(* each.                                                                   *)
Later(task) == \A c \in DOMAIN task.awaits : task.awaits[c].op \in {"cluster", "nodes"}

(* What is known of a handler of the page of a namespace.                  *)
LEMMA InsideElim ==
    ASSUME NEW sp, NEW ver, NEW v \in Name, NEW p, NEW task, TaskInv(sp, ver, v, p, task),
           task.for \in {"load", "delete"}, NEW b \in DOMAIN task.awaits
    PROVE  /\ task.awaits[b].op \in {"cluster", "nodes"} =>
                Later(task) /\ (task.since = ver => Gathering(sp, v, task))
           /\ task.awaits[b].op \notin {"cluster", "nodes"} =>
                /\ DOMAIN task.awaits = {Main} /\ task.rows = NoClusters
                /\ task.awaits[Main].op = "clusters" => task.awaits[Main].name = v
           /\ task.since <= ver /\ AnswerInv(sp, ver, task.awaits[b])
           /\ task.whole => task.awaits[b].status # "error"
<1>1. /\ InsideTask(sp, ver, v, task) /\ task.since <= ver
      /\ AnswerInv(sp, ver, task.awaits[b]) /\ (task.whole => task.awaits[b].status # "error")
  BY DEF TaskInv
<1> QED  BY <1>1 DEF InsideTask, Later

(* What has to be known of one.                                            *)
LEMMA InsideIntro ==
    ASSUME NEW sp, NEW ver, NEW v \in Name, NEW p, NEW task, task.since <= ver,
           \A b \in DOMAIN task.awaits :
                AnswerInv(sp, ver, task.awaits[b]) /\ (task.whole => task.awaits[b].status # "error"),
           InsideTask(sp, ver, v, task)
    PROVE  TaskInv(sp, ver, v, p, task)
BY ViewAssumption DEF TaskInv

(* The handler asks for the clusters of the namespace.                     *)
LEMMA AskClusters ==
    ASSUME NEW sp, NEW ver \in Nat, ver > 0, NEW v \in Name, NEW p, NEW task \in TaskType(v),
           TaskInv(sp, ver, v, p, task), task.for \in {"load", "delete"}, Main \in DOMAIN task.awaits,
           task.awaits[Main].op \notin {"cluster", "nodes"}
    PROVE  TaskInv(sp, ver, v, p,
                   [task EXCEPT !.awaits = Just(Main, Request("clusters", v, None, 0, None))])
<1> DEFINE q == Request("clusters", v, None, 0, None)
           awaits == Just(Main, q)
           next == [task EXCEPT !.awaits = awaits]
<1>1. task.rows = NoClusters /\ task.since <= ver  BY InsideElim, SMT
<1>2. Fresh(q) /\ q.op = "clusters" /\ q.name = v  BY DEF Request, Fresh, ReadOp
<1> HIDE DEF q
<1>3. DOMAIN awaits = {Main} /\ awaits[Main] = q  BY JustFacts
<1> HIDE DEF awaits
<1>4. next.awaits = awaits /\ next.rows = task.rows /\ next.since = task.since  BY DEF TaskType
<1> HIDE DEF next
<1>5. AnswerInv(sp, ver, q) /\ q.status # "error"  BY <1>2, FreshAnswer
<1>6. InsideTask(sp, ver, v, next)  BY <1>1, <1>2, <1>3, <1>4 DEF InsideTask
<1>7. TaskInv(sp, ver, v, p, next)  BY <1>1, <1>3, <1>4, <1>5, <1>6, InsideIntro
<1> QED  BY <1>7 DEF next, awaits, q

(* The namespace is found, or not.                                         *)
LEMMA LookedUpRows ==
    ASSUME Inv, RowsInv, view \in Name, NEW t \in Task, LookedUp(t)
    PROVE  RowsInv'
<1>0. PICK for \in For, op \in Op : for = "load" /\ op = "namespaces"  BY DEF For, Op
<1>1. tasks \in Tasks(view) /\ page \in PageType(view) /\ version \in Nat  BY DEF Inv, TypeInv
<1>2. /\ version > 0
      /\ \A u \in Task : tasks[u] # NoTask => TaskInv(spaces, version, view, page, tasks[u])
  BY DEF RowsInv
<1>3. Answered(t, Main, for, op)  BY <1>0 DEF LookedUp
<1>4. /\ tasks[t] # NoTask /\ tasks[t] \in TaskType(view) /\ tasks[t].for = for
      /\ Main \in DOMAIN tasks[t].awaits /\ tasks[t].awaits[Main].op = op
  BY <1>1, <1>3, AnsweredFacts
<1>5. UNCHANGED server  BY DEF LookedUp
<1>6. CASE view \in tasks[t].awaits[Main].names
  <2> DEFINE new == [tasks[t] EXCEPT !.awaits = Just(Main, Request("clusters", view, None, 0, None))]
  <2>1. tasks' = [tasks EXCEPT ![t] = new] /\ page' = page /\ view' = view
    BY <1>1, <1>6 DEF LookedUp, pageVars, Tasks
  <2>2. TaskInv(spaces, version, view, page, new)
    BY <1>0, <1>1, <1>2, <1>4, AskClusters
  <2> HIDE DEF new
  <2>3. SamePage(page, page')  BY <1>1, <2>1, SamePageFacts
  <2> QED  BY <1>5, <2>1, <2>2, <2>3, PutTask
<1>7. CASE view \notin tasks[t].awaits[Main].names
  <2>1. /\ page' = [page EXCEPT !.loading = FALSE] /\ Ended(t) /\ view' = view
    BY <1>7 DEF LookedUp, GiveUp
  <2>2. SamePage(page, page')  BY <1>1, <2>1, SamePageFacts
  <2> QED  BY <1>5, <2>1, <2>2, EndRows
<1> QED  BY <1>6, <1>7

(* A removal is refused.                                                   *)
LEMMA ClusterRefusedRows ==
    ASSUME Inv, RowsInv, NEW t \in Task, ClusterRefused(t)
    PROVE  RowsInv'
<1>1. page \in PageType(view)  BY DEF Inv, TypeInv
<1>2. /\ page' = [page EXCEPT !.loading = FALSE, !.deleting = None]
      /\ Ended(t) /\ UNCHANGED server /\ view' = view
  BY DEF ClusterRefused
<1>3. SamePage(page, page')  BY <1>1, <1>2, SamePageFacts
<1> QED  BY <1>2, <1>3, EndRows

(* A cluster is removed: the spinner unmounts the forms, and the clusters  *)
(* are read again.                                                         *)
LEMMA ClusterRemovedRows ==
    ASSUME Inv, RowsInv, view \in Name, NEW t \in Task, ClusterRemoved(t)
    PROVE  RowsInv'
<1>0. PICK for \in For, op \in Op : for = "delete" /\ op = "removeCluster"  BY DEF For, Op
<1>1. tasks \in Tasks(view) /\ page \in PageType(view) /\ version \in Nat  BY DEF Inv, TypeInv
<1>2. /\ version > 0 /\ PageInv(spaces, version, view, page)
      /\ \A u \in Task : tasks[u] # NoTask => TaskInv(spaces, version, view, page, tasks[u])
  BY DEF RowsInv
<1>3. Answered(t, Main, for, op)  BY <1>0 DEF ClusterRemoved
<1>4. /\ tasks[t] # NoTask /\ tasks[t] \in TaskType(view) /\ tasks[t].for = for
      /\ Main \in DOMAIN tasks[t].awaits /\ tasks[t].awaits[Main].op = op
  BY <1>1, <1>3, AnsweredFacts
<1> DEFINE awaits == Just(Main, Request("clusters", view, None, 0, None))
           new == [tasks[t] EXCEPT !.awaits = awaits]
           left == Unmounted(tasks)
<1>5. /\ page' = [page EXCEPT !.loading = TRUE]
      /\ tasks' = [left EXCEPT ![t].awaits = awaits]
      /\ UNCHANGED <<spaces, version, view>>
  BY DEF ClusterRemoved, server
<1>6. TaskInv(spaces, version, view, page, new)
  BY <1>0, <1>1, <1>2, <1>4, AskClusters
<1>7. \A u \in Task : left[u] = IF tasks[u] # NoTask /\ tasks[u].for = "form"
                                THEN [tasks[u] EXCEPT !.for = "stray"] ELSE tasks[u]
  BY DEF Unmounted
<1>8. DOMAIN left = Task  BY DEF Unmounted
<1>9. left[t] = tasks[t]  BY <1>0, <1>4, <1>7
<1> HIDE DEF left, awaits
<1>10. tasks'[t] = new /\ \A u \in Task \ {t} : tasks'[u] = left[u]  BY <1>5, <1>8, <1>9
<1> HIDE DEF new
<1>11. SamePage(page, page')  BY <1>1, <1>5, SamePageFacts
<1>12. PageInv(spaces, version, view, page')  BY <1>2, <1>11 DEF PageInv, SamePage
<1>13. ASSUME NEW u \in Task, tasks'[u] # NoTask
       PROVE  TaskInv(spaces, version, view, page, tasks'[u])
  <2>1. CASE u = t  BY <1>6, <1>10, <2>1
  <2>2. CASE u # t /\ tasks[u] # NoTask /\ tasks[u].for = "form"
    <3> DEFINE task == tasks[u]
               stray == [task EXCEPT !.for = "stray"]
    <3>1. tasks'[u] = stray  BY <1>7, <1>10, <2>2
    <3>2. task \in TaskType(view) /\ TaskInv(spaces, version, view, page, task)
      BY <1>1, <1>2, <2>2, KindFacts
    <3> HIDE DEF task
    <3>3. /\ stray.for = "stray" /\ stray.since = task.since /\ stray.whole = task.whole
          /\ stray.awaits = task.awaits
      BY <3>2 DEF TaskType
    <3> HIDE DEF stray
    <3>4. TaskInv(spaces, version, view, page, stray)  BY <3>2, <3>3 DEF TaskInv
    <3> QED  BY <3>1, <3>4
  <2>3. CASE u # t /\ ~(tasks[u] # NoTask /\ tasks[u].for = "form")
    BY <1>2, <1>7, <1>10, <1>13, <2>3
  <2> QED  BY <2>1, <2>2, <2>3
<1>14. \A u \in Task : tasks'[u] # NoTask => TaskInv(spaces, version, view, page', tasks'[u])
  <2>1. page'.space = page.space /\ page'.since = page.since  BY <1>11 DEF SamePage
  <2> QED  BY <1>13, <2>1, OtherTask
<1> QED  BY <1>2, <1>5, <1>12, <1>14 DEF RowsInv

(* Promise.all goes on, or the rows are shown.                             *)
LEMMA CollectRows ==
    ASSUME Inv, RowsInv, view \in Name, NEW t \in Task, NEW next,
           TaskInv(spaces, version, view, page, next), Later(next),
           next.for \in {"load", "delete"}, Collect(t, next), UNCHANGED server
    PROVE  RowsInv'
<1>1. tasks \in Tasks(view) /\ page \in PageType(view) /\ version \in Nat  BY DEF Inv, TypeInv
<1>2. /\ version > 0
      /\ \A u \in Task : tasks[u] # NoTask => TaskInv(spaces, version, view, page, tasks[u])
  BY DEF RowsInv
<1>3. CASE next.awaits # NoClusters
  <2>1. tasks' = [tasks EXCEPT ![t] = next] /\ page' = page /\ view' = view
    BY <1>3 DEF Collect, pageVars
  <2>2. SamePage(page, page')  BY <1>1, <2>1, SamePageFacts
  <2> QED  BY <2>1, <2>2, PutTask
<1>4. CASE ~(next.awaits # NoClusters)
  <2>1. /\ \E d : page' = [page EXCEPT !.rows = next.rows, !.since = next.since,
                                       !.whole = next.whole, !.loading = FALSE, !.deleting = d]
        /\ Ended(t) /\ view' = view
    BY <1>4 DEF Collect
  <2>2. /\ page'.rows = next.rows /\ page'.since = next.since /\ page'.whole = next.whole
        /\ page'.space = page.space
    BY <1>1, <2>1 DEF PageType
  <2>3. tasks'[t] = NoTask /\ \A u \in Task \ {t} : tasks'[u] = tasks[u]
    BY <1>1, <2>1, EndedTask
  <2>4. DOMAIN next.awaits = {}  BY <1>4 DEF NoClusters
  <2>5. next.since <= version /\ (next.since = version => Gathering(spaces, view, next))
    BY <2>4 DEF TaskInv, InsideTask
  <2>6. next.since = version =>
            /\ view \in DOMAIN spaces /\ DOMAIN next.rows \subseteq DOMAIN spaces[view]
            /\ next.whole => DOMAIN next.rows = DOMAIN spaces[view]
            /\ ClusterRows(spaces, view, next.whole, next.rows)
    BY <2>4, <2>5 DEF Gathering
  <2>7. PageInv(spaces, version, view, page')
    BY <2>2, <2>5, <2>6, ViewAssumption DEF PageInv
  <2>8. ASSUME NEW u \in Task, tasks'[u] # NoTask
        PROVE  TaskInv(spaces, version, view, page', tasks'[u])
    <3>1. tasks'[u] = tasks[u] /\ TaskInv(spaces, version, view, page, tasks[u])
      BY <1>2, <2>3, <2>8
    <3>2. view # "home"  BY ViewAssumption
    <3> QED  BY <2>2, <3>1, <3>2, OtherTask
  <2>9. spaces' = spaces /\ version' = version  BY DEF server
  <2> QED  BY <1>2, <2>1, <2>7, <2>8, <2>9 DEF RowsInv
<1> QED  BY <1>3, <1>4

(* The handler that goes on with an answer of a visit, loading or          *)
(* removing.                                                               *)
LEMMA InsideAnswered ==
    ASSUME Inv, RowsInv, NEW t \in Task, NEW b, NEW op \in Op,
           Answered(t, b, "load", op) \/ Answered(t, b, "delete", op)
    PROVE  /\ tasks[t] \in TaskType(view) /\ tasks[t].for \in {"load", "delete"}
           /\ TaskInv(spaces, version, view, page, tasks[t])
           /\ b \in DOMAIN tasks[t].awaits /\ tasks[t].awaits[b] \in RequestType(view)
           /\ tasks[t].awaits[b].op = op /\ tasks[t].awaits[b].status # "sent"
<1>1. tasks \in Tasks(view)  BY DEF Inv, TypeInv
<1>2. PICK for \in For : for \in {"load", "delete"} /\ Answered(t, b, for, op)
  BY DEF For
<1>3. /\ tasks[t] # NoTask /\ tasks[t] \in TaskType(view) /\ tasks[t].for = for
      /\ b \in DOMAIN tasks[t].awaits /\ tasks[t].awaits[b] \in RequestType(view)
      /\ tasks[t].awaits[b].op = op
  BY <1>1, <1>2, AnsweredFacts
<1>4. tasks[t].awaits[b].status # "sent"  BY <1>2 DEF Answered
<1>5. TaskInv(spaces, version, view, page, tasks[t])  BY <1>3 DEF RowsInv
<1> QED  BY <1>2, <1>3, <1>4, <1>5

(* The clusters are listed, and each is asked for.                         *)
LEMMA ClustersListedRows ==
    ASSUME Inv, RowsInv, view \in Name, NEW t \in Task, ClustersListed(t)
    PROVE  RowsInv'
<1> DEFINE task == tasks[t]
           q == task.awaits[Main]
           awaits == [c \in q.names |-> Request("cluster", view, c, 0, None)]
           next == [task EXCEPT !.since = q.read, !.awaits = awaits]
<1>0. PICK op \in Op : op = "clusters"  BY DEF Op
<1>1. version \in Nat /\ version > 0  BY DEF Inv, TypeInv, RowsInv
<1>2. Answered(t, Main, "load", op) \/ Answered(t, Main, "delete", op)  BY <1>0 DEF ClustersListed
<1>3. /\ task \in TaskType(view) /\ task.for \in {"load", "delete"}
      /\ TaskInv(spaces, version, view, page, task)
      /\ Main \in DOMAIN task.awaits /\ q.op = "clusters"
  BY <1>0, <1>2, InsideAnswered
<1>4. Collect(t, next) /\ UNCHANGED server  BY DEF ClustersListed
<1> HIDE DEF task
<1>5. /\ task.rows = NoClusters /\ q.name = view /\ AnswerInv(spaces, version, q)
  <2>1. q.op \notin {"cluster", "nodes"}  BY <1>3
  <2>2. /\ DOMAIN task.awaits = {Main} /\ task.rows = NoClusters
        /\ q.op = "clusters" => q.name = view
        /\ AnswerInv(spaces, version, q)
    BY <1>3, <2>1, InsideElim, SMT
  <2> QED  BY <1>3, <2>2
<1> HIDE DEF q
<1>6. /\ q.read <= version
      /\ q.read = version => view \in DOMAIN spaces /\ q.names = DOMAIN spaces[view]
  BY <1>3, <1>5 DEF AnswerInv, ReadOp
<1>7. DOMAIN awaits = q.names /\ \A c \in q.names : awaits[c] = Request("cluster", view, c, 0, None)
  OBVIOUS
<1>8. ASSUME NEW c \in q.names
      PROVE  /\ Fresh(awaits[c]) /\ awaits[c].op = "cluster" /\ awaits[c].name = view
             /\ awaits[c].cluster = c
  BY <1>7 DEF Request, Fresh, ReadOp
<1> HIDE DEF awaits
<1>9. /\ next.awaits = awaits /\ next.rows = task.rows /\ next.since = q.read
      /\ next.for = task.for
  BY <1>3 DEF TaskType
<1> HIDE DEF next
<1>10. Later(next)  BY <1>7, <1>8, <1>9 DEF Later
<1>11. ASSUME NEW c \in q.names
       PROVE  /\ AnswerInv(spaces, version, awaits[c]) /\ awaits[c].status # "error"
              /\ Current(spaces, awaits[c])
  BY <1>1, <1>8, FreshAnswer
<1>12. ASSUME q.read = version  PROVE Gathering(spaces, view, next)
  <2>1. DOMAIN next.rows = {}  BY <1>5, <1>9 DEF NoClusters
  <2>2. DOMAIN next.awaits = DOMAIN spaces[view] /\ view \in DOMAIN spaces
    BY <1>6, <1>7, <1>9, <1>12
  <2>3. ClusterRows(spaces, view, next.whole, next.rows)  BY <2>1 DEF ClusterRows
  <2>4. \A c \in DOMAIN next.awaits : Branch(spaces, view, next.whole, c, next.awaits[c])
    BY <1>7, <1>8, <1>9, <1>11 DEF Branch
  <2> QED  BY <2>1, <2>2, <2>3, <2>4 DEF Gathering
<1>13. InsideTask(spaces, version, view, next)
  BY <1>9, <1>10, <1>12 DEF InsideTask, Later
<1>14. TaskInv(spaces, version, view, page, next)
  BY <1>6, <1>7, <1>9, <1>11, <1>13, InsideIntro
<1> QED  BY <1>3, <1>4, <1>9, <1>10, <1>14, CollectRows

(* Cluster c has a branch.                                                 *)
HasBranch(task, c) ==
    /\ task.for \in {"load", "delete"} /\ c \in DOMAIN task.awaits
    /\ task.awaits[c].op \in {"cluster", "nodes"}

(* It has ended in next, with a row for its cluster or after a failure.    *)
BranchLeft(sp, ver, v, task, c, next) ==
    /\ next.since = task.since /\ next.whole = task.whole /\ next.for = task.for
    /\ next.awaits = Restrict(task.awaits, DOMAIN task.awaits \ {c})
    /\ \/ next.rows = task.rows /\ ~task.whole
       \/ \E row : /\ next.rows = Put(task.rows, c, row)
                   /\ task.since = ver => RowOf(sp[v][c], task.whole, Nodes(sp[v][c]), row)

(* It has counted the shards of the list before an index.                  *)
BranchCounted(sp, ver, v, task, c, index, list, row) ==
    task.since = ver =>
        /\ list = sp[v][c] /\ index \in 1 .. Len(list) + 1
        /\ RowOf(list, task.whole, SumFunctionOnSet(ShardSizes(list), 1 .. index - 1), row)

(* A branch ends, with a row for its cluster or after a failure.           *)
LEMMA BranchEnds ==
    ASSUME NEW sp, NEW ver, NEW v \in Name, NEW p, NEW task, TaskInv(sp, ver, v, p, task),
           NEW c, HasBranch(task, c), NEW next, BranchLeft(sp, ver, v, task, c, next)
    PROVE  TaskInv(sp, ver, v, p, next) /\ Later(next)
<1>0. /\ task.for \in {"load", "delete"} /\ c \in DOMAIN task.awaits
      /\ task.awaits[c].op \in {"cluster", "nodes"}
      /\ next.since = task.since /\ next.whole = task.whole /\ next.for = task.for
      /\ next.awaits = Restrict(task.awaits, DOMAIN task.awaits \ {c})
      /\ \/ next.rows = task.rows /\ ~task.whole
         \/ \E row : /\ next.rows = Put(task.rows, c, row)
                     /\ task.since = ver => RowOf(sp[v][c], task.whole, Nodes(sp[v][c]), row)
  BY DEF HasBranch, BranchLeft
<1>1. /\ Later(task) /\ (task.since = ver => Gathering(sp, v, task)) /\ task.since <= ver
  BY <1>0, InsideElim
<1>2. /\ DOMAIN next.awaits = DOMAIN task.awaits \ {c}
      /\ \A d \in DOMAIN next.awaits : next.awaits[d] = task.awaits[d]
  BY <1>0 DEF Restrict
<1>3. Later(next)  BY <1>0, <1>1, <1>2 DEF Later
<1>4. \A d \in DOMAIN next.awaits :
        AnswerInv(sp, ver, next.awaits[d]) /\ (next.whole => next.awaits[d].status # "error")
  BY <1>0, <1>2 DEF TaskInv
<1>5. ASSUME task.since = ver  PROVE Gathering(sp, v, next)
  <2>1. /\ v \in DOMAIN sp
        /\ DOMAIN task.rows \cup DOMAIN task.awaits \subseteq DOMAIN sp[v]
        /\ task.whole => DOMAIN task.rows \cup DOMAIN task.awaits = DOMAIN sp[v]
        /\ ClusterRows(sp, v, task.whole, task.rows)
        /\ \A d \in DOMAIN task.awaits : Branch(sp, v, task.whole, d, task.awaits[d])
    BY <1>1, <1>5 DEF Gathering
  <2>2. \A d \in DOMAIN next.awaits : Branch(sp, v, next.whole, d, next.awaits[d])
    BY <1>0, <1>2, <2>1
  <2>3. CASE next.rows = task.rows /\ ~task.whole
    BY <1>0, <1>2, <2>1, <2>2, <2>3 DEF Gathering
  <2>4. CASE \E row : /\ next.rows = Put(task.rows, c, row)
                      /\ task.since = ver => RowOf(sp[v][c], task.whole, Nodes(sp[v][c]), row)
    <3>1. PICK row : /\ next.rows = Put(task.rows, c, row)
                     /\ RowOf(sp[v][c], task.whole, Nodes(sp[v][c]), row)
      BY <1>5, <2>4
    <3>2. /\ DOMAIN next.rows = DOMAIN task.rows \cup {c}
          /\ \A d \in DOMAIN next.rows : next.rows[d] = IF d = c THEN row ELSE task.rows[d]
      BY <3>1 DEF Put
    <3>3. ASSUME NEW d \in DOMAIN next.rows
          PROVE  RowOf(sp[v][d], next.whole, Nodes(sp[v][d]), next.rows[d])
      <4>1. CASE d = c
        <5>1. next.rows[d] = row  BY <3>2, <4>1
        <5> QED  BY <1>0, <3>1, <4>1, <5>1
      <4>2. CASE d # c  BY <1>0, <2>1, <3>2, <4>2 DEF ClusterRows
      <4> QED  BY <4>1, <4>2
    <3>4. ClusterRows(sp, v, next.whole, next.rows)  BY <3>3 DEF ClusterRows
    <3>5. DOMAIN next.rows \cup DOMAIN next.awaits = DOMAIN task.rows \cup DOMAIN task.awaits
      BY <1>0, <1>2, <3>2
    <3> QED  BY <1>0, <2>1, <2>2, <3>4, <3>5 DEF Gathering
  <2> QED  BY <1>0, <2>3, <2>4
<1>6. InsideTask(sp, ver, v, next)  BY <1>0, <1>3, <1>5 DEF InsideTask, Later
<1>7. TaskInv(sp, ver, v, p, next)  BY <1>0, <1>1, <1>4, <1>6, InsideIntro
<1> QED  BY <1>3, <1>7

(* A branch goes on to the nodes of a shard.                               *)
LEMMA BranchGoesOn ==
    ASSUME NEW sp, NEW ver \in Nat, ver > 0, NEW v \in Name, NEW p, NEW task,
           TaskInv(sp, ver, v, p, task),
           task.for \in {"load", "delete"}, NEW c \in DOMAIN task.awaits,
           task.awaits[c].op \in {"cluster", "nodes"},
           NEW q, Fresh(q), q.op = "nodes", task.since = ver => Branch(sp, v, task.whole, c, q),
           NEW next, next.since = task.since, next.whole = task.whole, next.for = task.for,
           next.awaits = [task.awaits EXCEPT ![c] = q], next.rows = task.rows
    PROVE  TaskInv(sp, ver, v, p, next) /\ Later(next)
<1>1. /\ Later(task) /\ (task.since = ver => Gathering(sp, v, task)) /\ task.since <= ver
  BY InsideElim
<1>2. /\ DOMAIN next.awaits = DOMAIN task.awaits
      /\ \A d \in DOMAIN next.awaits : next.awaits[d] = IF d = c THEN q ELSE task.awaits[d]
  OBVIOUS
<1>3. Later(next)  BY <1>1, <1>2 DEF Later
<1>4. AnswerInv(sp, ver, q) /\ q.status # "error"  BY FreshAnswer
<1>5. \A d \in DOMAIN next.awaits :
        AnswerInv(sp, ver, next.awaits[d]) /\ (next.whole => next.awaits[d].status # "error")
  BY <1>2, <1>4 DEF TaskInv
<1>6. ASSUME task.since = ver  PROVE Gathering(sp, v, next)
  <2>1. Gathering(sp, v, task)  BY <1>1, <1>6
  <2>2. Branch(sp, v, next.whole, c, q)  BY <1>6
  <2>3. \A d \in DOMAIN next.awaits : Branch(sp, v, next.whole, d, next.awaits[d])
    BY <1>2, <2>1, <2>2 DEF Gathering
  <2> QED  BY <1>2, <2>1, <2>3 DEF Gathering
<1>7. InsideTask(sp, ver, v, next)  BY <1>3, <1>6 DEF InsideTask, Later
<1>8. TaskInv(sp, ver, v, p, next)  BY <1>1, <1>5, <1>7, InsideIntro
<1> QED  BY <1>3, <1>8

(* The next shard of a branch, or its end.                                 *)
LEMMA NextNodesRows ==
    ASSUME NEW sp, NEW ver \in Nat, ver > 0, view \in Name, NEW p, NEW task \in TaskType(view),
           TaskInv(sp, ver, view, p, task),
           NEW c, HasBranch(task, c), NEW index \in Nat, NEW list \in Seq(Shard), NEW row,
           BranchCounted(sp, ver, view, task, c, index, list, row)
    PROVE  LET next == NextNodes(task, c, index, list, row) IN
           TaskInv(sp, ver, view, p, next) /\ Later(next) /\ next.for = task.for
<1> DEFINE next == NextNodes(task, c, index, list, row)
<1>0. /\ task.for \in {"load", "delete"} /\ c \in DOMAIN task.awaits
      /\ task.awaits[c].op \in {"cluster", "nodes"}
  BY DEF HasBranch
<1>1. CASE index > Len(list)
  <2> DEFINE filled == Put(task.rows, c, row)
             awaits == Restrict(task.awaits, DOMAIN task.awaits \ {c})
  <2>1. next = [[task EXCEPT !.rows = filled] EXCEPT !.awaits = awaits]
    BY <1>1 DEF NextNodes, EndBranch, TaskType
  <2> HIDE DEF filled, awaits, next
  <2>2. /\ next.since = task.since /\ next.whole = task.whole /\ next.for = task.for
        /\ next.rows = filled /\ next.awaits = awaits
    BY <2>1 DEF TaskType
  <2>3. ASSUME task.since = ver
        PROVE  RowOf(sp[view][c], task.whole, Nodes(sp[view][c]), row)
    <3>1. /\ list = sp[view][c] /\ index - 1 = Len(list)
          /\ RowOf(list, task.whole, SumFunctionOnSet(ShardSizes(list), 1 .. index - 1), row)
      BY <1>1, <2>3, SMT DEF BranchCounted
    <3>2. SumFunctionOnSet(ShardSizes(list), 1 .. index - 1) = Nodes(list)
      BY <3>1, ShardSums
    <3> QED  BY <2>3, <3>1, <3>2
  <2>4. \E r : /\ next.rows = Put(task.rows, c, r)
               /\ task.since = ver => RowOf(sp[view][c], task.whole, Nodes(sp[view][c]), r)
    BY <2>2, <2>3 DEF filled
  <2>5. TaskInv(sp, ver, view, p, next) /\ Later(next)
    <3>1. BranchLeft(sp, ver, view, task, c, next)  BY <2>2, <2>4 DEF BranchLeft, awaits
    <3> QED  BY <3>1, BranchEnds
  <2> QED  BY <2>2, <2>5 DEF next
<1>2. CASE ~(index > Len(list))
  <2> DEFINE q == [Request("nodes", view, c, index, row) EXCEPT !.shards = list]
             awaits == [task.awaits EXCEPT ![c] = q]
  <2>1. next = [task EXCEPT !.awaits = awaits]  BY <1>2 DEF NextNodes, TaskType
  <2>2. /\ Fresh(q) /\ q.op = "nodes" /\ q.name = view /\ q.cluster = c /\ q.status = "sent"
        /\ q.row = row /\ q.index = index /\ q.shards = list
    BY DEF Request, Fresh, ReadOp
  <2> HIDE DEF q, next
  <2>3. /\ next.since = task.since /\ next.whole = task.whole /\ next.for = task.for
        /\ next.rows = task.rows /\ next.awaits = awaits
    BY <2>1 DEF TaskType
  <2>4. ASSUME task.since = ver  PROVE Branch(sp, view, task.whole, c, q)
    <3>1. index \in DOMAIN list /\ list = sp[view][c]  BY <1>2, <2>4, SMT DEF BranchCounted
    <3>2. Current(sp, q)  BY <2>2 DEF Current
    <3>3. RowOf(q.shards, task.whole,
                SumFunctionOnSet(ShardSizes(q.shards), 1 .. q.index - 1), q.row)
      <4>1. RowOf(list, task.whole, SumFunctionOnSet(ShardSizes(list), 1 .. index - 1), row)
        BY <2>4 DEF BranchCounted
      <4> QED  BY <2>2, <4>1
    <3>4. q.shards = sp[view][c] /\ q.index \in DOMAIN q.shards  BY <2>2, <3>1
    <3> QED  BY <2>2, <3>2, <3>3, <3>4 DEF Branch
  <2>5. TaskInv(sp, ver, view, p, next) /\ Later(next)
    <3>1. task.since = ver => Branch(sp, view, task.whole, c, q)  BY <2>4
    <3>2. next.awaits = [task.awaits EXCEPT ![c] = q]  BY <2>3
    <3> HIDE DEF awaits
    <3> QED  BY <1>0, <2>2, <2>3, <3>1, <3>2, BranchGoesOn, SMT
  <2> QED  BY <2>3, <2>5 DEF next
<1> QED  BY <1>1, <1>2

(* What an answer holds.                                                   *)
LEMMA AnswerFields ==
    ASSUME NEW v, NEW q \in RequestType(v)
    PROVE  /\ q.shards \in Seq(Shard) /\ q.count \in Nat /\ q.read \in Nat /\ q.index \in Nat
           /\ q.status \in Status /\ q.op \in Op
           /\ q.op = "nodes" => q.row \in RowType(v)
<1>1. q \in RequestFields(v) /\ (q.op = "nodes" => q.row \in RowType(v))  BY DEF RequestType
<1> QED  BY <1>1 DEF RequestFields

(* The row of a cluster starts without nodes.                              *)
LEMMA ClusterRowStarts ==
    ASSUME NEW list \in Seq(Shard), NEW whole
    PROVE  RowOf(list, whole, SumFunctionOnSet(ShardSizes(list), 1 .. 1 - 1), ClusterRow(list))
<1>1. SumFunctionOnSet(ShardSizes(list), 1 .. 1 - 1) = 0
  <2>1. 1 - 1 = 0  BY SMT
  <2> QED  BY <2>1, ShardSums
<1>2. /\ ClusterRow(list).shards = Len(list) /\ ClusterRow(list).nodes = 0
      /\ ClusterRow(list).hasSlots = \E i \in DOMAIN list : list[i].slots
  BY DEF ClusterRow
<1>3. UpTo(whole, 0, 0)  BY SMT DEF UpTo
<1> QED  BY <1>1, <1>2, <1>3 DEF RowOf

(* A cluster is read, or cannot be.                                        *)
LEMMA ClusterFetchedRows ==
    ASSUME Inv, RowsInv, view \in Name, NEW t \in Task, NEW c, ClusterFetched(t, c)
    PROVE  RowsInv'
<1> DEFINE task == tasks[t]
           q == task.awaits[c]
           next == IF q.status = "data" THEN NextNodes(task, c, 1, q.shards, ClusterRow(q.shards))
                   ELSE EndBranch(task, c)
<1>0. PICK op \in Op : op = "cluster"  BY DEF Op
<1>1. version \in Nat /\ version > 0  BY DEF Inv, TypeInv, RowsInv
<1>2. Answered(t, c, "load", op) \/ Answered(t, c, "delete", op)  BY <1>0 DEF ClusterFetched
<1>3. /\ task \in TaskType(view) /\ task.for \in {"load", "delete"}
      /\ TaskInv(spaces, version, view, page, task)
      /\ c \in DOMAIN task.awaits /\ q \in RequestType(view) /\ q.op = "cluster" /\ q.status # "sent"
  BY <1>0, <1>2, InsideAnswered
<1>4. Collect(t, next) /\ UNCHANGED server  BY DEF ClusterFetched
<1> HIDE DEF task
<1>5. /\ task.since = version => Gathering(spaces, view, task)
      /\ AnswerInv(spaces, version, q) /\ (task.whole => q.status # "error")
  BY <1>3, InsideElim, SMT
<1>6. q.op \in {"cluster", "nodes"} /\ q.shards \in Seq(Shard) /\ q.status \in Status
  BY <1>3, AnswerFields
<1>7. task.since = version => Branch(spaces, view, task.whole, c, q)
  BY <1>3, <1>5 DEF Gathering
<1>8. CASE q.status = "data"
  <2> DEFINE row == ClusterRow(q.shards)
             index == 1
  <2>1. next = NextNodes(task, c, index, q.shards, row)  BY <1>8
  <2>2. RowOf(q.shards, task.whole, SumFunctionOnSet(ShardSizes(q.shards), 1 .. index - 1), row)
    BY <1>6, ClusterRowStarts
  <2>3. index \in Nat /\ index \in 1 .. Len(q.shards) + 1  BY <1>6, SMT
  <2>4. task.since = version => q.shards = spaces[view][c]
    BY <1>3, <1>7, <1>8 DEF Branch, Current
  <2> HIDE DEF q, row, index
  <2>5. PICK list \in Seq(Shard) : list = q.shards  BY <1>6
  <2>6. LET new == NextNodes(task, c, index, list, row) IN
        TaskInv(spaces, version, view, page, new) /\ Later(new) /\ new.for = task.for
    <3>1. HasBranch(task, c)  BY <1>3, <1>6 DEF q, HasBranch
    <3>2. BranchCounted(spaces, version, view, task, c, index, list, row)
      BY <2>2, <2>3, <2>4, <2>5 DEF BranchCounted
    <3> QED  BY <1>1, <1>3, <2>3, <3>1, <3>2, NextNodesRows, SMT
  <2>7. TaskInv(spaces, version, view, page, next) /\ Later(next) /\ next.for = task.for
    BY <2>1, <2>5, <2>6
  <2> HIDE DEF next
  <2> QED  BY <1>3, <1>4, <2>7, CollectRows
<1>9. CASE q.status # "data"
  <2> DEFINE awaits == Restrict(task.awaits, DOMAIN task.awaits \ {c})
  <2>1. ~task.whole
    BY <1>3, <1>5, <1>6, <1>9 DEF AnswerInv, ReadOp, Status
  <2>2. next = [task EXCEPT !.awaits = awaits]  BY <1>3, <1>9 DEF EndBranch, TaskType
  <2>3. HasBranch(task, c)  BY <1>3, <1>6 DEF HasBranch
  <2> HIDE DEF awaits, next, q
  <2>4. /\ next.since = task.since /\ next.whole = task.whole /\ next.for = task.for
        /\ next.rows = task.rows /\ next.awaits = awaits
    BY <1>3, <2>2 DEF TaskType
  <2>5. TaskInv(spaces, version, view, page, next) /\ Later(next)
    <3>1. BranchLeft(spaces, version, view, task, c, next)
      BY <2>1, <2>4 DEF BranchLeft, awaits
    <3> QED  BY <1>3, <2>3, <3>1, BranchEnds
  <2> QED  BY <1>3, <1>4, <2>4, <2>5, CollectRows
<1> QED  BY <1>8, <1>9

(* The nodes of one more shard.                                            *)
LEMMA RowGrows ==
    ASSUME NEW list \in Seq(Shard), NEW whole, NEW index \in DOMAIN list, NEW row \in RowType(view),
           view \in Name,
           RowOf(list, whole, SumFunctionOnSet(ShardSizes(list), 1 .. index - 1), row),
           NEW count \in Nat, UpTo(whole, count, list[index].nodes)
    PROVE  RowOf(list, whole, SumFunctionOnSet(ShardSizes(list), 1 .. (index + 1) - 1),
                 [row EXCEPT !.nodes = @ + count])
<1> DEFINE new == [row EXCEPT !.nodes = @ + count]
           before == SumFunctionOnSet(ShardSizes(list), 1 .. index - 1)
           after == SumFunctionOnSet(ShardSizes(list), 1 .. index)
<1>1. /\ index \in 1 .. Len(list) /\ list[index].nodes \in Nat /\ before \in Nat
      /\ after = before + list[index].nodes
  BY ShardSums, SMT
<1>2. /\ row.nodes \in Nat /\ new.nodes = row.nodes + count /\ new.shards = row.shards
      /\ new.hasSlots = row.hasSlots
  BY ViewAssumption DEF RowType
<1>3. (index + 1) - 1 = index  BY <1>1, SMT
<1>4. /\ row.shards = Len(list) /\ UpTo(whole, row.nodes, before)
      /\ row.hasSlots <=> \E i \in DOMAIN list : list[i].slots
  BY DEF RowOf
<1> HIDE DEF new, before, after
<1>5. UpTo(whole, new.nodes, after)  BY <1>1, <1>2, <1>4, SMT DEF UpTo
<1>6. RowOf(list, whole, after, new)  BY <1>2, <1>4, <1>5 DEF RowOf
<1> QED  BY <1>3, <1>6 DEF new, after

(* The nodes of a shard are counted, or not.                               *)
LEMMA ShardCountedRows ==
    ASSUME Inv, RowsInv, view \in Name, NEW t \in Task, NEW c, ShardCounted(t, c)
    PROVE  RowsInv'
<1> DEFINE task == tasks[t]
           q == task.awaits[c]
           row == [q.row EXCEPT !.nodes = @ + q.count]
           next == NextNodes(task, c, q.index + 1, q.shards, row)
<1>0. PICK op \in Op : op = "nodes"  BY DEF Op
<1>1. version \in Nat /\ version > 0  BY DEF Inv, TypeInv, RowsInv
<1>2. Answered(t, c, "load", op) \/ Answered(t, c, "delete", op)  BY <1>0 DEF ShardCounted
<1>3. /\ task \in TaskType(view) /\ task.for \in {"load", "delete"}
      /\ TaskInv(spaces, version, view, page, task)
      /\ c \in DOMAIN task.awaits /\ q \in RequestType(view) /\ q.op = "nodes" /\ q.status # "sent"
  BY <1>0, <1>2, InsideAnswered
<1>4. Collect(t, next) /\ UNCHANGED server  BY DEF ShardCounted
<1> HIDE DEF task
<1>5. /\ task.since = version => Gathering(spaces, view, task)
      /\ AnswerInv(spaces, version, q) /\ (task.whole => q.status # "error")
  BY <1>3, InsideElim, SMT
<1>6. /\ q.op \in {"cluster", "nodes"} /\ q.shards \in Seq(Shard) /\ q.status \in Status
      /\ q.index \in Nat /\ q.row \in RowType(view) /\ q.count \in Nat
  BY <1>3, AnswerFields
<1>7. task.since = version => Branch(spaces, view, task.whole, c, q)
  BY <1>3, <1>5 DEF Gathering
<1> HIDE DEF q
<1>8. ASSUME task.since = version
      PROVE  /\ q.shards = spaces[view][c] /\ q.index + 1 \in 1 .. Len(q.shards) + 1
             /\ RowOf(q.shards, task.whole,
                      SumFunctionOnSet(ShardSizes(q.shards), 1 .. (q.index + 1) - 1), row)
  <2>1. /\ q.name = view /\ q.cluster = c /\ Current(spaces, q)
        /\ q.shards = spaces[view][c] /\ q.index \in DOMAIN q.shards
        /\ RowOf(q.shards, task.whole, SumFunctionOnSet(ShardSizes(q.shards), 1 .. q.index - 1), q.row)
    BY <1>3, <1>7, <1>8 DEF Branch
  <2>2. q.shards[q.index].nodes \in Nat
    <3>1. q.index \in 1 .. Len(q.shards)  BY <1>6, <2>1, SMT
    <3> QED  BY <1>6, <3>1, ShardSums
  <2>3. q.status = "data" => q.count = q.shards[q.index].nodes
    BY <1>3, <2>1 DEF Current
  <2>4. q.status # "data" => q.count = 0 /\ ~task.whole
    BY <1>3, <1>5, <1>6 DEF AnswerInv, ReadOp, Status
  <2>5. UpTo(task.whole, q.count, q.shards[q.index].nodes)
    BY <1>6, <2>2, <2>3, <2>4, SMT DEF UpTo
  <2>6. RowOf(q.shards, task.whole,
              SumFunctionOnSet(ShardSizes(q.shards), 1 .. (q.index + 1) - 1), row)
    BY <1>6, <2>1, <2>5, RowGrows
  <2> QED  BY <1>6, <2>1, <2>6, SMT
<1> HIDE DEF row
<1>9. PICK list \in Seq(Shard), index \in Nat : list = q.shards /\ index = q.index + 1  BY <1>6, SMT
<1>10. LET new == NextNodes(task, c, index, list, row) IN
       TaskInv(spaces, version, view, page, new) /\ Later(new) /\ new.for = task.for
  <2>1. HasBranch(task, c)  BY <1>3, <1>6 DEF q, HasBranch
  <2>2. BranchCounted(spaces, version, view, task, c, index, list, row)
    BY <1>8, <1>9 DEF BranchCounted
  <2> QED  BY <1>1, <1>3, <2>1, <2>2, NextNodesRows, SMT
<1>11. TaskInv(spaces, version, view, page, next) /\ Later(next) /\ next.for = task.for
  BY <1>9, <1>10
<1> HIDE DEF next
<1> QED  BY <1>3, <1>4, <1>11, CollectRows

(* The sidebar of a page of a cluster has its clusters.                    *)
LEMMA ClustersShownRows ==
    ASSUME Inv, RowsInv, view = "cluster", NEW t \in Task, ClustersShown(t)
    PROVE  RowsInv'
<1> DEFINE task == tasks[t]
           q == task.awaits[Main]
<1>1. tasks \in Tasks(view) /\ page \in PageType(view)  BY DEF Inv, TypeInv
<1>2. /\ version > 0
      /\ \A u \in Task : tasks[u] # NoTask => TaskInv(spaces, version, view, page, tasks[u])
  BY DEF RowsInv
<1>3. /\ page' = [page EXCEPT !.items = q.names, !.since = q.read, !.whole = task.whole]
      /\ Ended(t) /\ view' = view /\ spaces' = spaces /\ version' = version
      /\ task # NoTask /\ task.for = "side"
  BY DEF ClustersShown, server, Answered, Awaiting
<1>4. TaskInv(spaces, version, view, page, task)  BY <1>2, <1>3
<1> HIDE DEF task
<1>5. q.op = "clusters" /\ q.name = page.space /\ AnswerInv(spaces, version, q)
  BY <1>3, <1>4 DEF TaskInv, SideTask
<1> HIDE DEF q
<1>6. /\ q.read <= version
      /\ q.read = version => page.space \in DOMAIN spaces /\ q.names = DOMAIN spaces[page.space]
  BY <1>5 DEF AnswerInv, ReadOp
<1>7. page'.items = q.names /\ page'.since = q.read /\ page'.space = page.space
  BY <1>1, <1>3 DEF PageType
<1>8. view # "home" /\ view \notin Name  BY ViewAssumption
<1>9. PageInv(spaces, version, view, page')  BY <1>6, <1>7, <1>8 DEF PageInv
<1>10. ASSUME NEW u \in Task, tasks'[u] # NoTask
       PROVE  TaskInv(spaces, version, view, page', tasks'[u])
  <2>1. tasks'[u] = tasks[u]  BY <1>1, <1>3, <1>10 DEF Ended, Tasks
  <2>2. TaskInv(spaces, version, view, page, tasks'[u])  BY <1>2, <1>10, <2>1
  <2> QED  BY <1>7, <1>8, <2>2, OtherTask
<1> QED  BY <1>2, <1>3, <1>9, <1>10 DEF RowsInv

-----------------------------------------------------------------------------
(* The invariant of handlers ts on page p at view v, over namespaces sp.   *)
RowsFor(sp, ver, v, p, ts) ==
    /\ ver > 0 /\ PageInv(sp, ver, v, p)
    /\ \A t \in Task : ts[t] # NoTask => TaskInv(sp, ver, v, p, ts[t])

(* A change of the namespaces makes every list that was read an old one.   *)
LEMMA Older ==
    ASSUME NEW sp, NEW ver \in Nat, NEW v, NEW p \in PageType(v), NEW ts \in Tasks(v),
           RowsFor(sp, ver, v, p, ts), NEW new
    PROVE  RowsFor(new, ver + 1, v, p, ts)
<1>1. p.since \in Nat /\ p.since <= ver  BY DEF RowsFor, PageInv, PageType
<1>2. p.since <= ver + 1 /\ p.since # ver + 1  BY <1>1, SMT
<1>3. PageInv(new, ver + 1, v, p)  BY <1>2 DEF PageInv
<1>4. ASSUME NEW t \in Task, ts[t] # NoTask  PROVE TaskInv(new, ver + 1, v, p, ts[t])
  <2>1. TaskInv(sp, ver, v, p, ts[t])  BY <1>4 DEF RowsFor
  <2>2. ts[t] \in TaskType(v)  BY <1>4 DEF Tasks
  <2>3. PICK task \in TaskType(v) : task = ts[t]  BY <2>2
  <2>4. TaskInv(sp, ver, v, p, task)  BY <2>1, <2>3
  <2>5. task.since \in Nat /\ task.since <= ver  BY <2>4 DEF TaskInv, TaskType
  <2>6. task.since <= ver + 1 /\ task.since # ver + 1  BY <2>5, SMT
  <2>7. ASSUME NEW b \in DOMAIN task.awaits
        PROVE  /\ AnswerInv(new, ver + 1, task.awaits[b])
               /\ task.whole => task.awaits[b].status # "error"
    <3>1. task.awaits[b] \in RequestType(v)  BY <2>7, TaskFields
    <3>2. PICK q \in RequestType(v) : q = task.awaits[b]  BY <3>1
    <3>3. AnswerInv(sp, ver, q) /\ (task.whole => q.status # "error")  BY <2>4, <3>2 DEF TaskInv
    <3>4. q.read \in Nat  BY AnswerFields
    <3>5. AnswerInv(new, ver + 1, q)
      <4>1. q.read <= ver => q.read <= ver + 1 /\ q.read # ver + 1  BY <3>4, SMT
      <4> QED  BY <3>3, <4>1 DEF AnswerInv
    <3> QED  BY <3>2, <3>3, <3>5
  <2>8. v = "home" /\ task.for = "load" => HomeTask(new, ver + 1, task)
    BY <2>4, <2>6 DEF TaskInv, HomeTask
  <2>9. v \in Name /\ task.for \in {"load", "delete"} => InsideTask(new, ver + 1, v, task)
    BY <2>4, <2>6 DEF TaskInv, InsideTask
  <2>10. v = "cluster" /\ task.for = "side" => SideTask(p.space, task)  BY <2>4 DEF TaskInv
  <2>11. TaskInv(new, ver + 1, v, p, task)
    BY <1>2, <2>6, <2>7, <2>8, <2>9, <2>10 DEF TaskInv
  <2> QED  BY <2>3, <2>11
<1>5. ver + 1 > 0  BY SMT
<1> QED  BY <1>3, <1>4, <1>5 DEF RowsFor

(* Answer a of request q: a read finds what there is, or fails.            *)
Answers(sp, ver, q, a) ==
    /\ a.op = q.op /\ a.name = q.name
    /\ q.op \in ReadOp =>
        /\ a.cluster = q.cluster /\ a.index = q.index /\ a.row = q.row
        /\ q.op = "nodes" => a.shards = q.shards
        /\ AnswerInv(sp, ver, a) /\ Current(sp, a)

(* What is not known to be whole is right as well.                         *)
LEMMA LessKnown ==
    ASSUME NEW sp, NEW whole, NEW less, less => whole
    PROVE  /\ \A n, done, row : Reached(sp, whole, n, done, row) => Reached(sp, less, n, done, row)
           /\ \A n, done, c, index, row :
                ReachedShard(sp, whole, n, done, c, index, row) =>
                ReachedShard(sp, less, n, done, c, index, row)
           /\ \A list, nodes, row : RowOf(list, whole, nodes, row) => RowOf(list, less, nodes, row)
<1>1. \A a, b : UpTo(whole, a, b) => UpTo(less, a, b)  BY DEF UpTo
<1> QED  BY <1>1, SMT DEF Reached, ReachedShard, RowOf

(* A visit of the namespaces keeps its rows when its request is answered.  *)
LEMMA VisitAnswered ==
    ASSUME NEW sp, NEW ver, NEW task, NEW q, Visiting(sp, task, q), q.op \in ReadOp,
           NEW a, Answers(sp, ver, q, a),
           NEW next, next.rows = task.rows, next.names = task.names,
           next.clusters = task.clusters, next.whole => task.whole
    PROVE  Visiting(sp, next, a)
<1>1. /\ a.op = q.op /\ a.name = q.name /\ a.cluster = q.cluster /\ a.index = q.index
      /\ a.row = q.row /\ (q.op = "nodes" => a.shards = q.shards) /\ Current(sp, a)
  BY DEF Answers
<1>2. /\ SpaceRows(sp, task.whole, task.rows)
      /\ DOMAIN task.rows \cup task.names \cup {q.name} = DOMAIN sp
  BY DEF Visiting
<1>3. SpaceRows(sp, next.whole, next.rows)
  <2>1. DOMAIN next.rows \subseteq DOMAIN task.rows /\ \A n \in DOMAIN next.rows : next.rows[n] = task.rows[n]
    OBVIOUS
  <2> QED  BY <1>2, <2>1, SpaceRowsLess
<1>4. ASSUME q.op \in {"shards", "nodes"}  PROVE InNamespace(sp, next, a)
  <2> DEFINE done == DOMAIN sp[q.name] \ (task.clusters \cup {q.cluster})
  <2>1. /\ q.cluster \in DOMAIN sp[q.name] \ task.clusters
        /\ task.clusters \subseteq DOMAIN sp[q.name]
        /\ q.op = "shards" => Reached(sp, task.whole, q.name, done, q.row)
        /\ q.op = "nodes" =>
            /\ q.shards = sp[q.name][q.cluster] /\ q.index \in DOMAIN q.shards
            /\ ReachedShard(sp, task.whole, q.name, done, q.cluster, q.index, q.row)
    BY <1>4 DEF Visiting, InNamespace
  <2>2. done = DOMAIN sp[a.name] \ (next.clusters \cup {a.cluster})  BY <1>1
  <2> HIDE DEF done
  <2>3. q.op = "shards" => Reached(sp, next.whole, a.name, done, a.row)
    BY <1>1, <2>1, LessKnown
  <2>4. q.op = "nodes" => ReachedShard(sp, next.whole, a.name, done, a.cluster, a.index, a.row)
    BY <1>1, <2>1, LessKnown, SMT
  <2>5. q.op = "nodes" => a.shards = sp[a.name][a.cluster] /\ a.index \in DOMAIN a.shards
    BY <1>1, <2>1
  <2>6. a.cluster \in DOMAIN sp[a.name] \ next.clusters /\ next.clusters \subseteq DOMAIN sp[a.name]
    BY <1>1, <2>1
  <2> QED  BY <1>1, <2>2, <2>3, <2>4, <2>5, <2>6 DEF InNamespace
<1> QED  BY <1>1, <1>2, <1>3, <1>4 DEF Visiting

(* So do the branches for the clusters.                                    *)
LEMMA BranchAnswered ==
    ASSUME NEW sp, NEW ver, NEW v, NEW task, Gathering(sp, v, task), NEW b \in DOMAIN task.awaits,
           task.awaits[b].op \in ReadOp, NEW a, Answers(sp, ver, task.awaits[b], a),
           NEW next, next.rows = task.rows, next.awaits = [task.awaits EXCEPT ![b] = a],
           next.whole => task.whole
    PROVE  Gathering(sp, v, next)
<1>1. /\ v \in DOMAIN sp
      /\ DOMAIN task.rows \cup DOMAIN task.awaits \subseteq DOMAIN sp[v]
      /\ task.whole => DOMAIN task.rows \cup DOMAIN task.awaits = DOMAIN sp[v]
      /\ ClusterRows(sp, v, task.whole, task.rows)
      /\ \A d \in DOMAIN task.awaits : Branch(sp, v, task.whole, d, task.awaits[d])
  BY DEF Gathering
<1>2. /\ DOMAIN next.awaits = DOMAIN task.awaits
      /\ \A d \in DOMAIN next.awaits : next.awaits[d] = IF d = b THEN a ELSE task.awaits[d]
  OBVIOUS
<1>3. \A list, nodes, row :
        RowOf(list, task.whole, nodes, row) => RowOf(list, next.whole, nodes, row)
  BY LessKnown
<1>4. ClusterRows(sp, v, next.whole, next.rows)  BY <1>1, <1>3 DEF ClusterRows
<1>5. ASSUME NEW d, NEW q, Branch(sp, v, task.whole, d, q)
      PROVE  Branch(sp, v, next.whole, d, q)
  BY <1>3, <1>5 DEF Branch
<1>6. Branch(sp, v, task.whole, b, a)
  <2>1. PICK q : q = task.awaits[b]  OBVIOUS
  <2>2. Branch(sp, v, task.whole, b, q) /\ Answers(sp, ver, q, a) /\ q.op \in ReadOp  BY <1>1, <2>1
  <2>3. /\ a.op = q.op /\ a.name = q.name /\ a.cluster = q.cluster /\ a.index = q.index
        /\ a.row = q.row /\ (q.op = "nodes" => a.shards = q.shards) /\ Current(sp, a)
    BY <2>2 DEF Answers
  <2>4. /\ q.name = v /\ q.cluster = b
        /\ q.op = "nodes" =>
            /\ q.shards = sp[v][b] /\ q.index \in DOMAIN q.shards
            /\ RowOf(q.shards, task.whole,
                     SumFunctionOnSet(ShardSizes(q.shards), 1 .. q.index - 1), q.row)
    BY <2>2 DEF Branch
  <2>5. a.op = "nodes" =>
            /\ a.shards = sp[v][b] /\ a.index \in DOMAIN a.shards
            /\ RowOf(a.shards, task.whole,
                     SumFunctionOnSet(ShardSizes(a.shards), 1 .. a.index - 1), a.row)
    BY <2>3, <2>4
  <2> QED  BY <2>3, <2>4, <2>5 DEF Branch
<1>7. ASSUME NEW d \in DOMAIN next.awaits  PROVE Branch(sp, v, next.whole, d, next.awaits[d])
  <2>1. CASE d = b  BY <1>2, <1>5, <1>6, <2>1
  <2>2. CASE d # b  BY <1>1, <1>2, <1>5, <2>2
  <2> QED  BY <2>1, <2>2
<1> QED  BY <1>1, <1>2, <1>4, <1>7 DEF Gathering

(* What handler task is after answer a for b.                              *)
WithAnswer(task, b, a, next) ==
    /\ next.for = task.for /\ next.rows = task.rows /\ next.names = task.names
    /\ next.clusters = task.clusters /\ next.since = task.since
    /\ next.awaits = [task.awaits EXCEPT ![b] = a]
    /\ next.whole = (task.whole /\ a.status # "error")

(* A handler keeps its invariant when a request of it is answered.         *)
LEMMA TaskAnswered ==
    ASSUME NEW sp, NEW ver, NEW v, NEW p, NEW task, TaskInv(sp, ver, v, p, task),
           NEW b \in DOMAIN task.awaits, NEW a, Answers(sp, ver, task.awaits[b], a),
           NEW next, WithAnswer(task, b, a, next)
    PROVE  TaskInv(sp, ver, v, p, next)
<1> DEFINE q == task.awaits[b]
<1>0. /\ next.for = task.for /\ next.rows = task.rows /\ next.names = task.names
      /\ next.clusters = task.clusters /\ next.since = task.since
      /\ next.awaits = [task.awaits EXCEPT ![b] = a]
      /\ next.whole = (task.whole /\ a.status # "error")
  BY DEF WithAnswer
<1>1. /\ DOMAIN next.awaits = DOMAIN task.awaits /\ next.awaits[b] = a
      /\ \A d \in DOMAIN next.awaits : d # b => next.awaits[d] = task.awaits[d]
  BY <1>0
<1>2. (next.whole => task.whole) /\ (next.whole => a.status # "error")  BY <1>0
<1>3. a.op = q.op /\ a.name = q.name  BY DEF Answers
<1>4. AnswerInv(sp, ver, a)  BY <1>3 DEF Answers, AnswerInv
<1>5. ASSUME NEW d \in DOMAIN next.awaits
      PROVE  AnswerInv(sp, ver, next.awaits[d]) /\ (next.whole => next.awaits[d].status # "error")
  <2>1. CASE d = b  BY <1>1, <1>2, <1>4, <2>1
  <2>2. CASE d # b  BY <1>1, <1>2, <2>2 DEF TaskInv
  <2> QED  BY <2>1, <2>2
<1>6. ASSUME v = "home", task.for = "load"  PROVE HomeTask(sp, ver, next)
  <2>1. HomeTask(sp, ver, task)  BY <1>6 DEF TaskInv
  <2>2. /\ b = Main /\ DOMAIN task.awaits = {Main}
        /\ q.op \in {"namespaces", "clusters", "shards", "nodes"}
        /\ q.op = "namespaces" => task.rows = NoClusters
        /\ q.op # "namespaces" /\ task.since = ver => Visiting(sp, task, q)
    BY <2>1 DEF HomeTask
  <2>3. q.op \in ReadOp /\ Answers(sp, ver, q, a)  BY <2>2 DEF ReadOp
  <2> HIDE DEF q
  <2>4. q.op # "namespaces" /\ task.since = ver => Visiting(sp, next, a)
    BY <1>0, <1>2, <2>2, <2>3, VisitAnswered
  <2> QED  BY <1>0, <1>1, <1>3, <2>2, <2>4 DEF HomeTask
<1>7. ASSUME v \in Name, task.for \in {"load", "delete"}  PROVE InsideTask(sp, ver, v, next)
  <2>1. InsideTask(sp, ver, v, task)  BY <1>7 DEF TaskInv
  <2>2. CASE /\ DOMAIN task.awaits = {Main} /\ task.rows = NoClusters
             /\ task.awaits[Main].op \in {"namespaces", "clusters", "removeCluster"}
             /\ task.awaits[Main].op = "clusters" => task.awaits[Main].name = v
    <3>1. b = Main  BY <2>2
    <3> QED  BY <1>0, <1>1, <1>3, <2>2, <3>1 DEF InsideTask
  <2>3. CASE /\ \A c \in DOMAIN task.awaits : task.awaits[c].op \in {"cluster", "nodes"}
             /\ task.since = ver => Gathering(sp, v, task)
    <3>1. q.op \in ReadOp  BY <2>3 DEF ReadOp
    <3>2. \A c \in DOMAIN next.awaits : next.awaits[c].op \in {"cluster", "nodes"}
      BY <1>1, <1>3, <2>3
    <3>3. task.since = ver => Gathering(sp, v, next)
      BY <1>0, <1>2, <2>3, <3>1, BranchAnswered
    <3> QED  BY <1>0, <3>2, <3>3 DEF InsideTask
  <2> QED  BY <2>1, <2>2, <2>3 DEF InsideTask
<1>8. ASSUME v = "cluster", task.for = "side"  PROVE SideTask(p.space, next)
  BY <1>1, <1>3, <1>8 DEF TaskInv, SideTask
<1>9. /\ next.since <= ver
      /\ v = "home" /\ next.for = "delete" /\ p.since = ver =>
            \E whole \in BOOLEAN : SpaceRows(sp, whole, next.rows)
  BY <1>0 DEF TaskInv
<1> QED  BY <1>0, <1>5, <1>6, <1>7, <1>8, <1>9 DEF TaskInv

(* The server answers, or nobody does.                                     *)
LEMMA Replied ==
    ASSUME NEW sp, NEW ver, NEW v, NEW p, tasks \in Tasks(v), RowsFor(sp, ver, v, p, tasks),
           NEW t \in Task, NEW b, Awaiting(t, b), NEW a, Answers(sp, ver, tasks[t].awaits[b], a),
           Reply(t, b, a)
    PROVE  RowsFor(sp, ver, v, p, tasks')
<1> DEFINE task == tasks[t]
           awaits == [task.awaits EXCEPT ![b] = a]
           next == [task EXCEPT !.awaits = awaits, !.whole = @ /\ a.status # "error"]
<1>1. task # NoTask /\ b \in DOMAIN task.awaits  BY DEF Awaiting
<1>2. task \in TaskType(v)  BY <1>1, KindFacts
<1>3. tasks' = [tasks EXCEPT ![t] = next]  BY DEF Reply, Tasks
<1>4. TaskInv(sp, ver, v, p, task) /\ Answers(sp, ver, task.awaits[b], a)  BY <1>1 DEF RowsFor
<1> HIDE DEF task
<1>5. WithAnswer(task, b, a, next)
  <2> HIDE DEF awaits
  <2>1. /\ next.for = task.for /\ next.rows = task.rows /\ next.names = task.names
        /\ next.clusters = task.clusters /\ next.since = task.since /\ next.awaits = awaits
        /\ next.whole = (task.whole /\ a.status # "error")
    BY <1>2 DEF TaskType
  <2> QED  BY <2>1 DEF awaits, WithAnswer
<1> HIDE DEF next
<1>6. TaskInv(sp, ver, v, p, next)  BY <1>1, <1>4, <1>5, TaskAnswered
<1>7. tasks'[t] = next /\ \A u \in Task \ {t} : tasks'[u] = tasks[u]  BY <1>3 DEF Tasks
<1> QED  BY <1>6, <1>7 DEF RowsFor

(* A read is answered with what there is, and a lost one with nothing.     *)
LEMMA ReadAnswers ==
    ASSUME NEW v, NEW q \in RequestType(v), q.status = "sent", AnswerInv(spaces, version, q),
           version \in Nat, version > 0
    PROVE  /\ Answers(spaces, version, q, Failed(q))
           /\ q.op \in ReadOp => Answers(spaces, version, q, Read(q))
<1>1. q \in RequestFields(v)  BY DEF RequestType
<1>2. /\ Failed(q).op = q.op /\ Failed(q).name = q.name /\ Failed(q).cluster = q.cluster
      /\ Failed(q).index = q.index /\ Failed(q).row = q.row /\ Failed(q).shards = q.shards
      /\ Failed(q).names = q.names /\ Failed(q).count = q.count /\ Failed(q).read = q.read
      /\ Failed(q).status = "error"
  BY <1>1 DEF RequestFields, Failed
<1>3. AnswerInv(spaces, version, Failed(q))  BY <1>2 DEF AnswerInv
<1>4. Current(spaces, Failed(q))  BY <1>2 DEF Current
<1>5. Answers(spaces, version, q, Failed(q))  BY <1>2, <1>3, <1>4 DEF Answers
<1>6. q.op \in ReadOp => q.read = 0 /\ q.read # version  BY SMT DEF AnswerInv
<1> DEFINE here == q.name \in DOMAIN spaces
           cluster == here /\ q.cluster \in DOMAIN spaces[q.name]
           data == [q EXCEPT !.status = "data"]
<1>7. CASE q.op = "namespaces"
  <2> DEFINE a == [data EXCEPT !.names = DOMAIN spaces, !.read = version]
  <2>1. Read(q) = a  BY <1>7 DEF Read
  <2>2. /\ a.op = q.op /\ a.name = q.name /\ a.cluster = q.cluster /\ a.index = q.index
        /\ a.row = q.row /\ a.status = "data" /\ a.names = DOMAIN spaces /\ a.read = version
    BY <1>1 DEF RequestFields
  <2> HIDE DEF a
  <2>3. AnswerInv(spaces, version, a) /\ Current(spaces, a)  BY <1>7, <2>2, SMT DEF AnswerInv, Current
  <2> QED  BY <1>5, <1>7, <2>1, <2>2, <2>3 DEF Answers
<1>8. CASE q.op = "clusters" /\ here
  <2> DEFINE a == [data EXCEPT !.names = DOMAIN spaces[q.name], !.read = version]
  <2>1. Read(q) = a  BY <1>8 DEF Read
  <2>2. /\ a.op = q.op /\ a.name = q.name /\ a.cluster = q.cluster /\ a.index = q.index
        /\ a.row = q.row /\ a.status = "data" /\ a.names = DOMAIN spaces[q.name]
        /\ a.read = version
    BY <1>1 DEF RequestFields
  <2> HIDE DEF a
  <2>3. AnswerInv(spaces, version, a) /\ Current(spaces, a)  BY <1>8, <2>2, SMT DEF AnswerInv, Current
  <2> QED  BY <1>5, <1>8, <2>1, <2>2, <2>3 DEF Answers
<1>9. CASE q.op \in {"cluster", "shards"} /\ cluster
  <2> DEFINE a == [data EXCEPT !.shards = spaces[q.name][q.cluster]]
  <2>1. Read(q) = a  BY <1>9 DEF Read
  <2>2. /\ a.op = q.op /\ a.name = q.name /\ a.cluster = q.cluster /\ a.index = q.index
        /\ a.row = q.row /\ a.status = "data" /\ a.shards = spaces[q.name][q.cluster]
        /\ a.read = q.read
    BY <1>1 DEF RequestFields
  <2> HIDE DEF a
  <2>3. AnswerInv(spaces, version, a) /\ Current(spaces, a)
    BY <1>6, <1>9, <2>2 DEF AnswerInv, Current, ReadOp
  <2> QED  BY <1>5, <1>9, <2>1, <2>2, <2>3 DEF Answers
<1>10. CASE q.op = "nodes" /\ cluster /\ q.index \in DOMAIN spaces[q.name][q.cluster]
  <2> DEFINE a == [data EXCEPT !.count = spaces[q.name][q.cluster][q.index].nodes]
  <2>1. Read(q) = a  BY <1>10 DEF Read
  <2>2. /\ a.op = q.op /\ a.name = q.name /\ a.cluster = q.cluster /\ a.index = q.index
        /\ a.row = q.row /\ a.status = "data"
        /\ a.count = spaces[q.name][q.cluster][q.index].nodes
        /\ a.read = q.read /\ a.shards = q.shards
    BY <1>1 DEF RequestFields
  <2> HIDE DEF a
  <2>3. AnswerInv(spaces, version, a) /\ Current(spaces, a)
    BY <1>6, <1>10, <2>2 DEF AnswerInv, Current, ReadOp
  <2> QED  BY <1>5, <1>10, <2>1, <2>2, <2>3 DEF Answers
<1>11. CASE Read(q) = Failed(q)  BY <1>5, <1>11
<1>12. \/ q.op = "namespaces"
       \/ q.op = "clusters" /\ here
       \/ q.op \in {"cluster", "shards"} /\ cluster
       \/ q.op = "nodes" /\ cluster /\ q.index \in DOMAIN spaces[q.name][q.cluster]
       \/ Read(q) = Failed(q)
  BY DEF Read
<1> QED  BY <1>7, <1>8, <1>9, <1>10, <1>11, <1>12

(* The answer of a change says only whether it was made.                   *)
LEMMA EditAnswers ==
    ASSUME NEW v, NEW q \in RequestType(v), q.op \notin ReadOp, NEW sp, NEW ver
    PROVE  /\ Answers(sp, ver, q, [Failed(q) EXCEPT !.cluster = None])
           /\ \A ok : Answers(sp, ver, q, [q EXCEPT !.status = ok])
<1>1. q \in RequestFields(v)  BY DEF RequestType
<1>2. ASSUME NEW a, a.op = q.op, a.name = q.name  PROVE Answers(sp, ver, q, a)
  BY <1>2 DEF Answers
<1>3. /\ [Failed(q) EXCEPT !.cluster = None].op = q.op
      /\ [Failed(q) EXCEPT !.cluster = None].name = q.name
  BY <1>1 DEF RequestFields, Failed
<1>4. ASSUME NEW ok  PROVE Answers(sp, ver, q, [q EXCEPT !.status = ok])
  <2>1. [q EXCEPT !.status = ok].op = q.op /\ [q EXCEPT !.status = ok].name = q.name
    BY <1>1 DEF RequestFields
  <2> QED  BY <1>2, <2>1
<1> QED  BY <1>2, <1>3, <1>4

(* A request is answered.                                                  *)
LEMMA AnswerRows ==
    ASSUME Inv, RowsInv, NEW t \in Task, Answer(t)
    PROVE  RowsInv'
<1>0. view' = view /\ page' = page  BY DEF Answer, pageVars
<1>1. tasks \in Tasks(view) /\ page \in PageType(view) /\ version \in Nat  BY DEF Inv, TypeInv
<1>2. RowsFor(spaces, version, view, page, tasks) /\ version > 0  BY DEF RowsInv, RowsFor
<1>3. ASSUME NEW b, Sent(t, b)
      PROVE  /\ Awaiting(t, b) /\ tasks[t].awaits[b] \in RequestType(view)
             /\ tasks[t].awaits[b].status = "sent"
             /\ AnswerInv(spaces, version, tasks[t].awaits[b])
  <2>1. tasks[t] # NoTask /\ b \in DOMAIN tasks[t].awaits /\ tasks[t].awaits[b].status = "sent"
    BY <1>3 DEF Sent, Awaiting
  <2>2. tasks[t] \in TaskType(view)  BY <1>1, <2>1, KindFacts
  <2>3. tasks[t].awaits[b] \in RequestType(view)  BY <2>1, <2>2, TaskFields
  <2>4. TaskInv(spaces, version, view, page, tasks[t])  BY <2>1 DEF RowsInv
  <2>5. AnswerInv(spaces, version, tasks[t].awaits[b])  BY <2>1, <2>4 DEF TaskInv
  <2> QED  BY <1>3, <2>1, <2>3, <2>5 DEF Sent
<1>4. ASSUME NEW b, ServeRead(t, b) \/ LoseRequest(t, b)  PROVE RowsInv'
  <2> DEFINE q == tasks[t].awaits[b]
  <2>1. Sent(t, b) /\ spaces' = spaces /\ version' = version
    BY <1>4 DEF ServeRead, LoseRequest, server
  <2>2. \/ Reply(t, b, Failed(q))
        \/ Reply(t, b, Read(q)) /\ q.op \in ReadOp
    BY <1>4 DEF ServeRead, LoseRequest, ReadOp
  <2>3. Awaiting(t, b) /\ q \in RequestType(view) /\ q.status = "sent" /\ AnswerInv(spaces, version, q)
    BY <1>3, <2>1
  <2> HIDE DEF q
  <2>4. PICK a : Reply(t, b, a) /\ Answers(spaces, version, q, a)
    BY <1>1, <1>2, <2>2, <2>3, ReadAnswers
  <2>5. Answers(spaces, version, tasks[t].awaits[b], a)  BY <2>4 DEF q
  <2>6. RowsFor(spaces, version, view, page, tasks')  BY <1>1, <1>2, <2>3, <2>4, <2>5, Replied
  <2> QED  BY <1>0, <2>1, <2>6 DEF RowsInv, RowsFor
<1>5. ASSUME ServeEdit(t)  PROVE RowsInv'
  <2> DEFINE q == tasks[t].awaits[Main]
  <2>1. Sent(t, Main)  BY <1>5 DEF ServeEdit
  <2>2. q.op \in {"createNamespace", "removeNamespace", "createCluster", "removeCluster"}
    BY <1>5 DEF ServeEdit
  <2>3. \/ version' = version + 1
        \/ spaces' = spaces /\ version' = version
    BY <1>5 DEF ServeEdit, Store, server
  <2>4. \/ \E ok : Reply(t, Main, [q EXCEPT !.status = ok])
        \/ Reply(t, Main, [Failed(q) EXCEPT !.cluster = None])
    BY <1>5 DEF ServeEdit, Refuse
  <2>5. Awaiting(t, Main) /\ q \in RequestType(view)  BY <1>3, <2>1
  <2>6. q.op \notin ReadOp  BY <2>2 DEF ReadOp
  <2> HIDE DEF q
  <2>7. RowsFor(spaces', version', view, page, tasks)  BY <1>1, <1>2, <2>3, Older
  <2>8. PICK a : Reply(t, Main, a) /\ Answers(spaces', version', q, a)
    BY <2>4, <2>5, <2>6, EditAnswers
  <2>9. Answers(spaces', version', tasks[t].awaits[Main], a)  BY <2>8 DEF q
  <2>10. PICK sp, ver : sp = spaces' /\ ver = version'  OBVIOUS
  <2>11. RowsFor(sp, ver, view, page, tasks')
    BY <1>1, <2>5, <2>7, <2>8, <2>9, <2>10, Replied
  <2> QED  BY <1>0, <2>10, <2>11 DEF RowsInv, RowsFor
<1> QED  BY <1>4, <1>5 DEF Answer

(* Somebody else changes the namespaces.                                   *)
LEMMA OthersRows ==
    ASSUME Inv, RowsInv, Others, UNCHANGED <<tasks, pageVars>>
    PROVE  RowsInv'
<1>1. tasks \in Tasks(view) /\ page \in PageType(view) /\ version \in Nat  BY DEF Inv, TypeInv
<1>2. RowsFor(spaces, version, view, page, tasks)  BY DEF RowsInv, RowsFor
<1>3. version' = version + 1 /\ tasks' = tasks /\ view' = view /\ page' = page
  BY DEF Others, Store, pageVars
<1>4. PICK sp : sp = spaces'  OBVIOUS
<1>5. RowsFor(sp, version + 1, view, page, tasks)  BY <1>1, <1>2, Older
<1> QED  BY <1>3, <1>4, <1>5 DEF RowsInv, RowsFor

(* At the start the page of the namespaces asks for them.                  *)
LEMMA RowsInit == Init => RowsInv
<1> SUFFICES ASSUME Init  PROVE RowsInv  OBVIOUS
<1> DEFINE q == Request("namespaces", None, None, 0, None)
           task == Running("load", q)
<1>0. PICK for, v : for = "load" /\ v = "home"  OBVIOUS
<1>1. Fresh(q) /\ q.op = "namespaces"  BY DEF Request, Fresh, ReadOp
<1> HIDE DEF q
<1>2. version \in Nat /\ version > 0  BY SMT DEF Init
<1>3. TaskInv(spaces, version, v, Loading, Running(for, q))
  BY <1>0, <1>1, <1>2, RunningTask
<1>4. view = v /\ page = Loading /\ tasks = OnlyTask(task)  BY <1>0 DEF Init, q
<1>5. TaskInv(spaces, version, v, Loading, task)  BY <1>0, <1>3
<1> HIDE DEF task
<1>6. \A u \in Task : tasks[u] = task \/ tasks[u] = NoTask  BY <1>4 DEF OnlyTask
<1>7. Loading.since = 0  BY DEF Loading
<1>8. PageInv(spaces, version, v, Loading)  BY <1>2, <1>7, SMT DEF PageInv
<1>9. ASSUME NEW u \in Task, tasks[u] # NoTask
      PROVE  TaskInv(spaces, version, v, Loading, tasks[u])
  BY <1>5, <1>6, <1>9
<1> QED  BY <1>2, <1>4, <1>8, <1>9 DEF RowsInv

(* Every step of the pages keeps the rows true.                            *)
LEMMA RowsNext == Inv /\ RowsInv /\ [Next]_vars => RowsInv'
<1> SUFFICES ASSUME Inv, RowsInv, [Next]_vars  PROVE RowsInv'  OBVIOUS
<1>1. ASSUME NEW t \in Task, Continue(t)  PROVE RowsInv'
  <2>1. CASE Home(HomeContinue(t))
    <3>1. view = "home" /\ HomeContinue(t)  BY <2>1 DEF Home
    <3>2. CASE NamespaceDeleted(t)  BY <3>1, <3>2, NamespaceDeletedRows
    <3>3. CASE NamespacesFetched(t) \/ ClustersFetched(t) \/ ShardsFetched(t) \/ NodesFetched(t)
      BY <3>1, <3>3, FetchedRows
    <3> QED  BY <3>1, <3>2, <3>3 DEF HomeContinue
  <2>2. CASE Inside(InsideContinue(t))
    <3>1. view \in Name /\ InsideContinue(t)  BY <2>2 DEF Inside
    <3> QED  BY <3>1, LookedUpRows, ClusterRefusedRows, ClusterRemovedRows, ClustersListedRows,
                ClusterFetchedRows, ShardCountedRows
             DEF InsideContinue
  <2>3. CASE Beside(SideContinue(t))
    BY <2>3, ClustersShownRows, DoneRows DEF Beside, SideContinue
  <2> QED  BY <1>1, <2>1, <2>2, <2>3, DoneRows DEF Continue
<1>2. ASSUME NEW t \in Task, User(t)  PROVE RowsInv'
  <2>1. CASE handleDeleteNamespace(t) /\ view = "home"  BY <2>1, HandleDeleteNamespaceRows
  <2> QED  BY <1>2, <2>1, StartRows DEF User, Home, Inside, Beside
<1>3. CASE UNCHANGED vars
  <2>1. UNCHANGED <<spaces, version, tasks, view, page>>  BY <1>3 DEF vars, server, pageVars
  <2> QED  BY <2>1 DEF RowsInv
<1> QED  BY <1>1, <1>2, <1>3, AnswerRows, ClickRows, OthersRows DEF Next

(* Rows and handlers are right in every state.                             *)
LEMMA RowsAlways == Spec => []RowsInv
<1>1. Inv /\ RowsInv /\ [Next]_vars => RowsInv'  BY RowsNext
<1> QED  BY <1>1, InvAlways, RowsInit, PTL DEF Spec

(* The counts of a namespace are its totals.                               *)
LEMMA TotalOf ==
    ASSUME NEW n
    PROVE  /\ Total(n, Len) = SumFunctionOnSet(Lens(spaces, n), DOMAIN spaces[n])
           /\ Total(n, Nodes) = SumFunctionOnSet(NodeCounts(spaces, n), DOMAIN spaces[n])
<1>1. Total(n, Len) = SumFunction(Lens(spaces, n))  BY DEF Total, Lens
<1>2. Total(n, Nodes) = SumFunction(NodeCounts(spaces, n))  BY DEF Total, NodeCounts
<1> QED  BY <1>1, <1>2, Totals

(* While the server is as it was when the list behind the rows was read,   *)
(* the rows of fetchData of the page of the namespaces, and those of a     *)
(* namespace, are true, and so are the clusters of the sidebar: for any    *)
(* namespaces, clusters, shards and handlers, and whatever fails.          *)
THEOREM RowsCorrect == Spec => []RowsAreTrue
<1>1. ASSUME Inv, RowsInv, page.since = version, view = "home"  PROVE NamespaceRowsTrue
  <2>1. /\ SpaceRows(spaces, page.whole, page.rows)
        /\ page.whole => DOMAIN page.rows = DOMAIN spaces
    BY <1>1 DEF RowsInv, PageInv
  <2>2. spaces \in Spaces  BY <1>1 DEF Inv, TypeInv
  <2>3. ASSUME NEW n \in DOMAIN page.rows
        PROVE  /\ n \in DOMAIN spaces
               /\ UpTo(page.whole, page.rows[n].clusters, Cardinality(DOMAIN spaces[n]))
               /\ UpTo(page.whole, page.rows[n].shards, Total(n, Len))
               /\ UpTo(page.whole, page.rows[n].nodes, Total(n, Nodes))
    <3>1. SpaceRow(spaces, page.whole, n, page.rows[n])  BY <2>1, <2>3 DEF SpaceRows
    <3> QED  BY <3>1, TotalOf DEF SpaceRow, Reached
  <2>4. ASSUME page.whole
        PROVE  filteredNamespaces("no-clusters") = {n \in DOMAIN spaces : DOMAIN spaces[n] = {}}
    <3>1. DOMAIN page.rows = DOMAIN spaces  BY <2>1, <2>4
    <3>2. ASSUME NEW n \in DOMAIN spaces
          PROVE  page.rows[n].clusters = 0 <=> DOMAIN spaces[n] = {}
      <4>1. page.rows[n].clusters = Cardinality(DOMAIN spaces[n])
        BY <2>3, <2>4, <3>1, <3>2 DEF UpTo
      <4>2. IsFiniteSet(DOMAIN spaces[n])  BY <2>2, <3>2, SpaceFacts
      <4> QED  BY <4>1, <4>2, FS_EmptySet
    <3>3. filteredNamespaces("no-clusters") = {n \in DOMAIN page.rows : page.rows[n].clusters = 0}
      BY DEF filteredNamespaces
    <3> QED  BY <3>1, <3>2, <3>3
  <2>5. \A n \in DOMAIN page.rows :
          /\ n \in DOMAIN spaces
          /\ page.rows[n].clusters <= Cardinality(DOMAIN spaces[n])
          /\ page.rows[n].shards <= Total(n, Len)
          /\ page.rows[n].nodes <= Total(n, Nodes)
    BY <2>3 DEF UpTo
  <2>6. page.whole =>
          /\ DOMAIN page.rows = DOMAIN spaces
          /\ \A n \in DOMAIN spaces :
              /\ page.rows[n].shards = Total(n, Len)
              /\ page.rows[n].nodes = Total(n, Nodes)
    BY <2>1, <2>3 DEF UpTo
  <2> QED  BY <2>4, <2>5, <2>6 DEF NamespaceRowsTrue
<1>2. ASSUME RowsInv, page.since = version, view \in Name  PROVE ClusterRowsTrue
  <2>1. /\ view \in DOMAIN spaces
        /\ DOMAIN page.rows \subseteq DOMAIN spaces[view]
        /\ page.whole => DOMAIN page.rows = DOMAIN spaces[view]
        /\ ClusterRows(spaces, view, page.whole, page.rows)
    BY <1>2 DEF RowsInv, PageInv
  <2>2. ASSUME NEW c \in DOMAIN page.rows
        PROVE  /\ c \in DOMAIN spaces[view]
               /\ page.rows[c].shards = Len(spaces[view][c])
               /\ UpTo(page.whole, page.rows[c].nodes, Nodes(spaces[view][c]))
               /\ page.rows[c].hasSlots <=>
                    \E i \in DOMAIN spaces[view][c] : spaces[view][c][i].slots
    BY <2>1, <2>2 DEF ClusterRows, RowOf
  <2>3. \A c \in DOMAIN page.rows :
          /\ page.rows[c].nodes <= Nodes(spaces[view][c])
          /\ page.whole => page.rows[c].nodes = Nodes(spaces[view][c])
    BY <2>2 DEF UpTo
  <2>4. ASSUME page.whole
        PROVE  filteredClusters("with-slots") =
                {c \in DOMAIN spaces[view] :
                    \E i \in DOMAIN spaces[view][c] : spaces[view][c][i].slots}
    <3>1. filteredClusters("with-slots") = {c \in DOMAIN page.rows : page.rows[c].hasSlots}
      BY DEF filteredClusters
    <3>2. DOMAIN page.rows = DOMAIN spaces[view]  BY <2>1, <2>4
    <3> QED  BY <2>2, <3>1, <3>2
  <2> QED  BY <2>1, <2>2, <2>3, <2>4 DEF ClusterRowsTrue
<1>3. ASSUME RowsInv, page.since = version, view = "cluster"  PROVE ClusterItemsTrue
  BY <1>3 DEF RowsInv, PageInv, ClusterItemsTrue
<1>4. Inv /\ RowsInv => RowsAreTrue
  <2>1. Inv => view \in {"home", "cluster"} \cup Name  BY DEF Inv, TypeInv
  <2>2. "home" \notin Name /\ "cluster" \notin Name  BY ViewAssumption
  <2> QED  BY <1>1, <1>2, <1>3, <2>1, <2>2 DEF RowsAreTrue
<1> QED  BY <1>4, InvAlways, RowsAlways, PTL
=============================================================================
