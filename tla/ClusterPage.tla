----------------------------- MODULE ClusterPage -----------------------------
(***************************************************************************)
(* The page of a cluster in the web UI                                     *)
(* (webui/src/app/namespaces/[namespace]/clusters/[cluster]/page.tsx) and  *)
(* its MigrationDialog (webui/src/app/ui/migrationDialog.tsx), and its     *)
(* form for a new shard, over the shards that the API serves and that      *)
(* other clients change meanwhile.                                         *)
(*                                                                         *)
(* Shards are numbered from 1, as the page shows them; a row or request    *)
(* without a shard has number 0.                                           *)
(*                                                                         *)
(* Faults are among "request" and "answer": what the network loses.        *)
(*                                                                         *)
(* A shard is known by its nodes.  version and removals count the changes  *)
(* of the shard list; with the fields read, seen and shard they record     *)
(* what a row, a choice or a request was based on, and no guard uses them. *)
(***************************************************************************)
EXTENDS Topology, PageCalls, FormDialog, FiniteSets

CONSTANTS
    InitialShards,  \* the shard lists at the start
    Groups,         \* the nodes of shards that others create
    SlotInputs,     \* what is typed as the slot to migrate
    FormInputs,     \* what is typed into the form
    MaxVersion      \* bound on the changes of the shard list

VARIABLES
    shards,         \* the shard list of the server
    version,        \* how often it has changed, counting from 1
    removals,       \* how many shards have been removed from it
    page,           \* shardsData, loading, deletingShardIndex
    dialog          \* the state of the MigrationDialog

server == <<shards, version, removals>>
vars == <<server, page, dialog, form, calls>>

Id(shard) == shard.masters \cup shard.slaves

NoShard == {}

-----------------------------------------------------------------------------
(* What the page makes of a list of shards *)

(* target_shard_index || -1: the first shard is no target either.          *)
TargetShardIndex(shard) == IF shard.target = 1 THEN NoTarget ELSE shard.target

isActiveMigration(migratingSlot) == migratingSlot # NotMigrating

(* migratingSlot >= 0 of a string: the text of a range is not a number.    *)
IsNonNegative(migratingSlot) ==
    migratingSlot # NotMigrating /\ migratingSlot.start = migratingSlot.stop

Row(i, shard, hasMigration) ==
    [index |-> i, shard |-> Id(shard), hasSlots |-> shard.slots # {},
     hasMigration |-> hasMigration, target |-> TargetShardIndex(shard)]

LoadedRows(list) ==
    [i \in DOMAIN list |-> Row(i, list[i], isActiveMigration(list[i].migrating))]

(* The rows that handleDeleteShard computes.                               *)
DeletedRows(list) ==
    [i \in DOMAIN list |-> Row(i, list[i], IsNonNegative(list[i].migrating))]

FilterOption ==
    {"all", "with-migration", "no-migration", "with-slots", "no-slots", "with-importing"}

SortOption == {"index-asc", "index-desc", "nodes-desc", "nodes-asc"}

(* No shard has an import_slot.                                            *)
Passes(row, filterOption) ==
    \/ filterOption = "all"
    \/ filterOption = "with-migration" /\ row.hasMigration
    \/ filterOption = "no-migration" /\ ~row.hasMigration
    \/ filterOption = "with-slots" /\ row.hasSlots
    \/ filterOption = "no-slots" /\ ~row.hasSlots

(* Row a comes before row b; rows with equally many nodes keep their       *)
(* order.                                                                  *)
Before(a, b, sortOption) ==
    LET more == Cardinality(a.shard) - Cardinality(b.shard) IN
    \/ sortOption = "index-desc" /\ b.index < a.index
    \/ sortOption = "nodes-desc" /\ more > 0
    \/ sortOption = "nodes-asc" /\ more < 0
    \/ a.index < b.index /\ (sortOption = "index-asc" \/ (sortOption # "index-desc" /\ more = 0))

(* The rows that pass, each with its place on the screen.                  *)
filteredAndSortedShards(filterOption, sortOption) ==
    LET rows == {row \in {page.rows[i] : i \in DOMAIN page.rows} : Passes(row, filterOption)} IN
    {[place |-> Cardinality({r \in rows : Before(r, row, sortOption)}) + 1, row |-> row] :
        row \in rows}

(* The options can be changed at any time.                                 *)
ShownRows ==
    UNION {filteredAndSortedShards(o[1], o[2]) : o \in FilterOption \X SortOption}

-----------------------------------------------------------------------------
(* Requests *)

(* The uses a request is put to: op, and for whom the answer is.           *)
CallType ==
    [op : {"list", "delete", "migrate", "create"}, status : Status,
     for : {"load", "refresh", "delete", "page", "dialog", "form", "stray", "gone"},
     index : Nat, shard : SUBSET Node, seen : Nat,
     slot : SlotRange \cup {NotMigrating}, slotOnly : BOOLEAN,
     list : Seq(Shard), read : Nat]

ASSUME PageAssumption ==
    /\ \A list \in InitialShards : list \in Seq(Shard) /\ Sound(list)
    /\ Groups \subseteq Group
    /\ NoCall \notin CallType

Request(op, for, index, shard, seen) ==
    [op |-> op, for |-> for, index |-> index, shard |-> shard, seen |-> seen,
     status |-> "sent", slot |-> NotMigrating, slotOnly |-> FALSE,
     list |-> << >>, read |-> 0]

ListShards(for) == Request("list", for, 0, NoShard, 0)

Loading == [rows |-> << >>, read |-> 0, seen |-> 0, loading |-> TRUE, deleting |-> 0]

Closed == [open |-> FALSE, target |-> 0, shard |-> NoShard, seen |-> 0,
           busy |-> FALSE, failed |-> FALSE]

(* The page is mounted and asks for its shards.                            *)
Init ==
    /\ shards \in InitialShards
    /\ version = 1
    /\ removals = 0
    /\ page = Loading
    /\ dialog = Closed
    /\ form = NoForm
    /\ calls = Only(ListShards("load"))

-----------------------------------------------------------------------------
(* The server, and the other clients *)

(* A change of the shard list.                                             *)
Store(after) ==
    /\ version < MaxVersion
    /\ shards' = after
    /\ version' = version + 1
    /\ removals' = IF Len(after) < Len(shards) THEN removals + 1 ELSE removals

(* What has been asked matters no more once it is answered.                *)
Reply(c, status) ==
    [calls EXCEPT ![c] = [Request(@.op, @.for, @.index, NoShard, 0) EXCEPT !.status = status]]

(* The request is carried out, and answered unless the answer is lost, or  *)
(* refused.  Past the bound the server refuses every change.               *)
Edit(c, edits, status) ==
    \/ /\ \E after \in edits : Store(after)
       /\ \E s \in {status} \cup (IF "answer" \in Faults THEN {"error"} ELSE {}) :
            calls' = Reply(c, s)
    \/ /\ edits = {} \/ version = MaxVersion
       /\ calls' = Reply(c, "error")
       /\ UNCHANGED server

ServeList(c) ==
    /\ Sent(c, "list")
    /\ calls' = [calls EXCEPT ![c].status = "data", ![c].list = shards,
                              ![c].read = version, ![c].seen = removals]
    /\ UNCHANGED <<server, page, dialog, form>>

ServeDelete(c) ==
    /\ Sent(c, "delete")
    /\ Edit(c, RemoveShard(shards, calls[c].index), "empty")
    /\ UNCHANGED <<page, dialog, form>>

(* Shards of nodes that are not in use.                                    *)
Creations ==
    UNION {CreateShard(shards, g) :
            g \in {h \in Groups : \A i \in DOMAIN shards : h.master \notin Id(shards[i])}}

ServeCreate(c) ==
    /\ Sent(c, "create")
    /\ Edit(c, Creations, "data")
    /\ UNCHANGED <<page, dialog, form>>

(* The edits of a migration request; none for a slot that does not parse.  *)
Migrations(slot, target, slotOnly) ==
    IF slot \notin SlotRange THEN {}
    ELSE IF slotOnly THEN MigrateSlotOnly(shards, slot, target)
    ELSE MigrateSlotData(shards, slot, target)

ServeMigrate(c) ==
    /\ Sent(c, "migrate")
    /\ Edit(c, Migrations(calls[c].slot, calls[c].index, calls[c].slotOnly), "data")
    /\ UNCHANGED <<page, dialog, form>>

(* The request does not arrive, or the server fails to serve it.           *)
LoseRequest(c) ==
    /\ "request" \in Faults
    /\ calls[c] # NoCall /\ calls[c].status = "sent"
    /\ calls' = Reply(c, "error")
    /\ UNCHANGED <<server, page, dialog, form>>

Serve(c) ==
    \/ ServeList(c) \/ ServeDelete(c) \/ ServeCreate(c) \/ ServeMigrate(c)
    \/ LoseRequest(c)

(* Another client or the controller: a shard is created on nodes that are  *)
(* not in use or removed, a master replaced, or a migration ends.          *)
OtherEdits ==
    Creations
    \cup (UNION {RemoveShard(shards, i) \cup PromoteNewMaster(shards, i, AnyMaster) :
            i \in DOMAIN shards})
    \cup (UNION {{MigrationSucceeded(shards, i), MigrationFailed(shards, i)} :
            i \in {j \in DOMAIN shards :
                    IsMigrating(shards[j]) /\ shards[j].target \in DOMAIN shards}})

Others ==
    /\ \E after \in OtherEdits : Store(after)
    /\ UNCHANGED <<page, dialog, calls, form>>

-----------------------------------------------------------------------------
(* The page *)

(* The spinner is gone, and no modal dialog is in front of the page.       *)
Reachable == ~page.loading /\ ~dialog.open /\ ~form.open

Shown(c, rows) ==
    [page EXCEPT !.rows = rows, !.read = calls[c].read, !.seen = calls[c].seen]

(* A load that fails is not noticed.                                       *)
LoadDoneOnData(c) ==
    /\ Answered(c, "list") /\ calls[c].for \in {"load", "refresh"}
    /\ calls[c].status = "data"
    /\ page' = [Shown(c, LoadedRows(calls[c].list)) EXCEPT !.loading = FALSE]
    /\ Done(c)
    /\ UNCHANGED <<server, dialog, form>>

(* The end of fetchData and of refreshShardData.                           *)
LoadDone(c) ==
    /\ Answered(c, "list") /\ calls[c].for \in {"load", "refresh"}
    /\ page' = [Shown(c, LoadedRows(FetchedList(calls[c].status, calls[c].list)))
                    EXCEPT !.loading = FALSE]
    /\ Done(c)
    /\ UNCHANGED <<server, dialog, form>>

(* The request names the place of the row on the screen.                   *)
DeleteClickByPosition(c) ==
    /\ Free(c)
    /\ Reachable
    /\ \E shown \in ShownRows :
        LET row == shown.row IN
        /\ page.deleting # row.index
        /\ page' = [page EXCEPT !.deleting = row.index]
        /\ calls' = [calls EXCEPT
                ![c] = Request("delete", "page", shown.place, row.shard, page.seen)]
    /\ UNCHANGED <<server, dialog, form>>

(* handleDeleteShard up to the await, the question answered with yes.  The *)
(* button is disabled for the shard of deletingShardIndex only, and cannot *)
(* be reached behind the dialog.                                           *)
DeleteClick(c) ==
    /\ Free(c)
    /\ Reachable
    /\ \E shown \in ShownRows :
        LET row == shown.row IN
        /\ page.deleting # row.index
        /\ page' = [page EXCEPT !.deleting = row.index]
        /\ calls' = [calls EXCEPT
                ![c] = Request("delete", "page", row.index, row.shard, page.seen)]
    /\ UNCHANGED <<server, dialog, form>>

(* The answer to the delete: an alert, or the shards are listed again.     *)
DeleteDone(c) ==
    /\ AnsweredTo(c, "delete", "page")
    /\ \/ /\ handleDeleteResponse(calls[c].status) # ""
          /\ page' = [page EXCEPT !.deleting = 0]
          /\ Done(c)
       \/ /\ handleDeleteResponse(calls[c].status) = ""
          /\ calls' = [calls EXCEPT
                  ![c] = Request("list", "delete", calls[c].index, NoShard, 0)]
          /\ UNCHANGED page
    /\ UNCHANGED <<server, dialog, form>>

(* The row is taken out of the rows there are.                             *)
DeleteListedLocally(c) ==
    /\ AnsweredTo(c, "list", "delete")
    /\ LET IsKept(row) == row.index # calls[c].index IN
       page' = [Shown(c, SelectSeq(page.rows, IsKept)) EXCEPT !.deleting = 0]
    /\ Done(c)
    /\ UNCHANGED <<server, dialog, form>>

(* The end of handleDeleteShard, its finally clause included.              *)
DeleteListed(c) ==
    /\ AnsweredTo(c, "list", "delete")
    /\ page' = [Shown(c, DeletedRows(FetchedList(calls[c].status, calls[c].list)))
                    EXCEPT !.deleting = 0]
    /\ Done(c)
    /\ UNCHANGED <<server, dialog, form>>

-----------------------------------------------------------------------------
(* The migration dialog *)

(* The ends of a range may be in any order.                                *)
validateSlotInputUnordered(input) ==
    Len(input) \in {1, 2} /\ \A i \in DOMAIN input : input[i].number \in Slot

(* An input is what split("-") makes of it: a sequence of parts, each with *)
(* the number that parseInt reads, -1 for NaN, and whether the number is   *)
(* all of the part.                                                        *)
validateSlotInput(input) ==
    \/ Len(input) = 1 /\ input[1].number \in Slot
    \/ /\ Len(input) = 2
       /\ input[1].number \in Slot /\ input[2].number \in Slot
       /\ input[1].number <= input[2].number

(* What the server reads, which insists on the whole text being numbers.   *)
ParseSlotRange(input) ==
    IF \A i \in DOMAIN input : input[i].clean
    THEN [start |-> input[1].number, stop |-> input[Len(input)].number]
    ELSE NotMigrating

Targets == {i \in DOMAIN page.rows : page.rows[i].hasSlots}

(* The button of the page, disabled without two shards that have slots.    *)
OpenDialog ==
    /\ Reachable
    /\ \E i, j \in Targets : i # j
    /\ dialog' = [dialog EXCEPT !.open = TRUE]
    /\ UNCHANGED <<server, page, calls, form>>

(* A target is chosen, also while a request is outstanding.                *)
PickTarget ==
    /\ dialog.open
    /\ \E i \in Targets :
        dialog' = [dialog EXCEPT !.target = i, !.shard = page.rows[i].shard,
                                 !.seen = page.seen]
    /\ UNCHANGED <<server, page, calls, form>>

(* What handleMigration sends.  The slot and slotOnly are as they were     *)
(* typed last.                                                             *)
MigrationRequest(input, slotOnly) ==
    [Request("migrate", "dialog", dialog.target, dialog.shard, dialog.seen) EXCEPT
        !.slot = ParseSlotRange(input), !.slotOnly = slotOnly]

(* A second request may be sent while the first is outstanding.            *)
SubmitWhileBusy(c) ==
    /\ Free(c)
    /\ dialog.open /\ dialog.target # 0 /\ Targets # {}
    /\ \E input \in SlotInputs, slotOnly \in BOOLEAN :
        /\ validateSlotInput(input)
        /\ dialog' = [dialog EXCEPT !.busy = TRUE, !.failed = FALSE]
        /\ calls' = [calls EXCEPT ![c] = MigrationRequest(input, slotOnly)]
    /\ UNCHANGED <<server, page, form>>

(* handleMigration up to the await.                                        *)
Submit(c) ==
    /\ Free(c)
    /\ dialog.open /\ ~dialog.busy /\ dialog.target # 0 /\ Targets # {}
    /\ \E input \in SlotInputs, slotOnly \in BOOLEAN :
        \/ /\ ~validateSlotInput(input)
           /\ dialog' = [dialog EXCEPT !.failed = TRUE]
           /\ UNCHANGED calls
        \/ /\ validateSlotInput(input)
           /\ dialog' = [dialog EXCEPT !.busy = TRUE, !.failed = FALSE]
           /\ calls' = [calls EXCEPT ![c] = MigrationRequest(input, slotOnly)]
    /\ UNCHANGED <<server, page, form>>

(* The handler of the form goes on when the spinner takes its place.       *)
Unmounted ==
    [d \in Call |-> IF Outstanding(d, "create") /\ calls[d].for = "form"
                   THEN [calls[d] EXCEPT !.for = "stray"] ELSE calls[d]]

(* The rest of it: the error is shown, or onSuccess begins to refresh the  *)
(* page, which unmounts dialog and form, and the dialog is closed and      *)
(* reset.                                                                  *)
MigrateDone(c) ==
    /\ AnsweredTo(c, "migrate", "dialog")
    /\ \/ /\ handleCreateResponse(calls[c].status) # ""
          /\ dialog' = [dialog EXCEPT !.busy = FALSE, !.failed = TRUE]
          /\ Done(c)
          /\ UNCHANGED <<page, form>>
       \/ /\ handleCreateResponse(calls[c].status) = ""
          /\ dialog' = Closed
          /\ page' = [page EXCEPT !.loading = TRUE]
          /\ form' = NoForm
          /\ calls' = [Unmounted EXCEPT ![c] = ListShards("refresh")]
    /\ UNCHANGED server

(* The dialog can be left while its request is outstanding.                *)
CloseDialogWhileBusy ==
    /\ dialog.open
    /\ dialog' = [Closed EXCEPT !.busy = dialog.busy]
    /\ UNCHANGED <<server, page, calls, form>>

(* handleClose.                                                            *)
CloseDialog ==
    /\ dialog.open /\ ~dialog.busy
    /\ dialog' = Closed
    /\ UNCHANGED <<server, page, calls, form>>

(* The message disappears by itself or is closed.                          *)
DismissError ==
    /\ dialog.failed
    /\ dialog' = [dialog EXCEPT !.failed = FALSE]
    /\ UNCHANGED <<server, page, calls, form>>

-----------------------------------------------------------------------------
(* The page is loaded anew.  Requests that are on their way are served all *)
(* the same.                                                               *)
Orphaned ==
    [d \in Call |->
        IF Sent(d, "delete") \/ Sent(d, "migrate") \/ Sent(d, "create")
        THEN [calls[d] EXCEPT !.for = "gone"]
        ELSE NoCall]

Reload(c) ==
    /\ Orphaned[c] = NoCall /\ c = FirstFree(Orphaned)
    /\ page' = Loading
    /\ dialog' = Closed
    /\ form' = NoForm
    /\ calls' = [Orphaned EXCEPT ![c] = ListShards("load")]
    /\ UNCHANGED server

Ignore(c) ==
    /\ calls[c] # NoCall /\ calls[c].for = "gone" /\ calls[c].status # "sent"
    /\ Done(c)
    /\ UNCHANGED <<server, page, dialog, form>>

-----------------------------------------------------------------------------
(* The form for a new shard *)

OpenForm == Reachable /\ openDialog /\ UNCHANGED <<server, page, dialog, calls>>

LeaveForm == closeDialog /\ UNCHANGED <<server, page, dialog, calls>>

SubmitForm(c) ==
    /\ Free(c)
    /\ \E formData \in FormInputs : ShardCreation(formData)
    /\ handleSubmit
    /\ calls' = [calls EXCEPT ![c] = Request("create", "form", 0, NoShard, 0)]
    /\ UNCHANGED <<server, page, dialog>>

(* Success loads the page anew.                                            *)
FormDone(c) ==
    /\ AnsweredTo(c, "create", "form") \/ AnsweredTo(c, "create", "stray")
    /\ \/ handleCreateResponse(calls[c].status) = "" /\ \E d \in Call : Reload(d)
       \/ /\ handleCreateResponse(calls[c].status) # ""
          /\ IF calls[c].for = "form" THEN EndSubmit(handleError) ELSE UNCHANGED form
          /\ Done(c)
          /\ UNCHANGED <<server, page, dialog>>

-----------------------------------------------------------------------------
Continue(c) ==
    \/ LoadDone(c) \/ DeleteDone(c) \/ DeleteListed(c) \/ MigrateDone(c)
    \/ FormDone(c) \/ Ignore(c)

User(c) == DeleteClick(c) \/ Submit(c) \/ SubmitForm(c) \/ Reload(c)

Next ==
    \/ \E c \in Call : Serve(c) \/ Continue(c) \/ User(c)
    \/ OpenDialog \/ PickTarget \/ CloseDialog \/ DismissError
    \/ OpenForm \/ LeaveForm
    \/ Others

Spec == Init /\ [][Next]_vars

(* Every request is answered or fails in the end, and the event loop of    *)
(* the browser runs what awaits the answer.                                *)
Fairness == \A c \in Call : WF_vars(Serve(c) \/ Continue(c))

FairSpec == Spec /\ Fairness

-----------------------------------------------------------------------------
(* Properties *)

RowType ==
    [index : Nat, shard : SUBSET Node, hasSlots : BOOLEAN, hasMigration : BOOLEAN,
     target : Nat]

PageType ==
    [rows : Seq(RowType), read : Nat, seen : Nat, loading : BOOLEAN, deleting : Nat]

DialogType ==
    [open : BOOLEAN, target : Nat, shard : SUBSET Node, seen : Nat, busy : BOOLEAN,
     failed : BOOLEAN]

(* The state of page and dialog, and the requests, have the types that the *)
(* code gives them.                                                        *)
TypeOK ==
    /\ shards \in Seq(Shard)
    /\ version \in Nat /\ removals \in Nat
    /\ page \in PageType
    /\ dialog \in DialogType
    /\ form \in FormType
    /\ calls \in [Call -> CallType \cup {NoCall}]

(* Number i of the server's list is the shard with these nodes.            *)
Denotes(i, shard) == i \in DOMAIN shards /\ Id(shards[i]) = shard

(* The page names shards by their place in a list.  However late a click,  *)
(* a choice of a target or a request is, the place still denotes the shard *)
(* that the user saw there unless a shard has been removed since the list  *)
(* was read: nothing else that other clients or the controller do can make *)
(* handleDeleteShard or handleMigration hit another shard.                 *)
AlignedUntilRemoval ==
    /\ page.seen = removals =>
        \A i \in DOMAIN page.rows : Denotes(page.rows[i].index, page.rows[i].shard)
    /\ dialog.target # 0 /\ dialog.seen = removals => Denotes(dialog.target, dialog.shard)
    /\ \A c \in Call :
        /\ Sent(c, "delete") \/ Sent(c, "migrate")
        /\ calls[c].seen = removals
        => Denotes(calls[c].index, calls[c].shard)

(* While nothing has changed since the list was read, the rows are exact:  *)
(* no order in which loads, refreshes and deletes end leaves rows that are *)
(* mixed from two lists.  A migration is shown only where there is one,    *)
(* and a migration of a single slot is always shown; handleDeleteShard     *)
(* does not recognise a range.                                             *)
FreshIsExact ==
    page.read = version =>
        /\ DOMAIN page.rows = DOMAIN shards
        /\ \A i \in DOMAIN shards :
            /\ page.rows[i].shard = Id(shards[i])
            /\ page.rows[i].hasSlots <=> shards[i].slots # {}
            /\ page.rows[i].hasMigration => isActiveMigration(shards[i].migrating)
            /\ IsNonNegative(shards[i].migrating) => page.rows[i].hasMigration

MigrateCalls == {c \in Call : Outstanding(c, "migrate") /\ calls[c].for = "dialog"}

LoadCalls == {c \in Call : Outstanding(c, "list") /\ calls[c].for \in {"load", "refresh"}}

FormCalls == {c \in Call : Outstanding(c, "create") /\ calls[c].for = "form"}

(* The spinner, the disabled delete button, the busy dialog and the busy   *)
(* form each stand for a request that is really outstanding, so that none  *)
(* of them stays for ever, and all but the button for exactly one, so that *)
(* no migration is sent twice and no shard created twice.                  *)
BusyIsOutstanding ==
    /\ page.loading <=> LoadCalls # {}
    /\ \A c, d \in LoadCalls : c = d
    /\ dialog.busy <=> MigrateCalls # {}
    /\ \A c, d \in MigrateCalls : c = d
    /\ form.submitting <=> FormCalls # {}
    /\ \A c, d \in FormCalls : c = d
    /\ page.deleting # 0 =>
        \E c \in Call : calls[c] # NoCall /\ calls[c].for \in {"page", "delete"}
                                           /\ calls[c].index = page.deleting

MigrationDialog ==
    INSTANCE SubmitDialog WITH
        open <- dialog.open, busy <- dialog.busy, failed <- dialog.failed

(* The migration dialog keeps the promises of a dialog that sends a        *)
(* request, although the page it is on may be refreshed, and the rows it   *)
(* offers replaced, at any time.                                           *)
MigrationDialogPromise == MigrationDialog!Spec

Idle == ~page.loading /\ ~dialog.busy /\ ~form.submitting /\ page.deleting = 0

NothingSent == \A c \in Call : ~Reload(c) /\ (calls[c] = NoCall => calls'[c] = NoCall)

(* Whatever is refused or lost, and in whatever order the answers come,    *)
(* spinner, busy dialog and disabled button go away once the user waits.   *)
Responsive == <>[][NothingSent]_vars => <>[]Idle
=============================================================================
