-------------------------- MODULE ClusterPageProofs --------------------------
(***************************************************************************)
(* Proofs about the page of a cluster, for every number of shards, nodes,  *)
(* slots and outstanding requests, whatever is typed and whatever is lost. *)
(***************************************************************************)
EXTENDS ClusterPage, TopologyProofs

(* Few steps need arithmetic; those name SMT.                              *)
USE Zenon

-----------------------------------------------------------------------------
(* What the changes of the shard list do to the places of the shards *)

(* Every shard is still at its place, with the nodes it had.               *)
KeepsPlaces(before, after) ==
    \A i \in DOMAIN before : i \in DOMAIN after /\ Id(after[i]) = Id(before[i])

(* A change leaves a sound list, in which shards have changed their places *)
(* only if there are fewer of them.                                        *)
Follows(before, after) ==
    /\ after \in Seq(Shard)
    /\ Sound(after)
    /\ Len(after) < Len(before) \/ KeepsPlaces(before, after)

(* An assignment to fields other than the node lists keeps the places (the *)
(* in-place edits of store/cluster_shard.go).                              *)
LEMMA SameNodesKeepPlaces ==
    ASSUME NEW before \in Seq(Shard), NEW after, DOMAIN after = DOMAIN before,
           \A i \in DOMAIN before : /\ after[i].masters = before[i].masters
                                    /\ after[i].slaves = before[i].slaves
    PROVE  KeepsPlaces(before, after)
  BY DEF KeepsPlaces, Id

(* A removed shard leaves fewer shards (ShardHandler.Remove).              *)
LEMMA RemoveShardFollows ==
    ASSUME NEW list \in Seq(Shard), Sound(list), NEW i, NEW after \in RemoveShard(list, i)
    PROVE  Follows(list, after)
  <1>1. after \in Seq(Shard) /\ Sound(after)
    BY RemoveShardSound
  <1>2. /\ DOMAIN list = 1 .. Len(list) /\ Len(list) \in Nat
        /\ i \in DOMAIN list
        /\ DOMAIN after = 1 .. Len(list) - 1
    BY LenProperties DEF RemoveShard
  <1>3. DOMAIN after = 1 .. Len(after) /\ Len(after) \in Nat
    BY <1>1, LenProperties
  <1>4. Len(after) < Len(list)
    <2>1. Len(list) - 1 \in Nat
      BY <1>2, SMTT(30)
    <2> QED
      BY <1>2, <1>3, <2>1, SMTT(30)
  <1> QED
    BY <1>1, <1>4 DEF Follows

(* A new shard comes last (ShardHandler.Create).                           *)
LEMMA CreateShardFollows ==
    ASSUME NEW list \in Seq(Shard), Sound(list), NEW group \in Group,
           NEW after \in CreateShard(list, group)
    PROVE  Follows(list, after)
  <1>1. after \in Seq(Shard) /\ Sound(after)
    BY CreateShardSound
  <1>2. after = Append(list, NewShard(group)) /\ NewShard(group) \in Shard
    BY NewShardInOrder DEF CreateShard
  <1>3. \A i \in DOMAIN list : i \in DOMAIN after /\ after[i] = list[i]
    BY <1>2, LenProperties, AppendProperties, SMTT(30)
  <1> QED
    BY <1>1, <1>3 DEF Follows, KeepsPlaces

(* Neither kind of MigrateSlot moves a shard.                              *)
LEMMA MigrationFollows ==
    ASSUME NEW list \in Seq(Shard), Sound(list), NEW slot \in SlotRange, NEW target,
           NEW after \in MigrateSlotOnly(list, slot, target) \cup MigrateSlotData(list, slot, target)
    PROVE  Follows(list, after)
  <1>1. CASE after \in MigrateSlotOnly(list, slot, target)
    <2>1. after \in Seq(Shard) /\ Sound(after)
      BY <1>1, MigrateSlotOnlySound
    <2>2. PICK source \in MigrationSources(list, slot, target) :
                after = MoveSlots(ClearMigrateState(list, source), source, target, slot)
      BY <1>1 DEF MigrateSlotOnly
    <2>3. source \in DOMAIN list /\ target \in DOMAIN list
      BY DEF MigrationSources, SourceShards, SlotsOfShards
    <2> DEFINE cleared == ClearMigrateState(list, source)
    <2>4. /\ cleared \in Seq(Shard) /\ DOMAIN cleared = DOMAIN list
          /\ \A i \in DOMAIN list : /\ cleared[i].masters = list[i].masters
                                    /\ cleared[i].slaves = list[i].slaves
      BY <2>3, ClearResult, ZenonT(60)
    <2>5. IsMove(cleared, source, target, slot, after)
      BY <2>2, <2>3, <2>4, MoveSlotsResult
    <2>6. /\ DOMAIN after = DOMAIN list
          /\ \A i \in DOMAIN list : /\ after[i].masters = list[i].masters
                                    /\ after[i].slaves = list[i].slaves
      BY <2>4, <2>5 DEF IsMove
    <2> QED
      BY <2>1, <2>6, SameNodesKeepPlaces DEF Follows
  <1>2. CASE after \in MigrateSlotData(list, slot, target)
    <2>1. PICK source \in DataMigrationSources(list, slot, target) :
                after = [list EXCEPT ![source].migrating = slot, ![source].target = target]
      BY <1>2 DEF MigrateSlotData
    <2>2. source \in DOMAIN list /\ target \in DOMAIN list
      BY DEF DataMigrationSources, MigrationSources, SourceShards, SlotsOfShards
    <2>3. target \in Nat
      BY <2>2, LenProperties, SMTT(30)
    <2>4. after \in Seq(Shard) /\ Sound(after)
      BY <1>2, <2>3, MigrateSlotDataSound
    <2>5. \A i \in DOMAIN list : list[i] \in Shard
      BY LenProperties
    <2>6. /\ DOMAIN after = DOMAIN list
          /\ \A i \in DOMAIN list : /\ after[i].masters = list[i].masters
                                    /\ after[i].slaves = list[i].slaves
      BY <2>1, <2>2, <2>5 DEF Shard
    <2> QED
      BY <2>4, <2>6, SameNodesKeepPlaces DEF Follows
  <1> QED
    BY <1>1, <1>2

(* Clearing the migration of a shard changes no node list.                 *)
LEMMA ClearKeepsNodes ==
    ASSUME NEW list \in Seq(Shard), NEW i \in DOMAIN list,
           NEW after, after = ClearMigrateState(list, i)
    PROVE  /\ DOMAIN after = DOMAIN list
           /\ \A j \in DOMAIN list : /\ after[j].masters = list[j].masters
                                     /\ after[j].slaves = list[j].slaves
  <1>1. /\ DOMAIN after = DOMAIN list
        /\ after[i].masters = list[i].masters /\ after[i].slaves = list[i].slaves
        /\ \A j \in DOMAIN list : j # i => after[j] = list[j]
    BY ClearResult, ZenonT(60)
  <1> QED
    BY <1>1

(* The end of a migration moves no shard (tryUpdateMigrationStatus).       *)
LEMMA SettledFollows ==
    ASSUME NEW list \in Seq(Shard), Sound(list), NEW i \in DOMAIN list,
           IsMigrating(list[i]), list[i].target \in DOMAIN list,
           NEW after \in {MigrationSucceeded(list, i), MigrationFailed(list, i)}
    PROVE  Follows(list, after)
  <1>1. after \in Seq(Shard) /\ Sound(after)
    BY SettledSound
  <1>2. /\ DOMAIN after = DOMAIN list
        /\ \A j \in DOMAIN list : /\ after[j].masters = list[j].masters
                                  /\ after[j].slaves = list[j].slaves
    <2>1. CASE after = MigrationFailed(list, i)
      BY <2>1, ClearKeepsNodes, ZenonT(60) DEF MigrationFailed
    <2>2. CASE after = MigrationSucceeded(list, i)
      <3> DEFINE moved == MoveSlots(list, i, list[i].target, list[i].migrating)
      <3>1. list[i].migrating \in SlotRange
        <4>1. list[i] \in Shard
          BY LenProperties
        <4> QED
          BY <4>1 DEF IsMigrating, Shard
      <3>2. IsMove(list, i, list[i].target, list[i].migrating, moved)
        BY <3>1, MoveSlotsResult
      <3>3. /\ moved \in Seq(Shard) /\ DOMAIN moved = DOMAIN list
            /\ \A j \in DOMAIN list : /\ moved[j].masters = list[j].masters
                                      /\ moved[j].slaves = list[j].slaves
        BY <3>2 DEF IsMove
      <3>4. after = ClearMigrateState(moved, i)
        BY <2>2 DEF MigrationSucceeded
      <3> HIDE DEF moved
      <3> QED
        <4>1. /\ DOMAIN after = DOMAIN moved
              /\ \A j \in DOMAIN moved : /\ after[j].masters = moved[j].masters
                                         /\ after[j].slaves = moved[j].slaves
          BY <3>3, <3>4, ClearKeepsNodes, SMTT(30)
        <4> QED
          BY <3>3, <4>1
    <2> QED
      BY <2>1, <2>2
  <1> QED
    BY <1>1, <1>2, SameNodesKeepPlaces, ZenonT(60) DEF Follows

(* A failover swaps roles within a shard (PromoteNewMaster).               *)
LEMMA FailoverFollows ==
    ASSUME NEW list \in Seq(Shard), Sound(list), NEW i, NEW master,
           NEW after \in PromoteNewMaster(list, i, master)
    PROVE  Follows(list, after)
  <1>1. PICK p \in Node \X Node :
            /\ i \in DOMAIN list
            /\ p[1] \in list[i].masters /\ p[2] \in list[i].slaves
            /\ after = [list EXCEPT ![i].masters = (@ \ {p[1]}) \cup {p[2]},
                                    ![i].slaves  = (@ \ {p[2]}) \cup {p[1]}]
    BY DEF PromoteNewMaster
  <1>2. p[1] \in Node
    OBVIOUS
  <1>3. after \in Seq(Shard) /\ Sound(after)
    BY <1>2, NodeEditsSound
  <1>4. \A j \in DOMAIN list : list[j] \in Shard
    BY LenProperties
  <1>5. /\ DOMAIN after = DOMAIN list
        /\ \A j \in DOMAIN list : j # i => after[j] = list[j]
        /\ after[i].masters = (list[i].masters \ {p[1]}) \cup {p[2]}
        /\ after[i].slaves = (list[i].slaves \ {p[2]}) \cup {p[1]}
    BY <1>1, <1>4 DEF Shard
  <1>6. Id(after[i]) = Id(list[i])
    BY <1>1, <1>5 DEF Id
  <1> QED
    BY <1>3, <1>5, <1>6 DEF Follows, KeepsPlaces

-----------------------------------------------------------------------------
(* The server *)

(* What a step does to the server.                                         *)
ServerStep == UNCHANGED server \/ \E after : Store(after) /\ Follows(shards, after)

(* A request that edits the list leaves a list that follows, and is        *)
(* answered (the handlers of server/api).                                  *)
LEMMA EditStep ==
    ASSUME NEW c, NEW edits, NEW status, Edit(c, edits, status),
           \A after \in edits : Follows(shards, after)
    PROVE  /\ ServerStep
           /\ \E s \in {status, "error"} : calls' = Reply(c, s)
  BY DEF Edit, ServerStep

(* The edits that the requests and the other clients make.                 *)
LEMMA EditsFollow ==
    ASSUME shards \in Seq(Shard), Sound(shards)
    PROVE  /\ \A i : \A after \in RemoveShard(shards, i) : Follows(shards, after)
           /\ \A after \in Creations : Follows(shards, after)
           /\ \A slot, target, slotOnly : \A after \in Migrations(slot, target, slotOnly) :
                Follows(shards, after)
           /\ \A after \in OtherEdits : Follows(shards, after)
  <1>1. \A i : \A after \in RemoveShard(shards, i) : Follows(shards, after)
    BY RemoveShardFollows
  <1>2. \A after \in Creations : Follows(shards, after)
    BY CreateShardFollows, PageAssumption DEF Creations
  <1>3. ASSUME NEW slot, NEW target, NEW slotOnly,
               NEW after \in Migrations(slot, target, slotOnly)
        PROVE  Follows(shards, after)
    <2>1. /\ slot \in SlotRange
          /\ after \in MigrateSlotOnly(shards, slot, target) \cup MigrateSlotData(shards, slot, target)
      BY <1>3 DEF Migrations
    <2> QED
      BY <2>1, MigrationFollows
  <1>4. ASSUME NEW after \in OtherEdits
        PROVE  Follows(shards, after)
    <2>1. CASE after \in Creations
      BY <1>2, <2>1
    <2>2. CASE \E i \in DOMAIN shards : after \in RemoveShard(shards, i)
      BY <1>1, <2>2
    <2>3. CASE \E i \in DOMAIN shards : after \in PromoteNewMaster(shards, i, AnyMaster)
      BY <2>3, FailoverFollows
    <2>4. CASE \E i \in DOMAIN shards :
                /\ IsMigrating(shards[i]) /\ shards[i].target \in DOMAIN shards
                /\ after \in {MigrationSucceeded(shards, i), MigrationFailed(shards, i)}
      BY <2>4, SettledFollows
    <2> QED
      BY <1>4, <2>1, <2>2, <2>3, <2>4 DEF OtherEdits
  <1> QED
    BY <1>1, <1>2, <1>3, <1>4

(* The request is answered, other than with a list.                        *)
Answering(c) ==
    /\ calls[c] # NoCall /\ calls[c].status = "sent"
    /\ \E s \in {"data", "empty", "error"} :
        (s = "data" => calls[c].op # "list") /\ calls' = Reply(c, s)
    /\ UNCHANGED <<page, dialog, form>>

(* What the server does with a request (the handlers of server/api).       *)
LEMMA ServeStep ==
    ASSUME shards \in Seq(Shard), Sound(shards), NEW c \in Call, Serve(c)
    PROVE  ServerStep /\ (ServeList(c) \/ Answering(c))
  <1>1. CASE ServeList(c)
    BY <1>1 DEF ServeList, ServerStep
  <1>2. CASE ServeDelete(c)
    <2>1. Sent(c, "delete") /\ UNCHANGED <<page, dialog, form>>
      BY <1>2 DEF ServeDelete
    <2>2. ServerStep /\ \E s \in {"empty", "error"} : calls' = Reply(c, s)
      BY <1>2, EditStep, EditsFollow DEF ServeDelete
    <2> QED
      BY <2>1, <2>2 DEF Answering, Sent, Outstanding
  <1>3. CASE ServeCreate(c)
    <2>1. Sent(c, "create") /\ UNCHANGED <<page, dialog, form>>
      BY <1>3 DEF ServeCreate
    <2>2. ServerStep /\ \E s \in {"data", "error"} : calls' = Reply(c, s)
      BY <1>3, EditStep, EditsFollow DEF ServeCreate
    <2> QED
      BY <2>1, <2>2 DEF Answering, Sent, Outstanding
  <1>4. CASE ServeMigrate(c)
    <2>1. Sent(c, "migrate") /\ UNCHANGED <<page, dialog, form>>
      BY <1>4 DEF ServeMigrate
    <2>2. ServerStep /\ \E s \in {"data", "error"} : calls' = Reply(c, s)
      BY <1>4, EditStep, EditsFollow DEF ServeMigrate
    <2> QED
      BY <2>1, <2>2 DEF Answering, Sent, Outstanding
  <1>5. CASE LoseRequest(c)
    BY <1>5 DEF LoseRequest, Answering, ServerStep
  <1> QED
    BY <1>1, <1>2, <1>3, <1>4, <1>5 DEF Serve

(* Nothing but the requests and the other clients changes the server.      *)
LEMMA NextServerStep ==
    ASSUME shards \in Seq(Shard), Sound(shards), [Next]_vars
    PROVE  ServerStep
  <1>1. ASSUME NEW c \in Call, Serve(c) PROVE ServerStep
    BY <1>1, ServeStep
  <1>2. ASSUME NEW c \in Call, Continue(c) PROVE UNCHANGED server
    BY <1>2 DEF Continue, LoadDone, DeleteDone, DeleteListed, MigrateDone, FormDone, Ignore, Reload
  <1>3. ASSUME NEW c \in Call, User(c) PROVE UNCHANGED server
    BY <1>3 DEF User, DeleteClick, Submit, SubmitForm, Reload
  <1>4. ASSUME Others PROVE ServerStep
    BY <1>4, EditsFollow DEF Others, ServerStep
  <1>5. OpenDialog \/ PickTarget \/ CloseDialog \/ DismissError \/ OpenForm \/ LeaveForm
            => UNCHANGED server
    BY DEF OpenDialog, PickTarget, CloseDialog, DismissError, OpenForm, LeaveForm
  <1>6. UNCHANGED vars => UNCHANGED server
    BY DEF vars
  <1> QED
    BY <1>1, <1>2, <1>3, <1>4, <1>5, <1>6 DEF Next, ServerStep

-----------------------------------------------------------------------------
(* Types *)

(* A request has the fields of a request.                                  *)
LEMMA RequestType ==
    ASSUME NEW op \in {"list", "delete", "migrate", "create"},
           NEW for \in {"load", "refresh", "delete", "page", "dialog", "form", "stray", "gone"},
           NEW index \in Nat, NEW shard \in SUBSET Node, NEW seen \in Nat
    PROVE  Request(op, for, index, shard, seen) \in CallType
  <1>1. << >> \in Seq(Shard)
    BY SMTT(30)
  <1> QED
    BY <1>1 DEF Request, CallType, Status

(* The rows that fetchData and handleDeleteShard compute are rows.         *)
LEMMA RowsType ==
    ASSUME NEW list \in Seq(Shard)
    PROVE  LoadedRows(list) \in Seq(RowType) /\ DeletedRows(list) \in Seq(RowType)
  <1>1. /\ DOMAIN list = 1 .. Len(list) /\ Len(list) \in Nat
        /\ \A i \in DOMAIN list : list[i] \in Shard
    BY LenProperties
  <1>2. ASSUME NEW i \in DOMAIN list, NEW b \in BOOLEAN
        PROVE  Row(i, list[i], b) \in RowType
    <2>1. i \in Nat /\ list[i] \in Shard
      BY <1>1, SMTT(30)
    <2>2. Id(list[i]) \in SUBSET Node /\ TargetShardIndex(list[i]) \in Nat
      BY <2>1 DEF Id, TargetShardIndex, Shard, NoTarget
    <2> QED
      BY <2>1, <2>2 DEF Row, RowType
  <1>3. \A i \in 1 .. Len(list) : /\ LoadedRows(list)[i] \in RowType
                                  /\ DeletedRows(list)[i] \in RowType
    BY <1>1, <1>2 DEF LoadedRows, DeletedRows, isActiveMigration, IsNonNegative
  <1>4. /\ LoadedRows(list) = [i \in 1 .. Len(list) |-> LoadedRows(list)[i]]
        /\ DeletedRows(list) = [i \in 1 .. Len(list) |-> DeletedRows(list)[i]]
    BY <1>1 DEF LoadedRows, DeletedRows
  <1> QED
    BY <1>1, <1>3, <1>4, SeqDef, SMTT(30)

(* What is left after the page is loaded anew are requests.                *)
LEMMA OrphanedType ==
    ASSUME TypeOK
    PROVE  Orphaned \in [Call -> CallType \cup {NoCall}]
  <1>1. ASSUME NEW d \in Call, Sent(d, "delete") \/ Sent(d, "migrate") \/ Sent(d, "create")
        PROVE  [calls[d] EXCEPT !.for = "gone"] \in CallType
    <2>1. calls[d] \in CallType
      BY <1>1 DEF Sent, Outstanding, TypeOK
    <2> QED
      BY <2>1 DEF CallType
  <1> QED
    BY <1>1 DEF Orphaned

(* What is left of the requests of a form that is unmounted are requests.  *)
LEMMA UnmountedType ==
    ASSUME TypeOK
    PROVE  Unmounted \in [Call -> CallType \cup {NoCall}]
  <1>1. ASSUME NEW d \in Call, Outstanding(d, "create")
        PROVE  [calls[d] EXCEPT !.for = "stray"] \in CallType
    <2>1. calls[d] \in CallType
      BY <1>1 DEF Outstanding, TypeOK
    <2> QED
      BY <2>1 DEF CallType
  <1> QED
    BY <1>1 DEF Unmounted, TypeOK

(* The input that handleMigration sends is a range or refused.             *)
LEMMA ParsedType ==
    ASSUME NEW input, validateSlotInput(input)
    PROVE  ParseSlotRange(input) \in SlotRange \cup {NotMigrating}
  BY MaxSlotIDAssumption, SMTT(30) DEF validateSlotInput, ParseSlotRange, SlotRange, Slot

(* The types of what is in the browser.                                    *)
BrowserOK ==
    /\ page \in PageType
    /\ dialog \in DialogType
    /\ form \in FormType
    /\ calls \in [Call -> CallType \cup {NoCall}]

(* A list that is sound stays so, and the history counts.                  *)
LEMMA ServerStepType ==
    ASSUME TypeOK, Sound(shards), ServerStep
    PROVE  /\ shards' \in Seq(Shard) /\ Sound(shards')
           /\ version' \in Nat /\ version <= version'
           /\ removals' \in Nat /\ removals <= removals'
  <1>1. CASE UNCHANGED server
    BY <1>1, SMTT(30) DEF server, TypeOK
  <1>2. CASE \E after : Store(after) /\ Follows(shards, after)
    BY <1>2, SMTT(30) DEF Store, Follows, TypeOK
  <1> QED
    BY <1>1, <1>2 DEF ServerStep

(* Every answer leaves a request.                                          *)
LEMMA AnswerType ==
    ASSUME TypeOK, NEW c \in Call, ServeList(c) \/ Answering(c)
    PROVE  BrowserOK'
  <1>1. /\ page' \in PageType /\ dialog' \in DialogType /\ form' \in FormType
    BY DEF ServeList, Answering, TypeOK
  <1>2. calls[c] \in CallType
    BY DEF ServeList, Answering, Sent, Outstanding, TypeOK
  <1>3. CASE ServeList(c)
    <2>1. [calls[c] EXCEPT !.status = "data", !.list = shards, !.read = version, !.seen = removals]
            \in CallType
      BY <1>2 DEF CallType, Status, TypeOK
    <2> QED
      BY <1>1, <1>3, <2>1 DEF ServeList, TypeOK, BrowserOK
  <1>4. CASE Answering(c)
    <2>1. PICK s \in Status : calls' = Reply(c, s)
      BY <1>4 DEF Answering, Status
    <2>2. Request(calls[c].op, calls[c].for, calls[c].index, NoShard, 0) \in CallType
      <3>1. /\ calls[c].op \in {"list", "delete", "migrate", "create"}
            /\ calls[c].for \in {"load", "refresh", "delete", "page", "dialog", "form", "stray",
                                 "gone"}
            /\ calls[c].index \in Nat
        BY <1>2 DEF CallType
      <3> QED
        BY <3>1, RequestType DEF NoShard
    <2>3. [Request(calls[c].op, calls[c].for, calls[c].index, NoShard, 0) EXCEPT !.status = s]
            \in CallType
      BY <2>2 DEF CallType
    <2> QED
      BY <1>1, <2>1, <2>3 DEF Reply, TypeOK, BrowserOK
  <1> QED
    BY <1>3, <1>4

(* Loading the page anew leaves the initial state of the page.             *)
LEMMA ReloadType ==
    ASSUME TypeOK, NEW c \in Call, Reload(c)
    PROVE  BrowserOK'
  <1>1. ListShards("load") \in CallType
    BY RequestType DEF ListShards, NoShard
  <1>2. Loading \in PageType /\ Closed \in DialogType /\ NoForm \in FormType
    BY SMTT(30) DEF Loading, Closed, NoForm, NoShard, PageType, DialogType, FormType
  <1> QED
    BY <1>1, <1>2, OrphanedType DEF Reload, BrowserOK

(* What the handlers do when their answers come keeps the types.           *)
LEMMA ContinueType ==
    ASSUME TypeOK, NEW c \in Call, Continue(c)
    PROVE  BrowserOK'
  <1> USE DEF TypeOK, BrowserOK
  <1>1. ASSUME NEW rows \in Seq(RowType), calls[c] \in CallType
        PROVE  Shown(c, rows) \in PageType
    BY <1>1 DEF Shown, PageType, CallType
  <1>2. ASSUME calls[c] \in CallType
        PROVE  FetchedList(calls[c].status, calls[c].list) \in Seq(Shard)
    BY <1>2, SMTT(30) DEF FetchedList, CallType
  <1>3. Done(c) => calls' \in [Call -> CallType \cup {NoCall}]
    BY DEF Done
  <1>4. CASE LoadDone(c)
    <2>1. calls[c] \in CallType
      BY <1>4 DEF LoadDone, Answered, Outstanding
    <2>2. Shown(c, LoadedRows(FetchedList(calls[c].status, calls[c].list))) \in PageType
      BY <1>1, <1>2, <2>1, RowsType
    <2>3. page' \in PageType
      BY <1>4, <2>2 DEF LoadDone, PageType
    <2> QED
      BY <1>3, <1>4, <2>3 DEF LoadDone
  <1>5. CASE DeleteDone(c)
    <2>1. calls[c] \in CallType
      BY <1>5 DEF DeleteDone, AnsweredTo, Answered, Outstanding
    <2>2. Request("list", "delete", calls[c].index, NoShard, 0) \in CallType
      <3>1. calls[c].index \in Nat
        BY <2>1 DEF CallType
      <3> QED
        BY <3>1, RequestType DEF NoShard
    <2>3. page' = page \/ page' = [page EXCEPT !.deleting = 0]
      BY <1>5 DEF DeleteDone
    <2>4. page' \in PageType
      BY <2>3, SMTT(60) DEF PageType
    <2> QED
      BY <1>3, <1>5, <2>2, <2>4 DEF DeleteDone
  <1>6. CASE DeleteListed(c)
    <2>1. calls[c] \in CallType
      BY <1>6 DEF DeleteListed, AnsweredTo, Answered, Outstanding
    <2>2. Shown(c, DeletedRows(FetchedList(calls[c].status, calls[c].list))) \in PageType
      BY <1>1, <1>2, <2>1, RowsType
    <2>3. page' \in PageType
      BY <1>6, <2>2 DEF DeleteListed, PageType
    <2> QED
      BY <1>3, <1>6, <2>3 DEF DeleteListed
  <1>7. CASE MigrateDone(c)
    <2>1. ListShards("refresh") \in CallType
      BY RequestType DEF ListShards, NoShard
    <2>2. Closed \in DialogType /\ NoForm \in FormType
      BY DEF Closed, NoForm, NoShard, DialogType, FormType
    <2>3. page' \in PageType /\ dialog' \in DialogType /\ form' \in FormType
      BY <1>7, <2>2 DEF MigrateDone, PageType, DialogType
    <2> QED
      BY <1>3, <1>7, <2>1, <2>3, UnmountedType DEF MigrateDone
  <1>8. CASE FormDone(c)
    <2>1. CASE \E d \in Call : Reload(d)
      BY <2>1, ReloadType
    <2>2. CASE /\ EndSubmit(handleError) \/ UNCHANGED form
               /\ Done(c) /\ UNCHANGED <<server, page, dialog>>
      <3>1. (form.open /\ handleError # "") \in BOOLEAN
        OBVIOUS
      <3>2. form' = form \/ \E b \in BOOLEAN : form' = [open |-> b, submitting |-> FALSE]
        BY <2>2, <3>1 DEF EndSubmit
      <3>3. \A b \in BOOLEAN : [open |-> b, submitting |-> FALSE] \in FormType
        BY DEF FormType
      <3>4. form' \in FormType
        BY <3>2, <3>3
      <3> QED
        BY <1>3, <2>2, <3>4
    <2> QED
      BY <1>8, <2>1, <2>2 DEF FormDone
  <1>9. CASE Ignore(c)
    BY <1>3, <1>9 DEF Ignore
  <1> QED
    BY <1>4, <1>5, <1>6, <1>7, <1>8, <1>9 DEF Continue

(* Whatever is filtered and sorted, a row on the screen is a row of the    *)
(* list (filteredAndSortedShards).                                         *)
LEMMA ShownRowsOfPage ==
    ASSUME NEW shown \in ShownRows
    PROVE  \E i \in DOMAIN page.rows : shown.row = page.rows[i]
  <1>1. PICK o : shown \in filteredAndSortedShards(o[1], o[2])
    BY DEF ShownRows
  <1> DEFINE rows == {row \in {page.rows[i] : i \in DOMAIN page.rows} : Passes(row, o[1])}
  <1>2. PICK row \in rows :
            shown = [place |-> Cardinality({q \in rows : Before(q, row, o[2])}) + 1,
                     row |-> row]
    BY <1>1 DEF filteredAndSortedShards
  <1>3. shown.row = row
    BY <1>2
  <1> QED
    BY <1>2, <1>3

(* What the user does in the browser keeps the types.                      *)
LEMMA UserType ==
    ASSUME TypeOK, NEW c \in Call, User(c)
    PROVE  BrowserOK'
  <1> USE DEF TypeOK, BrowserOK
  <1>1. CASE DeleteClick(c)
    <2>1. PICK shown \in ShownRows :
            /\ page' = [page EXCEPT !.deleting = shown.row.index]
            /\ calls' = [calls EXCEPT
                    ![c] = Request("delete", "page", shown.row.index, shown.row.shard, page.seen)]
      BY <1>1 DEF DeleteClick
    <2>2. PICK i \in DOMAIN page.rows : shown.row = page.rows[i]
      BY ShownRowsOfPage
    <2>3. shown.row \in RowType /\ page.seen \in Nat
      BY <2>2, LenProperties, SMTT(30) DEF PageType
    <2>4. shown.row.index \in Nat /\ shown.row.shard \in SUBSET Node
      BY <2>3 DEF RowType
    <2>5. Request("delete", "page", shown.row.index, shown.row.shard, page.seen) \in CallType
      BY <2>3, <2>4, RequestType
    <2> QED
      BY <1>1, <2>1, <2>4, <2>5 DEF DeleteClick, PageType
  <1>2. CASE Submit(c)
    <2>1. dialog' \in DialogType
      BY <1>2 DEF Submit, DialogType
    <2>2. ASSUME NEW input, NEW slotOnly \in BOOLEAN, validateSlotInput(input)
          PROVE  MigrationRequest(input, slotOnly) \in CallType
      <3>1. Request("migrate", "dialog", dialog.target, dialog.shard, dialog.seen) \in CallType
        BY RequestType DEF DialogType
      <3> QED
        BY <2>2, <3>1, ParsedType DEF MigrationRequest, CallType
    <2> QED
      BY <1>2, <2>1, <2>2, SMTT(30) DEF Submit
  <1>3. CASE SubmitForm(c)
    <2>1. Request("create", "form", 0, NoShard, 0) \in CallType
      BY RequestType DEF NoShard
    <2> QED
      BY <1>3, <2>1 DEF SubmitForm, handleSubmit, FormType
  <1>4. CASE Reload(c)
    BY <1>4, ReloadType
  <1> QED
    BY <1>1, <1>2, <1>3, <1>4 DEF User

(* Every step keeps the types, and the list of the server sound.           *)
LEMMA TypeStep ==
    ASSUME TypeOK, Sound(shards), [Next]_vars
    PROVE  TypeOK' /\ Sound(shards)'
  <1>1. shards \in Seq(Shard)
    BY DEF TypeOK
  <1>2. ServerStep
    BY <1>1, NextServerStep
  <1>3. BrowserOK'
    <2>1. ASSUME NEW c \in Call, Serve(c) PROVE BrowserOK'
      BY <1>1, <2>1, ServeStep, AnswerType
    <2>2. ASSUME NEW c \in Call, Continue(c) PROVE BrowserOK'
      BY <2>2, ContinueType
    <2>3. ASSUME NEW c \in Call, User(c) PROVE BrowserOK'
      BY <2>3, UserType
    <2>4. CASE OpenDialog \/ CloseDialog \/ DismissError
      <3>1. Closed \in DialogType
        BY DEF Closed, NoShard, DialogType
      <3>2. \/ dialog' = [dialog EXCEPT !.open = TRUE] \/ dialog' = Closed
            \/ dialog' = [dialog EXCEPT !.failed = FALSE]
        BY <2>4 DEF OpenDialog, CloseDialog, DismissError
      <3>3. dialog' \in DialogType
        BY <3>1, <3>2 DEF TypeOK, DialogType
      <3> QED
        BY <2>4, <3>3 DEF OpenDialog, CloseDialog, DismissError, TypeOK, BrowserOK
    <2>5. CASE PickTarget
      <3>1. PICK i \in DOMAIN page.rows :
                dialog' = [dialog EXCEPT !.target = i, !.shard = page.rows[i].shard,
                                         !.seen = page.seen]
        BY <2>5 DEF PickTarget, Targets
      <3>2. page.rows \in Seq(RowType) /\ page.seen \in Nat
        BY DEF TypeOK, PageType
      <3>3. i \in Nat /\ page.rows[i] \in RowType
        BY <3>2, LenProperties, SMTT(30)
      <3>4. page.rows[i].shard \in SUBSET Node
        BY <3>3 DEF RowType
      <3>5. dialog' \in DialogType
        BY <3>1, <3>2, <3>3, <3>4 DEF TypeOK, DialogType
      <3> QED
        BY <2>5, <3>5 DEF PickTarget, TypeOK, BrowserOK
    <2>6. CASE OpenForm \/ LeaveForm
      BY <2>6 DEF OpenForm, LeaveForm, openDialog, closeDialog, TypeOK, BrowserOK, FormType
    <2>7. CASE Others \/ UNCHANGED vars
      BY <2>7 DEF Others, vars, TypeOK, BrowserOK
    <2> QED
      BY <2>1, <2>2, <2>3, <2>4, <2>5, <2>6, <2>7 DEF Next
  <1> QED
    BY <1>2, <1>3, ServerStepType DEF TypeOK, BrowserOK

(* The page, the dialogs and the requests always have the types of the     *)
(* code, and no client of the page makes the stored list unsound.          *)
THEOREM TypeCorrect == Spec => [](TypeOK /\ Sound(shards))
  <1>1. Init => TypeOK /\ Sound(shards)
    <2>1. SUFFICES ASSUME Init PROVE TypeOK /\ Sound(shards)
      OBVIOUS
    <2>2. ListShards("load") \in CallType
      BY RequestType DEF ListShards, NoShard
    <2>3. Loading \in PageType /\ Closed \in DialogType /\ NoForm \in FormType
      BY SMTT(30) DEF Loading, Closed, NoForm, NoShard, PageType, DialogType, FormType
    <2>4. calls \in [Call -> CallType \cup {NoCall}]
      BY <2>1, <2>2 DEF Init, Only
    <2> QED
      BY <2>1, <2>3, <2>4, PageAssumption DEF Init, TypeOK
  <1>2. TypeOK /\ Sound(shards) /\ [Next]_vars => (TypeOK /\ Sound(shards))'
    BY TypeStep
  <1> QED
    BY <1>1, <1>2, PTL DEF Spec

-----------------------------------------------------------------------------
(* Places of shards *)

(* What was seen at a time is still true unless a shard was removed since. *)
At(list, count, seen, i, shard) ==
    seen <= count /\ (seen = count => i \in DOMAIN list /\ Id(list[i]) = shard)

StillAt(seen, i, shard) == At(shards, removals, seen, i, shard)

(* The rows, the choice of the dialog, the requests that name a shard and  *)
(* the lists that have been read.                                          *)
PageAligned ==
    /\ page.seen <= removals
    /\ \A i \in DOMAIN page.rows :
        page.rows[i].index = i /\ StillAt(page.seen, i, page.rows[i].shard)

DialogAligned ==
    /\ dialog.seen <= removals
    /\ dialog.target # 0 => StillAt(dialog.seen, dialog.target, dialog.shard)

CallAligned(c) ==
    calls[c] # NoCall =>
        /\ calls[c].seen <= removals
        /\ Sent(c, "delete") \/ Sent(c, "migrate") =>
                StillAt(calls[c].seen, calls[c].index, calls[c].shard)
        /\ \A i \in DOMAIN calls[c].list :
                StillAt(calls[c].seen, i, Id(calls[c].list[i]))

Aligned == PageAligned /\ DialogAligned /\ \A c \in Call : CallAligned(c)

(* A step of the server invalidates a place only by a removal, which is    *)
(* counted.                                                                *)
LEMMA PlacesStay ==
    ASSUME TypeOK, Sound(shards), ServerStep
    PROVE  /\ \A seen \in Nat : seen <= removals => seen <= removals'
           /\ \A seen \in Nat : \A i, shard :
                At(shards, removals, seen, i, shard) => At(shards', removals', seen, i, shard)
  <1>1. removals \in Nat /\ removals' \in Nat /\ removals <= removals'
    BY ServerStepType DEF TypeOK
  <1>2. ASSUME NEW seen \in Nat, NEW i, NEW shard,
               At(shards, removals, seen, i, shard), seen = removals'
        PROVE  i \in DOMAIN shards' /\ Id(shards'[i]) = shard
    <2>1. /\ seen = removals /\ removals' = removals
          /\ i \in DOMAIN shards /\ Id(shards[i]) = shard
      BY <1>1, <1>2, SMTT(30) DEF At
    <2>2. CASE UNCHANGED server
      BY <2>1, <2>2 DEF server
    <2>3. CASE \E after : Store(after) /\ Follows(shards, after)
      <3>1. KeepsPlaces(shards, shards')
        BY <1>1, <2>1, <2>3, SMTT(30) DEF Store, Follows
      <3> QED
        BY <2>1, <3>1 DEF KeepsPlaces
    <2> QED
      BY <2>2, <2>3 DEF ServerStep
  <1> QED
    BY <1>1, <1>2, SMTT(30) DEF At

(* What is in the browser stays aligned when only the server changes.      *)
LEMMA ServerKeepsPage ==
    ASSUME TypeOK, Sound(shards), Aligned, ServerStep, UNCHANGED <<page, dialog>>
    PROVE  PageAligned' /\ DialogAligned'
  <1>1. page.seen \in Nat /\ dialog.seen \in Nat
    BY DEF TypeOK, PageType, DialogType
  <1>2. PageAligned'
    BY <1>1, PlacesStay DEF Aligned, PageAligned, StillAt
  <1>3. DialogAligned'
    BY <1>1, PlacesStay DEF Aligned, DialogAligned, StillAt
  <1> QED
    BY <1>2, <1>3

(* So does every request that is not answered by the step.                 *)
LEMMA ServerKeepsCall ==
    ASSUME TypeOK, Sound(shards), Aligned, ServerStep, NEW c \in Call,
           calls'[c] = calls[c]
    PROVE  CallAligned(c)'
  <1>1. CASE calls[c] = NoCall
    BY <1>1 DEF CallAligned
  <1>2. CASE calls[c] # NoCall
    <2>1. calls[c].seen \in Nat
      BY <1>2 DEF TypeOK, CallType
    <2>2. CallAligned(c)
      BY DEF Aligned
    <2> QED
      BY <1>2, <2>1, <2>2, PlacesStay DEF CallAligned, StillAt, Sent, Outstanding
  <1> QED
    BY <1>1, <1>2

(* A request without a list is aligned if what it names is.                *)
LEMMA NewCallAligned ==
    ASSUME NEW c \in Call, calls'[c].list = << >>, calls'[c].seen <= removals',
           \/ calls'[c].op \notin {"delete", "migrate"}
           \/ calls'[c].status # "sent"
           \/ At(shards', removals', calls'[c].seen, calls'[c].index, calls'[c].shard)
    PROVE  CallAligned(c)'
  BY SMTT(30) DEF CallAligned, StillAt, Sent, Outstanding

(* Answers leave the browser aligned: a list that is read now is current.  *)
LEMMA AnswerAligned ==
    ASSUME TypeOK, Sound(shards), Aligned, NEW c \in Call, Serve(c)
    PROVE  Aligned'
  <1>1. shards \in Seq(Shard) /\ removals \in Nat /\ calls \in [Call -> CallType \cup {NoCall}]
    BY DEF TypeOK
  <1>2. ServerStep /\ (ServeList(c) \/ Answering(c))
    BY <1>1, ServeStep
  <1>3. removals' \in Nat
    BY <1>2, ServerStepType
  <1>4. PageAligned' /\ DialogAligned'
    BY <1>2, ServerKeepsPage DEF ServeList, Answering
  <1>5. \A d \in Call \ {c} : calls'[d] = calls[d]
    BY <1>1, <1>2 DEF ServeList, Answering, Reply
  <1>6. \A d \in Call \ {c} : CallAligned(d)'
    BY <1>2, <1>5, ServerKeepsCall
  <1>7. CallAligned(c)'
    <2>1. calls[c] \in CallType
      BY <1>1, <1>2 DEF ServeList, Sent, Outstanding, Answering
    <2>2. CASE ServeList(c)
      <3>1. UNCHANGED server /\ calls[c].op = "list"
        BY <2>2 DEF ServeList, Sent, Outstanding
      <3>2. calls'[c].list = shards /\ calls'[c].seen = removals /\ calls'[c].op = "list"
        BY <1>1, <2>1, <2>2, <3>1 DEF ServeList, CallType
      <3>3. \A i \in DOMAIN shards : At(shards, removals, removals, i, Id(shards[i]))
        BY <1>1, SMTT(30) DEF At
      <3> QED
        BY <1>1, <3>1, <3>2, <3>3, SMTT(30) DEF CallAligned, StillAt, Sent, Outstanding, server
    <2>3. CASE Answering(c)
      <3>1. PICK r \in {"data", "empty", "error"} : calls' = Reply(c, r)
        BY <2>3 DEF Answering
      <3>2. calls'[c].list = << >> /\ calls'[c].seen = 0 /\ calls'[c].status = r
        BY <1>1, <3>1 DEF Reply, Request
      <3> QED
        BY <1>3, <3>2, NewCallAligned, SMTT(30)
    <2> QED
      BY <1>2, <2>2, <2>3
  <1> QED
    BY <1>4, <1>6, <1>7 DEF Aligned

(* A request whose handler is gone is still aligned.                       *)
LEMMA ForgottenAligned ==
    ASSUME UNCHANGED server, NEW c \in Call, calls[c] # NoCall, calls[c] \in CallType,
           CallAligned(c), NEW f, calls'[c] = [calls[c] EXCEPT !.for = f]
    PROVE  CallAligned(c)'
  <1>1. /\ calls'[c].seen = calls[c].seen /\ calls'[c].list = calls[c].list
        /\ calls'[c].op = calls[c].op /\ calls'[c].status = calls[c].status
        /\ calls'[c].index = calls[c].index /\ calls'[c].shard = calls[c].shard
    BY DEF CallType
  <1> QED
    BY <1>1 DEF CallAligned, StillAt, Sent, Outstanding, server

(* The state of a page that has just been opened is aligned.               *)
LEMMA ReloadAligned ==
    ASSUME TypeOK, Sound(shards), Aligned, NEW c \in Call, Reload(c)
    PROVE  Aligned'
  <1>1. removals \in Nat /\ UNCHANGED server /\ ServerStep
    BY DEF TypeOK, Reload, ServerStep
  <1>2. PageAligned' /\ DialogAligned'
    BY <1>1, SMTT(30) DEF Reload, Loading, Closed, PageAligned, DialogAligned, server
  <1>3. ASSUME NEW d \in Call PROVE CallAligned(d)'
    <2>1. calls' = [Orphaned EXCEPT ![c] = ListShards("load")]
      BY DEF Reload
    <2>2. CASE d = c
      <3>1. calls'[c] = ListShards("load")
        BY <2>1 DEF Orphaned
      <3> QED
        BY <1>1, <2>2, <3>1, NewCallAligned, SMTT(60) DEF ListShards, Request, server
    <2>3. CASE d # c /\ Orphaned[d] = NoCall
      BY <2>1, <2>3 DEF Orphaned, CallAligned
    <2>4. CASE d # c /\ Orphaned[d] # NoCall
      <3>1. calls[d] # NoCall /\ calls'[d] = [calls[d] EXCEPT !.for = "gone"]
        BY <2>1, <2>4 DEF Orphaned, Sent, Outstanding
      <3>2. calls[d] \in CallType
        BY <3>1 DEF TypeOK
      <3> QED
        BY <1>1, <3>1, <3>2, ForgottenAligned DEF Aligned
    <2> QED
      BY <2>2, <2>3, <2>4
  <1> QED
    BY <1>2, <1>3 DEF Aligned

(* The rows that are computed from a list are aligned if the list is.      *)
LEMMA RowsAligned ==
    ASSUME TypeOK, Aligned, NEW c \in Call, calls[c] # NoCall,
           page'.seen = calls[c].seen, UNCHANGED server,
           LET list == FetchedList(calls[c].status, calls[c].list)
           IN  page'.rows = LoadedRows(list) \/ page'.rows = DeletedRows(list)
    PROVE  PageAligned'
  <1> DEFINE list == FetchedList(calls[c].status, calls[c].list)
  <1>1. CallAligned(c)
    BY DEF Aligned
  <1>2. page'.seen <= removals'
    BY <1>1 DEF CallAligned, server
  <1>3. /\ DOMAIN page'.rows = DOMAIN list
        /\ \A i \in DOMAIN list : page'.rows[i].index = i /\ page'.rows[i].shard = Id(list[i])
    <2>1. \A i, shard, b : Row(i, shard, b).index = i /\ Row(i, shard, b).shard = Id(shard)
      BY DEF Row
    <2>2. DOMAIN page'.rows = DOMAIN list
      BY DEF LoadedRows, DeletedRows
    <2>3. ASSUME NEW i \in DOMAIN list PROVE \E b : page'.rows[i] = Row(i, list[i], b)
      BY <2>3 DEF LoadedRows, DeletedRows
    <2> QED
      BY <2>1, <2>2, <2>3, SMTT(30)
  <1>4. \A i \in DOMAIN list : At(shards, removals, calls[c].seen, i, Id(list[i]))
    BY <1>1, SMTT(30) DEF FetchedList, CallAligned, StillAt
  <1> HIDE DEF list
  <1> QED
    BY <1>2, <1>3, <1>4, SMTT(60) DEF PageAligned, StillAt, server

(* What the handlers do when their answers come keeps all aligned.         *)
LEMMA ContinueAligned ==
    ASSUME TypeOK, Sound(shards), Aligned, NEW c \in Call, Continue(c)
    PROVE  Aligned'
  <1>0. /\ page \in PageType /\ dialog \in DialogType /\ removals \in Nat
        /\ calls \in [Call -> CallType \cup {NoCall}]
    BY DEF TypeOK
  <1>1. UNCHANGED server => ServerStep
    BY DEF ServerStep
  <1>2. ASSUME Done(c), UNCHANGED server PROVE \A d \in Call : CallAligned(d)'
    <2>1. calls'[c] = NoCall /\ \A d \in Call \ {c} : calls'[d] = calls[d]
      BY <1>0, <1>2 DEF Done
    <2>2. \A d \in Call \ {c} : CallAligned(d)'
      BY <1>1, <1>2, <2>1, ServerKeepsCall
    <2> QED
      BY <2>1, <2>2 DEF CallAligned
  <1>3. CASE LoadDone(c)
    <2>1. UNCHANGED <<server, dialog>> /\ Done(c) /\ calls[c] # NoCall
      BY <1>3 DEF LoadDone, Answered, Outstanding
    <2>2. /\ page'.seen = calls[c].seen
          /\ page'.rows = LoadedRows(FetchedList(calls[c].status, calls[c].list))
      BY <1>0, <1>3 DEF LoadDone, Shown, PageType
    <2>3. PageAligned'
      BY <2>1, <2>2, RowsAligned
    <2>4. DialogAligned'
      BY <2>1 DEF Aligned, DialogAligned, StillAt, server
    <2> QED
      BY <1>2, <2>1, <2>3, <2>4 DEF Aligned
  <1>4. CASE DeleteListed(c)
    <2>1. UNCHANGED <<server, dialog>> /\ Done(c) /\ calls[c] # NoCall
      BY <1>4 DEF DeleteListed, AnsweredTo, Answered, Outstanding
    <2>2. /\ page'.seen = calls[c].seen
          /\ page'.rows = DeletedRows(FetchedList(calls[c].status, calls[c].list))
      BY <1>0, <1>4 DEF DeleteListed, Shown, PageType
    <2>3. PageAligned'
      BY <2>1, <2>2, RowsAligned
    <2>4. DialogAligned'
      BY <2>1 DEF Aligned, DialogAligned, StillAt, server
    <2> QED
      BY <1>2, <2>1, <2>3, <2>4 DEF Aligned
  <1>5. CASE DeleteDone(c)
    <2>1. UNCHANGED <<server, dialog>> /\ page'.seen = page.seen /\ page'.rows = page.rows
      BY <1>0, <1>5 DEF DeleteDone, PageType
    <2>2. PageAligned' /\ DialogAligned'
      BY <2>1 DEF Aligned, PageAligned, DialogAligned, StillAt, server
    <2>3. CASE calls' = [calls EXCEPT ![c] = Request("list", "delete", calls[c].index, NoShard, 0)]
      <3>1. \A d \in Call \ {c} : CallAligned(d)'
        BY <1>0, <1>1, <2>1, <2>3, ServerKeepsCall
      <3>2. CallAligned(c)'
        BY <1>0, <2>1, <2>3, NewCallAligned, SMTT(60) DEF Request, server
      <3> QED
        BY <2>2, <3>1, <3>2 DEF Aligned
    <2> QED
      BY <1>2, <1>5, <2>1, <2>2, <2>3 DEF DeleteDone, Aligned
  <1>6. CASE MigrateDone(c)
    <2>1. UNCHANGED server /\ page'.seen = page.seen /\ page'.rows = page.rows
      BY <1>0, <1>6 DEF MigrateDone, PageType
    <2>2. PageAligned'
      BY <2>1 DEF Aligned, PageAligned, StillAt, server
    <2>3. DialogAligned'
      <3>1. CASE dialog' = Closed
        BY <1>0, <2>1, <3>1, SMTT(60) DEF DialogAligned, Closed, server
      <3>2. CASE dialog' = [dialog EXCEPT !.busy = FALSE, !.failed = TRUE]
        <4>1. /\ dialog'.seen = dialog.seen /\ dialog'.target = dialog.target
              /\ dialog'.shard = dialog.shard
          BY <1>0, <3>2 DEF DialogType
        <4> QED
          BY <2>1, <4>1 DEF Aligned, DialogAligned, StillAt, server
      <3> QED
        BY <1>6, <3>1, <3>2 DEF MigrateDone
    <2>4. CASE calls' = [Unmounted EXCEPT ![c] = ListShards("refresh")]
      <3>1. CallAligned(c)'
        <4>1. calls'[c] = ListShards("refresh")
          BY <2>4 DEF Unmounted
        <4> QED
          BY <1>0, <2>1, <4>1, NewCallAligned, SMTT(60) DEF ListShards, Request, server
      <3>2. ASSUME NEW d \in Call \ {c} PROVE CallAligned(d)'
        <4>1. \/ calls'[d] = calls[d]
              \/ /\ calls[d] # NoCall /\ calls[d] \in CallType
                 /\ calls'[d] = [calls[d] EXCEPT !.for = "stray"]
          BY <1>0, <2>4 DEF Unmounted, Outstanding
        <4> QED
          BY <1>1, <2>1, <4>1, ServerKeepsCall, ForgottenAligned DEF Aligned
      <3> QED
        BY <2>2, <2>3, <3>1, <3>2 DEF Aligned
    <2> QED
      BY <1>2, <1>6, <2>1, <2>2, <2>3, <2>4 DEF MigrateDone, Aligned
  <1>7. CASE FormDone(c) \/ Ignore(c)
    <2>1. CASE \E d \in Call : Reload(d)
      BY <2>1, ReloadAligned
    <2>2. CASE Done(c) /\ UNCHANGED <<server, page, dialog>>
      BY <1>1, <1>2, <2>2, ServerKeepsPage DEF Aligned
    <2> QED
      BY <1>7, <2>1, <2>2 DEF FormDone, Ignore
  <1> QED
    BY <1>3, <1>4, <1>5, <1>6, <1>7 DEF Continue

(* A request takes over the place of the row or of the choice it is        *)
(* made from.                                                              *)
LEMMA UserAligned ==
    ASSUME TypeOK, Sound(shards), Aligned, NEW c \in Call, User(c)
    PROVE  Aligned'
  <1>0. /\ page \in PageType /\ dialog \in DialogType /\ removals \in Nat
        /\ calls \in [Call -> CallType \cup {NoCall}]
    BY DEF TypeOK
  <1>1. UNCHANGED server => ServerStep
    BY DEF ServerStep
  <1>2. ASSUME NEW request, calls' = [calls EXCEPT ![c] = request], UNCHANGED server
        PROVE  calls'[c] = request /\ \A d \in Call \ {c} : CallAligned(d)'
    <2>1. calls'[c] = request /\ \A d \in Call \ {c} : calls'[d] = calls[d]
      BY <1>0, <1>2
    <2> QED
      BY <1>1, <1>2, <2>1, ServerKeepsCall
  <1>3. CASE DeleteClick(c)
    <2>1. PICK shown \in ShownRows :
            /\ page' = [page EXCEPT !.deleting = shown.row.index]
            /\ calls' = [calls EXCEPT
                    ![c] = Request("delete", "page", shown.row.index, shown.row.shard, page.seen)]
      BY <1>3 DEF DeleteClick
    <2>2. UNCHANGED <<server, dialog>>
      BY <1>3 DEF DeleteClick
    <2>3. PICK i \in DOMAIN page.rows : shown.row = page.rows[i]
      BY ShownRowsOfPage
    <2>4. /\ shown.row.index = i /\ page.seen <= removals
          /\ At(shards, removals, page.seen, i, shown.row.shard)
      BY <2>3 DEF Aligned, PageAligned, StillAt
    <2>5. CallAligned(c)'
      <3>1. /\ calls'[c].list = << >> /\ calls'[c].seen = page.seen
            /\ calls'[c].index = i /\ calls'[c].shard = shown.row.shard
        BY <1>2, <2>1, <2>2, <2>4 DEF Request
      <3>2. shards' = shards /\ removals' = removals
        BY <2>2 DEF server
      <3> QED
        BY <2>4, <3>1, <3>2, NewCallAligned
    <2>6. page'.seen = page.seen /\ page'.rows = page.rows
      BY <1>0, <2>1 DEF PageType
    <2>7. PageAligned' /\ DialogAligned'
      BY <2>2, <2>6 DEF Aligned, PageAligned, DialogAligned, StillAt, server
    <2> QED
      BY <1>2, <2>1, <2>2, <2>5, <2>7 DEF Aligned
  <1>4. CASE Submit(c)
    <2>1. /\ UNCHANGED <<server, page>> /\ dialog.target # 0
          /\ dialog'.seen = dialog.seen /\ dialog'.target = dialog.target
          /\ dialog'.shard = dialog.shard
      BY <1>0, <1>4 DEF Submit, DialogType
    <2>2. PageAligned' /\ DialogAligned'
      BY <2>1 DEF Aligned, PageAligned, DialogAligned, StillAt, server
    <2>3. CASE UNCHANGED calls
      BY <1>1, <2>1, <2>2, <2>3, ServerKeepsCall DEF Aligned
    <2>4. CASE \E input, slotOnly : calls' = [calls EXCEPT ![c] = MigrationRequest(input, slotOnly)]
      <3>1. PICK input, slotOnly : calls' = [calls EXCEPT ![c] = MigrationRequest(input, slotOnly)]
        BY <2>4
      <3>2. /\ calls'[c].list = << >> /\ calls'[c].seen = dialog.seen
            /\ calls'[c].index = dialog.target /\ calls'[c].shard = dialog.shard
        BY <1>2, <2>1, <3>1 DEF MigrationRequest, Request
      <3>3. dialog.seen <= removals /\ At(shards, removals, dialog.seen, dialog.target, dialog.shard)
        BY <2>1 DEF Aligned, DialogAligned, StillAt
      <3>4. shards' = shards /\ removals' = removals
        BY <2>1 DEF server
      <3>5. CallAligned(c)'
        BY <3>2, <3>3, <3>4, NewCallAligned
      <3> QED
        BY <1>2, <2>1, <2>2, <3>1, <3>5 DEF Aligned
    <2> QED
      BY <1>4, <2>3, <2>4 DEF Submit
  <1>5. CASE SubmitForm(c)
    <2>1. /\ UNCHANGED <<server, page, dialog>>
          /\ calls' = [calls EXCEPT ![c] = Request("create", "form", 0, NoShard, 0)]
      BY <1>5 DEF SubmitForm
    <2>2. CallAligned(c)'
      BY <1>0, <1>2, <2>1, NewCallAligned, SMTT(30) DEF Request, server
    <2> QED
      BY <1>1, <1>2, <2>1, <2>2, ServerKeepsPage DEF Aligned
  <1>6. CASE Reload(c)
    BY <1>6, ReloadAligned
  <1> QED
    BY <1>3, <1>4, <1>5, <1>6 DEF User

(* Every step keeps the browser aligned with the server.                   *)
LEMMA AlignedStep ==
    ASSUME TypeOK, Sound(shards), Aligned, [Next]_vars
    PROVE  Aligned'
  <1>0. page \in PageType /\ dialog \in DialogType /\ removals \in Nat
    BY DEF TypeOK
  <1>1. ServerStep
    BY NextServerStep DEF TypeOK
  <1>2. ASSUME UNCHANGED calls PROVE \A c \in Call : CallAligned(c)'
    BY <1>1, <1>2, ServerKeepsCall
  <1>3. CASE OpenDialog \/ DismissError
    <2>1. /\ UNCHANGED <<server, page, calls>>
          /\ dialog'.seen = dialog.seen /\ dialog'.target = dialog.target
          /\ dialog'.shard = dialog.shard
      BY <1>0, <1>3 DEF OpenDialog, DismissError, DialogType
    <2> QED
      BY <1>2, <2>1 DEF Aligned, PageAligned, DialogAligned, StillAt, server
  <1>4. CASE CloseDialog
    BY <1>0, <1>2, <1>4, SMTT(60)
        DEF CloseDialog, Closed, Aligned, PageAligned, DialogAligned, StillAt, server
  <1>5. CASE PickTarget
    <2>1. PICK i \in DOMAIN page.rows :
            dialog' = [dialog EXCEPT !.target = i, !.shard = page.rows[i].shard, !.seen = page.seen]
      BY <1>5 DEF PickTarget, Targets
    <2>2. dialog'.target = i /\ dialog'.shard = page.rows[i].shard /\ dialog'.seen = page.seen
      BY <1>0, <2>1 DEF DialogType
    <2>3. UNCHANGED <<server, page, calls>>
      BY <1>5 DEF PickTarget
    <2> QED
      BY <1>2, <2>2, <2>3 DEF Aligned, PageAligned, DialogAligned, StillAt, server
  <1>6. CASE OpenForm \/ LeaveForm \/ Others \/ UNCHANGED vars
    <2>1. UNCHANGED <<page, dialog, calls>>
      BY <1>6 DEF OpenForm, LeaveForm, Others, vars
    <2> QED
      BY <1>1, <1>2, <2>1, ServerKeepsPage DEF Aligned
  <1> QED
    BY <1>3, <1>4, <1>5, <1>6, AnswerAligned, ContinueAligned, UserAligned DEF Next

(* However late a deletion or a migration of the page is served, the       *)
(* number it names is that of the shard that the user saw, unless a shard  *)
(* has been removed since the list was read (handleDeleteShard,            *)
(* handleMigration).                                                       *)
THEOREM Alignment == Spec => []AlignedUntilRemoval
  <1>1. Init => Aligned
    <2>1. SUFFICES ASSUME Init PROVE Aligned
      OBVIOUS
    <2>2. \A c \in Call : calls[c] = NoCall \/ calls[c] = ListShards("load")
      BY <2>1 DEF Init, Only
    <2>3. PageAligned /\ DialogAligned
      BY <2>1, SMTT(30) DEF Init, Loading, Closed, PageAligned, DialogAligned
    <2>4. ASSUME NEW c \in Call PROVE CallAligned(c)
      <3>1. CASE calls[c] = NoCall
        BY <3>1 DEF CallAligned
      <3>2. CASE calls[c] = ListShards("load")
        <4>1. calls[c].seen = 0 /\ calls[c].op = "list" /\ calls[c].list = << >> /\ removals = 0
          BY <2>1, <3>2, SMTT(30) DEF Init, ListShards, Request
        <4> QED
          BY <4>1, SMTT(60) DEF CallAligned, Sent, Outstanding
      <3> QED
        BY <2>2, <3>1, <3>2
    <2> QED
      BY <2>3, <2>4 DEF Aligned
  <1>2. TypeOK /\ Sound(shards) /\ Aligned /\ [Next]_vars => Aligned'
    BY AlignedStep
  <1>3. Aligned => AlignedUntilRemoval
    <2>1. SUFFICES ASSUME Aligned PROVE AlignedUntilRemoval
      OBVIOUS
    <2>2. \A c \in Call : CallAligned(c)
      BY <2>1 DEF Aligned
    <2>3. \A seen, i, shard : StillAt(seen, i, shard) /\ seen = removals => Denotes(i, shard)
      BY DEF StillAt, At, Denotes
    <2>4. ASSUME NEW c \in Call, Sent(c, "delete") \/ Sent(c, "migrate"), calls[c].seen = removals
          PROVE  Denotes(calls[c].index, calls[c].shard)
      BY <2>2, <2>3, <2>4 DEF CallAligned, Sent, Outstanding
    <2> QED
      BY <2>1, <2>3, <2>4, SMTT(30) DEF Aligned, PageAligned, DialogAligned, AlignedUntilRemoval
  <1> QED
    BY <1>1, <1>2, <1>3, TypeCorrect, PTL DEF Spec

-----------------------------------------------------------------------------
(* What is waited for *)

(* The flag stands for exactly one request.                                *)
OneFor(flag, requests) == (flag <=> requests # {}) /\ \A c, d \in requests : c = d

(* The disabled button stands for a deletion that is under way.            *)
DeleteCalls == {c \in Call : calls[c] # NoCall /\ calls[c].for \in {"page", "delete"}}

DeletingFor(deleting) == deleting # 0 => \E c \in DeleteCalls : calls[c].index = deleting

(* A dialog that waits is open, and in front of a page without a spinner.  *)
Waits ==
    /\ OneFor(page.loading, LoadCalls)
    /\ OneFor(dialog.busy, MigrateCalls)
    /\ OneFor(form.submitting, FormCalls)
    /\ DeletingFor(page.deleting)
    /\ dialog.busy => dialog.open
    /\ dialog.open => ~page.loading

(* Answering a request does not change who waits for it.                   *)
LEMMA AnswerWaits ==
    ASSUME TypeOK, Sound(shards), Waits, NEW c \in Call, Serve(c)
    PROVE  Waits'
  <1>1. shards \in Seq(Shard) /\ calls \in [Call -> CallType \cup {NoCall}]
    BY DEF TypeOK
  <1>2. ServeList(c) \/ Answering(c)
    BY <1>1, ServeStep
  <1>4. calls[c] \in CallType /\ calls[c] # NoCall
    BY <1>1, <1>2 DEF ServeList, Sent, Outstanding, Answering
  <1>5. /\ calls'[c] # NoCall
        /\ calls'[c].op = calls[c].op /\ calls'[c].for = calls[c].for
        /\ calls'[c].index = calls[c].index
    <2>1. CASE ServeList(c)
      <3>1. calls'[c] = [calls[c] EXCEPT !.status = "data", !.list = shards, !.read = version,
                                         !.seen = removals]
        BY <1>1, <2>1 DEF ServeList
      <3>2. calls'[c] \in CallType
        BY <1>4, <3>1, <1>1 DEF CallType, Status, TypeOK
      <3> QED
        BY <1>4, <3>1, <3>2, PageAssumption DEF CallType
    <2>2. CASE Answering(c)
      <3>1. PICK r : calls' = Reply(c, r) /\ r \in {"data", "empty", "error"}
        BY <2>2 DEF Answering
      <3>2. /\ calls'[c].op = calls[c].op /\ calls'[c].for = calls[c].for
            /\ calls'[c].index = calls[c].index /\ calls'[c].status = r
        BY <1>1, <3>1 DEF Reply, Request
      <3>3. calls'[c] \in CallType
        BY <1>1, <1>4, <3>1, EmptySeq DEF Reply, Request, CallType, Status, NoShard
      <3> QED
        BY <3>2, <3>3, PageAssumption
    <2> QED
      BY <1>2, <2>1, <2>2
  <1>6. \A d \in Call \ {c} : calls'[d] = calls[d]
    BY <1>1, <1>2 DEF ServeList, Answering, Reply
  <1>7. /\ LoadCalls' = LoadCalls /\ MigrateCalls' = MigrateCalls /\ FormCalls' = FormCalls
        /\ DeleteCalls' = DeleteCalls
    BY <1>4, <1>5, <1>6, ZenonT(60) DEF LoadCalls, MigrateCalls, FormCalls, DeleteCalls, Outstanding
  <1>8. \A d \in DeleteCalls : calls'[d].index = calls[d].index
    BY <1>5, <1>6 DEF DeleteCalls
  <1>9. UNCHANGED <<page, dialog, form>>
    BY <1>2 DEF ServeList, Answering
  <1> QED
    BY <1>7, <1>8, <1>9 DEF Waits, DeletingFor

(* A page that has just been opened waits for its list only.               *)
LEMMA ReloadWaits ==
    ASSUME TypeOK, Waits, NEW c \in Call, Reload(c)
    PROVE  Waits'
  <1>1. calls' = [Orphaned EXCEPT ![c] = ListShards("load")]
    BY DEF Reload
  <1>2. /\ ListShards("load") # NoCall
        /\ ListShards("load").op = "list" /\ ListShards("load").for = "load"
    BY RequestType, PageAssumption DEF ListShards, Request, NoShard
  <1>3. calls'[c] = ListShards("load")
    BY <1>1 DEF Orphaned
  <1>4. ASSUME NEW d \in Call \ {c}, calls'[d] # NoCall PROVE calls'[d].for = "gone"
    <2>1. calls[d] # NoCall /\ calls'[d] = [calls[d] EXCEPT !.for = "gone"]
      BY <1>1, <1>4 DEF Orphaned, Sent, Outstanding
    <2>2. calls[d] \in CallType
      BY <2>1 DEF TypeOK
    <2> QED
      BY <2>1, <2>2 DEF CallType
  <1>5. LoadCalls' = {c} /\ MigrateCalls' = {} /\ FormCalls' = {}
    BY <1>2, <1>3, <1>4 DEF LoadCalls, MigrateCalls, FormCalls, Outstanding
  <1>6. page'.loading = TRUE /\ page'.deleting = 0 /\ dialog'.busy = FALSE /\ dialog'.open = FALSE
        /\ form'.submitting = FALSE
    BY DEF Reload, Loading, Closed, NoForm
  <1> QED
    BY <1>5, <1>6 DEF Waits, OneFor, DeletingFor

(* A handler that ends takes its own request away, and lowers its flag.    *)
LEMMA ContinueWaits ==
    ASSUME TypeOK, Waits, NEW c \in Call, Continue(c)
    PROVE  Waits'
  <1>0. /\ page \in PageType /\ dialog \in DialogType /\ form \in FormType
        /\ calls \in [Call -> CallType \cup {NoCall}]
    BY DEF TypeOK
  <1>1. ASSUME Done(c)
        PROVE  /\ LoadCalls' = LoadCalls \ {c} /\ MigrateCalls' = MigrateCalls \ {c}
               /\ FormCalls' = FormCalls \ {c} /\ DeleteCalls' = DeleteCalls \ {c}
               /\ \A d \in Call \ {c} : calls'[d] = calls[d]
    BY <1>0, <1>1 DEF Done, LoadCalls, MigrateCalls, FormCalls, DeleteCalls, Outstanding
  <1>2. CASE LoadDone(c)
    <2>1. /\ Done(c) /\ c \in LoadCalls /\ c \notin MigrateCalls /\ c \notin FormCalls
          /\ c \notin DeleteCalls
      BY <1>2 DEF LoadDone, Answered, Outstanding, LoadCalls, MigrateCalls, FormCalls, DeleteCalls
    <2>2. page'.loading = FALSE /\ page'.deleting = page.deleting /\ UNCHANGED <<dialog, form>>
      BY <1>0, <1>2 DEF LoadDone, Shown, PageType
    <2>3. /\ MigrateCalls' = MigrateCalls /\ FormCalls' = FormCalls /\ DeleteCalls' = DeleteCalls
          /\ \A d \in DeleteCalls : calls'[d] = calls[d]
      BY <1>1, <2>1, ZenonT(60) DEF DeleteCalls
    <2>4. LoadCalls' = {}
      BY <1>1, <2>1 DEF Waits, OneFor
    <2>5. OneFor(page.loading, LoadCalls)'
      BY <2>2, <2>4 DEF OneFor
    <2>6. OneFor(dialog.busy, MigrateCalls)' /\ OneFor(form.submitting, FormCalls)'
      BY <2>2, <2>3 DEF Waits, OneFor
    <2>7. DeletingFor(page.deleting)'
      BY <2>2, <2>3 DEF Waits, DeletingFor
    <2> QED
      BY <2>2, <2>5, <2>6, <2>7 DEF Waits
  <1>3. CASE DeleteDone(c)
    <2>1. /\ c \in DeleteCalls /\ c \notin LoadCalls /\ c \notin MigrateCalls /\ c \notin FormCalls
          /\ calls[c] # NoCall
      BY <1>3 DEF DeleteDone, AnsweredTo, Answered, Outstanding, LoadCalls, MigrateCalls, FormCalls,
                  DeleteCalls
    <2>2. page'.loading = page.loading /\ UNCHANGED <<dialog, form>>
      BY <1>0, <1>3 DEF DeleteDone, PageType
    <2>3. CASE Done(c) /\ page' = [page EXCEPT !.deleting = 0]
      <3>1. page'.deleting = 0
        BY <1>0, <2>3 DEF PageType
      <3>2. LoadCalls' = LoadCalls /\ MigrateCalls' = MigrateCalls /\ FormCalls' = FormCalls
        BY <1>1, <2>1, <2>3
      <3>3. /\ OneFor(page.loading, LoadCalls)' /\ OneFor(dialog.busy, MigrateCalls)'
            /\ OneFor(form.submitting, FormCalls)'
        BY <2>2, <3>2 DEF Waits, OneFor
      <3>4. DeletingFor(page.deleting)'
        BY <3>1 DEF DeletingFor
      <3> QED
        BY <2>2, <3>3, <3>4 DEF Waits
    <2>4. CASE /\ calls' = [calls EXCEPT ![c] = Request("list", "delete", calls[c].index, NoShard, 0)]
               /\ UNCHANGED page
      <3>1. calls[c].index \in Nat
        BY <1>0, <2>1 DEF CallType
      <3>2. calls'[c] # NoCall
        BY <1>0, <2>4, <3>1, RequestType, PageAssumption, ZenonT(60) DEF NoShard
      <3>3. calls'[c].op = "list" /\ calls'[c].for = "delete" /\ calls'[c].index = calls[c].index
        BY <1>0, <2>4 DEF Request
      <3>4. \A d \in Call \ {c} : calls'[d] = calls[d]
        BY <1>0, <2>4
      <3>5. /\ LoadCalls' = LoadCalls /\ MigrateCalls' = MigrateCalls /\ FormCalls' = FormCalls
            /\ DeleteCalls' = DeleteCalls
        BY <2>1, <3>2, <3>3, <3>4, SMTT(60) DEF LoadCalls, MigrateCalls, FormCalls, DeleteCalls, Outstanding
      <3>6. \A d \in DeleteCalls : calls'[d].index = calls[d].index
        BY <3>3, <3>4 DEF DeleteCalls
      <3>7. page'.loading = page.loading /\ page'.deleting = page.deleting
            /\ dialog' = dialog /\ form' = form
        BY <2>2, <2>4
      <3>8. DeletingFor(page.deleting)'
        BY <3>5, <3>6, <3>7 DEF Waits, DeletingFor
      <3>9. /\ OneFor(page.loading, LoadCalls)' /\ OneFor(dialog.busy, MigrateCalls)'
            /\ OneFor(form.submitting, FormCalls)'
        BY <3>5, <3>7 DEF Waits, OneFor
      <3> QED
        BY <3>7, <3>8, <3>9 DEF Waits
    <2> QED
      BY <1>3, <2>3, <2>4 DEF DeleteDone
  <1>4. CASE DeleteListed(c)
    <2>1. Done(c) /\ c \notin LoadCalls /\ c \notin MigrateCalls /\ c \notin FormCalls
      BY <1>4 DEF DeleteListed, AnsweredTo, Answered, Outstanding, LoadCalls, MigrateCalls, FormCalls
    <2>2. page'.loading = page.loading /\ page'.deleting = 0 /\ UNCHANGED <<dialog, form>>
      BY <1>0, <1>4 DEF DeleteListed, Shown, PageType
    <2>3. LoadCalls' = LoadCalls /\ MigrateCalls' = MigrateCalls /\ FormCalls' = FormCalls
      BY <1>1, <2>1
    <2>4. /\ OneFor(page.loading, LoadCalls)' /\ OneFor(dialog.busy, MigrateCalls)'
          /\ OneFor(form.submitting, FormCalls)'
      BY <2>2, <2>3 DEF Waits, OneFor
    <2>5. DeletingFor(page.deleting)'
      BY <2>2 DEF DeletingFor
    <2> QED
      BY <2>2, <2>4, <2>5 DEF Waits
  <1>5. CASE MigrateDone(c)
    <2>1. /\ c \in MigrateCalls /\ c \notin LoadCalls /\ c \notin FormCalls /\ c \notin DeleteCalls
          /\ calls[c] # NoCall
      BY <1>5 DEF MigrateDone, AnsweredTo, Answered, Outstanding, LoadCalls, MigrateCalls, FormCalls,
                  DeleteCalls
    <2>2. dialog.open /\ ~page.loading /\ LoadCalls = {} /\ MigrateCalls = {c}
      BY <2>1 DEF Waits, OneFor
    <2>3. CASE /\ dialog' = [dialog EXCEPT !.busy = FALSE, !.failed = TRUE]
               /\ Done(c) /\ UNCHANGED <<page, form>>
      <3>1. dialog'.busy = FALSE /\ dialog'.open = dialog.open
        BY <1>0, <2>3 DEF DialogType
      <3>2. /\ LoadCalls' = LoadCalls /\ FormCalls' = FormCalls /\ DeleteCalls' = DeleteCalls
            /\ \A d \in DeleteCalls : calls'[d] = calls[d]
        BY <1>1, <2>1, <2>3 DEF DeleteCalls
      <3>3. MigrateCalls' = {}
        BY <1>1, <2>2, <2>3
      <3>4. page' = page /\ form' = form
        BY <2>3
      <3>5. OneFor(dialog.busy, MigrateCalls)'
        BY <3>1, <3>3 DEF OneFor
      <3>6. OneFor(page.loading, LoadCalls)' /\ OneFor(form.submitting, FormCalls)'
        BY <3>2, <3>4 DEF Waits, OneFor
      <3>7. DeletingFor(page.deleting)'
        BY <3>2, <3>4 DEF Waits, DeletingFor
      <3> QED
        BY <3>1, <3>4, <3>5, <3>6, <3>7 DEF Waits
    <2>4. CASE /\ dialog' = Closed /\ page' = [page EXCEPT !.loading = TRUE] /\ form' = NoForm
               /\ calls' = [Unmounted EXCEPT ![c] = ListShards("refresh")]
      <3>1. /\ page'.loading = TRUE /\ page'.deleting = page.deleting
            /\ dialog'.busy = FALSE /\ dialog'.open = FALSE /\ form'.submitting = FALSE
        BY <1>0, <2>4 DEF PageType, Closed, NoForm
      <3>2. calls'[c] = ListShards("refresh")
        BY <2>4 DEF Unmounted
      <3>3. /\ ListShards("refresh") # NoCall
            /\ ListShards("refresh").op = "list" /\ ListShards("refresh").for = "refresh"
        BY RequestType, PageAssumption DEF ListShards, Request, NoShard
      <3>4. ASSUME NEW d \in Call \ {c}
            PROVE  /\ d \notin FormCalls => calls'[d] = calls[d]
                   /\ d \in FormCalls => calls'[d] # NoCall /\ calls'[d].op = "create"
                                        /\ calls'[d].for = "stray"
        <4>1. CASE d \notin FormCalls
          BY <2>4, <4>1 DEF Unmounted, FormCalls
        <4>2. CASE d \in FormCalls
          <5>1. calls[d] \in CallType /\ calls[d].op = "create"
            BY <1>0, <4>2 DEF FormCalls, Outstanding
          <5>2. calls'[d] = [calls[d] EXCEPT !.for = "stray"]
            BY <2>4, <4>2 DEF Unmounted, FormCalls
          <5>3. calls'[d] \in CallType /\ calls'[d].op = "create" /\ calls'[d].for = "stray"
            BY <5>1, <5>2 DEF CallType
          <5> QED
            BY <4>2, <5>3, PageAssumption
        <4> QED
          BY <4>1, <4>2
      <3>5. LoadCalls' = {c} /\ MigrateCalls' = {} /\ FormCalls' = {}
        <4>1. \A d \in Call \ {c} : d \notin LoadCalls /\ d \notin MigrateCalls
          BY <2>2
        <4> QED
          BY <3>2, <3>3, <3>4, <4>1, SMTT(60) DEF LoadCalls, MigrateCalls, FormCalls, Outstanding
      <3>6. \A d \in DeleteCalls : d \in DeleteCalls' /\ calls'[d].index = calls[d].index
        <4>1. \A d \in DeleteCalls : d \in Call \ {c} /\ d \notin FormCalls
          BY <2>1 DEF DeleteCalls, FormCalls
        <4> QED
          BY <3>4, <4>1 DEF DeleteCalls
      <3> QED
        BY <3>1, <3>5, <3>6 DEF Waits, OneFor, DeletingFor
    <2> QED
      BY <1>5, <2>3, <2>4 DEF MigrateDone
  <1>6. CASE FormDone(c)
    <2>1. CASE \E d \in Call : Reload(d)
      BY <2>1, ReloadWaits
    <2>2. CASE /\ IF calls[c].for = "form" THEN EndSubmit(handleError) ELSE UNCHANGED form
               /\ Done(c) /\ UNCHANGED <<page, dialog>>
      <3>1. /\ c \notin LoadCalls /\ c \notin MigrateCalls /\ c \notin DeleteCalls
            /\ c \in FormCalls <=> calls[c].for = "form"
        BY <1>6 DEF FormDone, AnsweredTo, Answered, Outstanding, LoadCalls, MigrateCalls, FormCalls,
                    DeleteCalls
      <3>2. IF c \in FormCalls THEN form'.submitting = FALSE ELSE form' = form
        <4>1. \A b : [open |-> b, submitting |-> FALSE].submitting = FALSE
          OBVIOUS
        <4> QED
          BY <2>2, <3>1, <4>1 DEF EndSubmit
      <3>3. /\ LoadCalls' = LoadCalls /\ MigrateCalls' = MigrateCalls
            /\ DeleteCalls' = DeleteCalls /\ \A d \in DeleteCalls : calls'[d] = calls[d]
        BY <1>1, <2>2, <3>1 DEF DeleteCalls
      <3>4. OneFor(form.submitting, FormCalls)'
        <4>1. CASE c \in FormCalls
          BY <1>1, <2>2, <3>2, <4>1 DEF Waits, OneFor
        <4>2. CASE c \notin FormCalls
          BY <1>1, <2>2, <3>2, <4>2 DEF Waits, OneFor
        <4> QED
          BY <4>1, <4>2
      <3>5. page' = page /\ dialog' = dialog
        BY <2>2
      <3>6. DeletingFor(page.deleting)'
        BY <3>3, <3>5 DEF Waits, DeletingFor
      <3>7. OneFor(page.loading, LoadCalls)' /\ OneFor(dialog.busy, MigrateCalls)'
        BY <3>3, <3>5 DEF Waits, OneFor
      <3> QED
        BY <3>4, <3>5, <3>6, <3>7 DEF Waits
    <2> QED
      BY <1>6, <2>1, <2>2 DEF FormDone
  <1>7. CASE Ignore(c)
    <2>1. /\ c \notin LoadCalls /\ c \notin MigrateCalls /\ c \notin FormCalls /\ c \notin DeleteCalls
          /\ Done(c) /\ UNCHANGED <<page, dialog, form>>
      BY <1>7 DEF Ignore, Outstanding, LoadCalls, MigrateCalls, FormCalls, DeleteCalls
    <2>2. /\ LoadCalls' = LoadCalls /\ MigrateCalls' = MigrateCalls /\ FormCalls' = FormCalls
          /\ DeleteCalls' = DeleteCalls /\ \A d \in DeleteCalls : calls'[d] = calls[d]
      BY <1>1, <2>1, ZenonT(60) DEF DeleteCalls
    <2>3. DeletingFor(page.deleting)'
      BY <2>1, <2>2 DEF Waits, DeletingFor
    <2> QED
      BY <2>1, <2>2, <2>3 DEF Waits, OneFor
  <1> QED
    BY <1>2, <1>3, <1>4, <1>5, <1>6, <1>7 DEF Continue

(* A new request is waited for by whoever has sent it, who did not wait    *)
(* before.                                                                 *)
LEMMA UserWaits ==
    ASSUME TypeOK, Waits, NEW c \in Call, User(c)
    PROVE  Waits'
  <1>0. /\ page \in PageType /\ dialog \in DialogType /\ form \in FormType
        /\ calls \in [Call -> CallType \cup {NoCall}]
    BY DEF TypeOK
  <1>1. ASSUME calls[c] = NoCall, NEW request, calls' = [calls EXCEPT ![c] = request]
        PROVE  /\ calls'[c] = request /\ \A d \in Call \ {c} : calls'[d] = calls[d]
               /\ c \notin LoadCalls /\ c \notin MigrateCalls /\ c \notin FormCalls
               /\ c \notin DeleteCalls
    BY <1>0, <1>1 DEF LoadCalls, MigrateCalls, FormCalls, DeleteCalls, Outstanding
  <1>3. CASE DeleteClick(c)
    <2>1. PICK shown \in ShownRows :
            /\ page' = [page EXCEPT !.deleting = shown.row.index]
            /\ calls' = [calls EXCEPT
                    ![c] = Request("delete", "page", shown.row.index, shown.row.shard, page.seen)]
      BY <1>3 DEF DeleteClick
    <2>2. calls[c] = NoCall /\ UNCHANGED <<dialog, form>>
      BY <1>3 DEF DeleteClick, Free
    <2>3. PICK i \in DOMAIN page.rows : shown.row = page.rows[i]
      BY ShownRowsOfPage
    <2>4. shown.row \in RowType /\ page.seen \in Nat
      BY <1>0, <2>3, LenProperties, SMTT(30) DEF PageType
    <2>5. calls'[c] # NoCall
      <3>1. shown.row.index \in Nat /\ shown.row.shard \in SUBSET Node
        BY <2>4 DEF RowType
      <3> QED
        <4>1. Request("delete", "page", shown.row.index, shown.row.shard, page.seen) \in CallType
          BY <2>4, <3>1, RequestType
        <4> QED
          BY <1>1, <2>1, <2>2, <4>1, PageAssumption
    <2>6. /\ calls'[c].op = "delete" /\ calls'[c].for = "page"
          /\ calls'[c].index = shown.row.index
      BY <1>1, <2>1, <2>2, ZenonT(60) DEF Request
    <2>7. page'.loading = page.loading /\ page'.deleting = shown.row.index
      BY <1>0, <2>1 DEF PageType
    <2>8. /\ LoadCalls' = LoadCalls /\ MigrateCalls' = MigrateCalls /\ FormCalls' = FormCalls
          /\ c \in DeleteCalls'
      <3>1. \A d \in Call \ {c} : calls'[d] = calls[d]
        BY <1>0, <2>1
      <3>2. LoadCalls' = LoadCalls
        BY <2>2, <2>6, <3>1, ZenonT(60) DEF LoadCalls, Outstanding
      <3>3. MigrateCalls' = MigrateCalls
        BY <2>2, <2>6, <3>1 DEF MigrateCalls, Outstanding
      <3>4. FormCalls' = FormCalls
        BY <2>2, <2>6, <3>1 DEF FormCalls, Outstanding
      <3>5. c \in DeleteCalls'
        BY <2>5, <2>6 DEF DeleteCalls
      <3> QED
        BY <3>2, <3>3, <3>4, <3>5
    <2> QED
      BY <2>2, <2>6, <2>7, <2>8 DEF Waits, OneFor, DeletingFor
  <1>4. CASE Submit(c)
    <2>1. calls[c] = NoCall /\ dialog.open /\ ~dialog.busy /\ UNCHANGED <<page, form>>
      BY <1>4 DEF Submit, Free
    <2>2. CASE dialog' = [dialog EXCEPT !.failed = TRUE] /\ UNCHANGED calls
      <3>1. dialog'.open = dialog.open /\ dialog'.busy = dialog.busy
        BY <1>0, <2>2 DEF DialogType
      <3> QED
        BY <2>1, <2>2, <3>1
            DEF Waits, DeletingFor, LoadCalls, MigrateCalls, FormCalls, DeleteCalls, Outstanding
    <2>3. CASE /\ dialog' = [dialog EXCEPT !.busy = TRUE, !.failed = FALSE]
               /\ \E input, slotOnly : /\ validateSlotInput(input) /\ slotOnly \in BOOLEAN
                                      /\ calls' = [calls EXCEPT
                                                ![c] = MigrationRequest(input, slotOnly)]
      <3>1. dialog'.open = dialog.open /\ dialog'.busy = TRUE
        BY <1>0, <2>3 DEF DialogType
      <3>2. PICK input, slotOnly :
                /\ validateSlotInput(input) /\ slotOnly \in BOOLEAN
                /\ calls' = [calls EXCEPT ![c] = MigrationRequest(input, slotOnly)]
        BY <2>3
      <3>3. calls'[c].op = "migrate" /\ calls'[c].for = "dialog"
        BY <1>1, <2>1, <3>2, ZenonT(60) DEF MigrationRequest, Request
      <3>4. MigrationRequest(input, slotOnly) \in CallType
        BY <1>0, <3>2, ParsedType, EmptySeq
            DEF MigrationRequest, Request, CallType, Status, DialogType
      <3>5. calls'[c] # NoCall
        BY <1>1, <2>1, <3>2, <3>4, PageAssumption
      <3>6. /\ LoadCalls' = LoadCalls /\ MigrateCalls' = MigrateCalls \cup {c}
            /\ FormCalls' = FormCalls
            /\ \A d \in DeleteCalls : d \in DeleteCalls' /\ calls'[d] = calls[d]
        BY <1>1, <2>1, <3>2, <3>3, <3>5, SMTT(30)
            DEF LoadCalls, MigrateCalls, FormCalls, DeleteCalls, Outstanding
      <3> QED
        BY <2>1, <3>1, <3>6 DEF Waits, OneFor, DeletingFor
    <2> QED
      BY <1>4, <2>2, <2>3 DEF Submit
  <1>5. CASE SubmitForm(c)
    <2>1. /\ calls[c] = NoCall /\ ~form.submitting /\ UNCHANGED <<page, dialog>>
          /\ form' = [form EXCEPT !.submitting = TRUE]
          /\ calls' = [calls EXCEPT ![c] = Request("create", "form", 0, NoShard, 0)]
      BY <1>5 DEF SubmitForm, Free, handleSubmit
    <2>2. form'.submitting = TRUE
      BY <1>0, <2>1 DEF FormType
    <2>3. calls'[c] # NoCall /\ calls'[c].op = "create" /\ calls'[c].for = "form"
      <3>1. Request("create", "form", 0, NoShard, 0) \in CallType
        BY RequestType DEF NoShard
      <3>2. calls'[c] = Request("create", "form", 0, NoShard, 0)
        BY <1>1, <2>1
      <3>3. calls'[c] # NoCall
        BY <3>1, <3>2, PageAssumption
      <3>4. /\ Request("create", "form", 0, NoShard, 0).op = "create"
            /\ Request("create", "form", 0, NoShard, 0).for = "form"
        BY DEF Request
      <3> QED
        BY <3>2, <3>3, <3>4
    <2>4. /\ LoadCalls' = LoadCalls /\ MigrateCalls' = MigrateCalls /\ FormCalls' = FormCalls \cup {c}
          /\ \A d \in DeleteCalls : d \in DeleteCalls' /\ calls'[d] = calls[d]
      BY <1>1, <2>1, <2>3, SMTT(30) DEF LoadCalls, MigrateCalls, FormCalls, DeleteCalls, Outstanding
    <2> QED
      BY <2>1, <2>2, <2>4 DEF Waits, OneFor, DeletingFor
  <1>6. CASE Reload(c)
    BY <1>6, ReloadWaits
  <1> QED
    BY <1>3, <1>4, <1>5, <1>6 DEF User

(* Every step keeps flags and requests together.                           *)
LEMMA WaitsStep ==
    ASSUME TypeOK, Sound(shards), Waits, [Next]_vars
    PROVE  Waits'
  <1>1. ASSUME UNCHANGED calls
        PROVE  UNCHANGED <<LoadCalls, MigrateCalls, FormCalls, DeleteCalls>>
    BY <1>1 DEF LoadCalls, MigrateCalls, FormCalls, DeleteCalls, Outstanding
  <1>2. CASE OpenDialog \/ PickTarget \/ CloseDialog \/ DismissError
    <2>1. UNCHANGED <<page, calls, form>>
      BY <1>2 DEF OpenDialog, PickTarget, CloseDialog, DismissError
    <2>2. /\ dialog'.busy = dialog.busy
          /\ \/ dialog'.open = dialog.open
             \/ dialog'.open = TRUE /\ ~page.loading
             \/ dialog'.open = FALSE /\ ~dialog.busy
      <3>0. dialog \in DialogType
        BY DEF TypeOK
      <3>1. CASE OpenDialog
        BY <3>0, <3>1 DEF OpenDialog, Reachable, DialogType
      <3>2. CASE PickTarget
        BY <3>0, <3>2 DEF PickTarget, DialogType
      <3>3. CASE CloseDialog
        <4>1. ~dialog.busy /\ dialog'.busy = FALSE /\ dialog'.open = FALSE /\ dialog.busy \in BOOLEAN
          BY <3>0, <3>3 DEF CloseDialog, Closed, DialogType
        <4> QED
          BY <4>1
      <3>4. CASE DismissError
        BY <3>0, <3>4 DEF DismissError, DialogType
      <3> QED
        BY <1>2, <3>1, <3>2, <3>3, <3>4
    <2> QED
      BY <1>1, <2>1, <2>2 DEF Waits, DeletingFor
  <1>3. CASE OpenForm \/ LeaveForm
    <2>1. UNCHANGED <<page, calls, dialog>> /\ form'.submitting = form.submitting
      BY <1>3 DEF OpenForm, LeaveForm, openDialog, closeDialog, TypeOK, FormType
    <2> QED
      BY <1>1, <2>1 DEF Waits, DeletingFor
  <1>4. CASE Others \/ UNCHANGED vars
    <2>1. UNCHANGED <<page, calls, dialog, form>>
      BY <1>4 DEF Others, vars
    <2> QED
      BY <1>1, <2>1 DEF Waits, DeletingFor
  <1> QED
    BY <1>2, <1>3, <1>4, AnswerWaits, ContinueWaits, UserWaits DEF Next

(* The page that has just been opened waits for its list.                  *)
LEMMA InitWaits ==
    ASSUME Init
    PROVE  Waits
  <1>1. /\ ListShards("load") # NoCall
        /\ ListShards("load").op = "list" /\ ListShards("load").for = "load"
    BY RequestType, PageAssumption DEF ListShards, Request, NoShard
  <1>2. First \in Call
    BY CallAssumption DEF First
  <1>3. \A c \in Call : calls[c] = IF c = First THEN ListShards("load") ELSE NoCall
    BY DEF Init, Only
  <1>4. LoadCalls = {First} /\ MigrateCalls = {} /\ FormCalls = {}
    BY <1>1, <1>2, <1>3 DEF LoadCalls, MigrateCalls, FormCalls, Outstanding
  <1>5. page.loading = TRUE /\ page.deleting = 0 /\ dialog.busy = FALSE /\ dialog.open = FALSE
        /\ form.submitting = FALSE
    BY DEF Init, Loading, Closed, NoForm
  <1> QED
    BY <1>4, <1>5 DEF Waits, OneFor, DeletingFor

(* What each step keeps about flags and requests holds always.             *)
THEOREM WaitsAlways == Spec => []Waits
  <1>1. Init => Waits
    BY InitWaits
  <1>2. TypeOK /\ Sound(shards) /\ Waits /\ [Next]_vars => Waits'
    BY WaitsStep
  <1> QED
    BY <1>1, <1>2, TypeCorrect, PTL DEF Spec

(* Spinner, busy dialog and busy form stand for exactly one outstanding    *)
(* request each, and the disabled button for a deletion that is under way  *)
(* (the finally clauses and awaits of the handlers of the page), however   *)
(* many requests are outstanding.                                          *)
THEOREM Waiting == Spec => []BusyIsOutstanding
  <1>1. Waits => BusyIsOutstanding
    BY DEF Waits, OneFor, DeletingFor, DeleteCalls, BusyIsOutstanding
  <1> QED
    BY <1>1, WaitsAlways, PTL

(* The migration dialog is the dialog of SubmitDialog, whatever happens to *)
(* the page around it: a request at a time, no way out while it is         *)
(* outstanding, and an answer that closes the dialog or shows an error     *)
(* (handleMigration, handleClose).                                         *)
THEOREM DialogPromise == Spec => MigrationDialogPromise
  <1>1. Init => MigrationDialog!Init
    BY SMTT(30) DEF Init, Closed, MigrationDialog!Init
  <1>2. TypeOK /\ Waits /\ [Next]_vars => [MigrationDialog!Next]_MigrationDialog!vars
    <2> SUFFICES ASSUME TypeOK, Waits, [Next]_vars
                 PROVE  [MigrationDialog!Next]_MigrationDialog!vars
      OBVIOUS
    <2> USE DEF MigrationDialog!vars, MigrationDialog!Next
    <2>0. dialog \in DialogType
      BY DEF TypeOK
    <2>1. ASSUME dialog' = Closed PROVE MigrationDialog!Unload
      BY <2>1 DEF Closed, MigrationDialog!Unload
    <2>2. ASSUME NEW c \in Call, MigrateDone(c) PROVE MigrationDialog!Next
      <3>1. c \in MigrateCalls
        BY <2>2 DEF MigrateDone, AnsweredTo, Answered, MigrateCalls
      <3>2. dialog.busy
        BY <3>1 DEF Waits, OneFor
      <3>3. CASE dialog' = [dialog EXCEPT !.busy = FALSE, !.failed = TRUE]
        BY <2>0, <3>2, <3>3 DEF DialogType, MigrationDialog!Fail
      <3> QED
        BY <2>1, <2>2, <3>3 DEF MigrateDone
    <2>3. ASSUME NEW c \in Call, Submit(c) PROVE MigrationDialog!Next
      BY <2>0, <2>3 DEF Submit, DialogType, MigrationDialog!Reject, MigrationDialog!Submit
    <2>4. ASSUME OpenDialog PROVE MigrationDialog!Next
      BY <2>0, <2>4 DEF OpenDialog, Reachable, DialogType, MigrationDialog!Open
    <2>5. ASSUME DismissError PROVE MigrationDialog!Next
      BY <2>0, <2>5 DEF DismissError, DialogType, MigrationDialog!Dismiss
    <2>6. ASSUME PickTarget PROVE UNCHANGED MigrationDialog!vars
      BY <2>0, <2>6 DEF PickTarget, DialogType
    <2>7. ASSUME \E c \in Call : Reload(c) PROVE MigrationDialog!Next
      BY <2>1, <2>7 DEF Reload
    <2>8. ASSUME CloseDialog PROVE MigrationDialog!Next
      BY <2>1, <2>8 DEF CloseDialog
    <2>9. ASSUME NEW c \in Call, Serve(c) PROVE UNCHANGED dialog
      BY <2>9 DEF Serve, ServeList, ServeDelete, ServeCreate, ServeMigrate, LoseRequest
    <2>10. ASSUME NEW c \in Call, Continue(c)
           PROVE  MigrateDone(c) \/ (\E d \in Call : Reload(d)) \/ UNCHANGED dialog
      BY <2>10 DEF Continue, LoadDone, DeleteDone, DeleteListed, FormDone, Ignore
    <2>11. ASSUME NEW c \in Call, User(c)
           PROVE  Submit(c) \/ Reload(c) \/ UNCHANGED dialog
      BY <2>11 DEF User, DeleteClick, SubmitForm
    <2>12. ASSUME OpenForm \/ LeaveForm \/ Others \/ UNCHANGED vars PROVE UNCHANGED dialog
      BY <2>12 DEF OpenForm, LeaveForm, Others, vars
    <2> QED
      BY <2>2, <2>3, <2>4, <2>5, <2>6, <2>7, <2>8, <2>9, <2>10, <2>11, <2>12 DEF Next
  <1> QED
    BY <1>1, <1>2, TypeCorrect, WaitsAlways, PTL DEF Spec, MigrationDialogPromise,
        MigrationDialog!Spec

-----------------------------------------------------------------------------
(* How current the rows are *)

(* A list that was read at the present version is the present list.        *)
CallCurrent(c) ==
    calls[c] # NoCall =>
        /\ calls[c].read <= version
        /\ calls[c].read = version => calls[c].status = "data" /\ calls[c].list = shards

PageCurrent ==
    /\ page.read <= version
    /\ page.read = version => page.rows \in {LoadedRows(shards), DeletedRows(shards)}

Current == version > 0 /\ PageCurrent /\ \A c \in Call : CallCurrent(c)

(* A request is left alone, taken away, forgotten by its handler, new or   *)
(* refused, or answered with the present list.                             *)
CallStep(c) ==
    \/ calls'[c] = calls[c]
    \/ calls'[c] = NoCall
    \/ calls[c] # NoCall /\ \E f : calls'[c] = [calls[c] EXCEPT !.for = f]
    \/ calls'[c].read = 0
    \/ /\ UNCHANGED server
       /\ calls'[c].status = "data" /\ calls'[c].list = shards /\ calls'[c].read = version

(* The rows are left alone, thrown away or computed from an answer.        *)
PageStep ==
    \/ page'.rows = page.rows /\ page'.read = page.read
    \/ page'.read = 0
    \/ /\ UNCHANGED server
       /\ \E c \in Call :
            LET list == FetchedList(calls[c].status, calls[c].list) IN
            /\ calls[c] # NoCall /\ page'.read = calls[c].read
            /\ page'.rows \in {LoadedRows(list), DeletedRows(list)}

(* Loading the page anew throws all away.                                  *)
LEMMA ReloadSteps ==
    ASSUME TypeOK, NEW c \in Call, Reload(c)
    PROVE  PageStep /\ \A d \in Call : CallStep(d)
  <1>1. PageStep
    BY DEF Reload, Loading, PageStep
  <1>2. calls' = [Orphaned EXCEPT ![c] = ListShards("load")]
    BY DEF Reload
  <1>3. ASSUME NEW d \in Call PROVE CallStep(d)
    <2>1. CASE d = c
      <3>1. calls'[c] = ListShards("load")
        BY <1>2 DEF Orphaned
      <3> QED
        BY <2>1, <3>1, SMTT(30) DEF ListShards, Request, CallStep
    <2>2. CASE d # c
      <3>1. calls'[d] = NoCall \/ (calls[d] # NoCall /\ calls'[d] = [calls[d] EXCEPT !.for = "gone"])
        BY <1>2, <2>2 DEF Orphaned, Sent, Outstanding
      <3> QED
        BY <3>1 DEF CallStep
    <2> QED
      BY <2>1, <2>2
  <1> QED
    BY <1>1, <1>3

(* What every step does to the requests and to the rows.                   *)
LEMMA BrowserSteps ==
    ASSUME TypeOK, Sound(shards), [Next]_vars
    PROVE  PageStep /\ \A d \in Call : CallStep(d)
  <1>0. /\ page \in PageType /\ shards \in Seq(Shard)
        /\ calls \in [Call -> CallType \cup {NoCall}]
    BY DEF TypeOK
  <1>1. UNCHANGED page => PageStep
    BY DEF PageStep
  <1>2. UNCHANGED calls => \A d \in Call : CallStep(d)
    BY DEF CallStep
  <1>3. ASSUME NEW c \in Call, NEW request, calls' = [calls EXCEPT ![c] = request],
               request = NoCall \/ request.read = 0
        PROVE  \A d \in Call : CallStep(d)
    BY <1>0, <1>3 DEF CallStep
  <1>4. ASSUME NEW c \in Call, Serve(c) PROVE PageStep /\ \A d \in Call : CallStep(d)
    <2>1. ServeList(c) \/ Answering(c)
      BY <1>0, <1>4, ServeStep
    <2>2. PageStep
      BY <1>1, <2>1 DEF ServeList, Answering
    <2>3. CASE ServeList(c)
      <3>1. calls[c] \in CallType /\ UNCHANGED server
        BY <1>0, <2>3 DEF ServeList, Sent, Outstanding
      <3>2. calls'[c].status = "data" /\ calls'[c].list = shards /\ calls'[c].read = version
        BY <1>0, <2>3, <3>1 DEF ServeList, CallType
      <3>3. \A d \in Call \ {c} : calls'[d] = calls[d]
        BY <1>0, <2>3 DEF ServeList
      <3> QED
        BY <2>2, <3>1, <3>2, <3>3 DEF CallStep
    <2>4. CASE Answering(c)
      <3>1. PICK r : calls' = Reply(c, r)
        BY <2>4 DEF Answering
      <3>2. calls'[c].read = 0 /\ \A d \in Call \ {c} : calls'[d] = calls[d]
        BY <1>0, <3>1 DEF Reply, Request
      <3> QED
        BY <2>2, <3>2 DEF CallStep
    <2> QED
      BY <2>1, <2>3, <2>4
  <1>5. ASSUME NEW c \in Call, Continue(c) PROVE PageStep /\ \A d \in Call : CallStep(d)
    <2>1. Done(c) => \A d \in Call : CallStep(d)
      BY <1>3 DEF Done
    <2>2. CASE LoadDone(c)
      <3>1. /\ Done(c) /\ UNCHANGED server /\ calls[c] # NoCall
            /\ page'.read = calls[c].read
            /\ page'.rows = LoadedRows(FetchedList(calls[c].status, calls[c].list))
        BY <1>0, <2>2 DEF LoadDone, Answered, Outstanding, Shown, PageType
      <3> QED
        BY <2>1, <3>1 DEF PageStep
    <2>3. CASE DeleteListed(c)
      <3>1. /\ Done(c) /\ UNCHANGED server /\ calls[c] # NoCall
            /\ page'.read = calls[c].read
            /\ page'.rows = DeletedRows(FetchedList(calls[c].status, calls[c].list))
        BY <1>0, <2>3 DEF DeleteListed, AnsweredTo, Answered, Outstanding, Shown, PageType
      <3> QED
        BY <2>1, <3>1 DEF PageStep
    <2>4. CASE DeleteDone(c)
      <3>1. page'.rows = page.rows /\ page'.read = page.read
        BY <1>0, <2>4 DEF DeleteDone, PageType
      <3>2. Request("list", "delete", calls[c].index, NoShard, 0).read = 0
        BY DEF Request
      <3> QED
        BY <1>3, <2>1, <2>4, <3>1, <3>2 DEF DeleteDone, PageStep
    <2>5. CASE MigrateDone(c)
      <3>1. page'.rows = page.rows /\ page'.read = page.read
        BY <1>0, <2>5 DEF MigrateDone, PageType
      <3>2. CASE calls' = [Unmounted EXCEPT ![c] = ListShards("refresh")]
        <4>1. calls'[c].read = 0
          BY <3>2 DEF Unmounted, ListShards, Request
        <4>2. ASSUME NEW d \in Call \ {c}
              PROVE  \/ calls'[d] = calls[d]
                     \/ calls[d] # NoCall /\ calls'[d] = [calls[d] EXCEPT !.for = "stray"]
          BY <3>2 DEF Unmounted, Outstanding
        <4> QED
          BY <3>1, <4>1, <4>2 DEF PageStep, CallStep
      <3> QED
        BY <2>1, <2>5, <3>1, <3>2 DEF MigrateDone, PageStep
    <2>6. CASE FormDone(c) \/ Ignore(c)
      BY <1>1, <2>1, <2>6, ReloadSteps DEF FormDone, Ignore
    <2> QED
      BY <1>5, <2>2, <2>3, <2>4, <2>5, <2>6 DEF Continue
  <1>6. ASSUME NEW c \in Call, User(c) PROVE PageStep /\ \A d \in Call : CallStep(d)
    <2>1. CASE DeleteClick(c)
      <3>1. page'.rows = page.rows /\ page'.read = page.read
        BY <1>0, <2>1 DEF DeleteClick, PageType
      <3>2. \E request : request.read = 0 /\ calls' = [calls EXCEPT ![c] = request]
        BY <2>1 DEF DeleteClick, Request
      <3> QED
        BY <1>3, <3>1, <3>2 DEF PageStep
    <2>2. CASE Submit(c)
      <3>1. UNCHANGED calls \/ \E request : request.read = 0 /\ calls' = [calls EXCEPT ![c] = request]
        BY <2>2 DEF Submit, MigrationRequest, Request
      <3> QED
        BY <1>1, <1>2, <1>3, <2>2, <3>1 DEF Submit
    <2>3. CASE SubmitForm(c)
      <3>1. \E request : request.read = 0 /\ calls' = [calls EXCEPT ![c] = request]
        BY <2>3 DEF SubmitForm, Request
      <3> QED
        BY <1>1, <1>3, <2>3, <3>1 DEF SubmitForm
    <2> QED
      BY <1>6, <2>1, <2>2, <2>3, ReloadSteps DEF User
  <1>7. CASE OpenDialog \/ PickTarget \/ CloseDialog \/ DismissError \/ OpenForm \/ LeaveForm
                \/ Others \/ UNCHANGED vars
    BY <1>1, <1>2, <1>7 DEF OpenDialog, PickTarget, CloseDialog, DismissError, OpenForm, LeaveForm,
                            Others, vars
  <1> QED
    BY <1>4, <1>5, <1>6, <1>7 DEF Next

(* A change of the list leaves no list or row that passes for current.     *)
LEMMA CurrentStep ==
    ASSUME TypeOK, Sound(shards), Current, [Next]_vars
    PROVE  Current'
  <1>0. /\ version \in Nat /\ version > 0 /\ page \in PageType
        /\ calls \in [Call -> CallType \cup {NoCall}]
    BY DEF TypeOK, Current
  <1>1. PageStep /\ \A d \in Call : CallStep(d)
    BY BrowserSteps
  <1>2. (UNCHANGED <<shards, version>>) \/ version' = version + 1
    BY NextServerStep DEF TypeOK, ServerStep, Store, server
  <1>3. version' \in Nat /\ version' > 0
    BY <1>0, <1>2, SMTT(30)
  <1>4. ASSUME NEW d \in Call PROVE CallCurrent(d)'
    <2>1. CallCurrent(d) /\ CallStep(d)
      BY <1>1 DEF Current
    <2>2. CASE calls'[d] = NoCall
      BY <2>2 DEF CallCurrent
    <2>3. CASE calls'[d].read = 0
      BY <1>3, <2>3, SMTT(30) DEF CallCurrent
    <2>4. CASE /\ UNCHANGED server
               /\ calls'[d].status = "data" /\ calls'[d].list = shards /\ calls'[d].read = version
      BY <1>0, <2>4, SMTT(30) DEF CallCurrent, server
    <2>5. CASE /\ calls[d] # NoCall
               /\ calls'[d] = calls[d] \/ \E f : calls'[d] = [calls[d] EXCEPT !.for = f]
      <3>1. calls[d] \in CallType
        BY <1>0, <2>5
      <3>2. /\ calls'[d].read = calls[d].read /\ calls'[d].list = calls[d].list
            /\ calls'[d].status = calls[d].status /\ calls[d].read \in Nat
        BY <2>5, <3>1 DEF CallType
      <3> QED
        BY <1>0, <1>2, <2>1, <2>5, <3>2, SMTT(30) DEF CallCurrent
    <2> QED
      BY <2>1, <2>2, <2>3, <2>4, <2>5 DEF CallStep
  <1>5. PageCurrent'
    <2>1. CASE page'.rows = page.rows /\ page'.read = page.read
      <3>1. page.read \in Nat
        BY <1>0 DEF PageType
      <3> QED
        BY <1>0, <1>2, <2>1, <3>1, SMTT(30) DEF Current, PageCurrent
    <2>2. CASE page'.read = 0
      BY <1>3, <2>2, SMTT(60) DEF PageCurrent
    <2>3. CASE /\ UNCHANGED server
               /\ \E c \in Call :
                    LET list == FetchedList(calls[c].status, calls[c].list) IN
                    /\ calls[c] # NoCall /\ page'.read = calls[c].read
                    /\ page'.rows \in {LoadedRows(list), DeletedRows(list)}
      <3>1. PICK c \in Call :
                /\ calls[c] # NoCall /\ page'.read = calls[c].read
                /\ page'.rows \in {LoadedRows(FetchedList(calls[c].status, calls[c].list)),
                                   DeletedRows(FetchedList(calls[c].status, calls[c].list))}
        BY <2>3
      <3>2. CallCurrent(c)
        BY DEF Current
      <3>3. calls[c].read = version => FetchedList(calls[c].status, calls[c].list) = shards
        BY <3>1, <3>2 DEF CallCurrent, FetchedList
      <3> QED
        BY <2>3, <3>1, <3>2, <3>3 DEF CallCurrent, PageCurrent, server
    <2> QED
      BY <1>1, <2>1, <2>2, <2>3 DEF PageStep
  <1> QED
    BY <1>3, <1>4, <1>5 DEF Current

(* Rows that were read at the present version are the rows of the present  *)
(* list, in whatever order fetchData, refreshShardData and                 *)
(* handleDeleteShard end.                                                  *)
THEOREM Freshness == Spec => []FreshIsExact
  <1>1. Init => Current
    <2>1. SUFFICES ASSUME Init PROVE Current
      OBVIOUS
    <2>2. \A c \in Call : calls[c] = NoCall \/ calls[c] = ListShards("load")
      BY <2>1 DEF Init, Only
    <2>3. ListShards("load").read = 0
      BY DEF ListShards, Request
    <2>4. version = 1 /\ page.read = 0
      BY <2>1 DEF Init, Loading
    <2> QED
      BY <2>2, <2>3, <2>4, SMTT(60) DEF Current, PageCurrent, CallCurrent
  <1>2. TypeOK /\ Sound(shards) /\ Current /\ [Next]_vars => Current'
    BY CurrentStep
  <1>3. Current => FreshIsExact
    <2>1. SUFFICES ASSUME page.rows \in {LoadedRows(shards), DeletedRows(shards)},
                          NEW i \in DOMAIN shards
                   PROVE  /\ DOMAIN page.rows = DOMAIN shards
                          /\ page.rows[i].shard = Id(shards[i])
                          /\ page.rows[i].hasSlots <=> shards[i].slots # {}
                          /\ page.rows[i].hasMigration => isActiveMigration(shards[i].migrating)
                          /\ IsNonNegative(shards[i].migrating) => page.rows[i].hasMigration
      <3>1. page.rows \in {LoadedRows(shards), DeletedRows(shards)}
                => DOMAIN page.rows = DOMAIN shards
        BY DEF LoadedRows, DeletedRows
      <3> QED
        BY <3>1 DEF Current, PageCurrent, FreshIsExact
    <2>2. DOMAIN page.rows = DOMAIN shards
      BY <2>1 DEF LoadedRows, DeletedRows
    <2>3. \/ page.rows[i] = Row(i, shards[i], isActiveMigration(shards[i].migrating))
          \/ page.rows[i] = Row(i, shards[i], IsNonNegative(shards[i].migrating))
      BY <2>1 DEF LoadedRows, DeletedRows
    <2>4. ASSUME NEW slots \in BOOLEAN, NEW active \in BOOLEAN,
                 slots <=> shards[i].slots # {},
                 active => isActiveMigration(shards[i].migrating),
                 IsNonNegative(shards[i].migrating) => active,
                 page.rows[i] = [index |-> i, shard |-> Id(shards[i]), hasSlots |-> slots,
                                 hasMigration |-> active,
                                 target |-> TargetShardIndex(shards[i])]
          PROVE  /\ page.rows[i].shard = Id(shards[i])
                 /\ page.rows[i].hasSlots <=> shards[i].slots # {}
                 /\ page.rows[i].hasMigration => isActiveMigration(shards[i].migrating)
                 /\ IsNonNegative(shards[i].migrating) => page.rows[i].hasMigration
      <3>1. /\ page.rows[i].shard = Id(shards[i])
            /\ page.rows[i].hasSlots = slots
            /\ page.rows[i].hasMigration = active
        BY <2>4, SMTT(60)
      <3> QED
        BY <2>4, <3>1
    <2>5. IsNonNegative(shards[i].migrating) => isActiveMigration(shards[i].migrating)
      BY DEF IsNonNegative, isActiveMigration
    <2>6. PICK slots \in BOOLEAN : slots = (shards[i].slots # {})
      OBVIOUS
    <2>7. PICK active \in BOOLEAN :
              /\ active => isActiveMigration(shards[i].migrating)
              /\ IsNonNegative(shards[i].migrating) => active
              /\ page.rows[i] = Row(i, shards[i], active)
      <3>1. CASE page.rows[i] = Row(i, shards[i], isActiveMigration(shards[i].migrating))
        BY <2>5, <3>1 DEF isActiveMigration
      <3>2. CASE page.rows[i] = Row(i, shards[i], IsNonNegative(shards[i].migrating))
        BY <2>5, <3>2 DEF IsNonNegative
      <3> QED
        BY <2>3, <3>1, <3>2
    <2> QED
      BY <2>2, <2>4, <2>6, <2>7 DEF Row
  <1> QED
    BY <1>1, <1>2, <1>3, TypeCorrect, PTL DEF Spec
=============================================================================
