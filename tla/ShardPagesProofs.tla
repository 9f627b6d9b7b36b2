-------------------------- MODULE ShardPagesProofs ---------------------------
(***************************************************************************)
(* Proofs about what the page of a shard and the pages of its nodes show   *)
(* and ask for, on top of ShardPagesTypes: they show what has been done    *)
(* from them, the numbers in their addresses and links denote what they    *)
(* stood for until something is removed, and a removal takes away the node *)
(* that was confirmed.                                                     *)
(***************************************************************************)
EXTENDS ShardPagesTypes

-----------------------------------------------------------------------------
(* The page shows what it has done *)

(* Nodes that were asked for are read after what has been done, unless     *)
(* they were asked for twice at a time.                                    *)
WritesInv ==
    /\ page.done <= version
    /\ \A c \in Call : calls[c] # NoCall => calls[c].read <= version
    /\ ~page.overlap =>
        /\ \A c \in Call : Outstanding(c, "nodes") =>
                calls[c].read = 0 \/ calls[c].read >= page.done
        /\ ~Fetching => page.read = 0 \/ page.read >= page.done
    /\ view = "node" => page.read = 0

(* One request changes or goes.  What it is answered with, if it asked for *)
(* nodes, is what the page shows then.                                     *)
LEMMA WritesSlot ==
    ASSUME WritesInv, NEW c \in Call, \A d \in Call : d # c => calls'[d] = calls[d],
           version' = version, page'.done = page.done, page'.overlap = page.overlap,
           view' = "node" => page'.read = 0,
           calls'[c] = NoCall \/ calls'[c].read = 0, version \in Nat,
           \/ page'.read = page.read /\ ~Outstanding(c, "nodes")
           \/ page'.read = calls[c].read /\ Outstanding(c, "nodes")
           \/ page'.read = 0
    PROVE  WritesInv'
  <1>1. \A d \in Call : calls'[d] # NoCall => calls'[d].read <= version'
    BY DEF WritesInv
  <1>2. ~page'.overlap => \A d \in Call : Outstanding(d, "nodes")' =>
                calls'[d].read = 0 \/ calls'[d].read >= page'.done
    BY DEF WritesInv, Outstanding
  <1>3. ~page'.overlap /\ ~Fetching' => page'.read = 0 \/ page'.read >= page'.done
    <2> SUFFICES ASSUME ~page'.overlap, ~Fetching'
                 PROVE  page'.read = 0 \/ page'.read >= page'.done
      OBVIOUS
    <2>1. CASE page'.read = page.read /\ ~Outstanding(c, "nodes")
      <3>1. ~Fetching
        BY <2>1 DEF Fetching, Outstanding
      <3> QED
        BY <2>1, <3>1 DEF WritesInv
    <2>2. CASE page'.read = calls[c].read /\ Outstanding(c, "nodes")
      BY <2>2 DEF WritesInv
    <2> QED
      BY <2>1, <2>2
  <1>4. page'.done <= version'
    BY DEF WritesInv
  <1> QED
    BY <1>1, <1>2, <1>3, <1>4 DEF WritesInv

(* A page that has just been opened shows nothing and has no write of its  *)
(* own.                                                                    *)
LEMMA WritesOpen ==
    ASSUME Open, view' = "shard", version' \in Nat
    PROVE  WritesInv'
  <1>1. /\ page' = Loading /\ calls'[First] = FetchShard("load")
        /\ \A c \in Call : c # First => calls'[c] = NoCall
    BY OpenResult
  <1>2. FetchShard("load").read = 0
    BY FetchShardResult
  <1>3. page'.done = 0 /\ page'.read = 0
    BY <1>1 DEF Loading
  <1>4. \A c \in Call : calls'[c] # NoCall => calls'[c].read = 0
    BY <1>1, <1>2
  <1> QED
    BY <1>3, <1>4 DEF WritesInv, Outstanding

(* Neither has a page that has been left for the page of a node.           *)
LEMMA WritesGoTo ==
    ASSUME NEW index \in Nat, NEW n \in Node \cup {0}, NEW from \in Nat, NEW seen \in Nat,
           GoTo(index, n, from, seen), version' \in Nat, page'.read = 0,
           page'.done <= version', page'.done \in Nat
    PROVE  WritesInv'
  <1>1. PICK c \in Call, d \in Call :
            /\ calls'[c] = Request("nodes", "visit", At, Automatic)
            /\ calls'[d] = Request("nodes", "nodeSide", At, Automatic)
            /\ \A e \in Call \ {c, d} : calls'[e] = NoCall
    BY GoToResult
  <1>2. Request("nodes", "visit", At, Automatic).read = 0
    BY VisitRequestResult
  <1>3. Request("nodes", "nodeSide", At, Automatic).read = 0
    BY VisitRequestResult
  <1>4. \A e \in Call : calls'[e] # NoCall => calls'[e].read = 0
    BY <1>1, <1>2, <1>3
  <1> QED
    BY <1>4 DEF WritesInv, Outstanding

(* Nodes are asked for after what has been done, for the first time or     *)
(* twice at a time.                                                        *)
LEMMA WritesStartFetch ==
    ASSUME TypeInv, WritesInv, NEW c \in Call, calls[c] \in CallType, view' = "shard",
           NEW for \in {"refresh", "delete"}, StartFetch(c, for), version' = version
    PROVE  WritesInv'
  <1>0. ShardTypes /\ calls \in CallSlots /\ version \in Nat /\ page \in PageType
    BY DEF TypeInv, ShardTypes, ServerInv
  <1>1. /\ page'.done = IF calls[c].read > page.done THEN calls[c].read ELSE page.done
        /\ page'.overlap <=> page.overlap \/ Fetching
        /\ calls'[c] = FetchShard(for)
        /\ \A d \in Call : d # c => calls'[d] = Unmounted[d]
    BY <1>0, StartFetchResult
  <1>2. calls'[c] # NoCall /\ calls'[c].op = "nodes" /\ calls'[c].read = 0
    BY <1>1, FetchShardResult
  <1>3. ASSUME NEW d \in Call, d # c, calls'[d] # NoCall
        PROVE  /\ calls[d] # NoCall /\ calls'[d].op = calls[d].op /\ calls'[d].read = calls[d].read
    <2>1. calls[d] \in CallType /\ (calls'[d] = calls[d] \/ calls'[d] = [calls[d] EXCEPT !.for = "stray"])
      BY <1>0, <1>1, <1>3, UnmountedResult
    <2>2. calls[d] # NoCall
      BY <2>1, NoCallAssumption
    <2>3. ASSUME calls'[d] = [calls[d] EXCEPT !.for = "stray"]
          PROVE  calls'[d].op = calls[d].op /\ calls'[d].read = calls[d].read
      BY <2>1, <2>3, StrayFields
    <2> QED
      BY <2>1, <2>2, <2>3
  <1>4. page'.done <= version'
    <2>1. calls[c].read <= version /\ page.done <= version
      BY NoCallAssumption DEF WritesInv
    <2> QED
      BY <1>1, <2>1
  <1>5. \A d \in Call : calls'[d] # NoCall => calls'[d].read <= version'
    BY <1>0, <1>2, <1>3 DEF WritesInv
  <1>6. ~page'.overlap => \A d \in Call : Outstanding(d, "nodes")' => calls'[d].read = 0
    <2> SUFFICES ASSUME ~page'.overlap, NEW d \in Call, calls'[d] # NoCall, calls'[d].op = "nodes"
                 PROVE  calls'[d].read = 0
      BY DEF Outstanding
    <2>1. ~Fetching
      BY <1>1
    <2>2. d = c
      BY <1>3, <2>1 DEF Fetching, Outstanding
    <2> QED
      BY <1>2, <2>2
  <1>7. Fetching'
    BY <1>2 DEF Fetching, Outstanding
  <1>8. view' # "node"
    OBVIOUS
  <1> QED
    BY <1>4, <1>5, <1>6, <1>7, <1>8, Zenon DEF WritesInv

(* A continuation of the shard page shows what was read after the page's   *)
(* own writes, or waits for a fetch sent after them.                       *)
LEMMA WritesShardContinue ==
    ASSUME TypeInv, WritesInv, view = "shard", NEW c \in Call, ShardContinue(c),
           UNCHANGED <<visit, view>>
    PROVE  WritesInv'
  <1>0. /\ ShardTypes /\ page \in PageType /\ calls \in CallSlots /\ version \in Nat
        /\ view' = "shard" /\ view' # "node"
    BY DEF TypeInv, ShardTypes, ServerInv
  <1>1. version' = version
    BY <1>0, ShardContinueTypes DEF server
  <1> DEFINE q == Request("shards", "side", 0, Automatic)
  <1>2. q.read = 0
    BY SideRequestResult
  <1> HIDE DEF q
  <1>3. ASSUME NEW after \in PageType, EndLoading(c, after), calls[c] \in CallType,
               after.done = page.done, after.overlap = page.overlap,
               \/ after.read = page.read /\ calls[c].op # "nodes"
               \/ after.read = calls[c].read /\ calls[c].op = "nodes"
        PROVE  WritesInv'
    <2>1. /\ page'.done = page.done /\ page'.overlap = page.overlap /\ page'.read = after.read
          /\ calls'[c] \in {NoCall, q} /\ \A d \in Call : d # c => calls'[d] = calls[d]
      BY <1>0, <1>3, EndLoadingResult DEF q
    <2>2. calls'[c] = NoCall \/ calls'[c].read = 0
      BY <1>2, <2>1
    <2>3. calls[c] # NoCall
      BY <1>3, NoCallAssumption
    <2>4. \/ page'.read = page.read /\ ~Outstanding(c, "nodes")
          \/ page'.read = calls[c].read /\ Outstanding(c, "nodes")
      BY <1>3, <2>1, <2>3 DEF Outstanding
    <2> QED
      BY <1>0, <1>1, <2>1, <2>2, <2>4, WritesSlot
  <1>4. ASSUME Done(c), page' = page, calls[c] \in CallType, calls[c].op # "nodes"
        PROVE  WritesInv'
    <2>1. calls'[c] = NoCall /\ \A d \in Call : d # c => calls'[d] = calls[d]
      BY <1>0, <1>4, DoneResult
    <2>2. ~Outstanding(c, "nodes")
      BY <1>4 DEF Outstanding
    <2> QED
      BY <1>0, <1>1, <1>4, <2>1, <2>2, WritesSlot
  <1>5. CASE LoadDone(c)
    <2>1. calls[c] \in CallType /\ EndLoading(c, Shown(c)) /\ calls[c].op = "nodes"
      BY <1>0, <1>5, AnsweredResult DEF LoadDone, AnsweredTo
    <2>2. /\ Shown(c) \in PageType /\ Shown(c).read = calls[c].read
          /\ Shown(c).done = page.done /\ Shown(c).overlap = page.overlap
      BY <1>0, <2>1, ShownResult
    <2> QED
      BY <1>3, <2>1, <2>2
  <1>6. CASE SideLoaded(c)
    <2>1. calls[c] \in CallType /\ calls[c].op = "shards" /\ Done(c) /\ page' = page
      BY <1>0, <1>6, AnsweredResult DEF SideLoaded, AnsweredTo
    <2> QED
      BY <1>4, <2>1
  <1>7. CASE DeleteDone(c)
    <2>1. calls[c] \in CallType /\ calls[c].op = "removeNode"
      BY <1>0, <1>7, AnsweredResult DEF DeleteDone, AnsweredTo
    <2>2. CASE EndLoading(c, [page EXCEPT !.deleting = 0])
      <3> DEFINE after == [page EXCEPT !.deleting = 0]
      <3>1. /\ after \in PageType /\ after.read = page.read
            /\ after.done = page.done /\ after.overlap = page.overlap
        BY <1>0 DEF PageType
      <3> HIDE DEF after
      <3> QED
        BY <1>3, <2>1, <2>2, <3>1 DEF after
    <2>3. CASE StartFetch(c, "delete")
      BY <1>0, <1>1, <2>1, <2>3, WritesStartFetch
    <2> QED
      BY <1>7, <2>2, <2>3 DEF DeleteDone
  <1>8. CASE DeleteFetched(c)
    <2> DEFINE after == [Shown(c) EXCEPT !.deleting = 0]
    <2>1. calls[c] \in CallType /\ calls[c].op = "nodes" /\ EndLoading(c, after)
      BY <1>0, <1>8, AnsweredResult DEF DeleteFetched, AnsweredTo
    <2>2. /\ Shown(c) \in PageType /\ Shown(c).read = calls[c].read
          /\ Shown(c).done = page.done /\ Shown(c).overlap = page.overlap
      BY <1>0, <2>1, ShownResult
    <2>3. /\ after \in PageType /\ after.read = calls[c].read
          /\ after.done = page.done /\ after.overlap = page.overlap
      BY <2>2 DEF PageType
    <2> HIDE DEF after
    <2> QED
      BY <1>3, <2>1, <2>3
  <1>9. CASE FailoverDone(c)
    <2>1. calls[c] \in CallType /\ calls[c].op = "failover"
      BY <1>0, <1>9, AnsweredResult DEF FailoverDone
    <2>2. CASE Done(c) /\ page' = page
      BY <1>4, <2>1, <2>2
    <2>3. CASE StartFetch(c, "refresh")
      BY <1>0, <1>1, <2>1, <2>3, WritesStartFetch
    <2> QED
      BY <1>9, <2>2, <2>3 DEF FailoverDone
  <1>10. CASE FormDone(c)
    <2>1. calls[c] \in CallType /\ calls[c].op = "createNode"
      BY <1>0, <1>10, AnsweredResult DEF FormDone
    <2>2. CASE Done(c) /\ page' = page
      BY <1>4, <2>1, <2>2
    <2>3. CASE Open
      BY <1>0, <1>1, <2>3, WritesOpen
    <2> QED
      BY <1>10, <2>2, <2>3 DEF FormDone
  <1>11. CASE ConfirmDone(c)
    <2>1. calls[c] \in CallType /\ calls[c].op = "removeShard"
      BY <1>0, <1>11, AnsweredResult DEF ConfirmDone
    <2>2. CASE Done(c) /\ page' = page
      BY <1>4, <2>1, <2>2
    <2>3. CASE Open
      BY <1>0, <1>1, <2>3, WritesOpen
    <2> QED
      BY <1>11, <2>2, <2>3 DEF ConfirmDone, shardVars
  <1> QED
    BY <1>5, <1>6, <1>7, <1>8, <1>9, <1>10, <1>11 DEF ShardContinue

(* The server reads and writes at its present version.                     *)
LEMMA WritesServe ==
    ASSUME TypeInv, WritesInv, NEW c \in Call, Serve(c), UNCHANGED <<shardVars, visit, view>>
    PROVE  WritesInv'
  <1>0. /\ ServerInv /\ calls \in CallSlots /\ version \in Nat /\ page \in PageType
        /\ page' = page /\ view' = view /\ page.done \in Nat /\ page.done <= version
    BY PageFields DEF TypeInv, ShardTypes, ServerInv, shardVars, WritesInv
  <1>1. Moves /\ Answers(c)
    BY <1>0, ServeResult
  <1>2. version' \in Nat /\ version <= version'
    BY <1>0, <1>1 DEF Moves, server
  <1>3. /\ calls[c] # NoCall /\ calls'[c] # NoCall /\ calls'[c].op = calls[c].op
        /\ calls'[c].read \in {0, version', calls[c].read} /\ calls[c].read \in Nat
        /\ \A d \in Call : d # c => calls'[d] = calls[d]
    BY <1>1, CallFields, NoCallAssumption DEF Answers
  <1>4. \A d \in Call : calls'[d] # NoCall => calls'[d].read <= version'
    <2>1. ASSUME NEW d \in Call, calls[d] # NoCall PROVE calls[d].read <= version'
      <3>1. calls[d].read \in Nat /\ calls[d].read <= version
        BY <1>0, <2>1, CallFields DEF CallSlots, WritesInv
      <3> QED
        BY <1>0, <1>2, <3>1
    <2> QED
      BY <1>2, <1>3, <2>1
  <1>5. calls[c].op = "nodes" => calls'[c].read = 0 \/ calls'[c].read = version
    BY <1>1 DEF Answers, AnswersNodes
  <1>6. Fetching' <=> Fetching
    BY <1>3 DEF Fetching, Outstanding
  <1>7. ASSUME ~page'.overlap, NEW d \in Call, Outstanding(d, "nodes")'
        PROVE  calls'[d].read = 0 \/ calls'[d].read >= page'.done
    <2>1. CASE d = c
      BY <1>0, <1>3, <1>5, <1>7, <2>1 DEF Outstanding
    <2>2. CASE d # c
      BY <1>0, <1>3, <1>7, <2>2 DEF Outstanding, WritesInv
    <2> QED
      BY <2>1, <2>2
  <1>8. page'.done <= version'
    BY <1>0, <1>2
  <1>9. ~page'.overlap /\ ~Fetching' => page'.read = 0 \/ page'.read >= page'.done
    BY <1>0, <1>6 DEF WritesInv
  <1>10. view' = "node" => page'.read = 0
    BY <1>0 DEF WritesInv
  <1> QED
    BY <1>4, <1>7, <1>8, <1>9, <1>10 DEF WritesInv

(* Every step keeps the reads of the page behind its writes accounted for. *)
LEMMA WritesStep == TypeInv /\ WritesInv /\ [Next]_vars => WritesInv'
  <1> SUFFICES ASSUME TypeInv, WritesInv, [Next]_vars PROVE WritesInv'
    OBVIOUS
  <1>0. /\ ServerInv /\ ShardTypes /\ visit \in VisitType /\ calls \in CallSlots
        /\ version \in Nat /\ page \in PageType
    BY DEF TypeInv, ServerInv, ShardTypes
  <1>a. UNCHANGED server => version' = version /\ version' \in Nat
    BY <1>0 DEF server
  <1>1. CASE UNCHANGED vars
    BY <1>1 DEF vars, server, shardVars, WritesInv, Fetching, Outstanding
  <1>2. ASSUME NEW c \in Call, Serve(c), UNCHANGED <<shardVars, visit, view>>
        PROVE  WritesInv'
    BY <1>2, WritesServe
  <1>3. CASE Others /\ UNCHANGED <<shardVars, visit, view, calls>>
    <2>1. version' \in Nat /\ version <= version'
      BY <1>0, <1>3, OthersMove DEF Moves, server
    <2>2. UNCHANGED <<page, view, calls>> /\ page.done \in Nat
      BY <1>0, <1>3, PageFields DEF shardVars
    <2>3. \A d \in Call : calls'[d] # NoCall => calls'[d].read <= version'
      <3> SUFFICES ASSUME NEW d \in Call, calls[d] # NoCall PROVE calls[d].read <= version'
        BY <2>2
      <3>1. calls[d].read \in Nat /\ calls[d].read <= version
        BY <1>0, CallFields DEF CallSlots, WritesInv
      <3> QED
        BY <1>0, <2>1, <3>1
    <2>4. page'.done <= version'
      BY <1>0, <2>1, <2>2 DEF WritesInv
    <2> QED
      BY <2>2, <2>3, <2>4 DEF WritesInv, Fetching, Outstanding
  <1>4. ASSUME NEW c \in Call, view = "shard", ShardContinue(c), UNCHANGED <<visit, view>>
        PROVE  WritesInv'
    BY <1>4, WritesShardContinue
  <1>5. ASSUME NEW c \in Call, calls[c] = NoCall, UNCHANGED <<server, view>>,
               \A d \in Call : d # c => calls'[d] = calls[d], calls'[c].read = 0,
               page'.read = page.read, page'.done = page.done, page'.overlap = page.overlap
        PROVE  WritesInv'
    <2>1. ~Outstanding(c, "nodes")
      BY <1>5 DEF Outstanding
    <2>2. view' = "node" => page'.read = 0
      BY <1>5 DEF WritesInv
    <2> QED
      BY <1>0, <1>5, <1>a, <2>1, <2>2, WritesSlot
  <1>6. ASSUME NEW c \in Call, ShardUser(c), UNCHANGED <<visit, view>>
        PROVE  WritesInv'
    <2>1. CASE DeleteClick(c)
      <3>1. /\ calls[c] = NoCall /\ \A d \in Call : d # c => calls'[d] = calls[d]
            /\ calls'[c].read = 0 /\ UNCHANGED server
            /\ page' = [page EXCEPT !.deleting = page'.deleting]
        BY <1>0, <2>1, DeleteClickResult
      <3>2. page'.read = page.read /\ page'.done = page.done /\ page'.overlap = page.overlap
        BY <1>0, <3>1 DEF PageType
      <3> QED
        BY <1>5, <1>6, <3>1, <3>2
    <2>2. CASE handleFailover(c) \/ SubmitForm(c) \/ confirmDelete(c)
      <3>1. /\ calls[c] = NoCall /\ \A d \in Call : d # c => calls'[d] = calls[d]
            /\ calls'[c].read = 0 /\ UNCHANGED <<server, page>>
        BY <1>0, <2>2, OtherRequestsResult
      <3> QED
        BY <1>5, <1>6, <3>1
    <2> QED
      BY <1>6, <2>1, <2>2 DEF ShardUser
  <1>7. CASE ShardClick /\ UNCHANGED <<visit, view>>
    <2>1. UNCHANGED <<server, page, calls, view>>
      BY <1>0, <1>7, ShardClickResult
    <2> QED
      BY <1>a, <2>1 DEF WritesInv, Fetching, Outstanding
  <1>8. ASSUME NEW c \in Call, view = "node", NodeContinue(c) \/ confirmDeleteNode(c),
               UNCHANGED <<shardVars, view>>
        PROVE  WritesInv'
    <2>0. page' = page /\ page.read = 0 /\ view' = "node"
      BY <1>8 DEF shardVars, WritesInv
    <2>1. CASE confirmDeleteNode(c)
      <3>1. /\ calls[c] = NoCall /\ \A d \in Call : d # c => calls'[d] = calls[d]
            /\ calls'[c].read = 0 /\ UNCHANGED server
        BY <1>0, <2>1, ConfirmDeleteNodeResult
      <3> QED
        BY <1>5, <1>8, <2>0, <3>1
    <2>2. CASE NodeContinue(c)
      <3>1. Done(c) /\ UNCHANGED server
        BY <2>2 DEF NodeContinue, NodeLoaded, NodeSideLoaded, ItemRefused
      <3>2. calls'[c] = NoCall /\ \A d \in Call : d # c => calls'[d] = calls[d]
        BY <1>0, <3>1, DoneResult
      <3> QED
        BY <1>0, <1>a, <2>0, <3>1, <3>2, WritesSlot
    <2> QED
      BY <1>8, <2>1, <2>2
  <1>9. CASE view = "node" /\ NodeClick /\ UNCHANGED <<shardVars, view>>
    <2>0. page' = page /\ page.read = 0 /\ view' = "node" /\ page.done \in Nat /\ page.done <= version
      BY <1>0, <1>9, PageFields DEF shardVars, WritesInv
    <2>1. CASE FollowItem
      <3>1. UNCHANGED server /\ \E p \in Nat, n \in Node \cup {0}, from \in Nat, seen \in Nat :
                                    GoTo(p, n, from, seen)
        BY <1>0, <2>1, FollowItemResult
      <3>2. version' = version /\ version' \in Nat
        BY <1>a, <3>1
      <3> QED
        BY <2>0, <3>1, <3>2, WritesGoTo
    <2>2. CASE AskNodeRemoval \/ CancelNodeRemoval
      <3>1. UNCHANGED <<server, calls>>
        BY <1>0, <2>2, AskNodeRemovalResult
      <3> QED
        BY <1>9, <1>a, <2>0, <3>1 DEF WritesInv, Fetching, Outstanding
    <2> QED
      BY <1>9, <2>1, <2>2 DEF NodeClick
  <1>10. CASE FollowLink
    <2>1. /\ page' = [Loading EXCEPT !.loading = FALSE] /\ UNCHANGED server
          /\ \E p \in Nat, n \in Node \cup {0}, from \in Nat, seen \in Nat : GoTo(p, n, from, seen)
      BY <1>0, <1>10, FollowLinkResult
    <2>2. page'.read = 0 /\ page'.done = 0
      BY <2>1 DEF Loading
    <2>3. version' \in Nat /\ page'.done <= version' /\ page'.done \in Nat
      BY <1>a, <2>1, <2>2
    <2>4. PICK p \in Nat, n \in Node \cup {0}, from \in Nat, seen \in Nat : GoTo(p, n, from, seen)
      BY <2>1
    <2> QED
      BY <2>2, <2>3, <2>4, WritesGoTo
  <1>11. CASE view' = "shard" /\ visit' = NoVisit /\ Open /\ UNCHANGED server
    BY <1>11, <1>a, WritesOpen
  <1> QED
    BY <1>1, <1>2, <1>3, <1>4, <1>6, <1>7, <1>8, <1>9, <1>10, <1>11, NextCases, ZenonT(60)

(* At the start nothing has been read and nothing written.                 *)
LEMMA WritesInit == Init => WritesInv
  <1> SUFFICES ASSUME Init PROVE WritesInv
    OBVIOUS
  <1> DEFINE r == FetchShard("load")
  <1>1. r \in CallType /\ r.read = 0
    BY FetchShardResult
  <1>2. calls = Only(r)
    BY DEF Init
  <1> HIDE DEF r
  <1>3. calls[First] = r /\ \A c \in Call : c # First => calls[c] = NoCall
    BY <1>1, <1>2, OnlyResult
  <1>4. \A c \in Call : calls[c] # NoCall => calls[c].read = 0
    BY <1>1, <1>3
  <1>5. page.done = 0 /\ page.read = 0 /\ version = 1
    BY DEF Init, Loading
  <1> QED
    BY <1>4, <1>5 DEF WritesInv, Outstanding

(* Once no nodes are awaited the page shows what its own removals and      *)
(* failovers have done, unless nodes were asked for twice at a time.       *)
THEOREM OwnWritesCorrect == Spec => []OwnWritesAreShown
  <1>1. WritesInv => OwnWritesAreShown
    BY DEF WritesInv, OwnWritesAreShown
  <1> QED
    BY <1>1, TypeInit, TypeStep, WritesInit, WritesStep, PTL DEF Spec

-----------------------------------------------------------------------------
(* Numbers and places *)

(* The server at one time.                                                 *)
Srv == [shards |-> shards, removals |-> removals, fresh |-> Fresh]

(* Node n has been created, and if it is listed then in shard at.          *)
Home(s, n, at) ==
    /\ n \in Nat /\ n < s.fresh
    /\ \A i \in DOMAIN s.shards : \A k \in DOMAIN s.shards[i].nodes :
        s.shards[i].nodes[k].node = n => s.shards[i].id = at

(* Node n is at this place of the shard of the pages, which is shard at.   *)
Placed(s, p, n, at) ==
    /\ At \in DOMAIN s.shards /\ s.shards[At].id = at
    /\ p \in DOMAIN s.shards[At].nodes /\ s.shards[At].nodes[p].node = n

(* Nodes that have been read from shard at when so many had been removed.  *)
ReadFrom(s, nodes, at, seen) ==
    /\ seen <= s.removals
    /\ at # NoShard /\ seen = s.removals => At \in DOMAIN s.shards /\ s.shards[At].id = at
    /\ \A p \in DOMAIN nodes :
        /\ at # NoShard /\ Home(s, nodes[p].node, at)
        /\ seen = s.removals => Placed(s, p, nodes[p].node, at)

(* What is asked for is meant for the shard that was shown.                *)
Meant(s, r) ==
    /\ r.seen <= s.removals
    /\ r.at # NoShard /\ r.seen = s.removals =>
        r.index \in DOMAIN s.shards /\ s.shards[r.index].id = r.at
    /\ r.op = "removeNode" /\ r.at # NoShard => Home(s, r.node, r.at)
    /\ r.op = "nodes" => r.index = At

(* The link that a node page was opened by is right until a removal.       *)
LinkHolds(s, v) ==
    /\ v.seen <= s.removals
    /\ v.node # 0 /\ v.seen = s.removals => Placed(s, v.index, v.node, v.from)

(* A list that was read when the link was right has the node that the link *)
(* stood for.                                                              *)
LinkIn(v, nodes, at, seen) ==
    v.node # 0 /\ at # NoShard /\ seen = v.seen =>
        at = v.from /\ v.index \in DOMAIN nodes /\ nodes[v.index].node = v.node

AlignedCall(s, v, r) ==
    /\ r.status = "sent" => Meant(s, r)
    /\ r.status # "sent" /\ r.op = "nodes" =>
            /\ ReadFrom(s, r.nodes, r.at, r.seen)
            /\ r.at # NoShard => r.status = "data"
            /\ LinkIn(v, r.nodes, r.at, r.seen)

AlignedInv ==
    /\ ReadFrom(Srv, page.nodes, page.at, page.seen)
    /\ ReadFrom(Srv, visit.items, visit.itemsAt, visit.itemsSeen)
    /\ LinkHolds(Srv, visit)
    /\ LinkIn(visit, visit.nodes, visit.at, visit.read)
    /\ \A c \in Call : calls[c] # NoCall => AlignedCall(Srv, visit, calls[c])

(* The fields of the server's record.                                      *)
LEMMA SrvFields ==
    /\ Srv.shards = shards /\ Srv.removals = removals /\ Srv.fresh = Fresh
    /\ Srv'.shards = shards' /\ Srv'.removals = removals' /\ Srv'.fresh = Fresh'
  BY DEF Srv

(* A step that does not touch the server leaves its record as it is.       *)
LEMMA SrvUnchanged ==
    ASSUME UNCHANGED server
    PROVE  Srv' = Srv
  BY DEF Srv, server, Fresh

(* Until a removal every shard and every node keeps its place.             *)
LEMMA MovesResult ==
    ASSUME ServerInv, Moves
    PROVE  /\ removals <= removals' /\ removals' \in Nat /\ Fresh \in Nat
           /\ removals' = removals => KeepsPlaces(shards, shards')
           /\ \/ Fresh' = Fresh /\ shards' = shards
              \/ Fresh' = Fresh + 1 /\ KeepsHomes(shards, shards', Fresh)
  <1>0. version \in Nat /\ removals \in Nat /\ InitialNodes \in Nat
    BY ShardNodesAssumption DEF ServerInv
  <1>1. CASE UNCHANGED server
    <2>1. shards' = shards /\ version' = version /\ removals' = removals
      BY <1>1 DEF server
    <2> QED
      BY <1>0, <2>1 DEF Fresh, KeepsPlaces
  <1>2. CASE ~UNCHANGED server
    BY <1>0, <1>2 DEF Moves, Follows, Fresh
  <1> QED
    BY <1>1, <1>2

(* An edit keeps the only shard that a node can be found in: a node never  *)
(* comes back under another shard.                                         *)
LEMMA HomeKept ==
    ASSUME ServerInv, Moves, NEW n, NEW at, Home(Srv, n, at)
    PROVE  Home(Srv', n, at)
  <1>1. n \in Nat /\ n < Fresh /\ Fresh \in Nat /\ (Fresh' = Fresh \/ Fresh' = Fresh + 1)
    BY MovesResult, SrvFields DEF Home
  <1>2. ASSUME NEW j \in DOMAIN shards', NEW k \in DOMAIN shards'[j].nodes,
               shards'[j].nodes[k].node = n
        PROVE  shards'[j].id = at
    <2>1. PICK i \in DOMAIN shards : \E l \in DOMAIN shards[i].nodes :
            shards[i].id = shards'[j].id /\ shards[i].nodes[l].node = n
      <3>1. CASE shards' = shards
        BY <1>2, <3>1
      <3>2. CASE KeepsHomes(shards, shards', Fresh)
        BY <1>1, <1>2, <3>2 DEF KeepsHomes
      <3> QED
        BY <3>1, <3>2, MovesResult
    <2> QED
      BY <2>1, SrvFields DEF Home
  <1>3. n < Fresh'
    BY <1>1
  <1> QED
    BY <1>1, <1>2, <1>3, SrvFields DEF Home

(* An edit that removes nothing keeps a node at its place in its shard.    *)
LEMMA PlacedKept ==
    ASSUME ServerInv, Moves, removals' = removals, NEW p, NEW n, NEW at, Placed(Srv, p, n, at)
    PROVE  Placed(Srv', p, n, at)
  BY MovesResult, SrvFields DEF Placed, KeepsPlaces

(* An edit keeps what a list of nodes tells about the shard it was read    *)
(* from.                                                                   *)
LEMMA ReadFromKept ==
    ASSUME ServerInv, Moves, NEW nodes, NEW at, NEW seen \in Nat, ReadFrom(Srv, nodes, at, seen)
    PROVE  ReadFrom(Srv', nodes, at, seen)
  <1>1. seen <= removals /\ removals <= removals' /\ removals \in Nat /\ removals' \in Nat
    BY MovesResult, SrvFields DEF ReadFrom, ServerInv
  <1>2. seen <= removals'
    BY <1>1
  <1>3. seen = removals' => seen = removals /\ removals' = removals
    BY <1>1
  <1>4. at # NoShard /\ seen = removals' => At \in DOMAIN shards' /\ shards'[At].id = at
    BY <1>3, MovesResult, SrvFields DEF ReadFrom, KeepsPlaces
  <1>5. ASSUME NEW p \in DOMAIN nodes
        PROVE  at # NoShard /\ Home(Srv', nodes[p].node, at)
    BY HomeKept DEF ReadFrom
  <1>6. ASSUME NEW p \in DOMAIN nodes, seen = removals'
        PROVE  Placed(Srv', p, nodes[p].node, at)
    BY <1>3, <1>6, PlacedKept, SrvFields DEF ReadFrom
  <1> QED
    BY <1>2, <1>4, <1>5, <1>6, SrvFields DEF ReadFrom

(* An edit keeps what the link to a node tells about its place.            *)
LEMMA LinkHoldsKept ==
    ASSUME ServerInv, Moves, NEW v \in VisitType, LinkHolds(Srv, v)
    PROVE  LinkHolds(Srv', v)
  <1>1. /\ v.seen \in Nat /\ v.seen <= removals /\ removals <= removals'
        /\ removals \in Nat /\ removals' \in Nat
    BY MovesResult, SrvFields, VisitFields DEF LinkHolds, ServerInv
  <1>2. v.seen <= removals'
    BY <1>1
  <1>3. v.seen = removals' => v.seen = removals /\ removals' = removals
    BY <1>1
  <1> QED
    BY <1>2, <1>3, PlacedKept, SrvFields DEF LinkHolds

(* An edit keeps what a call tells, whether it has been served or not.     *)
LEMMA AlignedCallKept ==
    ASSUME ServerInv, Moves, NEW v, NEW r \in CallType, AlignedCall(Srv, v, r)
    PROVE  AlignedCall(Srv', v, r)
  <1>0. r.seen \in Nat
    BY CallFields
  <1>1. ASSUME Meant(Srv, r) PROVE Meant(Srv', r)
    <2>1. /\ r.seen <= removals /\ removals <= removals'
          /\ removals \in Nat /\ removals' \in Nat
      BY <1>1, MovesResult, SrvFields DEF Meant, ServerInv
    <2>2. r.seen <= removals'
      BY <1>0, <2>1
    <2>3. r.seen = removals' => r.seen = removals /\ removals' = removals
      BY <1>0, <2>1
    <2>4. r.at # NoShard /\ r.seen = removals' =>
            r.index \in DOMAIN shards' /\ shards'[r.index].id = r.at
      BY <1>1, <2>3, MovesResult, SrvFields DEF Meant, KeepsPlaces
    <2>5. r.op = "removeNode" /\ r.at # NoShard => Home(Srv', r.node, r.at)
      BY <1>1, HomeKept DEF Meant
    <2>6. r.op = "nodes" => r.index = At
      BY <1>1 DEF Meant
    <2> QED
      BY <2>2, <2>4, <2>5, <2>6, SrvFields DEF Meant
  <1>2. ReadFrom(Srv, r.nodes, r.at, r.seen) => ReadFrom(Srv', r.nodes, r.at, r.seen)
    BY <1>0, ReadFromKept
  <1> QED
    BY <1>1, <1>2, Zenon DEF AlignedCall

(* The nodes as they are now.                                              *)
LEMMA PresentNodes ==
    ASSUME ServerInv, At \in DOMAIN shards
    PROVE  /\ ReadFrom(Srv, shards[At].nodes, shards[At].id, removals)
           /\ shards[At].id # NoShard
  <1>1. shards \in Seq(Shard) /\ NodesOnce(shards) /\ removals \in Nat /\ shards[At].id # NoShard
    BY DEF ServerInv, Sound
  <1>2. ASSUME NEW p \in DOMAIN shards[At].nodes
        PROVE  Home(Srv, shards[At].nodes[p].node, shards[At].id)
    <2>1. shards[At].nodes[p].node \in Nat /\ shards[At].nodes[p].node < Fresh
      BY <1>1, ShardElements DEF ServerInv, Sound
    <2>2. ASSUME NEW i \in DOMAIN shards, NEW k \in DOMAIN shards[i].nodes,
                 shards[i].nodes[k].node = shards[At].nodes[p].node
          PROVE  i = At
      BY <1>1, <2>2 DEF NodesOnce
    <2> QED
      BY <2>1, <2>2, SrvFields DEF Home
  <1>3. \A p \in DOMAIN shards[At].nodes :
            Placed(Srv, p, shards[At].nodes[p].node, shards[At].id)
    BY SrvFields DEF Placed
  <1> QED
    BY <1>1, <1>2, <1>3, SrvFields DEF ReadFrom

(* A page that has read nothing tells nothing.                             *)
LEMMA NothingRead ==
    ASSUME ServerInv, NEW nodes, nodes = << >>
    PROVE  ReadFrom(Srv, nodes, NoShard, 0)
  BY SrvFields DEF ReadFrom, ServerInv

(* A list that is shown is the one that was answered with.                 *)
LEMMA AnsweredNodes ==
    ASSUME ServerInv, NEW v, NEW r \in CallType, r.status # "sent", r.op = "nodes",
           AlignedCall(Srv, v, r)
    PROVE  /\ ReadFrom(Srv, FetchedList(r.status, r.nodes), r.at, r.seen)
           /\ LinkIn(v, FetchedList(r.status, r.nodes), r.at, r.seen)
  <1>1. /\ ReadFrom(Srv, r.nodes, r.at, r.seen) /\ LinkIn(v, r.nodes, r.at, r.seen)
        /\ r.at # NoShard => r.status = "data"
    BY DEF AlignedCall
  <1>2. CASE r.status = "data"
    BY <1>1, <1>2 DEF FetchedList
  <1>3. CASE r.status # "data"
    <2>1. r.at = NoShard /\ FetchedList(r.status, r.nodes) = << >>
      BY <1>1, <1>3 DEF FetchedList
    <2> QED
      BY <1>1, <2>1 DEF ReadFrom, LinkIn
  <1> QED
    BY <1>2, <1>3

(* A request that says nothing of a shard.                                 *)
LEMMA PlainRequest ==
    ASSUME ServerInv, NEW v, NEW r, r.status = "sent", r.at = NoShard, r.seen = 0,
           r.op = "nodes" => r.index = At
    PROVE  AlignedCall(Srv, v, r)
  <1>1. Meant(Srv, r)
    BY SrvFields DEF Meant, ServerInv
  <1> QED
    BY <1>1 DEF AlignedCall

(* A request from the page, for the shard that is shown.                   *)
LEMMA ShownRequest ==
    ASSUME AlignedInv, NEW v, NEW r, r.status = "sent", r.at = page.at, r.seen = page.seen,
           r.index = At,
           r.op = "removeNode" => \E i \in DOMAIN page.nodes : r.node = page.nodes[i].node
    PROVE  AlignedCall(Srv, v, r)
  <1>1. ReadFrom(Srv, page.nodes, page.at, page.seen)
    BY DEF AlignedInv
  <1>2. Meant(Srv, r)
    BY <1>1 DEF Meant, ReadFrom
  <1> QED
    BY <1>2 DEF AlignedCall

(* What a call tells does not depend on who waits for it.                  *)
LEMMA StrayAligned ==
    ASSUME NEW v, NEW r \in CallType, AlignedCall(Srv, v, r)
    PROVE  AlignedCall(Srv, v, [r EXCEPT !.for = "stray"])
  <1> DEFINE q == [r EXCEPT !.for = "stray"]
  <1>1. /\ q.op = r.op /\ q.status = r.status /\ q.index = r.index
        /\ q.node = r.node /\ q.at = r.at /\ q.seen = r.seen /\ q.nodes = r.nodes
    BY StrayFields
  <1> HIDE DEF q
  <1>2. AlignedCall(Srv, v, q)
    BY <1>1 DEF AlignedCall, Meant
  <1> QED
    BY <1>2 DEF q

(* The page is loaded anew: it shows nothing yet.                          *)
LEMMA AlignedOpen ==
    ASSUME ServerInv, UNCHANGED server, Open,
           /\ ReadFrom(Srv, visit'.items, visit'.itemsAt, visit'.itemsSeen)
           /\ LinkHolds(Srv, visit')
           /\ LinkIn(visit', visit'.nodes, visit'.at, visit'.read)
    PROVE  AlignedInv'
  <1>0. Srv' = Srv
    BY SrvUnchanged
  <1>1. /\ page' = Loading /\ calls'[First] = FetchShard("load")
        /\ \A c \in Call : c # First => calls'[c] = NoCall
    BY OpenResult
  <1> DEFINE r == FetchShard("load")
  <1>2. r.status = "sent" /\ r.at = NoShard /\ r.seen = 0 /\ r.index = At
    BY FetchShardResult
  <1> HIDE DEF r
  <1>3. AlignedCall(Srv, visit', r)
    BY <1>2, PlainRequest
  <1>4. page'.nodes = << >> /\ page'.at = NoShard /\ page'.seen = 0
    BY <1>1 DEF Loading
  <1>5. ReadFrom(Srv, page'.nodes, page'.at, page'.seen)
    BY <1>4, NothingRead
  <1>6. \A c \in Call : calls'[c] # NoCall => AlignedCall(Srv, visit', calls'[c])
    BY <1>1, <1>3 DEF r
  <1> QED
    BY <1>0, <1>5, <1>6 DEF AlignedInv

(* A link is followed that is right.                                       *)
LEMMA AlignedGoTo ==
    ASSUME ServerInv, UNCHANGED server,
           NEW index \in Nat, NEW n \in Node \cup {0}, NEW from \in Nat, NEW seen \in Nat,
           GoTo(index, n, from, seen), seen <= removals,
           n # 0 /\ seen = removals => Placed(Srv, index, n, from),
           ReadFrom(Srv, page'.nodes, page'.at, page'.seen)
    PROVE  AlignedInv'
  <1>0. Srv' = Srv
    BY SrvUnchanged
  <1>1. PICK c \in Call, d \in Call :
            /\ calls'[c] = Request("nodes", "visit", At, Automatic)
            /\ calls'[d] = Request("nodes", "nodeSide", At, Automatic)
            /\ \A e \in Call \ {c, d} : calls'[e] = NoCall
    BY GoToResult
  <1> DEFINE q == Request("nodes", "visit", At, Automatic)
             r == Request("nodes", "nodeSide", At, Automatic)
  <1>2. q.status = "sent" /\ q.at = NoShard /\ q.seen = 0 /\ q.index = At
    BY VisitRequestResult
  <1>3. r.status = "sent" /\ r.at = NoShard /\ r.seen = 0 /\ r.index = At
    BY VisitRequestResult
  <1> HIDE DEF q, r
  <1>4. AlignedCall(Srv, visit', q) /\ AlignedCall(Srv, visit', r)
    BY <1>2, <1>3, PlainRequest
  <1>5. \A e \in Call : calls'[e] # NoCall => AlignedCall(Srv, visit', calls'[e])
    BY <1>1, <1>4 DEF q, r
  <1>6. /\ visit'.index = index /\ visit'.node = n /\ visit'.from = from /\ visit'.seen = seen
        /\ visit'.at = NoShard /\ visit'.items = << >>
        /\ visit'.itemsAt = NoShard /\ visit'.itemsSeen = 0
    BY GoToResult
  <1>7. LinkHolds(Srv, visit')
    BY <1>6, SrvFields DEF LinkHolds
  <1>8. LinkIn(visit', visit'.nodes, visit'.at, visit'.read)
    BY <1>6 DEF LinkIn
  <1>9. ReadFrom(Srv, visit'.items, visit'.itemsAt, visit'.itemsSeen)
    BY <1>6, NothingRead
  <1> QED
    BY <1>0, <1>5, <1>7, <1>8, <1>9 DEF AlignedInv

(* The page changes with some requests, and the rest stays.                *)
LEMMA AlignedShard ==
    ASSUME AlignedInv, UNCHANGED <<server, visit>>,
           ReadFrom(Srv, page'.nodes, page'.at, page'.seen),
           \A c \in Call : calls'[c] # NoCall => AlignedCall(Srv, visit, calls'[c])
    PROVE  AlignedInv'
  <1>1. Srv' = Srv
    BY SrvUnchanged
  <1> QED
    BY <1>1 DEF AlignedInv

(* A call that is served: what it brings back was read from the shard that *)
(* its number denotes now, and what it edits moves the server on.          *)
LEMMA AlignedServe ==
    ASSUME TypeInv, AlignedInv, NEW c \in Call, Serve(c), UNCHANGED <<shardVars, visit, view>>
    PROVE  AlignedInv'
  <1>0. /\ ServerInv /\ calls \in CallSlots /\ page \in PageType /\ visit \in VisitType
        /\ page' = page /\ visit' = visit
    BY DEF TypeInv, ShardTypes, shardVars
  <1>1. Moves /\ Answers(c)
    BY <1>0, ServeResult
  <1>2. ReadFrom(Srv', page'.nodes, page'.at, page'.seen)
    BY <1>0, <1>1, PageFields, ReadFromKept DEF AlignedInv
  <1>3. ReadFrom(Srv', visit'.items, visit'.itemsAt, visit'.itemsSeen)
    BY <1>0, <1>1, VisitFields, ReadFromKept DEF AlignedInv
  <1>4. LinkHolds(Srv', visit') /\ LinkIn(visit', visit'.nodes, visit'.at, visit'.read)
    BY <1>0, <1>1, LinkHoldsKept DEF AlignedInv
  <1>5. ASSUME NEW d \in Call, d # c, calls'[d] # NoCall
        PROVE  AlignedCall(Srv', visit', calls'[d])
    <2>1. calls'[d] = calls[d] /\ calls[d] \in CallType
      BY <1>0, <1>1, <1>5 DEF Answers, CallSlots
    <2>2. AlignedCall(Srv, visit, calls[d])
      BY <1>5, <2>1 DEF AlignedInv
    <2> QED
      BY <1>0, <1>1, <2>1, <2>2, AlignedCallKept
  <1>6. AlignedCall(Srv', visit', calls'[c])
    <2>1. /\ calls[c] \in CallType /\ calls[c].status = "sent" /\ calls[c] # NoCall
          /\ calls'[c].status # "sent" /\ calls'[c].op = calls[c].op
      BY <1>1, NoCallAssumption DEF Answers
    <2>2. CASE calls[c].op # "nodes"
      BY <2>1, <2>2 DEF AlignedCall
    <2>3. CASE calls[c].op = "nodes"
      <3>1. Srv' = Srv /\ AnswersNodes(c)
        BY <1>1, <2>3, SrvUnchanged DEF Answers
      <3>2. calls[c].index = At
        BY <2>1, <2>3 DEF AlignedInv, AlignedCall, Meant
      <3>3. CASE calls'[c].at = NoShard /\ calls'[c].seen = 0 /\ calls'[c].nodes = << >>
        <4>1. ReadFrom(Srv, calls'[c].nodes, calls'[c].at, calls'[c].seen)
          BY <1>0, <3>3, NothingRead
        <4>2. LinkIn(visit', calls'[c].nodes, calls'[c].at, calls'[c].seen)
          BY <3>3 DEF LinkIn
        <4> QED
          BY <2>1, <3>1, <3>3, <4>1, <4>2 DEF AlignedCall
      <3>4. CASE /\ calls'[c].status = "data" /\ At \in DOMAIN shards
                 /\ calls'[c].nodes = shards[At].nodes /\ calls'[c].at = shards[At].id
                 /\ calls'[c].seen = removals
        <4>1. ReadFrom(Srv, calls'[c].nodes, calls'[c].at, calls'[c].seen)
          BY <1>0, <3>4, PresentNodes
        <4>2. LinkIn(visit, calls'[c].nodes, calls'[c].at, calls'[c].seen)
          BY <3>4, SrvFields DEF LinkIn, AlignedInv, LinkHolds, Placed
        <4> QED
          BY <1>0, <2>1, <3>1, <3>4, <4>1, <4>2 DEF AlignedCall
      <3> QED
        BY <3>1, <3>2, <3>3, <3>4 DEF AnswersNodes
    <2> QED
      BY <2>2, <2>3
  <1>7. \A d \in Call : calls'[d] # NoCall => AlignedCall(Srv', visit', calls'[d])
    BY <1>5, <1>6
  <1> QED
    BY <1>2, <1>3, <1>4, <1>7 DEF AlignedInv

(* A continuation of the shard page shows what a call has brought back, or *)
(* sends a request that tells nothing yet.                                 *)
LEMMA AlignedShardContinue ==
    ASSUME TypeInv, AlignedInv, NEW c \in Call, ShardContinue(c), UNCHANGED <<visit, view>>
    PROVE  AlignedInv'
  <1>0. /\ ServerInv /\ ShardTypes /\ page \in PageType /\ calls \in CallSlots
        /\ UNCHANGED visit
    BY DEF TypeInv, ShardTypes
  <1>1. UNCHANGED server
    BY <1>0, ShardContinueTypes
  <1>2. /\ ReadFrom(Srv, page.nodes, page.at, page.seen)
        /\ \A d \in Call : calls[d] # NoCall => AlignedCall(Srv, visit, calls[d])
    BY DEF AlignedInv
  <1> DEFINE q == Request("shards", "side", 0, Automatic)
  <1>3. q.status = "sent" /\ q.at = NoShard /\ q.seen = 0 /\ q.op = "shards"
    BY SideRequestResult
  <1> HIDE DEF q
  <1>4. AlignedCall(Srv, visit, q)
    BY <1>0, <1>3, PlainRequest
  <1>5. ASSUME NEW after \in PageType, EndLoading(c, after), calls[c] \in CallType,
               ReadFrom(Srv, after.nodes, after.at, after.seen)
        PROVE  AlignedInv'
    <2>1. /\ page'.nodes = after.nodes /\ page'.at = after.at /\ page'.seen = after.seen
          /\ calls'[c] \in {NoCall, q} /\ \A d \in Call : d # c => calls'[d] = calls[d]
      BY <1>0, <1>5, EndLoadingResult DEF q
    <2>2. \A d \in Call : calls'[d] # NoCall => AlignedCall(Srv, visit, calls'[d])
      BY <1>2, <1>4, <2>1
    <2>3. ReadFrom(Srv, page'.nodes, page'.at, page'.seen)
      BY <1>5, <2>1
    <2> QED
      BY <1>0, <1>1, <2>2, <2>3, AlignedShard
  <1>6. ASSUME Done(c), page' = page
        PROVE  AlignedInv'
    <2>1. calls'[c] = NoCall /\ \A d \in Call : d # c => calls'[d] = calls[d]
      BY <1>0, <1>6, DoneResult
    <2>2. \A d \in Call : calls'[d] # NoCall => AlignedCall(Srv, visit, calls'[d])
      BY <1>2, <2>1
    <2>3. ReadFrom(Srv, page'.nodes, page'.at, page'.seen)
      BY <1>2, <1>6
    <2> QED
      BY <1>0, <1>1, <2>2, <2>3, AlignedShard
  <1>7. ASSUME NEW for \in {"refresh", "delete"}, StartFetch(c, for), calls[c] \in CallType
        PROVE  AlignedInv'
    <2>1. /\ page'.nodes = page.nodes /\ page'.at = page.at /\ page'.seen = page.seen
          /\ calls'[c] = FetchShard(for)
          /\ \A d \in Call : d # c => calls'[d] = Unmounted[d]
      BY <1>0, <1>7, StartFetchResult
    <2> DEFINE r == FetchShard(for)
    <2>2. r.status = "sent" /\ r.at = NoShard /\ r.seen = 0 /\ r.index = At
      BY FetchShardResult
    <2> HIDE DEF r
    <2>3. AlignedCall(Srv, visit, r)
      BY <1>0, <2>2, PlainRequest
    <2>4. ASSUME NEW d \in Call, d # c, calls'[d] # NoCall
          PROVE  AlignedCall(Srv, visit, calls'[d])
      <3>1. /\ calls[d] \in CallType
            /\ calls'[d] = calls[d] \/ calls'[d] = [calls[d] EXCEPT !.for = "stray"]
        BY <1>0, <2>1, <2>4, UnmountedResult
      <3>2. AlignedCall(Srv, visit, calls[d])
        BY <1>2, <3>1, NoCallAssumption
      <3>3. AlignedCall(Srv, visit, [calls[d] EXCEPT !.for = "stray"])
        BY <3>1, <3>2, StrayAligned
      <3> QED
        BY <3>1, <3>2, <3>3
    <2>5. \A d \in Call : calls'[d] # NoCall => AlignedCall(Srv, visit, calls'[d])
      BY <2>1, <2>3, <2>4 DEF r
    <2>6. ReadFrom(Srv, page'.nodes, page'.at, page'.seen)
      BY <1>2, <2>1
    <2> QED
      BY <1>0, <1>1, <2>5, <2>6, AlignedShard
  <1>8. ASSUME Open PROVE AlignedInv'
    <2>1. /\ ReadFrom(Srv, visit'.items, visit'.itemsAt, visit'.itemsSeen)
          /\ LinkHolds(Srv, visit')
          /\ LinkIn(visit', visit'.nodes, visit'.at, visit'.read)
      BY <1>0 DEF AlignedInv
    <2> QED
      BY <1>0, <1>1, <1>8, <2>1, AlignedOpen
  <1>9. ASSUME calls[c] \in CallType, calls[c].op = "nodes", calls[c].status # "sent"
        PROVE  /\ Shown(c) \in PageType
               /\ ReadFrom(Srv, Shown(c).nodes, Shown(c).at, Shown(c).seen)
    <2>1. AlignedCall(Srv, visit, calls[c])
      BY <1>2, <1>9, NoCallAssumption
    <2>2. ReadFrom(Srv, FetchedList(calls[c].status, calls[c].nodes), calls[c].at, calls[c].seen)
      BY <1>0, <1>9, <2>1, AnsweredNodes
    <2> QED
      BY <1>0, <1>9, <2>2, ShownResult
  <1>10. CASE LoadDone(c)
    <2>1. /\ calls[c] \in CallType /\ calls[c].op = "nodes" /\ calls[c].status # "sent"
          /\ EndLoading(c, Shown(c))
      BY <1>0, <1>10, AnsweredResult DEF LoadDone, AnsweredTo
    <2> QED
      BY <1>5, <1>9, <2>1
  <1>11. CASE SideLoaded(c)
    BY <1>6, <1>11 DEF SideLoaded
  <1>12. CASE DeleteDone(c)
    <2>1. calls[c] \in CallType
      BY <1>0, <1>12, AnsweredResult DEF DeleteDone, AnsweredTo
    <2>2. CASE EndLoading(c, [page EXCEPT !.deleting = 0])
      <3> DEFINE after == [page EXCEPT !.deleting = 0]
      <3>1. /\ after \in PageType /\ after.nodes = page.nodes /\ after.at = page.at
            /\ after.seen = page.seen
        BY <1>0 DEF PageType
      <3> HIDE DEF after
      <3>2. ReadFrom(Srv, after.nodes, after.at, after.seen)
        BY <1>2, <3>1
      <3> QED
        BY <1>5, <2>1, <2>2, <3>1, <3>2 DEF after
    <2>3. CASE StartFetch(c, "delete")
      BY <1>7, <2>1, <2>3
    <2> QED
      BY <1>12, <2>2, <2>3 DEF DeleteDone
  <1>13. CASE DeleteFetched(c)
    <2> DEFINE after == [Shown(c) EXCEPT !.deleting = 0]
    <2>1. /\ calls[c] \in CallType /\ calls[c].op = "nodes" /\ calls[c].status # "sent"
          /\ EndLoading(c, after)
      BY <1>0, <1>13, AnsweredResult DEF DeleteFetched, AnsweredTo
    <2>2. /\ Shown(c) \in PageType
          /\ ReadFrom(Srv, Shown(c).nodes, Shown(c).at, Shown(c).seen)
      BY <1>9, <2>1
    <2>3. /\ after \in PageType /\ after.nodes = Shown(c).nodes /\ after.at = Shown(c).at
          /\ after.seen = Shown(c).seen
      BY <2>2 DEF PageType
    <2> HIDE DEF after
    <2>4. ReadFrom(Srv, after.nodes, after.at, after.seen)
      BY <2>2, <2>3
    <2> QED
      BY <1>5, <2>1, <2>3, <2>4
  <1>14. CASE FailoverDone(c)
    <2>1. calls[c] \in CallType
      BY <1>0, <1>14, AnsweredResult DEF FailoverDone
    <2> QED
      BY <1>6, <1>7, <1>14, <2>1 DEF FailoverDone
  <1>15. CASE FormDone(c)
    BY <1>6, <1>8, <1>15 DEF FormDone
  <1>16. CASE ConfirmDone(c)
    BY <1>6, <1>8, <1>16 DEF ConfirmDone, shardVars
  <1> QED
    BY <1>10, <1>11, <1>12, <1>13, <1>14, <1>15, <1>16 DEF ShardContinue

(* Every step keeps what is shown and what is sent true to the shard it    *)
(* was read from.                                                          *)
LEMMA AlignedStep == TypeInv /\ AlignedInv /\ [Next]_vars => AlignedInv'
  <1> SUFFICES ASSUME TypeInv, AlignedInv, [Next]_vars PROVE AlignedInv'
    OBVIOUS
  <1>0. /\ ServerInv /\ ShardTypes /\ page \in PageType /\ visit \in VisitType
        /\ calls \in CallSlots /\ removals \in Nat
    BY DEF TypeInv, ShardTypes, ServerInv
  <1>a. /\ ReadFrom(Srv, page.nodes, page.at, page.seen)
        /\ ReadFrom(Srv, visit.items, visit.itemsAt, visit.itemsSeen)
        /\ LinkHolds(Srv, visit) /\ LinkIn(visit, visit.nodes, visit.at, visit.read)
        /\ \A d \in Call : calls[d] # NoCall => AlignedCall(Srv, visit, calls[d])
    BY DEF AlignedInv
  <1>1. CASE UNCHANGED vars
    <2>1. Srv' = Srv
      BY <1>1, SrvUnchanged DEF vars
    <2> QED
      BY <1>1, <1>a, <2>1 DEF vars, shardVars, AlignedInv
  <1>2. ASSUME NEW c \in Call, Serve(c), UNCHANGED <<shardVars, visit, view>>
        PROVE  AlignedInv'
    BY <1>2, AlignedServe
  <1>3. CASE Others /\ UNCHANGED <<shardVars, visit, view, calls>>
    <2>0. Moves /\ page' = page /\ visit' = visit /\ calls' = calls
      BY <1>0, <1>3, OthersMove DEF shardVars
    <2>1. ReadFrom(Srv', page'.nodes, page'.at, page'.seen)
      BY <1>0, <1>a, <2>0, PageFields, ReadFromKept
    <2>2. ReadFrom(Srv', visit'.items, visit'.itemsAt, visit'.itemsSeen)
      BY <1>0, <1>a, <2>0, VisitFields, ReadFromKept
    <2>3. LinkHolds(Srv', visit') /\ LinkIn(visit', visit'.nodes, visit'.at, visit'.read)
      BY <1>0, <1>a, <2>0, LinkHoldsKept
    <2>4. ASSUME NEW d \in Call, calls'[d] # NoCall
          PROVE  AlignedCall(Srv', visit', calls'[d])
      <3>1. calls'[d] = calls[d] /\ calls[d] \in CallType /\ AlignedCall(Srv, visit, calls[d])
        BY <1>0, <1>a, <2>0, <2>4 DEF CallSlots
      <3> QED
        BY <1>0, <2>0, <3>1, AlignedCallKept
    <2> QED
      BY <2>1, <2>2, <2>3, <2>4 DEF AlignedInv
  <1>4. ASSUME NEW c \in Call, ShardContinue(c), UNCHANGED <<visit, view>>
        PROVE  AlignedInv'
    BY <1>4, AlignedShardContinue
  <1>5. ASSUME NEW c \in Call, ShardUser(c), UNCHANGED <<visit, view>>
        PROVE  AlignedInv'
    <2>1. CASE DeleteClick(c)
      <3>1. /\ UNCHANGED server /\ page' = [page EXCEPT !.deleting = page'.deleting]
            /\ \A d \in Call : d # c => calls'[d] = calls[d]
            /\ calls'[c].status = "sent" /\ calls'[c].at = page.at /\ calls'[c].seen = page.seen
            /\ calls'[c].index = At
            /\ \E i \in DOMAIN page.nodes : calls'[c].node = page.nodes[i].node
        BY <1>0, <2>1, DeleteClickResult
      <3>2. AlignedCall(Srv, visit, calls'[c])
        BY <3>1, ShownRequest
      <3>3. \A d \in Call : calls'[d] # NoCall => AlignedCall(Srv, visit, calls'[d])
        BY <1>a, <3>1, <3>2
      <3>4. page'.nodes = page.nodes /\ page'.at = page.at /\ page'.seen = page.seen
        BY <1>0, <3>1 DEF PageType
      <3>5. ReadFrom(Srv, page'.nodes, page'.at, page'.seen)
        BY <1>a, <3>4
      <3> QED
        BY <1>5, <3>1, <3>3, <3>5, AlignedShard
    <2>2. CASE handleFailover(c) \/ SubmitForm(c) \/ confirmDelete(c)
      <3>1. /\ UNCHANGED <<server, page>>
            /\ \A d \in Call : d # c => calls'[d] = calls[d]
            /\ calls'[c].status = "sent" /\ calls'[c].op \in {"failover", "createNode", "removeShard"}
            /\ \/ calls'[c].at = page.at /\ calls'[c].seen = page.seen /\ calls'[c].index = At
               \/ calls'[c].at = NoShard /\ calls'[c].seen = 0
        BY <1>0, <2>2, OtherRequestsResult
      <3>2. AlignedCall(Srv, visit, calls'[c])
        BY <1>0, <3>1, ShownRequest, PlainRequest
      <3>3. \A d \in Call : calls'[d] # NoCall => AlignedCall(Srv, visit, calls'[d])
        BY <1>a, <3>1, <3>2
      <3>4. ReadFrom(Srv, page'.nodes, page'.at, page'.seen)
        BY <1>a, <3>1
      <3> QED
        BY <1>5, <3>1, <3>3, <3>4, AlignedShard
    <2> QED
      BY <1>5, <2>1, <2>2 DEF ShardUser
  <1>6. CASE ShardClick /\ UNCHANGED <<visit, view>>
    <2>1. UNCHANGED <<server, page, calls>>
      BY <1>0, <1>6, ShardClickResult
    <2> QED
      BY <1>6, <1>a, <2>1, AlignedShard
  <1>7. ASSUME NEW c \in Call, NodeContinue(c) \/ confirmDeleteNode(c),
               UNCHANGED <<shardVars, view>>
        PROVE  AlignedInv'
    <2>0. page' = page
      BY <1>7 DEF shardVars
    <2>1. CASE NodeLoaded(c)
      <3>1. /\ UNCHANGED server /\ calls[c] \in CallType /\ calls[c].op = "nodes"
            /\ calls[c].status # "sent" /\ calls'[c] = NoCall
            /\ \A d \in Call : d # c => calls'[d] = calls[d]
            /\ visit'.at = calls[c].at /\ visit'.read = calls[c].seen
            /\ visit'.nodes = FetchedList(calls[c].status, calls[c].nodes)
            /\ visit'.index = visit.index /\ visit'.node = visit.node /\ visit'.from = visit.from
            /\ visit'.seen = visit.seen /\ visit'.items = visit.items
            /\ visit'.itemsAt = visit.itemsAt /\ visit'.itemsSeen = visit.itemsSeen
        BY <1>0, <2>1, NodeLoadedResult
      <3>2. Srv' = Srv
        BY <3>1, SrvUnchanged
      <3>3. \A nodes, at, seen : LinkIn(visit, nodes, at, seen) => LinkIn(visit', nodes, at, seen)
        BY <3>1 DEF LinkIn
      <3>4. LinkIn(visit', visit'.nodes, visit'.at, visit'.read)
        <4>1. AlignedCall(Srv, visit, calls[c])
          BY <1>a, <3>1, NoCallAssumption
        <4>2. LinkIn(visit, FetchedList(calls[c].status, calls[c].nodes), calls[c].at, calls[c].seen)
          BY <1>0, <3>1, <4>1, AnsweredNodes
        <4> QED
          BY <3>1, <3>3, <4>2
      <3>5. \A d \in Call : calls'[d] # NoCall => AlignedCall(Srv, visit', calls'[d])
        BY <1>a, <3>1, <3>3 DEF AlignedCall
      <3>6. LinkHolds(Srv, visit')
        BY <1>a, <3>1 DEF LinkHolds
      <3>7. ReadFrom(Srv, visit'.items, visit'.itemsAt, visit'.itemsSeen)
        BY <1>a, <3>1
      <3> QED
        BY <1>a, <2>0, <3>2, <3>4, <3>5, <3>6, <3>7 DEF AlignedInv
    <2>2. CASE NodeSideLoaded(c)
      <3>1. /\ UNCHANGED server /\ calls[c] \in CallType /\ calls[c].op = "nodes"
            /\ calls[c].status # "sent" /\ calls'[c] = NoCall
            /\ \A d \in Call : d # c => calls'[d] = calls[d]
            /\ visit'.itemsAt = calls[c].at /\ visit'.itemsSeen = calls[c].seen
            /\ visit'.items = FetchedList(calls[c].status, calls[c].nodes)
            /\ visit'.index = visit.index /\ visit'.node = visit.node /\ visit'.from = visit.from
            /\ visit'.seen = visit.seen /\ visit'.nodes = visit.nodes /\ visit'.at = visit.at
            /\ visit'.read = visit.read
        BY <1>0, <2>2, NodeSideLoadedResult
      <3>2. Srv' = Srv
        BY <3>1, SrvUnchanged
      <3>3. \A nodes, at, seen : LinkIn(visit, nodes, at, seen) => LinkIn(visit', nodes, at, seen)
        BY <3>1 DEF LinkIn
      <3>4. LinkIn(visit', visit'.nodes, visit'.at, visit'.read)
        BY <1>a, <3>1, <3>3
      <3>5. \A d \in Call : calls'[d] # NoCall => AlignedCall(Srv, visit', calls'[d])
        BY <1>a, <3>1, <3>3 DEF AlignedCall
      <3>6. LinkHolds(Srv, visit')
        BY <1>a, <3>1 DEF LinkHolds
      <3>7. ReadFrom(Srv, visit'.items, visit'.itemsAt, visit'.itemsSeen)
        <4>1. AlignedCall(Srv, visit, calls[c])
          BY <1>a, <3>1, NoCallAssumption
        <4>2. ReadFrom(Srv, FetchedList(calls[c].status, calls[c].nodes), calls[c].at, calls[c].seen)
          BY <1>0, <3>1, <4>1, AnsweredNodes
        <4> QED
          BY <3>1, <4>2
      <3> QED
        BY <1>a, <2>0, <3>2, <3>4, <3>5, <3>6, <3>7 DEF AlignedInv
    <2>3. CASE ItemRefused(c)
      <3>1. Done(c) /\ UNCHANGED <<server, visit>>
        BY <2>3 DEF ItemRefused
      <3>2. calls'[c] = NoCall /\ \A d \in Call : d # c => calls'[d] = calls[d]
        BY <1>0, <3>1, DoneResult
      <3>3. \A d \in Call : calls'[d] # NoCall => AlignedCall(Srv, visit, calls'[d])
        BY <1>a, <3>2
      <3> QED
        BY <1>a, <2>0, <3>1, <3>3, AlignedShard
    <2>4. CASE confirmDeleteNode(c)
      <3>1. /\ UNCHANGED <<server, visit>> /\ \A d \in Call : d # c => calls'[d] = calls[d]
            /\ calls'[c].status = "sent" /\ calls'[c].at = NoShard /\ calls'[c].seen = 0
            /\ calls'[c].op = "removeNode"
        BY <1>0, <2>4, ConfirmDeleteNodeResult
      <3>2. AlignedCall(Srv, visit, calls'[c])
        BY <1>0, <3>1, PlainRequest
      <3>3. \A d \in Call : calls'[d] # NoCall => AlignedCall(Srv, visit, calls'[d])
        BY <1>a, <3>1, <3>2
      <3> QED
        BY <1>a, <2>0, <3>1, <3>3, AlignedShard
    <2> QED
      BY <1>7, <2>1, <2>2, <2>3, <2>4 DEF NodeContinue
  <1>8. CASE NodeClick /\ UNCHANGED <<shardVars, view>>
    <2>0. page' = page
      BY <1>8 DEF shardVars
    <2>1. CASE FollowItem
      <3>1. PICK i \in DOMAIN visit.items :
                /\ i \in Nat /\ visit.items[i].node \in Node
                /\ visit.itemsAt \in Nat /\ visit.itemsSeen \in Nat
                /\ GoTo(i, visit.items[i].node, visit.itemsAt, visit.itemsSeen)
        BY <1>0, <2>1, FollowItemResult
      <3>2. UNCHANGED server
        BY <1>0, <2>1, FollowItemResult
      <3>3. /\ visit.itemsSeen <= removals
            /\ visit.itemsSeen = removals => Placed(Srv, i, visit.items[i].node, visit.itemsAt)
        BY <1>a, SrvFields DEF ReadFrom
      <3>4. ReadFrom(Srv, page'.nodes, page'.at, page'.seen)
        BY <1>a, <2>0
      <3> QED
        BY <1>0, <3>1, <3>2, <3>3, <3>4, AlignedGoTo
    <2>2. CASE AskNodeRemoval \/ CancelNodeRemoval
      <3>1. /\ visit' = [visit EXCEPT !.confirm = visit'.confirm] /\ UNCHANGED <<server, calls>>
        BY <1>0, <2>2, AskNodeRemovalResult
      <3>2. /\ visit'.index = visit.index /\ visit'.node = visit.node /\ visit'.from = visit.from
            /\ visit'.seen = visit.seen /\ visit'.nodes = visit.nodes /\ visit'.at = visit.at
            /\ visit'.read = visit.read /\ visit'.items = visit.items
            /\ visit'.itemsAt = visit.itemsAt /\ visit'.itemsSeen = visit.itemsSeen
        BY <1>0, <3>1 DEF VisitType
      <3>3. Srv' = Srv
        BY <3>1, SrvUnchanged
      <3>4. \A nodes, at, seen : LinkIn(visit, nodes, at, seen) => LinkIn(visit', nodes, at, seen)
        BY <3>2 DEF LinkIn
      <3>5. LinkIn(visit', visit'.nodes, visit'.at, visit'.read)
        BY <1>a, <3>2, <3>4
      <3>6. \A d \in Call : calls'[d] # NoCall => AlignedCall(Srv, visit', calls'[d])
        BY <1>a, <3>1, <3>4 DEF AlignedCall
      <3>7. LinkHolds(Srv, visit')
        BY <1>a, <3>2 DEF LinkHolds
      <3>8. ReadFrom(Srv, visit'.items, visit'.itemsAt, visit'.itemsSeen)
        BY <1>a, <3>2
      <3> QED
        BY <1>a, <2>0, <3>3, <3>5, <3>6, <3>7, <3>8 DEF AlignedInv
    <2> QED
      BY <1>8, <2>1, <2>2 DEF NodeClick
  <1>9. CASE FollowLink
    <2>1. /\ page' = [Loading EXCEPT !.loading = FALSE] /\ UNCHANGED server
          /\ page.at \in Nat /\ page.seen \in Nat
          /\ \/ \E p \in DOMAIN page.nodes :
                    /\ p \in Nat /\ page.nodes[p].node \in Node
                    /\ GoTo(p, page.nodes[p].node, page.at, page.seen)
             \/ \E p \in Nat : GoTo(p, 0, page.at, page.seen)
      BY <1>0, <1>9, FollowLinkResult
    <2>2. page'.nodes = << >> /\ page'.at = NoShard /\ page'.seen = 0
      BY <2>1 DEF Loading
    <2>3. ReadFrom(Srv, page'.nodes, page'.at, page'.seen)
      BY <1>0, <2>2, NothingRead
    <2>4. page.seen <= removals
      BY <1>a, SrvFields DEF ReadFrom
    <2>5. ASSUME NEW p \in DOMAIN page.nodes, p \in Nat, page.nodes[p].node \in Node,
                 GoTo(p, page.nodes[p].node, page.at, page.seen)
          PROVE  AlignedInv'
      <3>1. page.seen = removals => Placed(Srv, p, page.nodes[p].node, page.at)
        BY <1>a, SrvFields DEF ReadFrom
      <3> QED
        BY <1>0, <2>1, <2>3, <2>4, <2>5, <3>1, AlignedGoTo
    <2>6. ASSUME NEW p \in Nat, GoTo(p, 0, page.at, page.seen)
          PROVE  AlignedInv'
      BY <1>0, <2>1, <2>3, <2>4, <2>6, AlignedGoTo
    <2> QED
      BY <2>1, <2>5, <2>6
  <1>10. CASE view' = "shard" /\ visit' = NoVisit /\ Open /\ UNCHANGED server
    <2>1. ReadFrom(Srv, visit'.items, visit'.itemsAt, visit'.itemsSeen)
      BY <1>0, <1>10, NoVisitType, NothingRead
    <2>2. LinkHolds(Srv, visit') /\ LinkIn(visit', visit'.nodes, visit'.at, visit'.read)
      BY <1>0, <1>10, NoVisitType, SrvFields DEF LinkHolds, LinkIn
    <2> QED
      BY <1>0, <1>10, <2>1, <2>2, AlignedOpen
  <1> QED
    BY <1>1, <1>2, <1>3, <1>4, <1>5, <1>6, <1>7, <1>8, <1>9, <1>10, NextCases, ZenonT(60)

(* At the start nothing has been read, and the first request tells         *)
(* nothing.                                                                *)
LEMMA AlignedInit == Init => AlignedInv
  <1> SUFFICES ASSUME Init PROVE AlignedInv
    OBVIOUS
  <1>0. ServerInv /\ removals = 0
    BY TypeInit DEF TypeInv, Init
  <1> DEFINE r == FetchShard("load")
  <1>1. r \in CallType /\ r.status = "sent" /\ r.at = NoShard /\ r.seen = 0 /\ r.index = At
    BY FetchShardResult
  <1>2. calls = Only(r) /\ visit = NoVisit
    BY DEF Init
  <1> HIDE DEF r
  <1>3. calls[First] = r /\ \A c \in Call : c # First => calls[c] = NoCall
    BY <1>1, <1>2, OnlyResult
  <1>4. AlignedCall(Srv, visit, r)
    BY <1>0, <1>1, PlainRequest
  <1>5. \A c \in Call : calls[c] # NoCall => AlignedCall(Srv, visit, calls[c])
    BY <1>3, <1>4
  <1>6. page.nodes = << >> /\ page.at = NoShard /\ page.seen = 0
    BY DEF Init, Loading
  <1>7. ReadFrom(Srv, page.nodes, page.at, page.seen)
    BY <1>0, <1>6, NothingRead
  <1>8. ReadFrom(Srv, visit.items, visit.itemsAt, visit.itemsSeen)
    BY <1>0, <1>2, NoVisitType, NothingRead
  <1>9. LinkHolds(Srv, visit) /\ LinkIn(visit, visit.nodes, visit.at, visit.read)
    BY <1>0, <1>2, NoVisitType, SrvFields DEF LinkHolds, LinkIn
  <1> QED
    BY <1>5, <1>7, <1>8, <1>9 DEF AlignedInv

(* Until a shard or a node is removed, the number in the address denotes   *)
(* the shard whose nodes are shown, every request that has been sent goes  *)
(* to that shard, and a link leads to the node that it shows.              *)
THEOREM AlignedCorrect == Spec => []AlignedUntilRemoval
  <1>1. AlignedInv => AlignedUntilRemoval
    <2> SUFFICES ASSUME AlignedInv PROVE AlignedUntilRemoval
      OBVIOUS
    <2>1. page.at # NoShard /\ page.seen = removals =>
            At \in DOMAIN shards /\ shards[At].id = page.at
      BY SrvFields DEF AlignedInv, ReadFrom
    <2>2. ASSUME NEW c \in Call, calls[c] # NoCall, calls[c].status = "sent",
                 calls[c].at # NoShard, calls[c].seen = removals
          PROVE  calls[c].index \in DOMAIN shards /\ shards[calls[c].index].id = calls[c].at
      <3>1. Meant(Srv, calls[c])
        BY <2>2 DEF AlignedInv, AlignedCall
      <3> QED
        BY <2>2, <3>1, SrvFields DEF Meant
    <2>3. visit.node # 0 /\ visit.at # NoShard /\ visit.read = visit.seen =>
            visit.at = visit.from /\ currentNode = visit.node
      BY DEF AlignedInv, LinkIn, currentNode
    <2> QED
      BY <2>1, <2>2, <2>3 DEF AlignedUntilRemoval
  <1> QED
    BY <1>1, TypeInit, TypeStep, AlignedInit, AlignedStep, PTL DEF Spec

(* A removal that a page asks for takes away the replica that was          *)
(* confirmed, out of the shard that it was shown in, or nothing: even when *)
(* the number of the page denotes another shard by then.                   *)
THEOREM DeletesConfirmed == Spec => DeletesConfirmedNode
  <1> DEFINE Removes(c) ==
        ServeRemoveNode(c) /\ shards' # shards =>
        /\ calls[c].node \in Replicas(shards[calls[c].index].nodes)
        /\ Nodes(shards'[calls[c].index].nodes) =
                Nodes(shards[calls[c].index].nodes) \ {calls[c].node}
        /\ calls[c].at = NoShard \/ shards[calls[c].index].id = calls[c].at
  <1>1. TypeInv /\ AlignedInv /\ [Next]_vars => [\A c \in Call : Removes(c)]_vars
    <2> SUFFICES ASSUME TypeInv, AlignedInv, NEW c \in Call, ServeRemoveNode(c), shards' # shards
                 PROVE  /\ calls[c].node \in Replicas(shards[calls[c].index].nodes)
                        /\ Nodes(shards'[calls[c].index].nodes) =
                                Nodes(shards[calls[c].index].nodes) \ {calls[c].node}
                        /\ calls[c].at = NoShard \/ shards[calls[c].index].id = calls[c].at
      OBVIOUS
    <2>0. ServerInv
      BY DEF TypeInv
    <2>1. PICK after \in removeNode(calls[c].index, calls[c].node) : shards' = after
      BY DEF ServeRemoveNode, Edit, Store, server
    <2>2. /\ calls[c].index \in DOMAIN shards
          /\ calls[c].node \in Replicas(shards[calls[c].index].nodes)
          /\ Nodes(after[calls[c].index].nodes) =
                Nodes(shards[calls[c].index].nodes) \ {calls[c].node}
      BY <2>0, RemoveNodeFollows
    <2>3. Meant(Srv, calls[c]) /\ calls[c].op = "removeNode"
      BY DEF ServeRemoveNode, Sent, Outstanding, AlignedInv, AlignedCall
    <2>4. ASSUME calls[c].at # NoShard PROVE shards[calls[c].index].id = calls[c].at
      <3>1. Home(Srv, calls[c].node, calls[c].at)
        BY <2>3, <2>4 DEF Meant
      <3>2. PICK k \in DOMAIN shards[calls[c].index].nodes :
                shards[calls[c].index].nodes[k].node = calls[c].node
        BY <2>2 DEF Replicas
      <3> QED
        BY <2>2, <3>1, <3>2, SrvFields DEF Home
    <2> QED
      BY <2>1, <2>2, <2>4
  <1> QED
    BY <1>1, TypeInit, TypeStep, AlignedInit, AlignedStep, PTL DEF Spec, DeletesConfirmedNode
==============================================================================
