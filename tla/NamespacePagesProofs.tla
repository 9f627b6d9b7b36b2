------------------------ MODULE NamespacePagesProofs ------------------------
(***************************************************************************)
(* What holds of the pages of NamespacePages for any number of names,      *)
(* clusters and handlers, and without a bound on what others change: the   *)
(* types, the number of namespaces above their list, and that whatever is  *)
(* busy has a running handler.  At the end: what a visit of the namespaces *)
(* counts, for NamespaceRowsProofs.                                        *)
(***************************************************************************)
EXTENDS NamespacePages, FiniteSetTheorems, WellFoundedInduction, TLAPS

(* Few steps need arithmetic; those name SMT.                              *)
USE Zenon

Finite(S) == {D \in SUBSET S : IsFiniteSet(D)}

(* The finite functions from a part of S to T.                             *)
Maps(S, T) == UNION {[D -> T] : D \in Finite(S)}

Spaces == Maps(Name, Maps(ClusterName, Seq(Shard)))

(* The rows of the page of the namespaces are those of namespaces, the     *)
(* others those of clusters.                                               *)
Place(v) == IF v = "home" THEN Name ELSE ClusterName

RowType(v) ==
    IF v = "home" THEN [clusters : Nat, shards : Nat, nodes : Nat]
    ELSE [shards : Nat, nodes : Nat, hasSlots : BOOLEAN, hasMigration : BOOLEAN,
          hasImporting : BOOLEAN]

Op == {"namespaces", "clusters", "cluster", "shards", "nodes", "createNamespace",
       "removeNamespace", "createCluster", "removeCluster"}

RequestFields(v) ==
    [op : Op, name : Name \cup {None}, cluster : ClusterName \cup {None}, index : Nat,
     status : Status, names : Finite(Name) \cup Finite(ClusterName),
     shards : Seq(Shard), count : Nat, read : Nat, row : RowType(v) \cup {None}]

RequestType(v) ==
    {q \in RequestFields(v) :
        /\ q.op # "namespaces" => q.name \in Name
        /\ q.op \in {"cluster", "shards", "nodes"} => q.cluster \in ClusterName
        /\ q.op \in {"createCluster", "removeCluster"} /\ q.status = "sent" =>
                q.cluster \in ClusterName
        /\ q.op = "namespaces" => q.names \in Finite(Name)
        /\ q.op = "clusters" => q.names \in Finite(ClusterName)
        /\ q.op \in {"shards", "nodes"} => q.row \in RowType(v)}

For == {"load", "delete", "side", "item", "form", "stray"}

Awaits(v) == Maps({Main} \cup ClusterName, RequestType(v))

Rows(v) == Maps(Place(v), RowType(v))

TaskType(v) ==
    [for : For, awaits : Awaits(v), rows : Rows(v),
     names : Finite(Name), clusters : Finite(ClusterName), since : Nat, whole : BOOLEAN]

PageType(v) ==
    [rows : Rows(v), count : Int, loading : BOOLEAN,
     deleting : Name \cup ClusterName \cup {None}, space : Name \cup {None},
     items : SUBSET ClusterName, since : Nat, whole : BOOLEAN, overlap : BOOLEAN]

(* What runs in a place, of running handlers ts.                           *)
KindOf(ts, t) == IF ts[t] = NoTask THEN "none" ELSE ts[t].for

Tasks(v) == [Task -> TaskType(v) \cup {NoTask}]

TypeInv ==
    /\ spaces \in Spaces /\ version \in Nat
    /\ view \in Name \cup {"home", "cluster"}
    /\ tasks \in Tasks(view) /\ page \in PageType(view)
    /\ view = "cluster" => page.space \in Name
    /\ form \in FormType

(* What is busy has its handler, there is one handler of the form at most, *)
(* and each awaits something.  On the page of the namespaces no removal    *)
(* runs while there is the spinner, which a removal would not take away.   *)
BusyInv ==
    /\ page.loading => \E t \in Task : KindOf(tasks, t) \in {"load", "delete"}
    /\ page.deleting # None => \E t \in Task : KindOf(tasks, t) = "delete"
    /\ form.submitting => \E t \in Task : KindOf(tasks, t) = "form"
    /\ \A t \in Task : KindOf(tasks, t) = "form" => form.submitting
    /\ \A t, u \in Task : KindOf(tasks, t) = "form" /\ KindOf(tasks, u) = "form" => t = u
    /\ view = "home" => \A t \in Task : KindOf(tasks, t) = "delete" => ~page.loading
    /\ \A t \in Task : tasks[t] # NoTask => DOMAIN tasks[t].awaits # {}

(* The removal in place t takes a row from the rows of its closure, which  *)
(* are at least as many as the number that is shown, and are the rows that *)
(* are shown unless removals overlapped.                                   *)
Removal(t) ==
    /\ page.count <= Cardinality(DOMAIN tasks[t].rows)
    /\ Main \in DOMAIN tasks[t].awaits
    /\ tasks[t].awaits[Main].name \in DOMAIN tasks[t].rows
    /\ ~page.overlap => /\ tasks[t].rows = page.rows
                        /\ \A u \in Task : KindOf(tasks, u) = "delete" => u = t

(* One visit runs at most, and only under the spinner, so that it never    *)
(* changes the rows under a removal.                                       *)
CountInv ==
    view = "home" =>
        /\ page.count <= Cardinality(DOMAIN page.rows)
        /\ ~page.overlap => page.count = Cardinality(DOMAIN page.rows)
        /\ \A t, u \in Task : KindOf(tasks, t) = "load" /\ KindOf(tasks, u) = "load" => t = u
        /\ \A t \in Task : KindOf(tasks, t) = "load" => page.loading
        /\ \A t \in Task : KindOf(tasks, t) = "delete" => Removal(t)

Inv == TypeInv /\ BusyInv /\ CountInv

-----------------------------------------------------------------------------
(* Finite functions *)

(* A function on a finite part of S with values in T is one of them.       *)
LEMMA MapsIntro ==
    ASSUME NEW S, NEW T, NEW D \in Finite(S), NEW f \in [D -> T]
    PROVE  f \in Maps(S, T)
BY DEF Maps

(* And each of them is such a function on its domain.                      *)
LEMMA MapsElim ==
    ASSUME NEW S, NEW T, NEW f \in Maps(S, T)
    PROVE  /\ DOMAIN f \in Finite(S) /\ DOMAIN f \subseteq S /\ IsFiniteSet(DOMAIN f)
           /\ f \in [DOMAIN f -> T]
           /\ \A x \in DOMAIN f : f[x] \in T
<1>1. PICK D \in Finite(S) : f \in [D -> T]  BY DEF Maps
<1>2. DOMAIN f = D  BY <1>1
<1> QED  BY <1>1, <1>2 DEF Finite

(* NoClusters is the empty one.                                            *)
LEMMA MapsEmpty ==
    ASSUME NEW S, NEW T
    PROVE  NoClusters \in Maps(S, T) /\ DOMAIN NoClusters = {}
<1>1. {} \in Finite(S)  BY FS_EmptySet DEF Finite
<1>2. NoClusters \in [{} -> T] /\ DOMAIN NoClusters = {}  BY DEF NoClusters
<1> QED  BY <1>1, <1>2, MapsIntro

(* What a function is after one more value has been put into it.           *)
LEMMA MapsPut ==
    ASSUME NEW S, NEW T, NEW f \in Maps(S, T), NEW x \in S, NEW v \in T
    PROVE  /\ Put(f, x, v) \in Maps(S, T)
           /\ DOMAIN Put(f, x, v) = DOMAIN f \cup {x}
           /\ Put(f, x, v)[x] = v
<1> DEFINE D == DOMAIN f \cup {x}
<1>1. DOMAIN f \subseteq S /\ IsFiniteSet(DOMAIN f) /\ f \in [DOMAIN f -> T]  BY MapsElim
<1>2. D \in Finite(S)  BY <1>1, FS_AddElement DEF Finite
<1>3. Put(f, x, v) \in [D -> T] /\ DOMAIN Put(f, x, v) = D /\ Put(f, x, v)[x] = v
  BY <1>1 DEF Put
<1> QED  BY <1>2, <1>3, MapsIntro

(* The function with a single value.                                       *)
LEMMA MapsJust ==
    ASSUME NEW S, NEW T, NEW x \in S, NEW v \in T
    PROVE  /\ Just(x, v) \in Maps(S, T)
           /\ DOMAIN Just(x, v) = {x}
           /\ Just(x, v)[x] = v
           /\ Just(x, v) # NoClusters
<1>1. {x} \in Finite(S)  BY FS_Singleton DEF Finite
<1>2. Just(x, v) \in [{x} -> T] /\ DOMAIN Just(x, v) = {x} /\ Just(x, v)[x] = v  BY DEF Just
<1>3. DOMAIN NoClusters = {}  BY DEF NoClusters
<1> QED  BY <1>1, <1>2, <1>3, MapsIntro

(* A function on a part of its domain.                                     *)
LEMMA MapsRestrict ==
    ASSUME NEW S, NEW T, NEW f \in Maps(S, T), NEW D, D \subseteq DOMAIN f
    PROVE  Restrict(f, D) \in Maps(S, T) /\ DOMAIN Restrict(f, D) = D
<1>1. DOMAIN f \subseteq S /\ IsFiniteSet(DOMAIN f) /\ f \in [DOMAIN f -> T]  BY MapsElim
<1>2. D \in Finite(S)  BY <1>1, FS_Subset DEF Finite
<1>3. Restrict(f, D) \in [D -> T] /\ DOMAIN Restrict(f, D) = D  BY <1>1 DEF Restrict
<1> QED  BY <1>2, <1>3, MapsIntro

(* A function with another value where it had one.                         *)
LEMMA MapsExcept ==
    ASSUME NEW S, NEW T, NEW f \in Maps(S, T), NEW x \in DOMAIN f, NEW v \in T
    PROVE  /\ [f EXCEPT ![x] = v] \in Maps(S, T)
           /\ DOMAIN [f EXCEPT ![x] = v] = DOMAIN f
<1>1. DOMAIN f \in Finite(S) /\ f \in [DOMAIN f -> T]  BY MapsElim
<1>2. [f EXCEPT ![x] = v] \in [DOMAIN f -> T] /\ DOMAIN [f EXCEPT ![x] = v] = DOMAIN f  BY <1>1
<1> QED  BY <1>1, <1>2, MapsIntro

-----------------------------------------------------------------------------
(* The server *)

(* A new request.                                                          *)
LEMMA RequestOf ==
    ASSUME NEW v, NEW op \in Op, NEW name \in Name \cup {None},
           NEW cluster \in ClusterName \cup {None}, NEW index \in Nat,
           NEW row \in RowType(v) \cup {None}, NEW shards \in Seq(Shard),
           op # "namespaces" => name \in Name,
           op \in {"cluster", "shards", "nodes", "createCluster", "removeCluster"} =>
                cluster \in ClusterName,
           op \in {"shards", "nodes"} => row \in RowType(v)
    PROVE  /\ Request(op, name, cluster, index, row) \in RequestType(v)
           /\ [Request(op, name, cluster, index, row) EXCEPT !.shards = shards]
                \in RequestType(v)
<1> DEFINE q == Request(op, name, cluster, index, row)
           r == [q EXCEPT !.shards = shards]
<1>1. {} \in Finite(Name) /\ {} \in Finite(ClusterName)  BY FS_EmptySet DEF Finite
<1>2. << >> \in Seq(Shard)  BY SMT
<1>3. q \in RequestFields(v) /\ r \in RequestFields(v)
  BY <1>1, <1>2 DEF RequestFields, Request, Status
<1>4. /\ q.op = op /\ q.name = name /\ q.cluster = cluster /\ q.names = {} /\ q.row = row
      /\ r.op = op /\ r.name = name /\ r.cluster = cluster /\ r.names = {} /\ r.row = row
  BY DEF Request
<1> HIDE DEF q, r
<1>5. q \in RequestType(v) /\ r \in RequestType(v)
  BY <1>1, <1>3, <1>4 DEF RequestType
<1> QED  BY <1>4, <1>5 DEF q, r

(* What the server has under a name.                                       *)
LEMMA SpacesElim ==
    ASSUME spaces \in Spaces
    PROVE  /\ DOMAIN spaces \in Finite(Name)
           /\ \A n \in DOMAIN spaces :
                /\ n \in Name /\ spaces[n] \in Maps(ClusterName, Seq(Shard))
                /\ DOMAIN spaces[n] \in Finite(ClusterName)
                /\ \A c \in DOMAIN spaces[n] : c \in ClusterName /\ spaces[n][c] \in Seq(Shard)
<1>1. /\ DOMAIN spaces \in Finite(Name) /\ DOMAIN spaces \subseteq Name
      /\ \A n \in DOMAIN spaces : spaces[n] \in Maps(ClusterName, Seq(Shard))
  BY MapsElim DEF Spaces
<1>2. ASSUME NEW n \in DOMAIN spaces
      PROVE  /\ DOMAIN spaces[n] \in Finite(ClusterName) /\ DOMAIN spaces[n] \subseteq ClusterName
             /\ \A c \in DOMAIN spaces[n] : spaces[n][c] \in Seq(Shard)
  <2> DEFINE f == spaces[n]
  <2>1. f \in Maps(ClusterName, Seq(Shard))  BY <1>1
  <2> HIDE DEF f
  <2>2. /\ DOMAIN f \in Finite(ClusterName) /\ DOMAIN f \subseteq ClusterName
        /\ \A c \in DOMAIN f : f[c] \in Seq(Shard)
    BY <2>1, MapsElim
  <2> QED  BY <2>2 DEF f
<1> QED  BY <1>1, <1>2

(* What the edits of namespaces lead to.                                   *)
LEMMA NamespaceEdits ==
    ASSUME spaces \in Spaces, NEW n \in Name
    PROVE  CreateNamespace(n) \subseteq Spaces /\ RemoveNamespace(n) \subseteq Spaces
<1>1. CreateNamespace(n) \subseteq Spaces
  <2>1. NoClusters \in Maps(ClusterName, Seq(Shard))  BY MapsEmpty
  <2>2. Put(spaces, n, NoClusters) \in Spaces  BY <2>1, MapsPut DEF Spaces
  <2> QED  BY <2>2 DEF CreateNamespace
<1>2. RemoveNamespace(n) \subseteq Spaces
  <2>1. Restrict(spaces, DOMAIN spaces \ {n}) \in Spaces  BY MapsRestrict DEF Spaces
  <2> QED  BY <2>1 DEF RemoveNamespace
<1> QED  BY <1>1, <1>2

(* What the edits of clusters lead to.                                     *)
LEMMA ClusterEdits ==
    ASSUME spaces \in Spaces, NEW n \in Name, NEW c \in ClusterName
    PROVE  /\ CreateCluster(n, c) \subseteq Spaces /\ RemoveCluster(n, c) \subseteq Spaces
           /\ n \in DOMAIN spaces /\ c \in DOMAIN spaces[n] => UpdateCluster(n, c) \subseteq Spaces
<1> DEFINE M == Maps(ClusterName, Seq(Shard))
<1>0. spaces \in Maps(Name, M) /\ Spaces = Maps(Name, M)  BY DEF Spaces
<1>3. ASSUME NEW f, n \in DOMAIN spaces, f \in M
      PROVE  [spaces EXCEPT ![n] = f] \in Spaces
  <2> HIDE DEF M
  <2> QED  BY <1>0, <1>3, MapsExcept
<1>4. CreateCluster(n, c) \subseteq Spaces
  <2> SUFFICES ASSUME n \in DOMAIN spaces
               PROVE  [spaces EXCEPT ![n] = Put(spaces[n], c, NewShards)] \in Spaces
    BY DEF CreateCluster
  <2>1. spaces[n] \in M  BY SpacesElim
  <2>2. NewShards \in Seq(Shard)  BY SpacesAssumption
  <2>3. Put(spaces[n], c, NewShards) \in M  BY <2>1, <2>2, MapsPut
  <2> QED  BY <2>3, <1>3
<1>5. RemoveCluster(n, c) \subseteq Spaces
  <2> SUFFICES ASSUME n \in DOMAIN spaces
               PROVE  [spaces EXCEPT ![n] = Restrict(spaces[n], DOMAIN spaces[n] \ {c})] \in Spaces
    BY DEF RemoveCluster
  <2>1. spaces[n] \in M  BY SpacesElim
  <2>2. Restrict(spaces[n], DOMAIN spaces[n] \ {c}) \in M  BY <2>1, MapsRestrict
  <2> QED  BY <2>2, <1>3
<1>6. ASSUME n \in DOMAIN spaces, c \in DOMAIN spaces[n]
      PROVE  UpdateCluster(n, c) \subseteq Spaces
  <2> SUFFICES ASSUME NEW list \in ClusterShards
               PROVE  [spaces EXCEPT ![n][c] = list] \in Spaces
    BY DEF UpdateCluster
  <2>1. spaces[n] \in M  BY <1>6, SpacesElim
  <2>2. list \in Seq(Shard)  BY SpacesAssumption
  <2>3. [spaces[n] EXCEPT ![c] = list] \in M  BY <1>6, <2>1, <2>2, MapsExcept
  <2> QED  BY <2>3, <1>3, <1>6
<1> QED  BY <1>4, <1>5, <1>6

(* An answer to a request is one, and names what the request named.        *)
LEMMA AnswerTypes ==
    ASSUME NEW v, NEW q \in RequestType(v)
    PROVE  /\ Failed(q) \in RequestType(v) /\ Failed(q).name = q.name
           /\ [Failed(q) EXCEPT !.cluster = None].name = q.name
           /\ q.op \in {"createNamespace", "removeNamespace", "createCluster", "removeCluster"} =>
                [Failed(q) EXCEPT !.cluster = None] \in RequestType(v)
           /\ \A ok \in {"data", "empty"} :
                [q EXCEPT !.status = ok] \in RequestType(v) /\ [q EXCEPT !.status = ok].name = q.name
<1>1. q \in RequestFields(v)  BY DEF RequestType
<1>2. ASSUME NEW answer \in RequestFields(v), answer.op = q.op, answer.name = q.name,
             answer.status # "sent", answer.names = q.names, answer.row = q.row,
             \/ answer.cluster = q.cluster
             \/ q.op \in {"createNamespace", "removeNamespace", "createCluster", "removeCluster"}
      PROVE  answer \in RequestType(v)
  BY <1>2 DEF RequestType
<1>3. ASSUME NEW ok \in {"data", "empty", "error"}
      PROVE  [q EXCEPT !.status = ok] \in RequestType(v) /\ [q EXCEPT !.status = ok].name = q.name
  <2> DEFINE answer == [q EXCEPT !.status = ok]
  <2>1. answer \in RequestFields(v)  BY <1>1 DEF RequestFields, Status
  <2>2. /\ answer.op = q.op /\ answer.name = q.name /\ answer.status # "sent"
        /\ answer.names = q.names /\ answer.row = q.row /\ answer.cluster = q.cluster
    BY <1>1 DEF RequestFields
  <2> QED  BY <1>2, <2>1, <2>2
<1>4. Failed(q) \in RequestType(v) /\ Failed(q).name = q.name  BY <1>3 DEF Failed
<1>5. /\ [Failed(q) EXCEPT !.cluster = None].name = q.name
      /\ q.op \in {"createNamespace", "removeNamespace", "createCluster", "removeCluster"} =>
            [Failed(q) EXCEPT !.cluster = None] \in RequestType(v)
  <2> DEFINE answer == [Failed(q) EXCEPT !.cluster = None]
  <2>1. answer \in RequestFields(v)  BY <1>1 DEF RequestFields, Status, Failed
  <2>2. /\ answer.op = q.op /\ answer.name = q.name /\ answer.status # "sent"
        /\ answer.names = q.names /\ answer.row = q.row
    BY <1>1 DEF RequestFields, Failed
  <2> QED  BY <1>2, <2>1, <2>2
<1> QED  BY <1>3, <1>4, <1>5

(* So is what the server reads for it.                                     *)
LEMMA ReadType ==
    ASSUME spaces \in Spaces, version \in Nat, NEW v, NEW q \in RequestType(v)
    PROVE  Read(q) \in RequestType(v) /\ Read(q).name = q.name
<1> DEFINE here == q.name \in DOMAIN spaces
           cluster == here /\ q.cluster \in DOMAIN spaces[q.name]
           data == [q EXCEPT !.status = "data"]
<1>1. q \in RequestFields(v)  BY DEF RequestType
<1>2. /\ data \in RequestFields(v) /\ data.status = "data"
      /\ data.op = q.op /\ data.name = q.name /\ data.names = q.names
      /\ data.row = q.row /\ data.cluster = q.cluster
  BY <1>1 DEF RequestFields, Status
<1>3. CASE q.op = "namespaces"
  <2> DEFINE a == [data EXCEPT !.names = DOMAIN spaces, !.read = version]
  <2>1. DOMAIN spaces \in Finite(Name)  BY SpacesElim
  <2> HIDE DEF data
  <2>2. a \in RequestFields(v)  BY <1>2, <2>1 DEF RequestFields
  <2>3. a.op = "namespaces" /\ a.name = q.name /\ a.names = DOMAIN spaces
    BY <1>2, <1>3 DEF RequestFields
  <2>4. Read(q) = a  BY <1>3 DEF Read, data
  <2> HIDE DEF a
  <2>5. a \in RequestType(v)  BY <2>1, <2>2, <2>3 DEF RequestType
  <2> QED  BY <2>3, <2>4, <2>5
<1>4. CASE q.op = "clusters" /\ here
  <2> DEFINE D == DOMAIN spaces[q.name]
             a == [data EXCEPT !.names = D, !.read = version]
  <2>1. D \in Finite(ClusterName)  BY <1>4, SpacesElim
  <2>4. Read(q) = a  BY <1>4 DEF Read
  <2> HIDE DEF data, D
  <2>2. a \in RequestFields(v)  BY <1>2, <2>1 DEF RequestFields
  <2>3. a.op = "clusters" /\ a.name = q.name /\ a.names = D
    BY <1>2, <1>4 DEF RequestFields
  <2> HIDE DEF a
  <2>5. q.name \in Name  BY <1>4 DEF RequestType
  <2>6. a \in RequestType(v)  BY <2>1, <2>2, <2>3, <2>5 DEF RequestType
  <2> QED  BY <2>3, <2>4, <2>6
<1>5. ASSUME q.op \in {"cluster", "shards", "nodes"}, NEW a \in RequestFields(v),
             a.op = q.op, a.name = q.name, a.cluster = q.cluster, a.row = q.row
      PROVE  a \in RequestType(v)
  BY <1>5 DEF RequestType
<1>6. CASE q.op \in {"cluster", "shards"} /\ cluster
  <2> DEFINE list == spaces[q.name][q.cluster]
             a == [data EXCEPT !.shards = list]
  <2>1. list \in Seq(Shard)  BY <1>6, SpacesElim
  <2>2. Read(q) = a  BY <1>6 DEF Read
  <2> HIDE DEF data, list
  <2>3. a \in RequestFields(v)  BY <1>2, <2>1 DEF RequestFields
  <2>4. a.op = q.op /\ a.name = q.name /\ a.cluster = q.cluster /\ a.row = q.row
    BY <1>2 DEF RequestFields
  <2> HIDE DEF a
  <2> QED  BY <1>5, <1>6, <2>2, <2>3, <2>4
<1>7. CASE q.op = "nodes" /\ cluster /\ q.index \in DOMAIN spaces[q.name][q.cluster]
  <2> DEFINE count == spaces[q.name][q.cluster][q.index].nodes
             a == [data EXCEPT !.count = count]
  <2>1. count \in Nat
    <3>1. spaces[q.name][q.cluster] \in Seq(Shard)  BY <1>7, SpacesElim
    <3>2. spaces[q.name][q.cluster][q.index] \in Shard  BY <1>7, <3>1, SMT
    <3> QED  BY <3>2 DEF Shard
  <2>2. Read(q) = a  BY <1>7 DEF Read
  <2> HIDE DEF data, count
  <2>3. a \in RequestFields(v)  BY <1>2, <2>1 DEF RequestFields
  <2>4. a.op = q.op /\ a.name = q.name /\ a.cluster = q.cluster /\ a.row = q.row
    BY <1>2 DEF RequestFields
  <2> HIDE DEF a
  <2> QED  BY <1>5, <1>7, <2>2, <2>3, <2>4
<1>8. CASE /\ ~(q.op = "namespaces") /\ ~(q.op = "clusters" /\ here)
           /\ ~(q.op \in {"cluster", "shards"} /\ cluster)
           /\ ~(q.op = "nodes" /\ cluster /\ q.index \in DOMAIN spaces[q.name][q.cluster])
  <2>1. Read(q) = Failed(q)  BY <1>8, Zenon DEF Read
  <2> QED  BY <2>1, AnswerTypes
<1> QED  BY <1>3, <1>4, <1>6, <1>7, <1>8

-----------------------------------------------------------------------------
(* Handlers *)

(* The fields of a handler, and that it is not the place of one.           *)
LEMMA TaskFields ==
    ASSUME NEW v, NEW task \in TaskType(v)
    PROVE  /\ task # NoTask /\ task.for \in For /\ task.awaits \in Awaits(v)
           /\ task.rows \in Rows(v) /\ task.names \in Finite(Name)
           /\ task.clusters \in Finite(ClusterName) /\ task.since \in Nat /\ task.whole \in BOOLEAN
           /\ \A b \in DOMAIN task.awaits : task.awaits[b] \in RequestType(v)
<1>1. /\ task.for \in For /\ task.awaits \in Awaits(v)
      /\ task.rows \in Rows(v) /\ task.names \in Finite(Name)
      /\ task.clusters \in Finite(ClusterName) /\ task.since \in Nat /\ task.whole \in BOOLEAN
  BY DEF TaskType
<1>2. NoTask.for = "none"  BY DEF NoTask
<1>3. task # NoTask  BY <1>1, <1>2 DEF For
<1>4. \A b \in DOMAIN task.awaits : task.awaits[b] \in RequestType(v)
  BY <1>1, MapsElim DEF Awaits
<1> QED  BY <1>1, <1>3, <1>4

(* A place with a handler of a kind.                                       *)
LEMMA KindFacts ==
    ASSUME NEW v, NEW ts \in Tasks(v), NEW t \in Task
    PROVE  /\ ts[t] = NoTask \/ ts[t] \in TaskType(v)
           /\ ts[t] = NoTask <=> KindOf(ts, t) = "none"
           /\ ts[t] # NoTask => ts[t] \in TaskType(v) /\ KindOf(ts, t) = ts[t].for
<1>1. ts[t] = NoTask \/ ts[t] \in TaskType(v)  BY DEF Tasks
<1>2. ts[t] \in TaskType(v) => ts[t] # NoTask /\ ts[t].for \in For  BY TaskFields
<1> QED  BY <1>1, <1>2 DEF KindOf, For

(* A handler that ends.                                                    *)
LEMMA EndedTask ==
    ASSUME NEW v, tasks \in Tasks(v), NEW t \in Task, Ended(t)
    PROVE  /\ tasks' \in Tasks(v)
           /\ tasks'[t] = NoTask /\ KindOf(tasks', t) = "none"
           /\ \A u \in Task \ {t} : tasks'[u] = tasks[u] /\ KindOf(tasks', u) = KindOf(tasks, u)
<1>1. tasks' = [tasks EXCEPT ![t] = NoTask]  BY DEF Ended
<1>2. tasks' \in Tasks(v) /\ tasks'[t] = NoTask /\ \A u \in Task \ {t} : tasks'[u] = tasks[u]
  BY <1>1 DEF Tasks
<1> QED  BY <1>2 DEF KindOf

(* The handler of a new request.                                           *)
LEMMA RunningType ==
    ASSUME NEW v, NEW for \in For, NEW request \in RequestType(v)
    PROVE  /\ Running(for, request) \in TaskType(v)
           /\ Running(for, request).for = for
           /\ Main \in DOMAIN Running(for, request).awaits
           /\ Running(for, request).awaits[Main] = request
<1>1. /\ Just(Main, request) \in Awaits(v)
      /\ DOMAIN Just(Main, request) = {Main} /\ Just(Main, request)[Main] = request
  BY MapsJust DEF Awaits
<1>2. NoClusters \in Rows(v)  BY MapsEmpty DEF Rows
<1>3. {} \in Finite(Name) /\ {} \in Finite(ClusterName)  BY FS_EmptySet DEF Finite
<1> QED  BY <1>1, <1>2, <1>3 DEF Running, TaskType

(* The only handler of a page that has just been opened.                   *)
LEMMA OnlyTaskType ==
    ASSUME NEW v, NEW task \in TaskType(v)
    PROVE  /\ OnlyTask(task) \in Tasks(v)
           /\ \E t \in Task : /\ OnlyTask(task)[t] = task
                              /\ \A u \in Task \ {t} : OnlyTask(task)[u] = NoTask
<1> DEFINE first == CHOOSE u \in Task : TRUE
<1>1. first \in Task  BY TaskAssumption
<1>2. OnlyTask(task) = [t \in Task |-> IF t = first THEN task ELSE NoTask]  BY DEF OnlyTask
<1> HIDE DEF first
<1>3. OnlyTask(task) \in Tasks(v)  BY <1>2 DEF Tasks
<1>4. OnlyTask(task)[first] = task /\ \A u \in Task \ {first} : OnlyTask(task)[u] = NoTask
  BY <1>1, <1>2
<1> QED  BY <1>1, <1>3, <1>4

(* The handler of a form goes on without it, and the others as they were.  *)
LEMMA UnmountedTasks ==
    ASSUME NEW v, NEW ts \in Tasks(v)
    PROVE  /\ Unmounted(ts) \in Tasks(v)
           /\ \A t \in Task :
                /\ KindOf(Unmounted(ts), t) = IF KindOf(ts, t) = "form" THEN "stray" ELSE KindOf(ts, t)
                /\ KindOf(ts, t) # "form" => Unmounted(ts)[t] = ts[t]
                /\ ts[t] # NoTask => Unmounted(ts)[t].awaits = ts[t].awaits
<1> SUFFICES ASSUME NEW t \in Task
             PROVE  /\ Unmounted(ts)[t] \in TaskType(v) \cup {NoTask}
                    /\ KindOf(Unmounted(ts), t) = IF KindOf(ts, t) = "form" THEN "stray" ELSE KindOf(ts, t)
                    /\ KindOf(ts, t) # "form" => Unmounted(ts)[t] = ts[t]
                    /\ ts[t] # NoTask => Unmounted(ts)[t].awaits = ts[t].awaits
  <2>1. Unmounted(ts) = [t \in Task |-> Unmounted(ts)[t]]  BY DEF Unmounted
  <2> QED  BY <2>1 DEF Tasks
<1>1. Unmounted(ts)[t] = IF ts[t] # NoTask /\ ts[t].for = "form"
                         THEN [ts[t] EXCEPT !.for = "stray"] ELSE ts[t]
  BY DEF Unmounted
<1>2. /\ ts[t] = NoTask \/ ts[t] \in TaskType(v)
      /\ ts[t] = NoTask <=> KindOf(ts, t) = "none"
      /\ ts[t] # NoTask => ts[t] \in TaskType(v) /\ KindOf(ts, t) = ts[t].for
  BY KindFacts
<1>3. CASE ts[t] # NoTask /\ ts[t].for = "form"
  <2> DEFINE task == [ts[t] EXCEPT !.for = "stray"]
  <2>1. task \in TaskType(v) /\ task.for = "stray" /\ task.awaits = ts[t].awaits
    BY <1>2, <1>3 DEF TaskType, For
  <2>2. task # NoTask  BY <2>1, TaskFields
  <2>3. KindOf(ts, t) = "form"  BY <1>2, <1>3
  <2>4. Unmounted(ts)[t] = task  BY <1>1, <1>3
  <2> HIDE DEF task
  <2>5. KindOf(Unmounted(ts), t) = "stray"  BY <2>1, <2>2, <2>4 DEF KindOf
  <2> QED  BY <2>1, <2>3, <2>4, <2>5, <1>3
<1>4. CASE ~(ts[t] # NoTask /\ ts[t].for = "form")
  <2>1. Unmounted(ts)[t] = ts[t]  BY <1>1, <1>4
  <2>2. KindOf(Unmounted(ts), t) = KindOf(ts, t)  BY <2>1 DEF KindOf
  <2>3. KindOf(ts, t) # "form"  BY <1>2, <1>4
  <2> QED  BY <1>2, <2>1, <2>2, <2>3
<1> QED  BY <1>3, <1>4

(* An answer reaches the handler that awaits it.                           *)
LEMMA ReplyTask ==
    ASSUME NEW v, tasks \in Tasks(v), NEW t \in Task, NEW b, Awaiting(t, b),
           NEW answer \in RequestType(v), answer.name = tasks[t].awaits[b].name,
           Reply(t, b, answer)
    PROVE  /\ tasks' \in Tasks(v)
           /\ \A u \in Task :
                /\ KindOf(tasks', u) = KindOf(tasks, u)
                /\ tasks[u] # NoTask =>
                    /\ tasks'[u].rows = tasks[u].rows
                    /\ DOMAIN tasks'[u].awaits = DOMAIN tasks[u].awaits
                    /\ \A d \in DOMAIN tasks[u].awaits :
                        tasks'[u].awaits[d].name = tasks[u].awaits[d].name
<1> DEFINE awaits == [tasks[t].awaits EXCEPT ![b] = answer]
           task == [tasks[t] EXCEPT !.awaits = awaits, !.whole = @ /\ answer.status # "error"]
<1>1. tasks[t] # NoTask /\ b \in DOMAIN tasks[t].awaits  BY DEF Awaiting
<1>2. tasks[t] \in TaskType(v)  BY <1>1, KindFacts
<1>3. /\ tasks[t].for \in For /\ tasks[t].awaits \in Awaits(v) /\ tasks[t].whole \in BOOLEAN
  BY <1>2, TaskFields
<1>4. awaits \in Awaits(v) /\ DOMAIN awaits = DOMAIN tasks[t].awaits
  BY <1>1, <1>3, MapsExcept DEF Awaits
<1>5. /\ task \in TaskType(v) /\ task.for = tasks[t].for /\ task.rows = tasks[t].rows
      /\ task.awaits = awaits
  <2> HIDE DEF awaits
  <2>1. (tasks[t].whole /\ answer.status # "error") \in BOOLEAN  BY <1>3
  <2> QED  BY <1>2, <1>4, <2>1 DEF TaskType
<1>6. tasks' = [tasks EXCEPT ![t] = task]  BY DEF Reply, Tasks
<1>7. \A d \in DOMAIN tasks[t].awaits : awaits[d].name = tasks[t].awaits[d].name
  <2> DEFINE old == tasks[t].awaits
  <2>1. old \in [DOMAIN old -> RequestType(v)]  BY <1>3, MapsElim DEF Awaits
  <2>2. answer.name = old[b].name  OBVIOUS
  <2> HIDE DEF old
  <2>3. ASSUME NEW d \in DOMAIN old
        PROVE  [old EXCEPT ![b] = answer][d].name = old[d].name
    <3>1. CASE d = b  BY <2>1, <2>2, <3>1
    <3>2. CASE d # b  BY <2>1, <3>2
    <3> QED  BY <3>1, <3>2
  <2> QED  BY <2>3 DEF old
<1> HIDE DEF task, awaits
<1>8. tasks' \in Tasks(v) /\ tasks'[t] = task /\ \A u \in Task \ {t} : tasks'[u] = tasks[u]
  BY <1>5, <1>6 DEF Tasks
<1>9. task # NoTask  BY <1>5, TaskFields
<1>10. \A u \in Task : KindOf(tasks', u) = KindOf(tasks, u)
  BY <1>1, <1>5, <1>8, <1>9 DEF KindOf
<1> QED  BY <1>4, <1>5, <1>7, <1>8, <1>10

(* Only the empty function has no domain.                                  *)
LEMMA MapsNonEmpty ==
    ASSUME NEW S, NEW T, NEW f \in Maps(S, T)
    PROVE  f # NoClusters <=> DOMAIN f # {}
<1>1. f \in [DOMAIN f -> T]  BY MapsElim
<1>2. NoClusters \in [{} -> T] /\ DOMAIN NoClusters = {}  BY DEF NoClusters
<1>3. ASSUME DOMAIN f = {}  PROVE f = NoClusters
  <2>1. f \in [{} -> T]  BY <1>1, <1>3
  <2> QED  BY <1>2, <2>1, SMT
<1> QED  BY <1>2, <1>3

-----------------------------------------------------------------------------
(* The visits of the page of the namespaces *)

(* The loop over namespaces keeps the type of the handler, and its kind.   *)
LEMMA NextNamespaceType ==
    ASSUME view = "home", NEW task \in TaskType(view)
    PROVE  NextNamespace(task) \in TaskType(view) /\ NextNamespace(task).for = task.for
<1>1. task.names \in Finite(Name)  BY TaskFields
<1>2. CASE task.names = {}
  <2>1. NoClusters \in Awaits(view)  BY MapsEmpty DEF Awaits
  <2> QED  BY <1>2, <2>1 DEF NextNamespace, TaskType
<1>3. CASE task.names # {}
  <2> DEFINE n == CHOOSE n \in task.names : TRUE
             request == Request("clusters", n, None, 0, None)
             awaits == Just(Main, request)
             names == task.names \ {n}
  <2>1. n \in Name  BY <1>1, <1>3 DEF Finite
  <2>2. NextNamespace(task) = [task EXCEPT !.names = names, !.awaits = awaits]
    BY <1>3 DEF NextNamespace
  <2>3. names \in Finite(Name)  BY <1>1, FS_Subset DEF Finite
  <2> HIDE DEF n
  <2>4. request \in RequestType(view)
    <3>1. << >> \in Seq(Shard)  BY SMT
    <3> QED  BY <2>1, <3>1, RequestOf DEF Op
  <2> HIDE DEF request
  <2>5. awaits \in Awaits(view)  BY <2>4, MapsJust DEF Awaits
  <2> HIDE DEF awaits, names
  <2> QED  BY <2>2, <2>3, <2>5 DEF TaskType
<1> QED  BY <1>2, <1>3

(* So does the one over the clusters of a namespace.                       *)
LEMMA NextClusterType ==
    ASSUME view = "home", NEW task \in TaskType(view), NEW name \in Name, NEW row \in RowType(view)
    PROVE  NextCluster(task, name, row) \in TaskType(view) /\ NextCluster(task, name, row).for = task.for
<1>1. task.clusters \in Finite(ClusterName) /\ task.rows \in Rows(view)  BY TaskFields
<1>2. CASE task.clusters = {}
  <2> DEFINE rows == Put(task.rows, name, row)
             more == [task EXCEPT !.rows = rows]
  <2>1. rows \in Rows(view)  BY <1>1, MapsPut DEF Rows, Place
  <2>2. NextCluster(task, name, row) = NextNamespace(more)  BY <1>2 DEF NextCluster
  <2> HIDE DEF rows
  <2>3. more \in TaskType(view) /\ more.for = task.for  BY <2>1 DEF TaskType
  <2> HIDE DEF more
  <2> QED  BY <2>2, <2>3, NextNamespaceType
<1>3. CASE task.clusters # {}
  <2> DEFINE c == CHOOSE c \in task.clusters : TRUE
             request == Request("shards", name, c, 0, row)
             awaits == Just(Main, request)
             clusters == task.clusters \ {c}
  <2>1. c \in ClusterName  BY <1>1, <1>3 DEF Finite
  <2>2. NextCluster(task, name, row) = [task EXCEPT !.clusters = clusters, !.awaits = awaits]
    BY <1>3 DEF NextCluster
  <2>3. clusters \in Finite(ClusterName)  BY <1>1, FS_Subset DEF Finite
  <2> HIDE DEF c
  <2>4. request \in RequestType(view)
    <3>1. << >> \in Seq(Shard)  BY SMT
    <3> QED  BY <2>1, <3>1, RequestOf DEF Op
  <2> HIDE DEF request
  <2>5. awaits \in Awaits(view)  BY <2>4, MapsJust DEF Awaits
  <2> HIDE DEF awaits, clusters
  <2> QED  BY <2>2, <2>3, <2>5 DEF TaskType
<1> QED  BY <1>2, <1>3

(* And the one over the shards of a cluster.                               *)
LEMMA NextShardType ==
    ASSUME view = "home", NEW task \in TaskType(view),
           NEW request, request.name \in Name, request.cluster \in ClusterName,
           NEW index \in Nat, NEW shards \in Seq(Shard), NEW row \in RowType(view)
    PROVE  /\ NextShard(task, request, index, shards, row) \in TaskType(view)
           /\ NextShard(task, request, index, shards, row).for = task.for
<1>1. CASE index > Len(shards)
  BY <1>1, NextClusterType DEF NextShard
<1>2. CASE ~(index > Len(shards))
  <2> DEFINE next == [Request("nodes", request.name, request.cluster, index, row) EXCEPT
                        !.shards = shards]
             awaits == Just(Main, next)
  <2>1. next \in RequestType(view)  BY RequestOf DEF Op
  <2>2. NextShard(task, request, index, shards, row) = [task EXCEPT !.awaits = awaits]
    BY <1>2 DEF NextShard
  <2> HIDE DEF next
  <2>3. awaits \in Awaits(view)  BY <2>1, MapsJust DEF Awaits
  <2> HIDE DEF awaits
  <2> QED  BY <2>2, <2>3 DEF TaskType
<1> QED  BY <1>1, <1>2

(* A visit goes on with the page as it was, or ends and shows its rows.    *)
LEMMA VisitStep ==
    ASSUME view = "home", tasks \in Tasks(view), page \in PageType(view), NEW t \in Task, tasks[t] # NoTask,
           NEW task \in TaskType(view), task.for = tasks[t].for, Visit(t, task)
    PROVE  /\ tasks' \in Tasks(view) /\ page' \in PageType(view)
           /\ UNCHANGED <<view, form>>
           /\ \A u \in Task \ {t} : tasks'[u] = tasks[u]
           /\ \/ /\ page' = page /\ KindOf(tasks', t) = KindOf(tasks, t)
                 /\ DOMAIN tasks'[t].awaits # {}
              \/ /\ tasks'[t] = NoTask
                 /\ ~page'.loading /\ page'.deleting = page.deleting
                 /\ page'.space = page.space
                 /\ page'.count = Cardinality(DOMAIN page'.rows)
<1>1. CASE task.awaits # NoClusters
  <2>1. tasks' = [tasks EXCEPT ![t] = task] /\ UNCHANGED <<view, page, form>>
    BY <1>1 DEF Visit, pageVars
  <2>2. tasks' \in Tasks(view) /\ tasks'[t] = task /\ \A u \in Task \ {t} : tasks'[u] = tasks[u]
    BY <2>1 DEF Tasks
  <2>3. task # NoTask /\ task.awaits \in Awaits(view)  BY TaskFields
  <2>4. DOMAIN task.awaits # {}  BY <1>1, <2>3, MapsNonEmpty DEF Awaits
  <2>5. KindOf(tasks', t) = KindOf(tasks, t)  BY <2>2, <2>3 DEF KindOf
  <2> QED  BY <2>1, <2>2, <2>4, <2>5
<1>2. CASE ~(task.awaits # NoClusters)
  <2>1. /\ page' = [page EXCEPT !.rows = task.rows, !.count = Cardinality(DOMAIN task.rows),
                                !.since = task.since, !.whole = task.whole, !.loading = FALSE]
        /\ Ended(t) /\ UNCHANGED <<view, form>>
    BY <1>2 DEF Visit
  <2>2. task.rows \in Rows(view) /\ task.since \in Nat /\ task.whole \in BOOLEAN  BY TaskFields
  <2>3. Cardinality(DOMAIN task.rows) \in Nat
    <3>1. IsFiniteSet(DOMAIN task.rows)  BY <2>2, MapsElim DEF Rows
    <3> QED  BY <3>1, FS_CardinalityType
  <2>4. page' \in PageType(view)
    <3> DEFINE size == Cardinality(DOMAIN task.rows)
    <3>1. size \in Int  BY <2>3, SMT
    <3>2. page' = [page EXCEPT !.rows = task.rows, !.count = size,
                               !.since = task.since, !.whole = task.whole, !.loading = FALSE]
      BY <2>1
    <3> HIDE DEF size
    <3> QED  BY <2>2, <3>1, <3>2 DEF PageType
  <2>5. /\ ~page'.loading /\ page'.deleting = page.deleting /\ page'.space = page.space
        /\ page'.rows = task.rows /\ page'.count = Cardinality(DOMAIN task.rows)
    BY <2>1 DEF PageType
  <2>6. /\ tasks' \in Tasks(view) /\ tasks'[t] = NoTask
        /\ \A u \in Task \ {t} : tasks'[u] = tasks[u]
    BY <2>1, EndedTask
  <2> QED  BY <2>1, <2>4, <2>5, <2>6
<1> QED  BY <1>1, <1>2

-----------------------------------------------------------------------------
(* The visits of the page of a namespace *)

(* The row that a cluster starts with.                                     *)
LEMMA ClusterRowType ==
    ASSUME view # "home", NEW shards \in Seq(Shard)
    PROVE  ClusterRow(shards) \in RowType(view)
<1> DEFINE used == \E i \in DOMAIN shards : shards[i].slots
           moved == \E i \in DOMAIN shards : NotNegative(shards[i].migrating)
<1>1. used \in BOOLEAN /\ moved \in BOOLEAN /\ Len(shards) \in Nat  BY SMT
<1>2. ClusterRow(shards) = [shards |-> Len(shards), nodes |-> 0, hasSlots |-> used,
                            hasMigration |-> moved, hasImporting |-> FALSE]
  BY DEF ClusterRow
<1> HIDE DEF used, moved
<1> QED  BY <1>1, <1>2, SMT DEF RowType

(* A branch of Promise.all that ends keeps the type of the handler.        *)
LEMMA EndBranchType ==
    ASSUME view # "home", NEW task \in TaskType(view), NEW c
    PROVE  EndBranch(task, c) \in TaskType(view) /\ EndBranch(task, c).for = task.for
<1> DEFINE awaits == Restrict(task.awaits, DOMAIN task.awaits \ {c})
<1>1. task.awaits \in Awaits(view)  BY TaskFields
<1>2. awaits \in Awaits(view)  BY <1>1, MapsRestrict DEF Awaits
<1>3. EndBranch(task, c) = [task EXCEPT !.awaits = awaits]  BY DEF EndBranch
<1> HIDE DEF awaits
<1> QED  BY <1>2, <1>3 DEF TaskType

(* So does one that goes on to the next shard.                             *)
LEMMA NextNodesType ==
    ASSUME view # "home", NEW task \in TaskType(view), NEW c \in ClusterName, c \in DOMAIN task.awaits,
           view \in Name, NEW index \in Nat, NEW shards \in Seq(Shard), NEW row \in RowType(view)
    PROVE  /\ NextNodes(task, c, index, shards, row) \in TaskType(view)
           /\ NextNodes(task, c, index, shards, row).for = task.for
<1>1. task.awaits \in Awaits(view) /\ task.rows \in Rows(view)  BY TaskFields
<1>2. CASE index > Len(shards)
  <2> DEFINE rows == Put(task.rows, c, row)
             more == [task EXCEPT !.rows = rows]
  <2>1. rows \in Rows(view)  BY <1>1, MapsPut DEF Rows, Place
  <2>2. NextNodes(task, c, index, shards, row) = EndBranch(more, c)  BY <1>2 DEF NextNodes
  <2> HIDE DEF rows
  <2>3. more \in TaskType(view) /\ more.for = task.for  BY <2>1 DEF TaskType
  <2> HIDE DEF more
  <2> QED  BY <2>2, <2>3, EndBranchType
<1>3. CASE ~(index > Len(shards))
  <2> DEFINE next == [Request("nodes", view, c, index, row) EXCEPT !.shards = shards]
             awaits == [task.awaits EXCEPT ![c] = next]
  <2>1. next \in RequestType(view)  BY RequestOf DEF Op
  <2>2. NextNodes(task, c, index, shards, row) = [task EXCEPT !.awaits = awaits]
    BY <1>3 DEF NextNodes, TaskType
  <2> HIDE DEF next
  <2>3. awaits \in Awaits(view)  BY <1>1, <2>1, MapsExcept DEF Awaits
  <2> HIDE DEF awaits
  <2> QED  BY <2>2, <2>3 DEF TaskType
<1> QED  BY <1>2, <1>3

(* A request for each of the clusters that were listed.                    *)
LEMMA ListedType ==
    ASSUME view # "home", NEW task \in TaskType(view), NEW names \in Finite(ClusterName), NEW read \in Nat,
           view \in Name
    PROVE  LET next == [task EXCEPT !.since = read,
                          !.awaits = [c \in names |-> Request("cluster", view, c, 0, None)]]
           IN  next \in TaskType(view) /\ next.for = task.for
<1> DEFINE awaits == [c \in names |-> Request("cluster", view, c, 0, None)]
<1>1. ASSUME NEW c \in names
      PROVE  Request("cluster", view, c, 0, None) \in RequestType(view)
  <2>1. << >> \in Seq(Shard) /\ c \in ClusterName  BY SMT DEF Finite
  <2> QED  BY <2>1, RequestOf DEF Op
<1>2. awaits \in [names -> RequestType(view)]  BY <1>1
<1>3. names \in Finite({Main} \cup ClusterName)  BY DEF Finite
<1> HIDE DEF awaits
<1>4. awaits \in Awaits(view)  BY <1>2, <1>3, MapsIntro DEF Awaits
<1>5. /\ [task EXCEPT !.since = read, !.awaits = awaits] \in TaskType(view)
      /\ [task EXCEPT !.since = read, !.awaits = awaits].for = task.for
  BY <1>4 DEF TaskType
<1> QED  BY <1>5 DEF awaits

(* A visit goes on with the page as it was, or ends and shows its rows.    *)
LEMMA CollectStep ==
    ASSUME view # "home", tasks \in Tasks(view), page \in PageType(view), NEW t \in Task, tasks[t] # NoTask,
           NEW task \in TaskType(view), task.for = tasks[t].for, Collect(t, task)
    PROVE  /\ tasks' \in Tasks(view) /\ page' \in PageType(view)
           /\ UNCHANGED <<view, form>>
           /\ \A u \in Task \ {t} : tasks'[u] = tasks[u]
           /\ \/ /\ page' = page /\ KindOf(tasks', t) = KindOf(tasks, t)
                 /\ DOMAIN tasks'[t].awaits # {}
              \/ /\ Ended(t)
                 /\ ~page'.loading /\ page'.space = page.space
                 /\ page'.deleting = IF KindOf(tasks, t) = "delete" THEN None ELSE page.deleting
<1>1. CASE task.awaits # NoClusters
  <2>1. tasks' = [tasks EXCEPT ![t] = task] /\ UNCHANGED <<view, page, form>>
    BY <1>1 DEF Collect, pageVars
  <2>2. tasks' \in Tasks(view) /\ tasks'[t] = task /\ \A u \in Task \ {t} : tasks'[u] = tasks[u]
    BY <2>1 DEF Tasks
  <2>3. task # NoTask /\ task.awaits \in Awaits(view)  BY TaskFields
  <2>4. DOMAIN task.awaits # {}  BY <1>1, <2>3, MapsNonEmpty DEF Awaits
  <2>5. KindOf(tasks', t) = KindOf(tasks, t)  BY <2>2, <2>3 DEF KindOf
  <2> QED  BY <2>1, <2>2, <2>4, <2>5
<1>2. CASE ~(task.awaits # NoClusters)
  <2> DEFINE deleting == IF task.for = "delete" THEN None ELSE page.deleting
  <2>1. /\ page' = [page EXCEPT !.rows = task.rows, !.since = task.since, !.whole = task.whole,
                                !.loading = FALSE, !.deleting = deleting]
        /\ Ended(t) /\ UNCHANGED <<view, form>>
    BY <1>2 DEF Collect
  <2>2. task.rows \in Rows(view) /\ task.since \in Nat /\ task.whole \in BOOLEAN  BY TaskFields
  <2>3. deleting \in Name \cup ClusterName \cup {None}  BY DEF PageType
  <2>4. deleting = IF KindOf(tasks, t) = "delete" THEN None ELSE page.deleting  BY DEF KindOf
  <2> HIDE DEF deleting
  <2>5. page' \in PageType(view)  BY <2>1, <2>2, <2>3 DEF PageType
  <2>6. ~page'.loading /\ page'.deleting = deleting /\ page'.space = page.space
    BY <2>1 DEF PageType
  <2>7. /\ tasks' \in Tasks(view) /\ tasks'[t] = NoTask
        /\ \A u \in Task \ {t} : tasks'[u] = tasks[u]
    BY <2>1, EndedTask
  <2> QED  BY <2>1, <2>4, <2>5, <2>6, <2>7
<1> QED  BY <1>1, <1>2

-----------------------------------------------------------------------------
(* Steps *)

(* The types after a step that leaves the page open.                       *)
LEMMA TypesKept ==
    ASSUME TypeInv, tasks' \in Tasks(view), page' \in PageType(view),
           view' = view, form' \in FormType, spaces' \in Spaces, version' \in Nat,
           page'.space = page.space
    PROVE  TypeInv'
BY DEF TypeInv

(* A step that changes neither the page nor which handlers run.            *)
LEMMA GoOn ==
    ASSUME Inv, TypeInv', page' = page, view' = view, form'.submitting = form.submitting,
           \A t \in Task :
                /\ KindOf(tasks', t) = KindOf(tasks, t)
                /\ tasks'[t] # NoTask => DOMAIN tasks'[t].awaits # {}
                /\ view = "home" /\ KindOf(tasks, t) = "delete" =>
                    /\ tasks'[t].rows = tasks[t].rows
                    /\ Main \in DOMAIN tasks'[t].awaits
                    /\ tasks'[t].awaits[Main].name = tasks[t].awaits[Main].name
    PROVE  Inv'
<1>1. BusyInv'
  BY SMT DEF Inv, BusyInv
<1>2. ASSUME view = "home", NEW t \in Task, KindOf(tasks, t) = "delete"
      PROVE  Removal(t)'
  <2>1. Removal(t)  BY <1>2 DEF Inv, CountInv
  <2> QED  BY <1>2, <2>1 DEF Removal
<1>3. CountInv'
  BY <1>2 DEF Inv, CountInv
<1> QED  BY <1>1, <1>3 DEF Inv

(* A page is opened: it has one handler, and the spinner if that loads it. *)
LEMMA Opened ==
    ASSUME NEW t \in Task, NEW kind \in {"load", "side"}, TypeInv',
           KindOf(tasks', t) = kind, DOMAIN tasks'[t].awaits # {},
           \A u \in Task \ {t} : tasks'[u] = NoTask,
           form' = NoForm,
           \/ page' = Loading /\ kind = "load"
           \/ ~page'.loading /\ page'.deleting = None /\ view' # "home"
    PROVE  Inv'
<1>1. \A u \in Task \ {t} : KindOf(tasks', u) = "none"  BY DEF KindOf
<1>2. ~form'.submitting  BY DEF NoForm
<1>3. page' = Loading =>
        /\ page'.loading /\ page'.deleting = None /\ page'.count = 0
        /\ page'.rows = NoClusters
  BY SMT DEF Loading
<1>4. BusyInv'
  BY <1>1, <1>2, <1>3 DEF BusyInv
<1>5. CountInv'
  <2> SUFFICES ASSUME view' = "home"  PROVE CountInv'  BY DEF CountInv
  <2>1. page' = Loading  OBVIOUS
  <2>2. Cardinality({}) = 0 /\ DOMAIN NoClusters = {}  BY FS_EmptySet DEF NoClusters
  <2>3. page'.count = Cardinality(DOMAIN page'.rows) /\ page'.count <= Cardinality(DOMAIN page'.rows)
    BY <1>3, <2>1, <2>2, SMT
  <2> QED  BY <1>1, <1>3, <2>1, <2>3 DEF CountInv
<1> QED  BY <1>4, <1>5 DEF Inv

(* The page that is opened.                                                *)
LEMMA LoadingType ==
    ASSUME NEW v
    PROVE  Loading \in PageType(v) /\ Loading.deleting = None
<1>1. NoClusters \in Rows(v)  BY MapsEmpty DEF Rows
<1> QED  BY <1>1, SMT DEF Loading, PageType

(* The effect of the page of the namespaces or of one of them.             *)
LEMMA OpenStep ==
    ASSUME TypeInv, NEW v \in Name \cup {"home"}, Open(v), UNCHANGED server
    PROVE  Inv'
<1> DEFINE request == Request("namespaces", None, None, 0, None)
           task == Running("load", request)
<1>1. task \in TaskType(v) /\ task.for = "load" /\ DOMAIN task.awaits # {}
  <2>1. << >> \in Seq(Shard)  BY SMT
  <2>2. request \in RequestType(v)  BY <2>1, RequestOf DEF Op
  <2> HIDE DEF request
  <2> QED  BY <2>2, RunningType, SMT DEF For
<1>2. /\ view' = v /\ page' = Loading /\ form' = NoForm /\ tasks' = OnlyTask(task)
      /\ spaces' = spaces /\ version' = version
  BY DEF Open, server
<1> HIDE DEF task
<1>3. PICK t \in Task : OnlyTask(task)[t] = task /\ \A u \in Task \ {t} : OnlyTask(task)[u] = NoTask
  BY <1>1, OnlyTaskType, SMT
<1>4. KindOf(tasks', t) = "load"
  <2>1. task # NoTask  BY <1>1, TaskFields
  <2> QED  BY <1>1, <1>2, <1>3, <2>1 DEF KindOf
<1>5. Loading \in PageType(v)  BY LoadingType
<1>6. OnlyTask(task) \in Tasks(v)  BY <1>1, OnlyTaskType
<1>7. TypeInv'
  BY <1>2, <1>5, <1>6, ViewAssumption DEF TypeInv, NoForm, FormType
<1> QED  BY <1>1, <1>2, <1>3, <1>4, <1>7, Opened

(* The sidebar of the page of a cluster is mounted.                        *)
LEMMA OpenClusterStep ==
    ASSUME TypeInv, NEW n \in Name, OpenCluster(n), UNCHANGED server
    PROVE  Inv'
<1>0. PICK v : v = "cluster"  OBVIOUS
<1> DEFINE request == Request("clusters", n, None, 0, None)
           task == Running("side", request)
<1>1. task \in TaskType(v) /\ task.for = "side" /\ DOMAIN task.awaits # {}
  <2>1. << >> \in Seq(Shard)  BY SMT
  <2>2. request \in RequestType(v)  BY <2>1, RequestOf DEF Op
  <2> HIDE DEF request
  <2> QED  BY <2>2, RunningType, SMT DEF For
<1>2. /\ view' = v /\ page' = [Loading EXCEPT !.loading = FALSE, !.space = n]
      /\ form' = NoForm /\ tasks' = OnlyTask(task)
      /\ spaces' = spaces /\ version' = version
  BY <1>0 DEF OpenCluster, server
<1> HIDE DEF task
<1>3. PICK t \in Task : OnlyTask(task)[t] = task /\ \A u \in Task \ {t} : OnlyTask(task)[u] = NoTask
  BY <1>1, OnlyTaskType
<1>4. KindOf(tasks', t) = "side"
  <2>1. task # NoTask  BY <1>1, TaskFields
  <2> QED  BY <1>1, <1>2, <1>3, <2>1 DEF KindOf
<1>5. /\ page' \in PageType(v)
      /\ ~page'.loading /\ page'.deleting = None /\ page'.space = n
  <2>1. Loading \in PageType(v) /\ Loading.deleting = None  BY LoadingType
  <2> QED  BY <1>2, <2>1 DEF PageType
<1>6. OnlyTask(task) \in Tasks(v)  BY <1>1, OnlyTaskType
<1>7. TypeInv'
  BY <1>0, <1>2, <1>5, <1>6 DEF TypeInv, NoForm, FormType
<1> QED  BY <1>0, <1>1, <1>2, <1>3, <1>4, <1>5, <1>7, Opened

(* A request is served, refused or lost.                                   *)
LEMMA AnswerStep ==
    ASSUME Inv, NEW t \in Task, Answer(t)
    PROVE  Inv'
<1>0. UNCHANGED <<view, page, form>>  BY DEF Answer, pageVars
<1>1. TypeInv /\ BusyInv /\ spaces \in Spaces /\ version \in Nat /\ form \in FormType
  BY DEF Inv, TypeInv
<1>3. tasks \in Tasks(view) /\ page \in PageType(view)  BY <1>1 DEF TypeInv
<1>4. ASSUME NEW b, Awaiting(t, b)
      PROVE  tasks[t].awaits[b] \in RequestType(view)
  <2>1. tasks[t] # NoTask /\ b \in DOMAIN tasks[t].awaits  BY <1>4 DEF Awaiting
  <2>2. tasks[t] \in TaskType(view)  BY <1>3, <2>1, KindFacts
  <2> QED  BY <2>1, <2>2, TaskFields
<1>5. ASSUME NEW b, Awaiting(t, b), NEW answer \in RequestType(view),
             answer.name = tasks[t].awaits[b].name, Reply(t, b, answer),
             spaces' \in Spaces, version' \in Nat
      PROVE  Inv'
  <2>1. /\ tasks' \in Tasks(view)
        /\ \A u \in Task :
             /\ KindOf(tasks', u) = KindOf(tasks, u)
             /\ tasks[u] # NoTask =>
                 /\ tasks'[u].rows = tasks[u].rows
                 /\ DOMAIN tasks'[u].awaits = DOMAIN tasks[u].awaits
                 /\ \A d \in DOMAIN tasks[u].awaits :
                     tasks'[u].awaits[d].name = tasks[u].awaits[d].name
    BY <1>3, <1>5, ReplyTask
  <2>3. TypeInv'  BY <1>0, <1>1, <1>3, <1>5, <2>1, TypesKept
  <2>4. ASSUME NEW u \in Task
        PROVE  /\ KindOf(tasks', u) = KindOf(tasks, u)
               /\ tasks'[u] # NoTask => DOMAIN tasks'[u].awaits # {}
               /\ view = "home" /\ KindOf(tasks, u) = "delete" =>
                   /\ tasks'[u].rows = tasks[u].rows
                   /\ Main \in DOMAIN tasks'[u].awaits
                   /\ tasks'[u].awaits[Main].name = tasks[u].awaits[Main].name
    <3>1. tasks[u] = NoTask <=> KindOf(tasks, u) = "none"  BY <1>3, KindFacts
    <3>2. tasks'[u] = NoTask <=> KindOf(tasks', u) = "none"  BY <2>1, KindFacts
    <3>3. tasks[u] # NoTask => DOMAIN tasks[u].awaits # {}  BY <1>1 DEF BusyInv
    <3>4. view = "home" /\ KindOf(tasks, u) = "delete" => Main \in DOMAIN tasks[u].awaits
      BY DEF Inv, CountInv, Removal
    <3> QED  BY <2>1, <3>1, <3>2, <3>3, <3>4
  <2> QED  BY <1>0, <2>3, <2>4, GoOn
<1>6. ASSUME ServeEdit(t)  PROVE Inv'
  <2> DEFINE q == tasks[t].awaits[Main]
  <2>1. Awaiting(t, Main) /\ q.status = "sent"  BY <1>6 DEF ServeEdit, Sent
  <2>2. q \in RequestType(view)  BY <1>4, <2>1
  <2>3. q.op \in {"createNamespace", "removeNamespace", "createCluster", "removeCluster"}
    BY <1>6 DEF ServeEdit
  <2>4. \/ \E after \in Edits(q) : Store(after)
        \/ UNCHANGED server
    BY <1>6 DEF ServeEdit
  <2>5. \/ \E ok \in {"data", "empty"} : Reply(t, Main, [q EXCEPT !.status = ok])
        \/ Reply(t, Main, [Failed(q) EXCEPT !.cluster = None])
    BY <1>6 DEF ServeEdit, Refuse
  <2> HIDE DEF q
  <2>6. spaces' \in Spaces /\ version' \in Nat
    <3>1. CASE UNCHANGED server  BY <1>1, <3>1 DEF server
    <3>2. ASSUME NEW after \in Edits(q), Store(after)
          PROVE  spaces' \in Spaces /\ version' \in Nat
      <4>1. q.name \in Name  BY <2>2, <2>3 DEF RequestType
      <4>2. CASE q.op \in {"createNamespace", "removeNamespace"}
        <5>1. after \in CreateNamespace(q.name) \cup RemoveNamespace(q.name)
          BY <3>2, <4>2 DEF Edits
        <5>2. after \in Spaces  BY <1>1, <4>1, <5>1, NamespaceEdits
        <5> QED  BY <1>1, <3>2, <5>2, SMT DEF Store
      <4>3. CASE q.op \in {"createCluster", "removeCluster"}
        <5>1. q.cluster \in ClusterName  BY <2>1, <2>2, <4>3 DEF RequestType, q
        <5>2. after \in CreateCluster(q.name, q.cluster) \cup RemoveCluster(q.name, q.cluster)
          BY <3>2, <4>3 DEF Edits
        <5>3. after \in Spaces  BY <1>1, <4>1, <5>1, <5>2, ClusterEdits
        <5> QED  BY <1>1, <3>2, <5>3, SMT DEF Store
      <4> QED  BY <2>3, <4>2, <4>3
    <3> QED  BY <2>4, <3>1, <3>2
  <2>7. /\ [Failed(q) EXCEPT !.cluster = None] \in RequestType(view)
        /\ [Failed(q) EXCEPT !.cluster = None].name = q.name
        /\ \A ok \in {"data", "empty"} :
            [q EXCEPT !.status = ok] \in RequestType(view) /\ [q EXCEPT !.status = ok].name = q.name
    BY <2>2, <2>3, AnswerTypes
  <2>8. \E answer \in RequestType(view) : answer.name = q.name /\ Reply(t, Main, answer)
    BY <2>5, <2>7
  <2>9. PICK answer \in RequestType(view) : answer.name = q.name /\ Reply(t, Main, answer)
    BY <2>8
  <2>10. answer.name = tasks[t].awaits[Main].name  BY <2>9 DEF q
  <2> QED  BY <1>5, <2>1, <2>6, <2>9, <2>10
<1>7. ASSUME NEW b, ServeRead(t, b)  PROVE Inv'
  <2> DEFINE q == tasks[t].awaits[b]
  <2>1. Awaiting(t, b) /\ Reply(t, b, Read(q)) /\ spaces' = spaces /\ version' = version
    BY <1>7 DEF ServeRead, Sent, server
  <2>2. q \in RequestType(view)  BY <1>4, <2>1
  <2>3. Read(q) \in RequestType(view) /\ Read(q).name = q.name  BY <1>1, <2>2, ReadType
  <2> QED  BY <1>1, <1>5, <2>1, <2>3
<1>8. ASSUME NEW b, LoseRequest(t, b)  PROVE Inv'
  <2> DEFINE q == tasks[t].awaits[b]
  <2>1. Awaiting(t, b) /\ Reply(t, b, Failed(q)) /\ spaces' = spaces /\ version' = version
    BY <1>8 DEF LoseRequest, Sent
  <2>2. q \in RequestType(view)  BY <1>4, <2>1
  <2>3. Failed(q) \in RequestType(view) /\ Failed(q).name = q.name  BY <2>2, AnswerTypes
  <2> QED  BY <1>1, <1>5, <2>1, <2>3
<1> QED  BY <1>6, <1>7, <1>8 DEF Answer

(* The handler that goes on, and the answer that it has.                   *)
LEMMA AnsweredFacts ==
    ASSUME NEW v, tasks \in Tasks(v), NEW t \in Task,
           NEW b, NEW for \in For, NEW op \in Op, Answered(t, b, for, op)
    PROVE  /\ tasks[t] # NoTask /\ tasks[t] \in TaskType(v)
           /\ tasks[t].for = for /\ KindOf(tasks, t) = for
           /\ b \in DOMAIN tasks[t].awaits /\ tasks[t].awaits[b] \in RequestType(v)
           /\ tasks[t].awaits[b].op = op
<1>1. /\ tasks[t] # NoTask /\ b \in DOMAIN tasks[t].awaits /\ tasks[t].for = for
      /\ tasks[t].awaits[b].op = op
  BY DEF Answered, Awaiting
<1>2. tasks[t] \in TaskType(v) /\ KindOf(tasks, t) = for  BY <1>1, KindFacts
<1>3. tasks[t].awaits[b] \in RequestType(v)  BY <1>1, <1>2, TaskFields
<1> QED  BY <1>1, <1>2, <1>3

(* The visit of the namespaces goes on, or ends.                           *)
LEMMA VisitInv ==
    ASSUME Inv, view = "home", NEW t \in Task, KindOf(tasks, t) = "load",
           NEW task \in TaskType(view), task.for = "load", Visit(t, task), UNCHANGED server
    PROVE  Inv'
<1>1. /\ TypeInv /\ BusyInv /\ CountInv /\ spaces' \in Spaces /\ version' \in Nat
      /\ tasks \in Tasks(view) /\ page \in PageType(view) /\ form \in FormType
  BY DEF Inv, TypeInv, server
<1>2. tasks[t] # NoTask /\ tasks[t].for = "load"  BY <1>1, KindFacts
<1>3. /\ tasks' \in Tasks(view) /\ page' \in PageType(view)
      /\ UNCHANGED <<view, form>>
      /\ \A u \in Task \ {t} : tasks'[u] = tasks[u]
      /\ \/ /\ page' = page /\ KindOf(tasks', t) = KindOf(tasks, t)
            /\ DOMAIN tasks'[t].awaits # {}
         \/ /\ tasks'[t] = NoTask
            /\ ~page'.loading /\ page'.deleting = page.deleting
            /\ page'.space = page.space
            /\ page'.count = Cardinality(DOMAIN page'.rows)
  BY <1>1, <1>2, VisitStep
<1>4. page'.space = page.space  BY <1>3
<1>5. TypeInv'
  BY <1>1, <1>3, <1>4, TypesKept
<1>6. \A u \in Task \ {t} : KindOf(tasks', u) = KindOf(tasks, u)  BY <1>3 DEF KindOf
<1>7. CASE page' = page /\ KindOf(tasks', t) = KindOf(tasks, t) /\ DOMAIN tasks'[t].awaits # {}
  <2>1. ASSUME NEW u \in Task
        PROVE  /\ KindOf(tasks', u) = KindOf(tasks, u)
               /\ tasks'[u] # NoTask => DOMAIN tasks'[u].awaits # {}
               /\ view = "home" /\ KindOf(tasks, u) = "delete" =>
                   /\ tasks'[u].rows = tasks[u].rows
                   /\ Main \in DOMAIN tasks'[u].awaits
                   /\ tasks'[u].awaits[Main].name = tasks[u].awaits[Main].name
    <3>1. CASE u = t  BY <1>7, <3>1
    <3>2. CASE u # t
      <4>1. tasks'[u] = tasks[u] /\ KindOf(tasks', u) = KindOf(tasks, u)  BY <1>3, <1>6, <3>2
      <4>2. tasks[u] # NoTask => DOMAIN tasks[u].awaits # {}  BY <1>1 DEF BusyInv
      <4>3. KindOf(tasks, u) = "delete" => Main \in DOMAIN tasks[u].awaits
        BY <1>1 DEF CountInv, Removal
      <4> QED  BY <4>1, <4>2, <4>3
    <3> QED  BY <3>1, <3>2
  <2> QED  BY <1>3, <1>5, <1>7, <2>1, GoOn
<1>8. CASE /\ tasks'[t] = NoTask
           /\ ~page'.loading /\ page'.deleting = page.deleting
           /\ page'.count = Cardinality(DOMAIN page'.rows)
  <2>1. KindOf(tasks', t) = "none"  BY <1>8 DEF KindOf
  <2>2. page.loading /\ \A u \in Task : KindOf(tasks, u) # "delete"  BY <1>1 DEF CountInv, BusyInv
  <2>3. page.deleting = None  BY <1>1, <2>2 DEF BusyInv
  <2>4. \A u \in Task : KindOf(tasks', u) \notin {"load", "delete"}
    BY <1>1, <1>6, <2>1, <2>2 DEF CountInv
  <2>5. BusyInv'
    <3>1. \A u \in Task : tasks'[u] # NoTask => DOMAIN tasks'[u].awaits # {}
      BY <1>1, <1>3, <1>8 DEF BusyInv
    <3>2. \A u \in Task : KindOf(tasks', u) = "form" <=> KindOf(tasks, u) = "form"
      BY <1>6, <2>1
    <3> QED  BY <1>1, <1>3, <1>8, <2>3, <2>4, <3>1, <3>2 DEF BusyInv
  <2>6. CountInv'
    <3>1. page'.count <= Cardinality(DOMAIN page'.rows)  BY <1>3, <1>8, SMT DEF PageType
    <3> QED  BY <1>8, <2>4, <3>1 DEF CountInv
  <2> QED  BY <1>5, <2>5, <2>6 DEF Inv
<1> QED  BY <1>3, <1>7, <1>8

(* The visit of the namespaces, after each of its awaits.                  *)
LEMMA FetchedStep ==
    ASSUME Inv, view = "home", NEW t \in Task,
           NamespacesFetched(t) \/ ClustersFetched(t) \/ ShardsFetched(t) \/ NodesFetched(t)
    PROVE  Inv'
<1>1. tasks \in Tasks(view)  BY DEF Inv, TypeInv
<1>0. "namespaces" \in Op /\ "clusters" \in Op /\ "shards" \in Op /\ "nodes" \in Op  BY DEF Op
<1> DEFINE q == tasks[t].awaits[Main]
<1>2. ASSUME NEW op \in Op, Answered(t, Main, "load", op)
      PROVE  /\ tasks[t] \in TaskType(view) /\ tasks[t].for = "load" /\ KindOf(tasks, t) = "load"
             /\ q \in RequestType(view) /\ q.op = op
             /\ q.shards \in Seq(Shard) /\ q.count \in Nat /\ q.read \in Nat /\ q.index \in Nat
  <2>1. /\ tasks[t] \in TaskType(view) /\ tasks[t].for = "load" /\ KindOf(tasks, t) = "load"
        /\ q \in RequestType(view) /\ q.op = op
    <3> HIDE DEF q
    <3>1. /\ tasks[t] \in TaskType(view) /\ tasks[t].for = "load" /\ KindOf(tasks, t) = "load"
          /\ tasks[t].awaits[Main] \in RequestType(view) /\ tasks[t].awaits[Main].op = op
      <4>1. "load" \in For  BY DEF For
      <4> QED  BY <1>1, <1>2, <4>1, AnsweredFacts
    <3> QED  BY <3>1 DEF q
  <2>2. q \in RequestFields(view)  BY <2>1 DEF RequestType
  <2> QED  BY <2>1, <2>2 DEF RequestFields
<1>3. ASSUME NamespacesFetched(t)  PROVE Inv'
  <2> DEFINE names == q.names
             read == q.read
             task == [tasks[t] EXCEPT !.names = names, !.since = read]
  <2>1. Answered(t, Main, "load", "namespaces") /\ Visit(t, NextNamespace(task)) /\ UNCHANGED server
    BY <1>3 DEF NamespacesFetched
  <2>2. tasks[t] \in TaskType(view) /\ tasks[t].for = "load" /\ KindOf(tasks, t) = "load"
    BY <1>0, <1>2, <2>1, Zenon
  <2>3. names \in Finite(Name) /\ read \in Nat  BY <1>0, <1>2, <2>1 DEF RequestType
  <2> HIDE DEF names, read
  <2>4. task \in TaskType(view) /\ task.for = "load"  BY <2>2, <2>3 DEF TaskType
  <2> HIDE DEF task
  <2>5. NextNamespace(task) \in TaskType(view) /\ NextNamespace(task).for = "load"
    BY <2>4, NextNamespaceType
  <2> QED  BY <2>1, <2>2, <2>5, VisitInv
<1>4. ASSUME ClustersFetched(t)  PROVE Inv'
  <2> DEFINE names == q.names
             name == q.name
             row == Row(Cardinality(names))
             task == [tasks[t] EXCEPT !.clusters = names]
  <2>1. Answered(t, Main, "load", "clusters") /\ Visit(t, NextCluster(task, name, row)) /\ UNCHANGED server
    BY <1>4 DEF ClustersFetched
  <2>2. tasks[t] \in TaskType(view) /\ tasks[t].for = "load" /\ KindOf(tasks, t) = "load"
    BY <1>0, <1>2, <2>1
  <2>3. names \in Finite(ClusterName) /\ name \in Name
    <3>1. q \in RequestType(view) /\ q.op = "clusters"  BY <1>0, <1>2, <2>1, Zenon
    <3> HIDE DEF q
    <3> QED  BY <3>1 DEF RequestType
  <2> HIDE DEF names, name
  <2>4. task \in TaskType(view) /\ task.for = "load"  BY <2>2, <2>3 DEF TaskType
  <2>5. row \in RowType(view)
    <3>1. IsFiniteSet(names)  BY <2>3 DEF Finite
    <3>2. Cardinality(names) \in Nat  BY <3>1, FS_CardinalityType
    <3> QED  BY <3>2 DEF Row, RowType
  <2> HIDE DEF task, row
  <2>6. NextCluster(task, name, row) \in TaskType(view) /\ NextCluster(task, name, row).for = "load"
    BY <2>3, <2>4, <2>5, NextClusterType
  <2> QED  BY <2>1, <2>2, <2>6, VisitInv
<1>5. ASSUME ShardsFetched(t)  PROVE Inv'
  <2> DEFINE row == [q.row EXCEPT !.shards = @ + Len(q.shards)]
             task == NextShard(tasks[t], q, 1, q.shards, row)
  <2>1. Answered(t, Main, "load", "shards") /\ Visit(t, task) /\ UNCHANGED server
    BY <1>5 DEF ShardsFetched
  <2>2. tasks[t] \in TaskType(view) /\ tasks[t].for = "load" /\ KindOf(tasks, t) = "load"
    BY <1>0, <1>2, <2>1
  <2>3. q \in RequestType(view) /\ q.op = "shards" /\ q.shards \in Seq(Shard)  BY <1>0, <1>2, <2>1
  <2> HIDE DEF q
  <2>4. row \in RowType(view)
    <3>1. q.row \in RowType(view)  BY <2>3 DEF RequestType
    <3>2. Len(q.shards) \in Nat  BY <2>3, SMT
    <3> QED  BY <3>1, <3>2, SMT DEF RowType
  <2> HIDE DEF row
  <2>5. q.name \in Name /\ q.cluster \in ClusterName  BY <2>3 DEF RequestType
  <2>6. 1 \in Nat  BY SMT
  <2>7. task \in TaskType(view) /\ task.for = "load"
    BY <2>2, <2>3, <2>4, <2>5, <2>6, NextShardType
  <2> HIDE DEF task
  <2> QED  BY <2>1, <2>2, <2>7, VisitInv
<1>6. ASSUME NodesFetched(t)  PROVE Inv'
  <2> DEFINE row == [q.row EXCEPT !.nodes = @ + q.count]
             task == NextShard(tasks[t], q, q.index + 1, q.shards, row)
  <2>1. Answered(t, Main, "load", "nodes") /\ Visit(t, task) /\ UNCHANGED server
    BY <1>6 DEF NodesFetched
  <2>2. tasks[t] \in TaskType(view) /\ tasks[t].for = "load" /\ KindOf(tasks, t) = "load"
    BY <1>0, <1>2, <2>1
  <2>3. /\ q \in RequestType(view) /\ q.op = "nodes" /\ q.shards \in Seq(Shard)
        /\ q.count \in Nat /\ q.index + 1 \in Nat
    <3>1. /\ q \in RequestType(view) /\ q.op = "nodes" /\ q.shards \in Seq(Shard)
          /\ q.count \in Nat /\ q.index \in Nat
      BY <1>0, <1>2, <2>1, Zenon
    <3> HIDE DEF q
    <3>2. q.index + 1 \in Nat  BY <3>1, SMT
    <3> QED  BY <3>1, <3>2
  <2> HIDE DEF q
  <2>4. row \in RowType(view)
    <3>1. q.row \in RowType(view)  BY <2>3 DEF RequestType
    <3> QED  BY <2>3, <3>1, SMT DEF RowType
  <2> HIDE DEF row
  <2>5. q.name \in Name /\ q.cluster \in ClusterName  BY <2>3 DEF RequestType
  <2>6. task \in TaskType(view) /\ task.for = "load"
    BY <2>2, <2>3, <2>4, <2>5, NextShardType, SMT
  <2> HIDE DEF task
  <2> QED  BY <2>1, <2>2, <2>6, VisitInv
<1> QED  BY <1>3, <1>4, <1>5, <1>6

(* A removal of a namespace ends: the row goes, and the number with it.    *)
LEMMA NamespaceDeletedStep ==
    ASSUME Inv, view = "home", NEW t \in Task, NamespaceDeleted(t)
    PROVE  Inv'
<1> DEFINE q == tasks[t].awaits[Main]
           name == q.name
           rows == tasks[t].rows
           less == Restrict(rows, DOMAIN rows \ {name})
<1>1. /\ TypeInv /\ BusyInv /\ CountInv /\ spaces \in Spaces /\ version \in Nat
      /\ tasks \in Tasks(view) /\ page \in PageType(view) /\ form \in FormType
  BY DEF Inv, TypeInv
<1>2. /\ Answered(t, Main, "delete", "removeNamespace") /\ Ended(t)
      /\ page' = [page EXCEPT !.rows = less, !.count = @ - 1, !.deleting = None, !.whole = FALSE]
      /\ UNCHANGED <<server, view, form>>
  BY DEF NamespaceDeleted
<1>3. tasks[t] \in TaskType(view) /\ KindOf(tasks, t) = "delete"
  <2>1. PICK for \in For, op \in Op : for = "delete" /\ op = "removeNamespace"  BY DEF For, Op
  <2>2. Answered(t, Main, for, op) /\ tasks \in Tasks(view)  BY <1>1, <1>2, <2>1
  <2>3. tasks[t] \in TaskType(view) /\ KindOf(tasks, t) = for  BY <2>2, AnsweredFacts
  <2> QED  BY <2>1, <2>3
<1>4. Removal(t)  BY <1>1, <1>3 DEF CountInv
<1>5. rows \in Rows(view) /\ IsFiniteSet(DOMAIN rows) /\ name \in DOMAIN rows
  <2>1. rows \in Rows(view)  BY <1>3, TaskFields
  <2>2. IsFiniteSet(DOMAIN rows)  BY <2>1, MapsElim DEF Rows
  <2> QED  BY <1>4, <2>1, <2>2 DEF Removal
<1>6. page.count <= Cardinality(DOMAIN rows)  BY <1>4 DEF Removal
<1>7. ~page.overlap => /\ rows = page.rows
                       /\ \A u \in Task : KindOf(tasks, u) = "delete" => u = t
  BY <1>4 DEF Removal
<1> HIDE DEF rows, name
<1>8. less \in Rows(view) /\ DOMAIN less = DOMAIN rows \ {name}
  <2>1. rows \in Maps(Place(view), RowType(view))  BY <1>5 DEF Rows
  <2>2. less \in Maps(Place(view), RowType(view)) /\ DOMAIN less = DOMAIN rows \ {name}
    BY <2>1, MapsRestrict, SMT
  <2> QED  BY <2>2 DEF Rows
<1>9. Cardinality(DOMAIN less) = Cardinality(DOMAIN rows) - 1 /\ Cardinality(DOMAIN rows) \in Nat
  BY <1>5, <1>8, FS_RemoveElement, FS_CardinalityType
<1> HIDE DEF less
<1>10. /\ page' \in PageType(view) /\ page'.rows = less /\ page'.count = page.count - 1
       /\ page'.deleting = None /\ page'.loading = page.loading /\ page'.overlap = page.overlap
       /\ page'.space = page.space /\ page.count \in Int
  <2>1. page.count - 1 \in Int /\ page.count \in Int  BY <1>1, SMT DEF PageType
  <2>2. page' \in PageType(view)  BY <1>1, <1>2, <1>8, <2>1 DEF PageType
  <2>3. /\ page'.rows = less /\ page'.count = page.count - 1
        /\ page'.deleting = None /\ page'.loading = page.loading /\ page'.overlap = page.overlap
        /\ page'.space = page.space
    BY <1>1, <1>2 DEF PageType
  <2> QED  BY <2>1, <2>2, <2>3
<1>11. /\ tasks' \in Tasks(view) /\ tasks'[t] = NoTask /\ KindOf(tasks', t) = "none"
       /\ \A u \in Task \ {t} : tasks'[u] = tasks[u] /\ KindOf(tasks', u) = KindOf(tasks, u)
  BY <1>1, <1>2, EndedTask
<1>12. TypeInv'
  <2>2. spaces' \in Spaces /\ version' \in Nat /\ form' \in FormType /\ view' = view
    BY <1>1, <1>2 DEF server
  <2> QED  BY <1>1, <1>10, <1>11, <2>2, TypesKept
<1>13. BusyInv'
  <2>1. ~page.loading  BY <1>1, <1>3 DEF BusyInv
  <2>2. \A u \in Task : tasks'[u] # NoTask => DOMAIN tasks'[u].awaits # {}
    BY <1>1, <1>11 DEF BusyInv
  <2>3. \A u \in Task : KindOf(tasks', u) = "form" <=> KindOf(tasks, u) = "form"
    BY <1>3, <1>11
  <2>4. ~page'.loading /\ page'.deleting = None /\ form' = form  BY <1>2, <1>10, <2>1
  <2> QED  BY <1>1, <2>2, <2>3, <2>4 DEF BusyInv
<1>14. CountInv'
  <2>1. page'.count <= Cardinality(DOMAIN page'.rows)  BY <1>6, <1>9, <1>10, SMT
  <2>2. ~page'.overlap => page'.count = Cardinality(DOMAIN page'.rows)
    <3>1. ~page.overlap => page.count = Cardinality(DOMAIN page.rows)  BY <1>1 DEF CountInv
    <3> QED  BY <1>7, <1>9, <1>10, <3>1
  <2>3. \A u \in Task : KindOf(tasks', u) = "load" => KindOf(tasks, u) = "load"  BY <1>11
  <2>4. ASSUME NEW u \in Task, KindOf(tasks', u) = "delete"  PROVE Removal(u)'
    <3>1. u # t /\ KindOf(tasks, u) = "delete" /\ tasks'[u] = tasks[u]  BY <1>11, <2>4
    <3>2. Removal(u)  BY <1>1, <3>1 DEF CountInv
    <3>3. page'.overlap  BY <1>7, <1>10, <3>1
    <3>4. page'.count <= Cardinality(DOMAIN tasks'[u].rows)
      <4>1. tasks[u] \in TaskType(view)  BY <1>1, <3>1, KindFacts
      <4>2. tasks[u].rows \in Rows(view)  BY <4>1, TaskFields
      <4>3. IsFiniteSet(DOMAIN tasks[u].rows)  BY <4>2, MapsElim DEF Rows
      <4>4. Cardinality(DOMAIN tasks[u].rows) \in Nat  BY <4>3, FS_CardinalityType
      <4>5. page.count <= Cardinality(DOMAIN tasks[u].rows)  BY <3>2 DEF Removal
      <4> QED  BY <1>10, <3>1, <4>4, <4>5, SMT
    <3>5. Main \in DOMAIN tasks'[u].awaits /\ tasks'[u].awaits[Main].name \in DOMAIN tasks'[u].rows
      BY <3>1, <3>2 DEF Removal
    <3> QED  BY <3>3, <3>4, <3>5 DEF Removal
  <2> QED  BY <1>1, <1>10, <2>1, <2>2, <2>3, <2>4 DEF CountInv
<1> QED  BY <1>12, <1>13, <1>14 DEF Inv

(* A removal of a namespace starts, with the rows of its closure.          *)
LEMMA HandleDeleteNamespaceStep ==
    ASSUME Inv, view = "home", NEW t \in Task, handleDeleteNamespace(t)
    PROVE  Inv'
<1>1. /\ TypeInv /\ BusyInv /\ CountInv /\ spaces \in Spaces /\ version \in Nat
      /\ tasks \in Tasks(view) /\ page \in PageType(view) /\ form \in FormType
  BY DEF Inv, TypeInv
<1> DEFINE overlap == page.overlap \/ \E u \in Task : tasks[u] # NoTask /\ tasks[u].for = "delete"
<1>2. PICK n \in DOMAIN page.rows :
        /\ page' = [page EXCEPT !.deleting = n, !.overlap = overlap]
        /\ tasks' = [tasks EXCEPT ![t] =
                [Running("delete", Request("removeNamespace", n, None, 0, None)) EXCEPT
                    !.rows = page.rows]]
  BY DEF handleDeleteNamespace, filteredNamespaces
<1>3. /\ tasks[t] = NoTask /\ ~page.loading /\ UNCHANGED <<server, view, form>>
  BY DEF handleDeleteNamespace, FreeTask, Reachable
<1>4. overlap \in BOOLEAN /\ (overlap <=> page.overlap \/ \E u \in Task : KindOf(tasks, u) = "delete")
  <2>1. page.overlap \in BOOLEAN  BY <1>1 DEF PageType
  <2> QED  BY <2>1 DEF KindOf
<1> HIDE DEF overlap
<1>5. page.rows \in Rows(view) /\ n \in Name
  <2>1. page.rows \in Rows(view)  BY <1>1 DEF PageType
  <2>2. DOMAIN page.rows \subseteq Name  BY <2>1, MapsElim DEF Rows, Place
  <2> QED  BY <2>1, <2>2
<1> DEFINE request == Request("removeNamespace", n, None, 0, None)
           run == Running("delete", request)
           task == [run EXCEPT !.rows = page.rows]
<1>6. request \in RequestType(view) /\ request.name = n
  <2>1. << >> \in Seq(Shard) /\ n \in Name  BY <1>5, SMT
  <2>2. request \in RequestType(view)  BY <2>1, RequestOf DEF Op
  <2> QED  BY <2>2 DEF Request
<1>7. tasks' = [tasks EXCEPT ![t] = task]  BY <1>2
<1> HIDE DEF request
<1>8. /\ run \in TaskType(view) /\ run.for = "delete"
      /\ Main \in DOMAIN run.awaits /\ run.awaits[Main] = request
  BY <1>6, RunningType, SMT DEF For
<1> HIDE DEF run
<1>9. /\ task \in TaskType(view) /\ task.for = "delete" /\ task.rows = page.rows
      /\ Main \in DOMAIN task.awaits /\ task.awaits[Main].name = n
  BY <1>5, <1>6, <1>8 DEF TaskType
<1> HIDE DEF task
<1>10. /\ tasks' \in Tasks(view) /\ tasks'[t] = task /\ KindOf(tasks', t) = "delete"
       /\ \A u \in Task \ {t} : tasks'[u] = tasks[u] /\ KindOf(tasks', u) = KindOf(tasks, u)
  <2>1. tasks' \in Tasks(view) /\ tasks'[t] = task /\ \A u \in Task \ {t} : tasks'[u] = tasks[u]
    BY <1>1, <1>7, <1>9 DEF Tasks
  <2>2. task # NoTask  BY <1>9, TaskFields
  <2> QED  BY <1>9, <2>1, <2>2 DEF KindOf
<1>11. /\ page' \in PageType(view) /\ page'.rows = page.rows /\ page'.count = page.count
       /\ page'.loading = page.loading /\ page'.overlap = overlap /\ page'.space = page.space
  BY <1>1, <1>2, <1>4, <1>5 DEF PageType
<1>12. TypeInv'
  <2>2. spaces' \in Spaces /\ version' \in Nat /\ form' \in FormType /\ view' = view
    BY <1>1, <1>3 DEF server
  <2> QED  BY <1>1, <1>10, <1>11, <2>2, TypesKept
<1>13. KindOf(tasks, t) = "none"  BY <1>3 DEF KindOf
<1>14. BusyInv'
  <2>1. ~page'.loading /\ form' = form  BY <1>3, <1>11
  <2>2. \A u \in Task : tasks'[u] # NoTask => DOMAIN tasks'[u].awaits # {}
    BY <1>1, <1>9, <1>10 DEF BusyInv
  <2>3. \A u \in Task : KindOf(tasks', u) = "form" <=> KindOf(tasks, u) = "form"
    BY <1>10, <1>13
  <2> QED  BY <1>1, <1>10, <2>1, <2>2, <2>3 DEF BusyInv
<1>15. CountInv'
  <2>1. page.count <= Cardinality(DOMAIN page.rows)  BY <1>1 DEF CountInv
  <2>2. ~page.overlap => page.count = Cardinality(DOMAIN page.rows)  BY <1>1 DEF CountInv
  <2>3. \A u \in Task : KindOf(tasks', u) = "load" => KindOf(tasks, u) = "load"  BY <1>10
  <2>4. Removal(t)'
    <3>1. ~overlap => \A u \in Task : KindOf(tasks', u) = "delete" => u = t  BY <1>4, <1>10
    <3> QED  BY <1>2, <1>9, <1>10, <1>11, <2>1, <3>1 DEF Removal
  <2>5. ASSUME NEW u \in Task \ {t}, KindOf(tasks', u) = "delete"  PROVE Removal(u)'
    <3>1. KindOf(tasks, u) = "delete" /\ tasks'[u] = tasks[u]  BY <1>10, <2>5
    <3>2. Removal(u)  BY <1>1, <3>1 DEF CountInv
    <3>3. page'.overlap  BY <1>4, <1>11, <3>1
    <3> QED  BY <1>11, <3>1, <3>2, <3>3 DEF Removal
  <2>6. /\ page'.count <= Cardinality(DOMAIN page'.rows)
        /\ ~page'.overlap => page'.count = Cardinality(DOMAIN page'.rows)
    BY <1>4, <1>11, <2>1, <2>2
  <2> QED  BY <1>1, <1>11, <2>3, <2>4, <2>5, <2>6 DEF CountInv
<1> QED  BY <1>12, <1>14, <1>15 DEF Inv

(* The places after a handler that is not that of the form has ended.      *)
LEMMA EndedFacts ==
    ASSUME Inv, NEW t \in Task, Ended(t)
    PROVE  /\ tasks' \in Tasks(view) /\ tasks'[t] = NoTask /\ KindOf(tasks', t) = "none"
           /\ \A u \in Task \ {t} : tasks'[u] = tasks[u] /\ KindOf(tasks', u) = KindOf(tasks, u)
           /\ \A u \in Task : tasks'[u] # NoTask => DOMAIN tasks'[u].awaits # {}
<1>1. tasks \in Tasks(view)  BY DEF Inv, TypeInv
<1>2. /\ tasks' \in Tasks(view) /\ tasks'[t] = NoTask /\ KindOf(tasks', t) = "none"
      /\ \A u \in Task \ {t} : tasks'[u] = tasks[u] /\ KindOf(tasks', u) = KindOf(tasks, u)
  BY <1>1, EndedTask
<1>3. \A u \in Task : tasks'[u] # NoTask => DOMAIN tasks'[u].awaits # {}
  BY <1>2 DEF Inv, BusyInv
<1> QED  BY <1>2, <1>3

(* Where there is no number of namespaces, a handler ends that takes the   *)
(* spinner away, and its own removal if it is one.                         *)
LEMMA EndInside ==
    ASSUME Inv, view # "home", NEW t \in Task, KindOf(tasks, t) \in {"load", "delete"}, Ended(t),
           UNCHANGED <<server, view, form>>, page' \in PageType(view), page'.space = page.space,
           ~page'.loading,
           \/ page'.deleting = None
           \/ KindOf(tasks, t) = "load" /\ page'.deleting = page.deleting
    PROVE  Inv'
<1>1. TypeInv /\ BusyInv /\ spaces' \in Spaces /\ version' \in Nat /\ form' \in FormType
  BY DEF Inv, TypeInv, server
<1>2. /\ tasks' \in Tasks(view) /\ tasks'[t] = NoTask /\ KindOf(tasks', t) = "none"
      /\ \A u \in Task \ {t} : tasks'[u] = tasks[u] /\ KindOf(tasks', u) = KindOf(tasks, u)
      /\ \A u \in Task : tasks'[u] # NoTask => DOMAIN tasks'[u].awaits # {}
  BY EndedFacts
<1>3. TypeInv'  BY <1>1, <1>2, TypesKept
<1>4. \A u \in Task : KindOf(tasks', u) = "form" <=> KindOf(tasks, u) = "form"  BY <1>2
<1>5. page'.deleting # None => \E u \in Task : KindOf(tasks', u) = "delete"
  <2> SUFFICES ASSUME page'.deleting # None  PROVE \E u \in Task : KindOf(tasks', u) = "delete"
    OBVIOUS
  <2>1. KindOf(tasks, t) = "load" /\ page.deleting # None  OBVIOUS
  <2>2. PICK u \in Task : KindOf(tasks, u) = "delete"  BY <1>1, <2>1 DEF BusyInv
  <2>3. u # t  BY <2>1, <2>2
  <2> QED  BY <1>2, <2>2, <2>3
<1>6. BusyInv'  BY <1>1, <1>2, <1>4, <1>5 DEF BusyInv
<1> QED  BY <1>3, <1>6 DEF Inv, CountInv

(* The visit of the clusters of a namespace goes on, or ends.              *)
LEMMA CollectInv ==
    ASSUME Inv, view # "home", NEW t \in Task, KindOf(tasks, t) \in {"load", "delete"},
           NEW task \in TaskType(view), task.for = KindOf(tasks, t), Collect(t, task),
           UNCHANGED server
    PROVE  Inv'
<1>1. /\ TypeInv /\ BusyInv /\ spaces' \in Spaces /\ version' \in Nat
      /\ tasks \in Tasks(view) /\ page \in PageType(view) /\ form \in FormType
  BY DEF Inv, TypeInv, server
<1>2. tasks[t] # NoTask /\ tasks[t].for = KindOf(tasks, t)  BY <1>1, KindFacts
<1>3. /\ tasks' \in Tasks(view) /\ page' \in PageType(view)
      /\ UNCHANGED <<view, form>>
      /\ \A u \in Task \ {t} : tasks'[u] = tasks[u]
      /\ \/ /\ page' = page /\ KindOf(tasks', t) = KindOf(tasks, t)
            /\ DOMAIN tasks'[t].awaits # {}
         \/ /\ Ended(t)
            /\ ~page'.loading /\ page'.space = page.space
            /\ page'.deleting = IF KindOf(tasks, t) = "delete" THEN None ELSE page.deleting
  BY <1>1, <1>2, CollectStep
<1>4. CASE page' = page /\ KindOf(tasks', t) = KindOf(tasks, t) /\ DOMAIN tasks'[t].awaits # {}
  <2>1. TypeInv'  BY <1>1, <1>3, <1>4, TypesKept
  <2>2. \A u \in Task : KindOf(tasks', u) = KindOf(tasks, u)  BY <1>3, <1>4 DEF KindOf
  <2>3. \A u \in Task : tasks'[u] # NoTask => DOMAIN tasks'[u].awaits # {}
    BY <1>1, <1>3, <1>4 DEF BusyInv
  <2> QED  BY <1>3, <1>4, <2>1, <2>2, <2>3, GoOn
<1>5. CASE /\ Ended(t)
           /\ ~page'.loading /\ page'.space = page.space
           /\ page'.deleting = IF KindOf(tasks, t) = "delete" THEN None ELSE page.deleting
  BY <1>3, <1>5, EndInside
<1> QED  BY <1>3, <1>4, <1>5

(* The page of a namespace, after each of the awaits of its visits.        *)
LEMMA CollectedStep ==
    ASSUME Inv, view \in Name, NEW t \in Task,
           \/ ClustersListed(t)
           \/ \E c \in ClusterName : ClusterFetched(t, c) \/ ShardCounted(t, c)
    PROVE  Inv'
<1>0. view # "home" /\ tasks \in Tasks(view)  BY ViewAssumption DEF Inv, TypeInv
<1>1. ASSUME NEW b, NEW op \in Op, Answered(t, b, "load", op) \/ Answered(t, b, "delete", op)
      PROVE  /\ tasks[t] \in TaskType(view) /\ tasks[t].for = KindOf(tasks, t)
             /\ KindOf(tasks, t) \in {"load", "delete"}
             /\ b \in DOMAIN tasks[t].awaits /\ tasks[t].awaits[b] \in RequestType(view)
             /\ tasks[t].awaits[b].op = op
  <2>1. PICK for \in For : for \in {"load", "delete"} /\ Answered(t, b, for, op)
    BY <1>1 DEF For
  <2> QED  BY <1>0, <2>1, AnsweredFacts
<1>2. ASSUME NEW q \in RequestType(view)
      PROVE  /\ q.shards \in Seq(Shard) /\ q.count \in Nat /\ q.read \in Nat /\ q.index \in Nat
             /\ q.op = "clusters" => q.names \in Finite(ClusterName)
             /\ q.op = "nodes" => q.row \in RowType(view)
  <2>1. q \in RequestFields(view)  BY DEF RequestType
  <2>2. /\ q.op = "clusters" => q.names \in Finite(ClusterName)
        /\ q.op = "nodes" => q.row \in RowType(view)
    BY DEF RequestType
  <2> QED  BY <2>1, <2>2 DEF RequestFields
<1>3. ASSUME ClustersListed(t)  PROVE Inv'
  <2> DEFINE q == tasks[t].awaits[Main]
             task == [tasks[t] EXCEPT !.since = q.read,
                        !.awaits = [c \in q.names |-> Request("cluster", view, c, 0, None)]]
  <2>1. /\ Answered(t, Main, "load", "clusters") \/ Answered(t, Main, "delete", "clusters")
        /\ Collect(t, task) /\ UNCHANGED server
    BY <1>3 DEF ClustersListed
  <2>2. PICK op \in Op : op = "clusters"  BY DEF Op
  <2>3. /\ tasks[t] \in TaskType(view) /\ tasks[t].for = KindOf(tasks, t)
        /\ KindOf(tasks, t) \in {"load", "delete"}
        /\ q \in RequestType(view) /\ q.op = "clusters"
    BY <1>1, <2>1, <2>2
  <2>4. q.names \in Finite(ClusterName) /\ q.read \in Nat  BY <1>2, <2>3
  <2> HIDE DEF q
  <2>5. task \in TaskType(view) /\ task.for = KindOf(tasks, t)  BY <1>0, <2>3, <2>4, ListedType
  <2> HIDE DEF task
  <2> QED  BY <1>0, <2>1, <2>3, <2>5, CollectInv
<1>4. ASSUME NEW c \in ClusterName, ClusterFetched(t, c)  PROVE Inv'
  <2> DEFINE q == tasks[t].awaits[c]
             task == IF q.status = "data"
                     THEN NextNodes(tasks[t], c, 1, q.shards, ClusterRow(q.shards))
                     ELSE EndBranch(tasks[t], c)
  <2>1. /\ Answered(t, c, "load", "cluster") \/ Answered(t, c, "delete", "cluster")
        /\ Collect(t, task) /\ UNCHANGED server
    BY <1>4 DEF ClusterFetched
  <2>2. PICK op \in Op : op = "cluster"  BY DEF Op
  <2>3. /\ tasks[t] \in TaskType(view) /\ tasks[t].for = KindOf(tasks, t)
        /\ KindOf(tasks, t) \in {"load", "delete"}
        /\ c \in DOMAIN tasks[t].awaits /\ q \in RequestType(view)
    BY <1>1, <2>1, <2>2
  <2>4. q.shards \in Seq(Shard)  BY <1>2, <2>3
  <2> HIDE DEF q
  <2>5. ClusterRow(q.shards) \in RowType(view)  BY <1>0, <2>4, ClusterRowType
  <2>6. /\ NextNodes(tasks[t], c, 1, q.shards, ClusterRow(q.shards)) \in TaskType(view)
        /\ NextNodes(tasks[t], c, 1, q.shards, ClusterRow(q.shards)).for = tasks[t].for
    BY <1>0, <2>3, <2>4, <2>5, NextNodesType, SMT
  <2>7. EndBranch(tasks[t], c) \in TaskType(view) /\ EndBranch(tasks[t], c).for = tasks[t].for
    BY <1>0, <2>3, EndBranchType
  <2>8. task \in TaskType(view) /\ task.for = KindOf(tasks, t)  BY <2>3, <2>6, <2>7
  <2> HIDE DEF task
  <2> QED  BY <1>0, <2>1, <2>3, <2>8, CollectInv
<1>5. ASSUME NEW c \in ClusterName, ShardCounted(t, c)  PROVE Inv'
  <2> DEFINE q == tasks[t].awaits[c]
             row == [q.row EXCEPT !.nodes = @ + q.count]
             task == NextNodes(tasks[t], c, q.index + 1, q.shards, row)
  <2>1. /\ Answered(t, c, "load", "nodes") \/ Answered(t, c, "delete", "nodes")
        /\ Collect(t, task) /\ UNCHANGED server
    BY <1>5 DEF ShardCounted
  <2>2. PICK op \in Op : op = "nodes"  BY DEF Op
  <2>3. /\ tasks[t] \in TaskType(view) /\ tasks[t].for = KindOf(tasks, t)
        /\ KindOf(tasks, t) \in {"load", "delete"}
        /\ c \in DOMAIN tasks[t].awaits /\ q \in RequestType(view) /\ q.op = "nodes"
    BY <1>1, <2>1, <2>2
  <2>4. q.shards \in Seq(Shard) /\ q.count \in Nat /\ q.index \in Nat /\ q.row \in RowType(view)
    BY <1>2, <2>3
  <2> HIDE DEF q
  <2>5. row \in RowType(view)  BY <1>0, <2>4, SMT DEF RowType
  <2>6. q.index + 1 \in Nat  BY <2>4, SMT
  <2> HIDE DEF row
  <2>7. task \in TaskType(view) /\ task.for = KindOf(tasks, t)
    BY <1>0, <2>3, <2>4, <2>5, <2>6, NextNodesType, SMT
  <2> HIDE DEF task
  <2> QED  BY <1>0, <2>1, <2>3, <2>7, CollectInv
<1> QED  BY <1>3, <1>4, <1>5

(* A handler ends that is neither visit nor removal nor that of the form.  *)
LEMMA EndQuiet ==
    ASSUME Inv, NEW t \in Task, KindOf(tasks, t) \in {"side", "item", "stray"}, Ended(t),
           UNCHANGED <<server, view, form>>, page' \in PageType(view), page'.space = page.space,
           page'.loading = page.loading, page'.deleting = page.deleting,
           view = "home" => page' = page
    PROVE  Inv'
<1>1. /\ TypeInv /\ BusyInv /\ CountInv /\ spaces' \in Spaces /\ version' \in Nat
      /\ form' \in FormType
  BY DEF Inv, TypeInv, server
<1>2. /\ tasks' \in Tasks(view) /\ tasks'[t] = NoTask /\ KindOf(tasks', t) = "none"
      /\ \A u \in Task \ {t} : tasks'[u] = tasks[u] /\ KindOf(tasks', u) = KindOf(tasks, u)
      /\ \A u \in Task : tasks'[u] # NoTask => DOMAIN tasks'[u].awaits # {}
  BY EndedFacts
<1>3. TypeInv'  BY <1>1, <1>2, TypesKept
<1>4. \A u \in Task, kind \in {"load", "delete", "form"} :
        KindOf(tasks', u) = kind <=> KindOf(tasks, u) = kind
  BY <1>2
<1>5. BusyInv'
  BY <1>1, <1>2, <1>4 DEF BusyInv
<1>6. CountInv'
  <2> SUFFICES ASSUME view = "home"  PROVE CountInv'  BY DEF CountInv
  <2>1. page' = page  OBVIOUS
  <2>2. ASSUME NEW u \in Task, KindOf(tasks', u) = "delete"  PROVE Removal(u)'
    <3>1. u # t /\ KindOf(tasks, u) = "delete" /\ tasks'[u] = tasks[u]  BY <1>2, <2>2
    <3>2. Removal(u)  BY <1>1, <3>1 DEF CountInv
    <3> QED  BY <1>4, <2>1, <3>1, <3>2 DEF Removal
  <2> QED  BY <1>1, <1>4, <2>1, <2>2 DEF CountInv
<1> QED  BY <1>3, <1>5, <1>6 DEF Inv

(* The handler of the form ends, and the form is not busy any more.        *)
LEMMA EndForm ==
    ASSUME Inv, NEW t \in Task, KindOf(tasks, t) = "form", Ended(t),
           UNCHANGED <<server, view, page>>, form' \in FormType, ~form'.submitting
    PROVE  Inv'
<1>1. /\ TypeInv /\ BusyInv /\ CountInv /\ spaces' \in Spaces /\ version' \in Nat
      /\ page \in PageType(view)
  BY DEF Inv, TypeInv, server
<1>2. /\ tasks' \in Tasks(view) /\ tasks'[t] = NoTask /\ KindOf(tasks', t) = "none"
      /\ \A u \in Task \ {t} : tasks'[u] = tasks[u] /\ KindOf(tasks', u) = KindOf(tasks, u)
      /\ \A u \in Task : tasks'[u] # NoTask => DOMAIN tasks'[u].awaits # {}
  BY EndedFacts
<1>3. TypeInv'  BY <1>1, <1>2, TypesKept
<1>4. \A u \in Task, kind \in {"load", "delete"} :
        KindOf(tasks', u) = kind <=> KindOf(tasks, u) = kind
  BY <1>2
<1>5. \A u \in Task : KindOf(tasks', u) # "form"  BY <1>1, <1>2 DEF BusyInv
<1>6. BusyInv'
  BY <1>1, <1>2, <1>4, <1>5 DEF BusyInv
<1>7. CountInv'
  <2>1. ASSUME NEW u \in Task, view = "home", KindOf(tasks', u) = "delete"  PROVE Removal(u)'
    <3>1. u # t /\ KindOf(tasks, u) = "delete" /\ tasks'[u] = tasks[u]  BY <1>2, <2>1
    <3>2. Removal(u)  BY <1>1, <2>1, <3>1 DEF CountInv
    <3> QED  BY <1>4, <3>1, <3>2 DEF Removal
  <2> QED  BY <1>1, <1>4, <2>1 DEF CountInv
<1> QED  BY <1>3, <1>6, <1>7 DEF Inv

(* A handler of the sidebar or of the form starts.                         *)
LEMMA StartQuiet ==
    ASSUME Inv, NEW t \in Task, FreeTask(t), NEW kind \in {"item", "form"},
           NEW request \in RequestType(view),
           tasks' = [tasks EXCEPT ![t] = Running(kind, request)],
           UNCHANGED <<server, view, page>>,
           kind = "item" => form' = form,
           kind = "form" => form' \in FormType /\ ~form.submitting /\ form'.submitting
    PROVE  Inv'
<1>1. /\ TypeInv /\ BusyInv /\ CountInv /\ spaces' \in Spaces /\ version' \in Nat
      /\ tasks \in Tasks(view) /\ page \in PageType(view) /\ form' \in FormType
  BY DEF Inv, TypeInv, server
<1> DEFINE task == Running(kind, request)
<1>2. task \in TaskType(view) /\ task.for = kind /\ DOMAIN task.awaits # {}
  BY RunningType, SMT DEF For
<1>3. tasks' = [tasks EXCEPT ![t] = task]  OBVIOUS
<1> HIDE DEF task
<1>4. tasks' \in Tasks(view) /\ tasks'[t] = task /\ \A u \in Task \ {t} : tasks'[u] = tasks[u]
  BY <1>1, <1>2, <1>3 DEF Tasks
<1>5. task # NoTask /\ tasks[t] = NoTask  BY <1>2, TaskFields DEF FreeTask
<1>6. /\ KindOf(tasks', t) = kind /\ KindOf(tasks, t) = "none"
      /\ \A u \in Task \ {t} : KindOf(tasks', u) = KindOf(tasks, u)
  BY <1>2, <1>4, <1>5, SMT DEF KindOf
<1>7. TypeInv'  BY <1>1, <1>4, TypesKept
<1>8. \A u \in Task, k \in {"load", "delete"} :
        KindOf(tasks', u) = k <=> KindOf(tasks, u) = k
  BY <1>6
<1>9. \A u \in Task : tasks'[u] # NoTask => DOMAIN tasks'[u].awaits # {}
  BY <1>1, <1>2, <1>4 DEF BusyInv
<1>10. /\ form'.submitting => \E u \in Task : KindOf(tasks', u) = "form"
       /\ \A u \in Task : KindOf(tasks', u) = "form" => form'.submitting
       /\ \A u, w \in Task : KindOf(tasks', u) = "form" /\ KindOf(tasks', w) = "form" => u = w
  <2>1. CASE kind = "item"
    <3>1. \A u \in Task : KindOf(tasks', u) = "form" <=> KindOf(tasks, u) = "form"  BY <1>6, <2>1
    <3> QED  BY <1>1, <2>1, <3>1 DEF BusyInv
  <2>2. CASE kind = "form"
    <3>1. \A u \in Task : KindOf(tasks, u) # "form"  BY <1>1, <2>2 DEF BusyInv
    <3>2. \A u \in Task : KindOf(tasks', u) = "form" <=> u = t  BY <1>6, <2>2, <3>1
    <3> QED  BY <2>2, <3>2
  <2> QED  BY <2>1, <2>2
<1>11. BusyInv'  BY <1>1, <1>8, <1>9, <1>10 DEF BusyInv
<1>12. CountInv'
  <2>1. ASSUME NEW u \in Task, view = "home", KindOf(tasks', u) = "delete"  PROVE Removal(u)'
    <3>1. u # t /\ KindOf(tasks, u) = "delete" /\ tasks'[u] = tasks[u]  BY <1>4, <1>6, <2>1
    <3>2. Removal(u)  BY <1>1, <2>1, <3>1 DEF CountInv
    <3> QED  BY <1>8, <3>1, <3>2 DEF Removal
  <2> QED  BY <1>1, <1>8, <2>1 DEF CountInv
<1> QED  BY <1>7, <1>11, <1>12 DEF Inv

(* The page of a namespace has found its name, or not.                     *)
LEMMA LookedUpStep ==
    ASSUME Inv, view \in Name, NEW t \in Task, LookedUp(t)
    PROVE  Inv'
<1>0. /\ view # "home" /\ TypeInv /\ BusyInv /\ tasks \in Tasks(view) /\ page \in PageType(view)
      /\ spaces \in Spaces /\ version \in Nat /\ form \in FormType
  BY ViewAssumption DEF Inv, TypeInv
<1>1. tasks[t] \in TaskType(view) /\ KindOf(tasks, t) = "load" /\ tasks[t].for = "load"
  <2>1. PICK for \in For, op \in Op : for = "load" /\ op = "namespaces"  BY DEF For, Op
  <2>2. Answered(t, Main, for, op)  BY <2>1 DEF LookedUp
  <2>3. tasks[t] \in TaskType(view) /\ KindOf(tasks, t) = for /\ tasks[t].for = for
    BY <1>0, <2>2, AnsweredFacts
  <2> QED  BY <2>1, <2>3
<1> DEFINE request == Request("clusters", view, None, 0, None)
           awaits == Just(Main, request)
           task == [tasks[t] EXCEPT !.awaits = awaits]
<1>2. CASE tasks' = [tasks EXCEPT ![t].awaits = awaits] /\ UNCHANGED <<pageVars, server>>
  <2>1. << >> \in Seq(Shard)  BY SMT
  <2>2. request \in RequestType(view)  BY <2>1, RequestOf DEF Op
  <2>3. tasks' = [tasks EXCEPT ![t] = task]  BY <1>0, <1>2 DEF Tasks
  <2> HIDE DEF request
  <2>4. awaits \in Awaits(view) /\ DOMAIN awaits # {}
    <3>1. Main \in {Main} \cup ClusterName  OBVIOUS
    <3>2. awaits \in Awaits(view) /\ DOMAIN awaits = {Main}  BY <2>2, <3>1, MapsJust, Zenon DEF Awaits
    <3> QED  BY <3>2
  <2> HIDE DEF awaits
  <2>5. task \in TaskType(view) /\ task.for = "load" /\ task.awaits = awaits
    BY <1>1, <2>4 DEF TaskType
  <2> HIDE DEF task
  <2>6. tasks' \in Tasks(view) /\ tasks'[t] = task /\ \A u \in Task \ {t} : tasks'[u] = tasks[u]
    BY <1>0, <2>3, <2>5 DEF Tasks
  <2>7. task # NoTask  BY <2>5, TaskFields
  <2>8. \A u \in Task : KindOf(tasks', u) = KindOf(tasks, u)  BY <1>1, <2>5, <2>6, <2>7 DEF KindOf
  <2>9. \A u \in Task : tasks'[u] # NoTask => DOMAIN tasks'[u].awaits # {}
    BY <1>0, <2>4, <2>5, <2>6 DEF BusyInv
  <2>10. UNCHANGED <<view, page, form, spaces, version>>  BY <1>2 DEF pageVars, server
  <2>11. TypeInv'  BY <1>0, <2>6, <2>10, TypesKept
  <2> QED  BY <1>0, <2>8, <2>9, <2>10, <2>11, GoOn
<1>3. CASE GiveUp(t) /\ UNCHANGED server
  <2>1. /\ page' = [page EXCEPT !.loading = FALSE] /\ Ended(t) /\ UNCHANGED <<server, view, form>>
    BY <1>3 DEF GiveUp
  <2>2. /\ page' \in PageType(view) /\ page'.space = page.space /\ ~page'.loading
        /\ page'.deleting = page.deleting
    BY <1>0, <2>1 DEF PageType
  <2> QED  BY <1>0, <1>1, <2>1, <2>2, EndInside
<1> QED  BY <1>2, <1>3 DEF LookedUp

(* A removal of a cluster is refused.                                      *)
LEMMA ClusterRefusedStep ==
    ASSUME Inv, view \in Name, NEW t \in Task, ClusterRefused(t)
    PROVE  Inv'
<1>0. view # "home" /\ tasks \in Tasks(view) /\ page \in PageType(view)
  BY ViewAssumption DEF Inv, TypeInv
<1>1. KindOf(tasks, t) = "delete"
  <2>1. PICK for \in For, op \in Op : for = "delete" /\ op = "removeCluster"  BY DEF For, Op
  <2>2. Answered(t, Main, for, op)  BY <2>1 DEF ClusterRefused
  <2>3. KindOf(tasks, t) = for  BY <1>0, <2>2, AnsweredFacts
  <2> QED  BY <2>1, <2>3
<1>2. /\ page' = [page EXCEPT !.loading = FALSE, !.deleting = None] /\ Ended(t)
      /\ UNCHANGED <<server, view, form>>
  BY DEF ClusterRefused
<1>3. /\ page' \in PageType(view) /\ page'.space = page.space /\ ~page'.loading
      /\ page'.deleting = None
  BY <1>0, <1>2 DEF PageType
<1> QED  BY <1>0, <1>1, <1>2, <1>3, EndInside

(* A cluster is removed: the spinner is back, and takes the forms away.    *)
LEMMA ClusterRemovedStep ==
    ASSUME Inv, view \in Name, NEW t \in Task, ClusterRemoved(t)
    PROVE  Inv'
<1>0. /\ view # "home" /\ TypeInv /\ BusyInv /\ tasks \in Tasks(view) /\ page \in PageType(view)
      /\ spaces \in Spaces /\ version \in Nat
  BY ViewAssumption DEF Inv, TypeInv
<1>1. tasks[t] \in TaskType(view) /\ KindOf(tasks, t) = "delete" /\ tasks[t].for = "delete"
  <2>1. PICK for \in For, op \in Op : for = "delete" /\ op = "removeCluster"  BY DEF For, Op
  <2>2. Answered(t, Main, for, op)  BY <2>1 DEF ClusterRemoved
  <2>3. tasks[t] \in TaskType(view) /\ KindOf(tasks, t) = for /\ tasks[t].for = for
    BY <1>0, <2>2, AnsweredFacts
  <2> QED  BY <2>1, <2>3
<1> DEFINE request == Request("clusters", view, None, 0, None)
           awaits == Just(Main, request)
           left == Unmounted(tasks)
           task == [left[t] EXCEPT !.awaits = awaits]
<1>2. /\ page' = [page EXCEPT !.loading = TRUE] /\ form' = NoForm
      /\ tasks' = [left EXCEPT ![t].awaits = awaits] /\ UNCHANGED <<server, view>>
  BY DEF ClusterRemoved
<1>3. /\ left \in Tasks(view)
      /\ \A u \in Task :
            /\ KindOf(left, u) = IF KindOf(tasks, u) = "form" THEN "stray" ELSE KindOf(tasks, u)
            /\ KindOf(tasks, u) # "form" => left[u] = tasks[u]
            /\ tasks[u] # NoTask => left[u].awaits = tasks[u].awaits
  BY <1>0, UnmountedTasks
<1> HIDE DEF left
<1>4. request \in RequestType(view)
  <2>1. << >> \in Seq(Shard)  BY SMT
  <2> QED  BY <2>1, RequestOf DEF Op
<1>5. tasks' = [left EXCEPT ![t] = task]  BY <1>2, <1>3 DEF Tasks
<1> HIDE DEF request
<1>6. awaits \in Awaits(view) /\ DOMAIN awaits # {}
  <2>1. Main \in {Main} \cup ClusterName  OBVIOUS
  <2>2. awaits \in Awaits(view) /\ DOMAIN awaits = {Main}  BY <1>4, <2>1, MapsJust, Zenon DEF Awaits
  <2> QED  BY <2>2
<1> HIDE DEF awaits
<1>7. left[t] = tasks[t]  BY <1>1, <1>3
<1>8. task \in TaskType(view) /\ task.for = "delete" /\ task.awaits = awaits
  BY <1>1, <1>6, <1>7 DEF TaskType
<1> HIDE DEF task
<1>9. tasks' \in Tasks(view) /\ tasks'[t] = task /\ \A u \in Task \ {t} : tasks'[u] = left[u]
  BY <1>3, <1>5, <1>8 DEF Tasks
<1>10. task # NoTask  BY <1>8, TaskFields
<1>11. \A u \in Task : KindOf(tasks', u) = KindOf(left, u)
  BY <1>1, <1>7, <1>8, <1>9, <1>10 DEF KindOf
<1>12. \A u \in Task : KindOf(tasks', u) # "form" /\ (KindOf(tasks, u) = "delete" => KindOf(tasks', u) = "delete")
  BY <1>3, <1>11
<1>13. ASSUME NEW u \in Task, tasks'[u] # NoTask  PROVE DOMAIN tasks'[u].awaits # {}
  <2>1. CASE u = t  BY <1>6, <1>8, <1>9, <2>1
  <2>2. CASE u # t
    <3>1. left[u] = tasks'[u]  BY <1>9, <2>2
    <3>2. KindOf(tasks', u) # "none"  BY <1>9, <1>13, KindFacts
    <3>3. KindOf(tasks, u) # "none"  BY <1>3, <1>11, <3>2
    <3>4. tasks[u] # NoTask  BY <3>3 DEF KindOf
    <3> QED  BY <1>0, <1>3, <3>1, <3>4 DEF BusyInv
  <2> QED  BY <2>1, <2>2
<1>14. page' \in PageType(view) /\ page'.space = page.space /\ page'.deleting = page.deleting
  BY <1>0, <1>2 DEF PageType
<1>15. TypeInv'
  <2>1. spaces' = spaces /\ version' = version /\ form' \in FormType /\ view' = view
    BY <1>2 DEF server, NoForm, FormType
  <2> QED  BY <1>0, <1>9, <1>14, <2>1, TypesKept
<1>16. ~form'.submitting /\ view' = view  BY <1>2 DEF NoForm
<1>17. BusyInv'
  BY <1>0, <1>1, <1>12, <1>13, <1>14, <1>16 DEF BusyInv
<1> QED  BY <1>0, <1>15, <1>16, <1>17 DEF Inv, CountInv

(* A removal of a cluster starts.                                          *)
LEMMA HandleDeleteClusterStep ==
    ASSUME Inv, view \in Name, NEW t \in Task, handleDeleteCluster(t)
    PROVE  Inv'
<1>0. /\ view # "home" /\ TypeInv /\ BusyInv /\ tasks \in Tasks(view) /\ page \in PageType(view)
      /\ spaces \in Spaces /\ version \in Nat /\ form \in FormType
  BY ViewAssumption DEF Inv, TypeInv
<1>1. PICK c \in DOMAIN page.rows :
        /\ page' = [page EXCEPT !.deleting = c]
        /\ tasks' = [tasks EXCEPT ![t] =
                Running("delete", Request("removeCluster", view, c, 0, None))]
  BY DEF handleDeleteCluster, filteredClusters
<1>2. tasks[t] = NoTask /\ ~page.loading /\ UNCHANGED <<server, view, form>>
  BY DEF handleDeleteCluster, FreeTask, Reachable
<1>3. c \in ClusterName
  <2>1. page.rows \in Rows(view)  BY <1>0 DEF PageType
  <2>2. DOMAIN page.rows \subseteq ClusterName  BY <1>0, <2>1, MapsElim DEF Rows, Place
  <2> QED  BY <2>2
<1> DEFINE request == Request("removeCluster", view, c, 0, None)
           task == Running("delete", request)
<1>4. request \in RequestType(view)
  <2>1. << >> \in Seq(Shard)  BY SMT
  <2> QED  BY <1>3, <2>1, RequestOf DEF Op
<1>5. tasks' = [tasks EXCEPT ![t] = task]  BY <1>1
<1> HIDE DEF request
<1>6. task \in TaskType(view) /\ task.for = "delete" /\ DOMAIN task.awaits # {}
  BY <1>4, RunningType, SMT DEF For
<1> HIDE DEF task
<1>7. tasks' \in Tasks(view) /\ tasks'[t] = task /\ \A u \in Task \ {t} : tasks'[u] = tasks[u]
  BY <1>0, <1>5, <1>6 DEF Tasks
<1>8. task # NoTask  BY <1>6, TaskFields
<1>9. /\ KindOf(tasks', t) = "delete" /\ KindOf(tasks, t) = "none"
      /\ \A u \in Task \ {t} : KindOf(tasks', u) = KindOf(tasks, u)
  BY <1>2, <1>6, <1>7, <1>8 DEF KindOf
<1>10. page' \in PageType(view) /\ page'.space = page.space /\ page'.loading = page.loading
  BY <1>0, <1>1, <1>3 DEF PageType
<1>11. TypeInv'
  <2>1. spaces' = spaces /\ version' = version /\ form' = form /\ view' = view
    BY <1>2 DEF server
  <2> QED  BY <1>0, <1>7, <1>10, <2>1, TypesKept
<1>12. \A u \in Task : KindOf(tasks', u) = "form" <=> KindOf(tasks, u) = "form"  BY <1>9
<1>13. \A u \in Task : tasks'[u] # NoTask => DOMAIN tasks'[u].awaits # {}
  BY <1>0, <1>6, <1>7 DEF BusyInv
<1>14. BusyInv'
  BY <1>0, <1>2, <1>9, <1>10, <1>12, <1>13 DEF BusyInv
<1> QED  BY <1>0, <1>2, <1>11, <1>14 DEF Inv, CountInv

-----------------------------------------------------------------------------
(* Sidebars and forms *)

(* A removal from a sidebar starts, or the request of a form.              *)
LEMMA StartStep ==
    ASSUME Inv, NEW t \in Task,
           \/ Inside(confirmDelete(t)) \/ Beside(confirmDeleteCluster(t))
           \/ Home(SubmitNamespace(t)) \/ Inside(SubmitNamespace(t)) \/ Inside(SubmitCluster(t))
           \/ Beside(SubmitSideCluster(t))
    PROVE  Inv'
<1>0. form \in FormType /\ page \in PageType(view) /\ (view = "cluster" => page.space \in Name)
  BY DEF Inv, TypeInv
<1>a. << >> \in Seq(Shard)  BY SMT
<1>1. ASSUME confirmDelete(t)  PROVE Inv'
  <2>1. PICK n \in Name : tasks' = [tasks EXCEPT ![t] =
            Running("item", Request("removeNamespace", n, None, 0, None))]
    BY <1>1 DEF confirmDelete
  <2>2. Request("removeNamespace", n, None, 0, None) \in RequestType(view)
    BY <1>a, RequestOf DEF Op
  <2>3. FreeTask(t) /\ UNCHANGED <<server, view, page>> /\ form' = form
    BY <1>1 DEF confirmDelete, pageVars
  <2> QED  BY <2>1, <2>2, <2>3, StartQuiet
<1>2. ASSUME view = "cluster", confirmDeleteCluster(t)  PROVE Inv'
  <2>1. PICK c \in page.items : tasks' = [tasks EXCEPT ![t] =
            Running("item", Request("removeCluster", page.space, c, 0, None))]
    BY <1>2 DEF confirmDeleteCluster
  <2>2. c \in ClusterName /\ page.space \in Name  BY <1>0, <1>2 DEF PageType
  <2>3. Request("removeCluster", page.space, c, 0, None) \in RequestType(view)
    BY <1>a, <2>2, RequestOf DEF Op
  <2>4. FreeTask(t) /\ UNCHANGED <<server, view, page>> /\ form' = form
    BY <1>2 DEF confirmDeleteCluster, pageVars
  <2> QED  BY <2>1, <2>3, <2>4, StartQuiet
<1>3. ASSUME NEW request \in RequestType(view), Submit(t, request)  PROVE Inv'
  <2>1. /\ FreeTask(t) /\ tasks' = [tasks EXCEPT ![t] = Running("form", request)]
        /\ UNCHANGED <<server, view, page>>
    BY <1>3 DEF Submit
  <2>2. form' \in FormType /\ ~form.submitting /\ form'.submitting
    BY <1>0, <1>3 DEF Submit, handleSubmit, FormType
  <2> QED  BY <2>1, <2>2, StartQuiet
<1>4. ASSUME SubmitNamespace(t)  PROVE Inv'
  <2>1. PICK n \in Name : Submit(t, Request("createNamespace", n, None, 0, None))
    BY <1>4 DEF SubmitNamespace
  <2>2. Request("createNamespace", n, None, 0, None) \in RequestType(view)
    BY <1>a, RequestOf DEF Op
  <2> QED  BY <1>3, <2>1, <2>2
<1>5. ASSUME view \in Name, SubmitCluster(t)  PROVE Inv'
  <2>1. PICK c \in ClusterName : Submit(t, Request("createCluster", view, c, 0, None))
    BY <1>5 DEF SubmitCluster
  <2>2. Request("createCluster", view, c, 0, None) \in RequestType(view)
    BY <1>a, <1>5, RequestOf DEF Op
  <2> QED  BY <1>3, <2>1, <2>2
<1>6. ASSUME view = "cluster", SubmitSideCluster(t)  PROVE Inv'
  <2>1. PICK c \in ClusterName : Submit(t, Request("createCluster", page.space, c, 0, None))
    BY <1>6 DEF SubmitSideCluster
  <2>2. Request("createCluster", page.space, c, 0, None) \in RequestType(view)
    BY <1>0, <1>a, <1>6, RequestOf DEF Op
  <2> QED  BY <1>3, <2>1, <2>2
<1> QED  BY <1>1, <1>2, <1>4, <1>5, <1>6 DEF Home, Inside, Beside

(* A removal from a sidebar has its answer.                                *)
LEMMA ItemDoneStep ==
    ASSUME Inv, NEW t \in Task, ConfirmDone(t) \/ (view = "cluster" /\ ClusterItemDone(t))
    PROVE  Inv'
<1>0. /\ TypeInv /\ tasks \in Tasks(view) /\ page \in PageType(view)
      /\ (view = "cluster" => page.space \in Name)
  BY DEF Inv, TypeInv
<1>1. KindOf(tasks, t) = "item"
  <2>1. PICK for \in For : for = "item"  BY DEF For
  <2>2. PICK op \in Op : Answered(t, Main, for, op)
    BY <2>1 DEF Op, ConfirmDone, ClusterItemDone
  <2>3. KindOf(tasks, t) = for  BY <1>0, <2>2, AnsweredFacts
  <2> QED  BY <2>1, <2>3
<1>2. ASSUME Ended(t), UNCHANGED pageVars, UNCHANGED server  PROVE Inv'
  BY <1>0, <1>1, <1>2, EndQuiet DEF pageVars
<1>3. CASE ConfirmDone(t)
  <2>1. UNCHANGED server /\ (Open("home") \/ (Ended(t) /\ UNCHANGED pageVars))
    BY <1>3 DEF ConfirmDone
  <2> QED  BY <1>0, <1>2, <2>1, OpenStep
<1>4. CASE view = "cluster" /\ ClusterItemDone(t)
  <2>1. UNCHANGED server /\ (Open(page.space) \/ (Ended(t) /\ UNCHANGED pageVars))
    BY <1>4 DEF ClusterItemDone
  <2> QED  BY <1>0, <1>2, <1>4, <2>1, OpenStep
<1> QED  BY <1>3, <1>4

(* The sidebar of a cluster has its list.                                  *)
LEMMA ClustersShownStep ==
    ASSUME Inv, view = "cluster", NEW t \in Task, ClustersShown(t)
    PROVE  Inv'
<1>0. tasks \in Tasks(view) /\ page \in PageType(view)  BY DEF Inv, TypeInv
<1>1. /\ KindOf(tasks, t) = "side" /\ tasks[t] \in TaskType(view)
      /\ tasks[t].awaits[Main] \in RequestType(view) /\ tasks[t].awaits[Main].op = "clusters"
  <2>1. /\ tasks[t] # NoTask /\ tasks[t].for = "side" /\ Main \in DOMAIN tasks[t].awaits
        /\ tasks[t].awaits[Main].op = "clusters"
    BY DEF ClustersShown, Answered, Awaiting
  <2>2. tasks[t] \in TaskType(view) /\ KindOf(tasks, t) = tasks[t].for  BY <1>0, <2>1, KindFacts
  <2>3. tasks[t].awaits[Main] \in RequestType(view)  BY <2>1, <2>2, TaskFields
  <2> QED  BY <2>1, <2>2, <2>3
<1> DEFINE request == tasks[t].awaits[Main]
<1>2. request.names \in SUBSET ClusterName /\ request.read \in Nat
  <2> HIDE DEF request
  <2>1. request \in RequestFields(view) /\ request.names \in Finite(ClusterName)
    BY <1>1 DEF RequestType, request
  <2> QED  BY <2>1 DEF RequestFields, Finite
<1>3. tasks[t].whole \in BOOLEAN  BY <1>1 DEF TaskType
<1>4. /\ page' = [page EXCEPT !.items = request.names, !.since = request.read,
                              !.whole = tasks[t].whole]
      /\ Ended(t) /\ UNCHANGED <<server, view, form>>
  BY DEF ClustersShown
<1> HIDE DEF request
<1>5. /\ page' \in PageType(view) /\ page'.space = page.space
      /\ page'.loading = page.loading /\ page'.deleting = page.deleting
  BY <1>0, <1>2, <1>3, <1>4 DEF PageType
<1> QED  BY <1>1, <1>4, <1>5, EndQuiet

(* The request of a form has its answer.                                   *)
LEMMA FormDoneStep ==
    ASSUME Inv, NEW t \in Task, FormDone(t)
    PROVE  Inv'
<1>0. TypeInv /\ tasks \in Tasks(view) /\ page \in PageType(view) /\ form \in FormType
  BY DEF Inv, TypeInv
<1>1. PICK for \in {"form", "stray"}, op \in {"createNamespace", "createCluster"} :
        Answered(t, Main, for, op)
  BY DEF FormDone
<1>2. /\ KindOf(tasks, t) = for /\ tasks[t].for = for
      /\ tasks[t].awaits[Main] \in RequestType(view) /\ tasks[t].awaits[Main].op = op
  <2>1. for \in For /\ op \in Op  BY DEF For, Op
  <2> QED  BY <1>0, <1>1, <2>1, AnsweredFacts
<1> DEFINE request == tasks[t].awaits[Main]
<1>3. request.name \in Name  BY <1>2 DEF RequestType
<1>4. UNCHANGED server  BY DEF FormDone
<1>5. CASE Created(t)
  <2>1. Open(request.name) \/ OpenCluster(request.name)  BY <1>5 DEF Created
  <2> HIDE DEF request
  <2> QED  BY <1>0, <1>3, <1>4, <2>1, OpenStep, OpenClusterStep
<1>6. CASE Refused(t)
  <2>1. Ended(t) /\ UNCHANGED <<server, view, page>>  BY <1>4, <1>6 DEF Refused
  <2>2. CASE for = "form"
    <3>1. form' = [open |-> form.open /\ handleError # "", submitting |-> FALSE]
      BY <1>2, <1>6, <2>2 DEF Refused, EndSubmit
    <3>2. form.open \in BOOLEAN  BY <1>0 DEF FormType
    <3>3. form' \in FormType /\ ~form'.submitting
      <4> DEFINE b == form.open /\ handleError # ""
      <4>1. b \in BOOLEAN  BY <3>2
      <4>2. form' = [open |-> b, submitting |-> FALSE]  BY <3>1
      <4> HIDE DEF b
      <4> QED  BY <4>1, <4>2 DEF FormType
    <3> QED  BY <1>2, <2>1, <2>2, <3>3, EndForm
  <2>3. CASE for = "stray"
    <3>1. form' = form  BY <1>2, <1>6, <2>3 DEF Refused
    <3> QED  BY <1>0, <1>2, <2>1, <2>3, <3>1, EndQuiet
  <2> QED  BY <2>2, <2>3
<1> QED  BY <1>5, <1>6 DEF FormDone

(* Links, and the form opened or left.                                     *)
LEMMA ClickStep ==
    ASSUME Inv, Click
    PROVE  Inv'
<1>0. /\ TypeInv /\ tasks \in Tasks(view) /\ page \in PageType(view) /\ form \in FormType
      /\ (view = "cluster" => page.space \in Name) /\ spaces \in Spaces /\ version \in Nat
  BY DEF Inv, TypeInv
<1>1. ASSUME view = "home", FollowNamespace  PROVE Inv'
  <2>1. PICK n \in DOMAIN page.rows : Open(n)  BY <1>1 DEF FollowNamespace, filteredNamespaces
  <2>2. page.rows \in Rows(view)  BY <1>0 DEF PageType
  <2>3. DOMAIN page.rows \subseteq Name  BY <1>1, <2>2, MapsElim DEF Rows, Place
  <2> QED  BY <1>0, <1>1, <2>1, <2>3, OpenStep DEF FollowNamespace
<1>2. ASSUME view \in Name, FollowCluster  PROVE Inv'
  BY <1>0, <1>2, OpenClusterStep DEF FollowCluster
<1>3. ASSUME Navigate  PROVE Inv'
  BY <1>0, <1>3, OpenStep DEF Navigate
<1>4. ASSUME FollowItem  PROVE Inv'
  BY <1>0, <1>4, OpenStep DEF FollowItem
<1>5. ASSUME view = "cluster", FollowClusterItem  PROVE Inv'
  BY <1>0, <1>5, OpenClusterStep DEF FollowClusterItem
<1>6. ASSUME OpenForm \/ LeaveForm  PROVE Inv'
  <2>1. UNCHANGED <<server, tasks, view, page>>  BY <1>6 DEF OpenForm, LeaveForm
  <2>2. form' \in FormType /\ form'.submitting = form.submitting
    BY <1>0, <1>6 DEF OpenForm, LeaveForm, openDialog, closeDialog, FormType
  <2>3. spaces' = spaces /\ version' = version  BY <2>1 DEF server
  <2>4. TypeInv'  BY <1>0, <2>1, <2>2, <2>3, TypesKept
  <2>5. \A t \in Task :
            /\ KindOf(tasks', t) = KindOf(tasks, t)
            /\ tasks'[t] # NoTask => DOMAIN tasks'[t].awaits # {}
            /\ view = "home" /\ KindOf(tasks, t) = "delete" =>
                /\ tasks'[t].rows = tasks[t].rows
                /\ Main \in DOMAIN tasks'[t].awaits
                /\ tasks'[t].awaits[Main].name = tasks[t].awaits[Main].name
    BY <2>1 DEF Inv, BusyInv, CountInv, Removal
  <2> QED  BY <2>1, <2>2, <2>4, <2>5, GoOn
<1> QED  BY <1>1, <1>2, <1>3, <1>4, <1>5, <1>6 DEF Click, Home, Inside, Beside

(* What others change is not on the page.                                  *)
LEMMA OthersStep ==
    ASSUME Inv, Others, UNCHANGED <<tasks, pageVars>>
    PROVE  Inv'
<1>0. /\ TypeInv /\ tasks \in Tasks(view) /\ page \in PageType(view) /\ form \in FormType
      /\ spaces \in Spaces /\ version \in Nat
  BY DEF Inv, TypeInv
<1>1. PICK n \in Name : \E after \in CreateNamespace(n) \cup RemoveNamespace(n)
                     \cup (UNION {CreateCluster(n, c) \cup RemoveCluster(n, c) : c \in ClusterName})
                     \cup (IF n \in DOMAIN spaces
                           THEN UNION {UpdateCluster(n, c) : c \in DOMAIN spaces[n]} ELSE {}) :
            Store(after) /\ Upset
  BY DEF Others
<1>2. PICK after \in Spaces : Store(after)
  <2> DEFINE Updates == IF n \in DOMAIN spaces
                        THEN UNION {UpdateCluster(n, c) : c \in DOMAIN spaces[n]} ELSE {}
  <2>0. PICK after : /\ Store(after)
                     /\ after \in CreateNamespace(n) \cup RemoveNamespace(n)
                          \cup (UNION {CreateCluster(n, c) \cup RemoveCluster(n, c) : c \in ClusterName})
                          \cup Updates
    BY <1>1, Zenon
  <2>a. after \in Updates =>
            n \in DOMAIN spaces /\ \E c \in DOMAIN spaces[n] : after \in UpdateCluster(n, c)
    OBVIOUS
  <2> HIDE DEF Updates
  <2>1. \/ after \in CreateNamespace(n) \cup RemoveNamespace(n)
        \/ \E c \in ClusterName : after \in CreateCluster(n, c) \cup RemoveCluster(n, c)
        \/ n \in DOMAIN spaces /\ \E c \in DOMAIN spaces[n] : after \in UpdateCluster(n, c)
    BY <2>0, <2>a
  <2>2. CASE after \in CreateNamespace(n) \cup RemoveNamespace(n)
    BY <1>0, <2>0, <2>2, NamespaceEdits
  <2>3. CASE \E c \in ClusterName : after \in CreateCluster(n, c) \cup RemoveCluster(n, c)
    BY <1>0, <2>0, <2>3, ClusterEdits
  <2>4. CASE n \in DOMAIN spaces /\ \E c \in DOMAIN spaces[n] : after \in UpdateCluster(n, c)
    BY <1>0, <2>0, <2>4, ClusterEdits, SpacesElim
  <2> QED  BY <2>1, <2>2, <2>3, <2>4
<1>3. spaces' \in Spaces /\ version' \in Nat  BY <1>0, <1>2, SMT DEF Store
<1>4. UNCHANGED <<tasks, view, page, form>>  BY DEF pageVars
<1>5. TypeInv'  BY <1>0, <1>3, <1>4, TypesKept
<1>6. \A t \in Task :
            /\ KindOf(tasks', t) = KindOf(tasks, t)
            /\ tasks'[t] # NoTask => DOMAIN tasks'[t].awaits # {}
            /\ view = "home" /\ KindOf(tasks, t) = "delete" =>
                /\ tasks'[t].rows = tasks[t].rows
                /\ Main \in DOMAIN tasks'[t].awaits
                /\ tasks'[t].awaits[Main].name = tasks[t].awaits[Main].name
  BY <1>4 DEF Inv, BusyInv, CountInv, Removal
<1> QED  BY <1>4, <1>5, <1>6, GoOn

-----------------------------------------------------------------------------
(* Init and Next *)

(* The page of the namespaces is opened first.                             *)
LEMMA InvInit == Init => Inv
<1> SUFFICES ASSUME Init  PROVE Inv  OBVIOUS
<1>0. PICK v : v = "home"  OBVIOUS
<1> DEFINE request == Request("namespaces", None, None, 0, None)
           task == Running("load", request)
           t == CHOOSE u \in Task : TRUE
<1>1. task \in TaskType(v) /\ task.for = "load" /\ DOMAIN task.awaits # {}
  <2>1. << >> \in Seq(Shard)  BY SMT
  <2>2. request \in RequestType(v)  BY <2>1, RequestOf DEF Op
  <2> HIDE DEF request
  <2> QED  BY <2>2, RunningType, SMT DEF For
<1>2. /\ view = v /\ page = Loading /\ form = NoForm /\ tasks = OnlyTask(task)
      /\ spaces \in InitialSpaces /\ version = 1
  BY <1>0 DEF Init
<1> HIDE DEF task
<1>3. t \in Task  BY TaskAssumption
<1>4. /\ tasks = [u \in Task |-> IF u = t THEN task ELSE NoTask]
  BY <1>2 DEF OnlyTask
<1> HIDE DEF t
<1>5. tasks \in Tasks(v) /\ tasks[t] = task /\ \A u \in Task \ {t} : tasks[u] = NoTask
  BY <1>1, <1>3, <1>4 DEF Tasks
<1>6. spaces \in Spaces
  <2> DEFINE M == Maps(ClusterName, Seq(Shard))
  <2>1. /\ DOMAIN spaces \in Finite(Name) /\ spaces = [n \in DOMAIN spaces |-> spaces[n]]
        /\ \A n \in DOMAIN spaces :
            /\ DOMAIN spaces[n] \in Finite(ClusterName)
            /\ spaces[n] \in [DOMAIN spaces[n] -> Seq(Shard)]
    BY <1>2, SpacesAssumption DEF Finite
  <2>2. ASSUME NEW n \in DOMAIN spaces  PROVE spaces[n] \in M
    BY <2>1, MapsIntro
  <2> HIDE DEF M
  <2>3. spaces \in [DOMAIN spaces -> M]  BY <2>1, <2>2
  <2>4. spaces \in Maps(Name, M)  BY <2>1, <2>3, MapsIntro
  <2> QED  BY <2>4 DEF M, Spaces
<1>7. task # NoTask  BY <1>1, TaskFields
<1>8. Loading \in PageType(v)  BY LoadingType
<1>9. TypeInv
  BY <1>0, <1>2, <1>5, <1>6, <1>8 DEF TypeInv, NoForm, FormType
<1>10. KindOf(tasks, t) = "load" /\ \A u \in Task \ {t} : KindOf(tasks, u) = "none"
  BY <1>1, <1>5, <1>7 DEF KindOf
<1>11. /\ page.loading /\ page.deleting = None /\ page.count = 0 /\ page.rows = NoClusters
       /\ ~form.submitting
  BY <1>2 DEF Loading, NoForm
<1>12. BusyInv
  BY <1>1, <1>3, <1>5, <1>10, <1>11 DEF BusyInv
<1>13. CountInv
  <2>1. Cardinality({}) = 0 /\ DOMAIN NoClusters = {}  BY FS_EmptySet DEF NoClusters
  <2>2. page.count <= Cardinality(DOMAIN page.rows) /\ page.count = Cardinality(DOMAIN page.rows)
    BY <1>11, <2>1, SMT
  <2> QED  BY <1>3, <1>10, <1>11, <2>2 DEF CountInv
<1> QED  BY <1>9, <1>12, <1>13 DEF Inv

(* Every step keeps types, handlers and counts.                            *)
LEMMA InvNext == Inv /\ [Next]_vars => Inv'
<1> SUFFICES ASSUME Inv, [Next]_vars  PROVE Inv'  OBVIOUS
<1>1. ASSUME NEW t \in Task, Continue(t)  PROVE Inv'
  <2>1. CASE Home(HomeContinue(t))
    <3>1. view = "home" /\ HomeContinue(t)  BY <2>1 DEF Home
    <3>2. CASE NamespaceDeleted(t)  BY <3>1, <3>2, NamespaceDeletedStep
    <3>3. CASE NamespacesFetched(t) \/ ClustersFetched(t) \/ ShardsFetched(t) \/ NodesFetched(t)
      BY <3>1, <3>3, FetchedStep
    <3> QED  BY <3>1, <3>2, <3>3 DEF HomeContinue
  <2>2. CASE Inside(InsideContinue(t))
    <3>1. view \in Name /\ InsideContinue(t)  BY <2>2 DEF Inside
    <3>2. view # "home"  BY <3>1, ViewAssumption
    <3> QED  BY <3>1, <3>2, LookedUpStep, ClusterRefusedStep, ClusterRemovedStep, CollectedStep
             DEF InsideContinue
  <2>3. CASE Beside(SideContinue(t))
    BY <2>3, ClustersShownStep, ItemDoneStep DEF Beside, SideContinue
  <2> QED  BY <1>1, <2>1, <2>2, <2>3, ItemDoneStep, FormDoneStep DEF Continue
<1>2. ASSUME NEW t \in Task, User(t)  PROVE Inv'
  <2>1. CASE handleDeleteNamespace(t) /\ view = "home"
    BY <2>1, HandleDeleteNamespaceStep
  <2>2. CASE handleDeleteCluster(t) /\ view \in Name
    BY <2>2, HandleDeleteClusterStep
  <2> QED  BY <1>2, <2>1, <2>2, StartStep DEF User, Home, Inside
<1>3. CASE UNCHANGED vars
  <2>1. UNCHANGED <<spaces, version, tasks, view, page, form>>
    BY <1>3 DEF vars, server, pageVars
  <2> QED  BY <2>1 DEF Inv, TypeInv, BusyInv, CountInv, Removal
<1> QED  BY <1>1, <1>2, <1>3, AnswerStep, ClickStep, OthersStep DEF Next

(* Types, handlers and counts are right in every state.                    *)
LEMMA InvAlways == Spec => []Inv
BY InvInit, InvNext, PTL DEF Spec

(* The number of namespaces above their list agrees with the rows, as      *)
(* setNumNamespaces of the page of the namespaces is called.               *)
THEOREM CountsCorrect == Spec => []CountsAgree
<1>1. Inv => CountsAgree  BY DEF Inv, CountInv, CountsAgree
<1> QED  BY <1>1, InvAlways, PTL

(* Whatever is busy on the pages, setLoading and setSubmitting, has its    *)
(* running handler, which awaits an answer.                                *)
THEOREM BusyCorrect == Spec => []BusyIsOutstanding
<1>1. ASSUME Inv  PROVE BusyIsOutstanding
  <2>0. BusyInv /\ tasks \in Tasks(view)  BY <1>1 DEF Inv, TypeInv
  <2>1. \A t \in Task : /\ KindOf(tasks, t) \in {"load", "delete"} <=> t \in RunningFor({"load", "delete"})
                        /\ KindOf(tasks, t) = "delete" <=> t \in RunningFor({"delete"})
                        /\ KindOf(tasks, t) = "form" <=> t \in RunningFor({"form"})
    BY DEF KindOf, RunningFor
  <2>2. Cardinality(RunningFor({"form"})) <= 1
    <3> DEFINE S == RunningFor({"form"})
    <3>1. S \subseteq Task /\ \A t, u \in S : t = u  BY <2>0, <2>1 DEF BusyInv, RunningFor
    <3> HIDE DEF S
    <3>2. CASE S = {}  BY <3>2, FS_EmptySet, SMT DEF S
    <3>3. CASE \E t : t \in S
      <4>1. PICK t : t \in S  BY <3>3
      <4>2. S = {t}  BY <3>1, <4>1
      <4> QED  BY <4>2, FS_Singleton, SMT DEF S
    <3> QED  BY <3>2, <3>3
  <2>3. \A t \in Task : tasks[t] # NoTask => tasks[t].awaits # NoClusters
    BY <2>0 DEF BusyInv, NoClusters
  <2> QED  BY <2>0, <2>1, <2>2, <2>3 DEF BusyInv, BusyIsOutstanding, RunningFor
<1> QED  BY <1>1, InvAlways, PTL

-----------------------------------------------------------------------------
(* Sums *)

(* Induction over the natural numbers, with a set in place of a predicate. *)
LEMMA Induction ==
    ASSUME NEW S, 0 \in S, \A n \in Nat : n \in S => n + 1 \in S
    PROVE  \A n \in Nat : n \in S
  <1> DEFINE R == OpToRel(<,Nat)
             T == Nat \ S
  <1>1. \A x, y \in Nat : x < y => <<x, y>> \in R
    BY DEF OpToRel
  <1>2. IsWellFoundedOn(OpToRel(<,Nat), Nat)
    BY NatLessThanWellFounded
  <1> HIDE DEF R
  <1>3. IsWellFoundedOn(R, Nat)
    BY <1>2 DEF R
  <1>4. SUFFICES ASSUME T # {} PROVE FALSE
    OBVIOUS
  <1>5. PICK x \in T : \A y \in T : ~(<<y, x>> \in R)
    <2> HIDE DEF T
    <2>1. T \subseteq Nat
      BY DEF T
    <2>2. QED
      BY <1>3, <1>4, <2>1, WFMin
  <1>6. x # 0 /\ x - 1 \in Nat /\ x - 1 < x
    BY SMT
  <1>7. x - 1 \in S
    BY <1>1, <1>5, <1>6
  <1>8. QED
    BY <1>6, <1>7, SMT

(* The element that the sum takes from a set next.                         *)
Pick(s) == CHOOSE x \in s : TRUE

(* The sums of all parts of a set, one element at a time.                  *)
Folds(g, S, h) ==
    h = [s \in SUBSET S |-> IF s = {} THEN 0 ELSE g[Pick(s)] + h[s \ {Pick(s)}]]

(* The sums of the parts of a finite set exist, and SumFunctionOnSet is    *)
(* that of the set itself.                                                 *)
LEMMA SumSteps ==
    ASSUME NEW S, IsFiniteSet(S), NEW g
    PROVE  \E h : Folds(g, S, h) /\ SumFunctionOnSet(g, S) = h[S]
  <1> DEFINE Part(n) == {s \in SUBSET S : Cardinality(s) <= n}
             Step(h, n) == h = [s \in Part(n) |->
                                    IF s = {} THEN 0 ELSE g[Pick(s)] + h[s \ {Pick(s)}]]
             Steps == {n \in Nat : \E h : Step(h, n)}
  <1>1. \A s \in SUBSET S : Cardinality(s) \in Nat /\ (Cardinality(s) = 0 <=> s = {})
    BY FS_Subset, FS_CardinalityType, FS_EmptySet
  <1>2. \A s \in SUBSET S : s # {} =>
            /\ Pick(s) \in s /\ s \ {Pick(s)} \in SUBSET S
            /\ Cardinality(s \ {Pick(s)}) = Cardinality(s) - 1
    <2> SUFFICES ASSUME NEW s \in SUBSET S, s # {}
                 PROVE  /\ Pick(s) \in s /\ s \ {Pick(s)} \in SUBSET S
                        /\ Cardinality(s \ {Pick(s)}) = Cardinality(s) - 1
      OBVIOUS
    <2>1. Pick(s) \in s
      BY DEF Pick
    <2>2. IsFiniteSet(s)
      BY FS_Subset
    <2>3. QED
      BY <2>1, <2>2, FS_RemoveElement
  <1>3. 0 \in Steps
    <2>1. Part(0) = {{}}
      BY <1>1, SMT
    <2>2. Step([s \in Part(0) |-> 0], 0)
      BY <2>1
    <2>3. QED
      BY <2>2
  <1>4. ASSUME NEW n \in Nat, n \in Steps
        PROVE  n + 1 \in Steps
    <2>1. PICK h : Step(h, n)
      BY <1>4
    <2> DEFINE next == [s \in Part(n + 1) |->
                            IF s = {} THEN 0 ELSE g[Pick(s)] + h[s \ {Pick(s)}]]
    <2>2. \A s \in Part(n + 1) : s # {} => s \ {Pick(s)} \in Part(n)
      BY <1>1, <1>2, SMT
    <2>3. \A s \in Part(n) : s \in Part(n + 1)
      BY <1>1, SMT
    <2>4. \A s \in Part(n) : h[s] = IF s = {} THEN 0 ELSE g[Pick(s)] + h[s \ {Pick(s)}]
      BY <2>1
    <2>5. \A s \in Part(n) : next[s] = h[s]
      <3> HIDE DEF Part
      <3>1. QED
        BY <2>3, <2>4
    <2>6. Step(next, n + 1)
      <3> HIDE DEF Part
      <3>1. QED
        BY <2>2, <2>5
    <2>7. n + 1 \in Nat
      BY SMT
    <2> HIDE DEF next, Step
    <2>8. QED
      BY <2>6, <2>7, Zenon
  <1>5. \A n \in Nat : n \in Steps
    <2> HIDE DEF Steps
    <2>1. QED
      BY <1>3, <1>4, Induction
  <1>6. Cardinality(S) \in Nat /\ Part(Cardinality(S)) = SUBSET S
    <2>1. Cardinality(S) \in Nat
      BY FS_CardinalityType
    <2>2. \A s \in SUBSET S : Cardinality(s) <= Cardinality(S)
      BY FS_Subset
    <2>3. QED
      BY <2>1, <2>2
  <1>7. \E h : Folds(g, S, h)
    <2>1. PICK h : Step(h, Cardinality(S))
      BY <1>5, <1>6
    <2> HIDE DEF Part
    <2>2. QED
      BY <1>6, <2>1 DEF Folds
  <1> DEFINE iter == CHOOSE h : Folds(g, S, h)
  <1>8. Folds(g, S, iter)
    BY <1>7, Zenon
  <1>9. SumFunctionOnSet(g, S) = iter[S]
    BY Zenon DEF SumFunctionOnSet, FoldFunctionOnSet, MapThenFoldSet, Folds, Pick
  <1> HIDE DEF iter
  <1>10. QED
    BY <1>8, <1>9

(* A function counts something for each element of a set.                  *)
Counting(g, S) == \A x \in S : g[x] \in Nat

(* Any element may be taken first.                                         *)
LEMMA FoldsInAnyOrder ==
    ASSUME NEW S, IsFiniteSet(S), NEW g, Counting(g, S), NEW h, Folds(g, S, h)
    PROVE  h[S] \in Nat /\ \A x \in S : h[S] = g[x] + h[S \ {x}]
  <1> DEFINE Fine(s) == h[s] \in Nat /\ \A x \in s : h[s] = g[x] + h[s \ {x}]
             Sizes == {n \in Nat : \A s \in SUBSET S : Cardinality(s) <= n => Fine(s)}
  <1>1. \A s \in SUBSET S : Cardinality(s) \in Nat /\ (Cardinality(s) = 0 <=> s = {})
    BY FS_Subset, FS_CardinalityType, FS_EmptySet
  <1>2. ASSUME NEW s \in SUBSET S, NEW x \in s
        PROVE  s \ {x} \in SUBSET S /\ Cardinality(s \ {x}) = Cardinality(s) - 1
    <2>1. IsFiniteSet(s)
      BY FS_Subset
    <2>2. QED
      BY <2>1, FS_RemoveElement
  <1>3. h[{}] = 0
    BY DEF Folds
  <1>4. ASSUME NEW s \in SUBSET S, s # {}
        PROVE  Pick(s) \in s /\ h[s] = g[Pick(s)] + h[s \ {Pick(s)}]
    BY <1>4 DEF Folds, Pick
  <1>5. 0 \in Sizes
    BY <1>1, <1>3, SMT
  <1>6. ASSUME NEW n \in Nat, n \in Sizes
        PROVE  n + 1 \in Sizes
    <2> SUFFICES ASSUME NEW s \in SUBSET S, Cardinality(s) = n + 1
                 PROVE  Fine(s)
      BY <1>1, <1>6, SMT
    <2>1. ASSUME NEW x \in s
          PROVE  s \ {x} \in SUBSET S /\ Fine(s \ {x})
      <3>1. s \ {x} \in SUBSET S /\ Cardinality(s \ {x}) <= n
        BY <1>2, SMT
      <3>2. QED
        BY <1>6, <3>1
    <2>2. s # {}
      BY <1>1, SMT
    <2>3. PICK y \in s : h[s] = g[y] + h[s \ {y}]
      BY <1>4, <2>2
    <2>4. h[s] \in Nat
      <3>1. h[s \ {y}] \in Nat /\ g[y] \in Nat
        BY <2>1 DEF Counting
      <3>2. QED
        BY <2>3, <3>1, SMT
    <2>5. ASSUME NEW x \in s, x # y
          PROVE  h[s] = g[x] + h[s \ {x}]
      <3> DEFINE both == (s \ {x}) \ {y}
      <3>1. both = (s \ {y}) \ {x} /\ x \in s \ {y} /\ y \in s \ {x}
        BY <2>5
      <3>2. h[s \ {y}] = g[x] + h[both] /\ h[s \ {x}] = g[y] + h[both]
        BY <2>1, <3>1
      <3>3. h[both] \in Nat
        <4>1. Cardinality(s \ {x}) = n /\ s \ {x} \in SUBSET S
          BY <1>2, SMT
        <4>2. both \in SUBSET S /\ Cardinality(both) = n - 1
          <5> DEFINE rest == s \ {x}
          <5>1. rest \in SUBSET S /\ y \in rest /\ Cardinality(rest) = n
            BY <3>1, <4>1
          <5> HIDE DEF rest
          <5>2. rest \ {y} \in SUBSET S /\ Cardinality(rest \ {y}) = n - 1
            BY <1>2, <5>1
          <5>3. QED
            BY <5>2 DEF rest
        <4>3. QED
          <5>1. n - 1 <= n /\ Cardinality(both) <= n
            BY <4>2, SMT
          <5> HIDE DEF both
          <5>2. QED
            BY <1>6, <4>2, <5>1
      <3>4. g[x] \in Nat /\ g[y] \in Nat
        BY DEF Counting
      <3> HIDE DEF both
      <3>5. QED
        BY <2>3, <3>2, <3>3, <3>4, SMT
    <2>6. QED
      BY <2>3, <2>4, <2>5
  <1>7. \A n \in Nat : n \in Sizes
    <2> HIDE DEF Sizes
    <2>1. QED
      BY <1>5, <1>6, Induction
  <1>8. ASSUME NEW s \in SUBSET S
        PROVE  Fine(s)
    <2>1. Cardinality(s) \in Nat /\ Cardinality(s) <= Cardinality(s)
      BY <1>1, SMT
    <2>2. QED
      BY <1>7, <2>1
  <1>9. S \in SUBSET S
    OBVIOUS
  <1>10. QED
    BY <1>8, <1>9

(* The sums of the parts of a part are the same ones.                      *)
LEMMA FoldsAgree ==
    ASSUME NEW S, IsFiniteSet(S), NEW T \in SUBSET S, NEW g,
           NEW h, Folds(g, S, h), NEW k, Folds(g, T, k)
    PROVE  k[T] = h[T]
  <1> DEFINE Sizes == {n \in Nat : \A s \in SUBSET T : Cardinality(s) = n => k[s] = h[s]}
  <1>1. \A s \in SUBSET T : Cardinality(s) \in Nat /\ (Cardinality(s) = 0 <=> s = {})
    BY FS_Subset, FS_CardinalityType, FS_EmptySet
  <1>2. 0 \in Sizes
    BY <1>1 DEF Folds
  <1>3. ASSUME NEW n \in Nat, n \in Sizes
        PROVE  n + 1 \in Sizes
    <2> SUFFICES ASSUME NEW s \in SUBSET T, Cardinality(s) = n + 1
                 PROVE  k[s] = h[s]
      BY SMT
    <2>1. s # {} /\ s \in SUBSET S /\ IsFiniteSet(s)
      BY <1>1, FS_Subset, SMT
    <2>2. Pick(s) \in s
      BY <2>1 DEF Pick
    <2>3. s \ {Pick(s)} \in SUBSET T /\ Cardinality(s \ {Pick(s)}) = n
      <3>1. Cardinality(s \ {Pick(s)}) = Cardinality(s) - 1
        BY <2>1, <2>2, FS_RemoveElement
      <3>2. QED
        BY <3>1, SMT
    <2>4. k[s \ {Pick(s)}] = h[s \ {Pick(s)}]
      BY <1>3, <2>3
    <2>5. QED
      BY <2>1, <2>4 DEF Folds
  <1>4. \A n \in Nat : n \in Sizes
    <2> HIDE DEF Sizes
    <2>1. QED
      BY <1>2, <1>3, Induction
  <1>5. QED
    BY <1>1, <1>4

(* What the sum of a function over a finite set is.                        *)
LEMMA SumEmpty ==
    ASSUME NEW g
    PROVE  SumFunctionOnSet(g, {}) = 0
  <1>1. PICK h : Folds(g, {}, h) /\ SumFunctionOnSet(g, {}) = h[{}]
    BY SumSteps, FS_EmptySet
  <1>2. QED
    BY <1>1 DEF Folds

(* It is a natural number, and an element adds its value.                  *)
LEMMA SumAdds ==
    ASSUME NEW S, IsFiniteSet(S), NEW g, Counting(g, S)
    PROVE  /\ SumFunctionOnSet(g, S) \in Nat
           /\ \A x \in S : SumFunctionOnSet(g, S) = g[x] + SumFunctionOnSet(g, S \ {x})
  <1>1. PICK h : Folds(g, S, h) /\ SumFunctionOnSet(g, S) = h[S]
    BY SumSteps
  <1>2. h[S] \in Nat /\ \A x \in S : h[S] = g[x] + h[S \ {x}]
    BY <1>1, FoldsInAnyOrder, SMT
  <1>3. ASSUME NEW x \in S
        PROVE  SumFunctionOnSet(g, S \ {x}) = h[S \ {x}]
    <2> DEFINE T == S \ {x}
    <2>1. T \in SUBSET S /\ IsFiniteSet(T)
      BY FS_Subset
    <2> HIDE DEF T
    <2>2. PICK k : Folds(g, T, k) /\ SumFunctionOnSet(g, T) = k[T]
      BY <2>1, SumSteps
    <2>3. k[T] = h[T]
      BY <1>1, <2>1, <2>2, FoldsAgree, SMT
    <2>4. QED
      BY <2>2, <2>3 DEF T
  <1>4. QED
    BY <1>1, <1>2, <1>3

-----------------------------------------------------------------------------
(* Counting *)

(* The counts of the shards of each cluster of a namespace, of the nodes   *)
(* of each shard of a list, and of the nodes of each cluster.              *)
Lens(sp, n) == [c \in DOMAIN sp[n] |-> Len(sp[n][c])]

ShardSizes(list) == [i \in DOMAIN list |-> list[i].nodes]

NodeCounts(sp, n) == [c \in DOMAIN sp[n] |-> Nodes(sp[n][c])]

(* One more element, for the sum over a part of a finite set.              *)
LEMMA SumMore ==
    ASSUME NEW S, IsFiniteSet(S), NEW g, Counting(g, S), NEW D \in SUBSET S
    PROVE  /\ SumFunctionOnSet(g, D) \in Nat
           /\ \A x \in S \ D : /\ g[x] \in Nat
                               /\ SumFunctionOnSet(g, D \cup {x}) = g[x] + SumFunctionOnSet(g, D)
<1>1. IsFiniteSet(D) /\ Counting(g, D)  BY FS_Subset DEF Counting
<1>2. SumFunctionOnSet(g, D) \in Nat  BY <1>1, SumAdds
<1>3. ASSUME NEW x \in S \ D
      PROVE  g[x] \in Nat /\ SumFunctionOnSet(g, D \cup {x}) = g[x] + SumFunctionOnSet(g, D)
  <2> DEFINE T == D \cup {x}
  <2>1. IsFiniteSet(T) /\ Counting(g, T) /\ x \in T  BY FS_Subset DEF Counting
  <2>2. T \ {x} = D  OBVIOUS
  <2> HIDE DEF T
  <2>3. SumFunctionOnSet(g, T) = g[x] + SumFunctionOnSet(g, T \ {x})  BY <2>1, SumAdds
  <2>4. g[x] \in Nat  BY DEF Counting
  <2> QED  BY <2>2, <2>3, <2>4 DEF T
<1> QED  BY <1>2, <1>3

(* The nodes of a list of shards, added up one shard after the other.      *)
LEMMA ShardSums ==
    ASSUME NEW list \in Seq(Shard)
    PROVE  /\ Len(list) \in Nat /\ DOMAIN list = 1 .. Len(list)
           /\ Nodes(list) \in Nat
           /\ Nodes(list) = SumFunctionOnSet(ShardSizes(list), 1 .. Len(list))
           /\ SumFunctionOnSet(ShardSizes(list), 1 .. 0) = 0
           /\ \A i \in 1 .. Len(list) :
                /\ list[i].nodes \in Nat
                /\ SumFunctionOnSet(ShardSizes(list), 1 .. i - 1) \in Nat
                /\ SumFunctionOnSet(ShardSizes(list), 1 .. i)
                    = list[i].nodes + SumFunctionOnSet(ShardSizes(list), 1 .. i - 1)
<1> DEFINE S == 1 .. Len(list)
           g == ShardSizes(list)
<1>1. Len(list) \in Nat /\ DOMAIN list = S  BY SMT
<1>2. IsFiniteSet(S)  BY <1>1, FS_Interval, SMT
<1>3. DOMAIN g = S /\ \A i \in S : list[i].nodes \in Nat /\ g[i] = list[i].nodes
  <2>1. \A shard \in Shard : shard.nodes \in Nat  BY DEF Shard
  <2>2. \A i \in S : list[i] \in Shard  BY SMT
  <2> HIDE DEF S
  <2>3. DOMAIN g = S /\ \A i \in S : g[i] = list[i].nodes  BY <1>1 DEF ShardSizes
  <2> QED  BY <2>1, <2>2, <2>3
<1>4. Counting(g, S)  BY <1>3 DEF Counting
<1>5. Nodes(list) = SumFunctionOnSet(g, S)
  <2>1. Nodes(list) = SumFunction(g)  BY DEF Nodes, ShardSizes
  <2> HIDE DEF g
  <2> QED  BY <1>3, <2>1 DEF SumFunction
<1>6. 1 .. 0 = {}  BY SMT
<1>7. SumFunctionOnSet(g, 1 .. 0) = 0  BY <1>6, SumEmpty
<1> HIDE DEF g
<1>8. ASSUME NEW i \in S
      PROVE  /\ SumFunctionOnSet(g, 1 .. i - 1) \in Nat
             /\ SumFunctionOnSet(g, 1 .. i) = g[i] + SumFunctionOnSet(g, 1 .. i - 1)
  <2>1. 1 .. i - 1 \in SUBSET S /\ i \in S \ (1 .. i - 1)  BY <1>1, SMT
  <2>2. (1 .. i - 1) \cup {i} = 1 .. i  BY <1>1, SMT
  <2> DEFINE D == 1 .. i - 1
  <2>3. D \in SUBSET S /\ i \in S \ D /\ D \cup {i} = 1 .. i  BY <2>1, <2>2
  <2> HIDE DEF D, S
  <2>4. /\ SumFunctionOnSet(g, D) \in Nat
        /\ SumFunctionOnSet(g, D \cup {i}) = g[i] + SumFunctionOnSet(g, D)
    BY <1>2, <1>4, <2>3, SumMore, SMT
  <2> QED  BY <2>3, <2>4 DEF D
<1>9. SumFunctionOnSet(g, S) \in Nat  BY <1>2, <1>4, SumAdds
<1> QED  BY <1>1, <1>3, <1>5, <1>7, <1>8, <1>9 DEF g

(* What the server has under a name, for any state of the server.          *)
LEMMA SpaceFacts ==
    ASSUME NEW sp \in Spaces, NEW n \in DOMAIN sp
    PROVE  /\ n \in Name /\ IsFiniteSet(DOMAIN sp[n])
           /\ \A c \in DOMAIN sp[n] : c \in ClusterName /\ sp[n][c] \in Seq(Shard)
<1> DEFINE f == sp[n]
<1>1. n \in Name /\ f \in Maps(ClusterName, Seq(Shard))
  <2>1. /\ DOMAIN sp \subseteq Name
        /\ \A x \in DOMAIN sp : sp[x] \in Maps(ClusterName, Seq(Shard))
    BY MapsElim DEF Spaces
  <2> QED  BY <2>1
<1> HIDE DEF f
<1>2. /\ IsFiniteSet(DOMAIN f) /\ DOMAIN f \subseteq ClusterName
      /\ \A c \in DOMAIN f : f[c] \in Seq(Shard)
  BY <1>1, MapsElim
<1> QED  BY <1>1, <1>2 DEF f

(* The shards and nodes of some of the clusters of a namespace, and of one *)
(* more.                                                                   *)
LEMMA ClusterSums ==
    ASSUME NEW sp \in Spaces, NEW n \in DOMAIN sp, NEW D \in SUBSET DOMAIN sp[n]
    PROVE  /\ SumFunctionOnSet(Lens(sp, n), D) \in Nat
           /\ SumFunctionOnSet(NodeCounts(sp, n), D) \in Nat
           /\ \A c \in DOMAIN sp[n] \ D :
                /\ SumFunctionOnSet(Lens(sp, n), D \cup {c})
                    = Len(sp[n][c]) + SumFunctionOnSet(Lens(sp, n), D)
                /\ SumFunctionOnSet(NodeCounts(sp, n), D \cup {c})
                    = Nodes(sp[n][c]) + SumFunctionOnSet(NodeCounts(sp, n), D)
<1> DEFINE S == DOMAIN sp[n]
           g == Lens(sp, n)
           h == NodeCounts(sp, n)
<1>1. IsFiniteSet(S) /\ \A c \in S : sp[n][c] \in Seq(Shard)  BY SpaceFacts
<1>2. \A c \in S : Len(sp[n][c]) \in Nat /\ Nodes(sp[n][c]) \in Nat  BY <1>1, ShardSums
<1>3. \A c \in S : g[c] = Len(sp[n][c]) /\ h[c] = Nodes(sp[n][c])  BY DEF Lens, NodeCounts
<1>4. Counting(g, S) /\ Counting(h, S)  BY <1>2, <1>3 DEF Counting
<1>5. D \in SUBSET S  OBVIOUS
<1> HIDE DEF S, g, h
<1>6. /\ SumFunctionOnSet(g, D) \in Nat /\ SumFunctionOnSet(h, D) \in Nat
      /\ \A x \in S \ D : SumFunctionOnSet(g, D \cup {x}) = g[x] + SumFunctionOnSet(g, D)
      /\ \A x \in S \ D : SumFunctionOnSet(h, D \cup {x}) = h[x] + SumFunctionOnSet(h, D)
  BY <1>1, <1>4, <1>5, SumMore, SMT
<1>7. ASSUME NEW c \in S \ D
      PROVE  /\ SumFunctionOnSet(g, D \cup {c}) = Len(sp[n][c]) + SumFunctionOnSet(g, D)
             /\ SumFunctionOnSet(h, D \cup {c}) = Nodes(sp[n][c]) + SumFunctionOnSet(h, D)
  BY <1>3, <1>6
<1> QED  BY <1>6, <1>7 DEF S, g, h

(* The sums that a whole row has.                                          *)
LEMMA Totals ==
    ASSUME NEW sp, NEW n
    PROVE  /\ SumFunction(Lens(sp, n)) = SumFunctionOnSet(Lens(sp, n), DOMAIN sp[n])
           /\ SumFunction(NodeCounts(sp, n)) = SumFunctionOnSet(NodeCounts(sp, n), DOMAIN sp[n])
<1>1. DOMAIN Lens(sp, n) = DOMAIN sp[n] /\ DOMAIN NodeCounts(sp, n) = DOMAIN sp[n]
  BY DEF Lens, NodeCounts
<1> QED  BY <1>1 DEF SumFunction


-----------------------------------------------------------------------------
(* The invariant *)

(* A count is right, or too low if a request has failed.                   *)
UpTo(whole, count, total) == count <= total /\ (whole => count = total)

(* The row of a namespace, counted so far over some of its clusters.       *)
Reached(sp, whole, n, done, row) ==
    /\ UpTo(whole, row.clusters, Cardinality(DOMAIN sp[n]))
    /\ UpTo(whole, row.shards, SumFunctionOnSet(Lens(sp, n), done))
    /\ UpTo(whole, row.nodes, SumFunctionOnSet(NodeCounts(sp, n), done))

(* And over the shards of cluster c before the one at an index.            *)
ReachedShard(sp, whole, n, done, c, index, row) ==
    /\ UpTo(whole, row.clusters, Cardinality(DOMAIN sp[n]))
    /\ UpTo(whole, row.shards, SumFunctionOnSet(Lens(sp, n), done) + Len(sp[n][c]))
    /\ UpTo(whole, row.nodes, SumFunctionOnSet(NodeCounts(sp, n), done)
                                + SumFunctionOnSet(ShardSizes(sp[n][c]), 1 .. index - 1))

SpaceRow(sp, whole, n, row) == n \in DOMAIN sp /\ Reached(sp, whole, n, DOMAIN sp[n], row)

SpaceRows(sp, whole, rows) == \A n \in DOMAIN rows : SpaceRow(sp, whole, n, rows[n])

(* The row of a cluster with these shards, of which so many nodes.         *)
RowOf(list, whole, nodes, row) ==
    /\ row.shards = Len(list)
    /\ UpTo(whole, row.nodes, nodes)
    /\ row.hasSlots <=> \E i \in DOMAIN list : list[i].slots

ClusterRows(sp, v, whole, rows) ==
    \A c \in DOMAIN rows : RowOf(sp[v][c], whole, Nodes(sp[v][c]), rows[c])

(* What has been read is what there is.                                    *)
Current(sp, q) ==
    q.status = "data" =>
        /\ q.op = "clusters" => q.names = DOMAIN sp[q.name]
        /\ q.op \in {"cluster", "shards"} => q.shards = sp[q.name][q.cluster]
        /\ q.op = "nodes" => q.count = sp[q.name][q.cluster][q.index].nodes

ReadOp == {"namespaces", "clusters", "cluster", "shards", "nodes"}

(* A request that reads has nothing before it is answered and after it has *)
(* failed, and the names that it has read are those of that version.       *)
AnswerInv(sp, ver, q) ==
    q.op \in ReadOp =>
        /\ q.status # "empty" /\ q.read <= ver
        /\ q.status # "data" =>
            /\ q.read = 0 /\ q.names = {} /\ q.count = 0
            /\ q.op # "nodes" => q.shards = << >>
        /\ q.op = "namespaces" /\ q.read = ver => q.names = DOMAIN sp
        /\ q.op = "clusters" /\ q.read = ver => q.name \in DOMAIN sp /\ q.names = DOMAIN sp[q.name]

(* The visit of a namespace has come to a cluster, and in it to a shard.   *)
InNamespace(sp, task, q) ==
    LET done == DOMAIN sp[q.name] \ (task.clusters \cup {q.cluster}) IN
    /\ q.cluster \in DOMAIN sp[q.name] \ task.clusters
    /\ task.clusters \subseteq DOMAIN sp[q.name]
    /\ q.op = "shards" => Reached(sp, task.whole, q.name, done, q.row)
    /\ q.op = "nodes" =>
        /\ q.shards = sp[q.name][q.cluster] /\ q.index \in DOMAIN q.shards
        /\ ReachedShard(sp, task.whole, q.name, done, q.cluster, q.index, q.row)

(* The namespaces are those with a row, those to come, and the present     *)
(* one.                                                                    *)
Visiting(sp, task, q) ==
    /\ SpaceRows(sp, task.whole, task.rows)
    /\ DOMAIN task.rows \cup task.names \cup {q.name} = DOMAIN sp
    /\ Current(sp, q)
    /\ q.op \in {"shards", "nodes"} => InNamespace(sp, task, q)

HomeTask(sp, ver, task) ==
    /\ DOMAIN task.awaits = {Main}
    /\ LET q == task.awaits[Main] IN
        /\ q.op \in {"namespaces", "clusters", "shards", "nodes"}
        /\ q.op = "namespaces" => task.rows = NoClusters
        /\ q.op # "namespaces" /\ task.since = ver => Visiting(sp, task, q)

(* A branch of Promise.all has come to a shard of cluster c.               *)
Branch(sp, v, whole, c, q) ==
    /\ q.name = v /\ q.cluster = c /\ Current(sp, q)
    /\ q.op = "nodes" =>
        /\ q.shards = sp[v][c] /\ q.index \in DOMAIN q.shards
        /\ RowOf(q.shards, whole, SumFunctionOnSet(ShardSizes(q.shards), 1 .. q.index - 1), q.row)

(* The clusters are those with a row and those with a branch, and the ones *)
(* that could not be read.                                                 *)
Gathering(sp, v, task) ==
    /\ v \in DOMAIN sp
    /\ DOMAIN task.rows \cup DOMAIN task.awaits \subseteq DOMAIN sp[v]
    /\ task.whole => DOMAIN task.rows \cup DOMAIN task.awaits = DOMAIN sp[v]
    /\ ClusterRows(sp, v, task.whole, task.rows)
    /\ \A c \in DOMAIN task.awaits : Branch(sp, v, task.whole, c, task.awaits[c])

InsideTask(sp, ver, v, task) ==
    \/ /\ DOMAIN task.awaits = {Main} /\ task.rows = NoClusters
       /\ task.awaits[Main].op \in {"namespaces", "clusters", "removeCluster"}
       /\ task.awaits[Main].op = "clusters" => task.awaits[Main].name = v
    \/ /\ \A c \in DOMAIN task.awaits : task.awaits[c].op \in {"cluster", "nodes"}
       /\ task.since = ver => Gathering(sp, v, task)

SideTask(space, task) ==
    /\ DOMAIN task.awaits = {Main}
    /\ task.awaits[Main].op = "clusters" /\ task.awaits[Main].name = space

TaskInv(sp, ver, v, p, task) ==
    /\ task.since <= ver
    /\ \A b \in DOMAIN task.awaits :
        AnswerInv(sp, ver, task.awaits[b]) /\ (task.whole => task.awaits[b].status # "error")
    /\ v = "home" /\ task.for = "load" => HomeTask(sp, ver, task)
    /\ v = "home" /\ task.for = "delete" /\ p.since = ver =>
        \E whole \in BOOLEAN : SpaceRows(sp, whole, task.rows)
    /\ v \in Name /\ task.for \in {"load", "delete"} => InsideTask(sp, ver, v, task)
    /\ v = "cluster" /\ task.for = "side" => SideTask(p.space, task)

PageInv(sp, ver, v, p) ==
    /\ p.since <= ver
    /\ p.since = ver /\ v = "home" =>
        SpaceRows(sp, p.whole, p.rows) /\ (p.whole => DOMAIN p.rows = DOMAIN sp)
    /\ p.since = ver /\ v \in Name =>
        /\ v \in DOMAIN sp
        /\ DOMAIN p.rows \subseteq DOMAIN sp[v] /\ (p.whole => DOMAIN p.rows = DOMAIN sp[v])
        /\ ClusterRows(sp, v, p.whole, p.rows)
    /\ p.since = ver /\ v = "cluster" => p.space \in DOMAIN sp /\ p.items = DOMAIN sp[p.space]

RowsInv ==
    /\ version > 0
    /\ PageInv(spaces, version, view, page)
    /\ \A t \in Task : tasks[t] # NoTask => TaskInv(spaces, version, view, page, tasks[t])

-----------------------------------------------------------------------------
(* The visit of the page of the namespaces *)

(* A request that has just been made.                                      *)
Fresh(q) ==
    /\ q.op \in ReadOp /\ q.status = "sent" /\ q.read = 0 /\ q.names = {} /\ q.count = 0
    /\ q.op # "nodes" => q.shards = << >>

VisitOp == {"clusters", "shards", "nodes"}

(* How a visit goes on: with one more request, or not at all.              *)
GoesOn(task, next) ==
    /\ next.for = task.for /\ next.since = task.since /\ next.whole = task.whole
    /\ \/ next.awaits = NoClusters
       \/ \E q : next.awaits = Just(Main, q) /\ Fresh(q) /\ q.op \in VisitOp

(* The rows of a visit that goes on, or has ended.                         *)
Visited(sp, task) ==
    /\ SpaceRows(sp, task.whole, task.rows)
    /\ task.awaits = NoClusters => DOMAIN task.rows = DOMAIN sp
    /\ task.awaits # NoClusters => Visiting(sp, task, task.awaits[Main])

(* The function with a single value.                                       *)
LEMMA JustFacts ==
    ASSUME NEW x, NEW v
    PROVE  DOMAIN Just(x, v) = {x} /\ Just(x, v)[x] = v /\ Just(x, v) # NoClusters
<1>1. DOMAIN Just(x, v) = {x} /\ Just(x, v)[x] = v  BY DEF Just
<1>2. DOMAIN NoClusters = {}  BY DEF NoClusters
<1> QED  BY <1>1, <1>2

(* The next namespace, or the end of the visit.                            *)
LEMMA NextNamespaceVisits ==
    ASSUME NEW v, NEW task \in TaskType(v)
    PROVE  /\ GoesOn(task, NextNamespace(task))
           /\ \A sp : SpaceRows(sp, task.whole, task.rows)
                        /\ DOMAIN task.rows \cup task.names = DOMAIN sp
                      => Visited(sp, NextNamespace(task))
<1>1. CASE task.names = {}
  <2> DEFINE next == NextNamespace(task)
  <2>1. next = [task EXCEPT !.awaits = NoClusters]  BY <1>1 DEF NextNamespace
  <2>2. /\ next.for = task.for /\ next.since = task.since /\ next.whole = task.whole
        /\ next.awaits = NoClusters /\ next.rows = task.rows
    BY <2>1 DEF TaskType
  <2> HIDE DEF next
  <2> QED  BY <1>1, <2>2 DEF GoesOn, Visited, next
<1>2. CASE task.names # {}
  <2> DEFINE n == CHOOSE n \in task.names : TRUE
             q == Request("clusters", n, None, 0, None)
             awaits == Just(Main, q)
             names == task.names \ {n}
             next == NextNamespace(task)
  <2>1. n \in task.names  BY <1>2
  <2>2. next = [task EXCEPT !.names = names, !.awaits = awaits]  BY <1>2 DEF NextNamespace
  <2> HIDE DEF n
  <2>3. Fresh(q) /\ q.op = "clusters" /\ q.name = n /\ q.status # "data"
    BY DEF Request, Fresh, ReadOp
  <2> HIDE DEF q
  <2>4. awaits = Just(Main, q) /\ awaits[Main] = q /\ awaits # NoClusters  BY JustFacts
  <2> HIDE DEF awaits, next
  <2>5. /\ next.for = task.for /\ next.since = task.since /\ next.whole = task.whole
        /\ next.awaits = awaits /\ next.rows = task.rows /\ next.names = names
    BY <2>2 DEF TaskType
  <2>6. GoesOn(task, next)  BY <2>3, <2>4, <2>5 DEF GoesOn, VisitOp
  <2>7. ASSUME NEW sp, SpaceRows(sp, task.whole, task.rows),
               DOMAIN task.rows \cup task.names = DOMAIN sp
        PROVE  Visited(sp, next)
    <3>1. DOMAIN next.rows \cup next.names \cup {q.name} = DOMAIN sp
      BY <2>1, <2>3, <2>5, <2>7
    <3>2. Current(sp, q)  BY <2>3 DEF Current
    <3>3. Visiting(sp, next, q)  BY <2>3, <2>5, <2>7, <3>1, <3>2 DEF Visiting
    <3> QED  BY <2>4, <2>5, <2>7, <3>3 DEF Visited
  <2> QED  BY <2>6, <2>7 DEF next
<1> QED  BY <1>1, <1>2

(* What a visit has to have counted when it looks for the next cluster.    *)
Turn(sp, task, n, row) ==
    /\ SpaceRows(sp, task.whole, task.rows)
    /\ DOMAIN task.rows \cup task.names \cup {n} = DOMAIN sp
    /\ task.clusters \subseteq DOMAIN sp[n]
    /\ Reached(sp, task.whole, n, DOMAIN sp[n] \ task.clusters, row)

(* The rows with one more.                                                 *)
LEMMA SpaceRowsPut ==
    ASSUME NEW sp, NEW whole, NEW rows, SpaceRows(sp, whole, rows), NEW n, NEW row,
           SpaceRow(sp, whole, n, row)
    PROVE  SpaceRows(sp, whole, Put(rows, n, row)) /\ DOMAIN Put(rows, n, row) = DOMAIN rows \cup {n}
<1> DEFINE new == Put(rows, n, row)
<1>1. /\ DOMAIN new = DOMAIN rows \cup {n}
      /\ \A x \in DOMAIN new : new[x] = IF x = n THEN row ELSE rows[x]
  BY DEF Put
<1> HIDE DEF new
<1>2. ASSUME NEW x \in DOMAIN new
      PROVE  SpaceRow(sp, whole, x, new[x])
  <2>1. CASE x = n  BY <1>1, <2>1
  <2>2. CASE x # n  BY <1>1, <2>2 DEF SpaceRows
  <2> QED  BY <2>1, <2>2
<1> QED  BY <1>1, <1>2 DEF SpaceRows, new

(* The next cluster of the namespace, or its row and the next namespace.   *)
LEMMA NextClusterVisits ==
    ASSUME NEW v, v = "home", NEW task \in TaskType(v), NEW n \in Name, NEW row \in RowType(v)
    PROVE  /\ GoesOn(task, NextCluster(task, n, row))
           /\ \A sp : Turn(sp, task, n, row) => Visited(sp, NextCluster(task, n, row))
<1>1. CASE task.clusters = {}
  <2> DEFINE filled == Put(task.rows, n, row)
             more == [task EXCEPT !.rows = filled]
  <2>1. filled \in Rows(v)
    <3>1. task.rows \in Rows(v)  BY TaskFields
    <3> QED  BY <3>1, MapsPut DEF Rows, Place
  <2>2. NextCluster(task, n, row) = NextNamespace(more)  BY <1>1 DEF NextCluster
  <2> HIDE DEF filled
  <2>3. /\ more \in TaskType(v) /\ more.for = task.for /\ more.since = task.since
        /\ more.whole = task.whole /\ more.rows = filled /\ more.names = task.names
    BY <2>1 DEF TaskType
  <2> HIDE DEF more
  <2>4. GoesOn(more, NextNamespace(more))  BY <2>3, NextNamespaceVisits
  <2>5. GoesOn(task, NextNamespace(more))  BY <2>3, <2>4 DEF GoesOn
  <2>6. ASSUME NEW sp, Turn(sp, task, n, row)
        PROVE  Visited(sp, NextNamespace(more))
    <3>1. n \in DOMAIN sp /\ SpaceRows(sp, task.whole, task.rows)  BY <2>6 DEF Turn
    <3>2. DOMAIN sp[n] \ task.clusters = DOMAIN sp[n]  BY <1>1
    <3>3. SpaceRow(sp, task.whole, n, row)  BY <2>6, <3>1, <3>2 DEF Turn, SpaceRow
    <3>4. SpaceRows(sp, task.whole, filled) /\ DOMAIN filled = DOMAIN task.rows \cup {n}
      <4>1. \A w, old : SpaceRows(sp, w, old) /\ SpaceRow(sp, w, n, row) =>
                /\ SpaceRows(sp, w, Put(old, n, row))
                /\ DOMAIN Put(old, n, row) = DOMAIN old \cup {n}
        BY SpaceRowsPut, SMT
      <4> QED  BY <3>1, <3>3, <4>1 DEF filled
    <3>5. DOMAIN more.rows \cup more.names = DOMAIN sp  BY <2>3, <2>6, <3>4 DEF Turn
    <3>6. SpaceRows(sp, more.whole, more.rows)  BY <2>3, <3>4
    <3> QED  BY <2>3, <3>5, <3>6, NextNamespaceVisits
  <2> QED  BY <2>2, <2>5, <2>6
<1>2. CASE task.clusters # {}
  <2> DEFINE c == CHOOSE c \in task.clusters : TRUE
             q == Request("shards", n, c, 0, row)
             awaits == Just(Main, q)
             clusters == task.clusters \ {c}
             next == NextCluster(task, n, row)
  <2>1. c \in task.clusters  BY <1>2
  <2>2. next = [task EXCEPT !.clusters = clusters, !.awaits = awaits]  BY <1>2 DEF NextCluster
  <2> HIDE DEF c
  <2>3. /\ Fresh(q) /\ q.op = "shards" /\ q.name = n /\ q.cluster = c /\ q.status # "data"
        /\ q.row = row
    BY DEF Request, Fresh, ReadOp
  <2> HIDE DEF q
  <2>4. awaits = Just(Main, q) /\ awaits[Main] = q /\ awaits # NoClusters  BY JustFacts
  <2> HIDE DEF awaits, next
  <2>5. /\ next.for = task.for /\ next.since = task.since /\ next.whole = task.whole
        /\ next.awaits = awaits /\ next.rows = task.rows /\ next.names = task.names
        /\ next.clusters = clusters
    BY <2>2 DEF TaskType
  <2>6. GoesOn(task, next)  BY <2>3, <2>4, <2>5 DEF GoesOn, VisitOp
  <2>7. ASSUME NEW sp, Turn(sp, task, n, row)
        PROVE  Visited(sp, next)
    <3>1. /\ SpaceRows(sp, next.whole, next.rows)
          /\ DOMAIN next.rows \cup next.names \cup {q.name} = DOMAIN sp
      BY <2>3, <2>5, <2>7 DEF Turn
    <3>2. Current(sp, q)  BY <2>3 DEF Current
    <3>3. InNamespace(sp, next, q)
      <4>1. clusters \cup {c} = task.clusters /\ c \notin clusters  BY <2>1
      <4>2. task.clusters \subseteq DOMAIN sp[n]  BY <2>7 DEF Turn
      <4>3. Reached(sp, next.whole, n, DOMAIN sp[n] \ (next.clusters \cup {c}), row)
        BY <2>5, <2>7, <4>1 DEF Turn
      <4>4. c \in DOMAIN sp[n] \ next.clusters /\ next.clusters \subseteq DOMAIN sp[n]
        BY <2>5, <4>1, <4>2
      <4> QED  BY <2>3, <4>3, <4>4 DEF InNamespace
    <3>4. Visiting(sp, next, q)  BY <3>1, <3>2, <3>3 DEF Visiting
    <3> QED  BY <2>4, <2>5, <3>1, <3>4 DEF Visited
  <2> QED  BY <2>6, <2>7 DEF next
<1> QED  BY <1>1, <1>2

(* The visit of a namespace is at cluster c, with clusters D behind it.    *)
At(sp, n, D, c, whole, row) ==
    /\ sp \in Spaces /\ n \in DOMAIN sp /\ D \in SUBSET DOMAIN sp[n]
    /\ c \in DOMAIN sp[n] \ D /\ whole \in BOOLEAN
    /\ row \in [clusters : Nat, shards : Nat, nodes : Nat]

(* The count of a cluster: it starts with the number of its shards, goes   *)
(* on with the nodes of each, and then the cluster is counted.             *)
LEMMA CountCluster ==
    ASSUME NEW sp, NEW n, NEW D, NEW c, NEW whole, NEW row, At(sp, n, D, c, whole, row)
    PROVE  /\ Reached(sp, whole, n, D, row) =>
                ReachedShard(sp, whole, n, D, c, 1, [row EXCEPT !.shards = @ + Len(sp[n][c])])
           /\ \A i \in DOMAIN sp[n][c], count \in Nat :
                ReachedShard(sp, whole, n, D, c, i, row) /\ UpTo(whole, count, sp[n][c][i].nodes) =>
                    ReachedShard(sp, whole, n, D, c, i + 1, [row EXCEPT !.nodes = @ + count])
           /\ ReachedShard(sp, whole, n, D, c, Len(sp[n][c]) + 1, row) =>
                Reached(sp, whole, n, D \cup {c}, row)
           /\ Reached(sp, whole, n, D, row) /\ ~whole => Reached(sp, whole, n, D \cup {c}, row)
<1> DEFINE list == sp[n][c]
           s == SumFunctionOnSet(Lens(sp, n), D)
           m == SumFunctionOnSet(NodeCounts(sp, n), D)
           total == Cardinality(DOMAIN sp[n])
<1>0. /\ sp \in Spaces /\ n \in DOMAIN sp /\ D \in SUBSET DOMAIN sp[n]
      /\ c \in DOMAIN sp[n] \ D /\ whole \in BOOLEAN
      /\ row \in [clusters : Nat, shards : Nat, nodes : Nat]
  BY DEF At
<1>1. list \in Seq(Shard)  BY <1>0, SpaceFacts
<1>2. /\ s \in Nat /\ m \in Nat
      /\ SumFunctionOnSet(Lens(sp, n), D \cup {c}) = Len(list) + s
      /\ SumFunctionOnSet(NodeCounts(sp, n), D \cup {c}) = Nodes(list) + m
  BY <1>0, ClusterSums
<1> DEFINE Upper(i) == SumFunctionOnSet(ShardSizes(list), 1 .. i - 1)
<1>a. \A w, r, i : ReachedShard(sp, w, n, D, c, i, r) <=>
            /\ UpTo(w, r.clusters, total) /\ UpTo(w, r.shards, s + Len(list))
            /\ UpTo(w, r.nodes, m + Upper(i))
  BY DEF ReachedShard
<1>b. \A w, r : Reached(sp, w, n, D, r) <=>
            UpTo(w, r.clusters, total) /\ UpTo(w, r.shards, s) /\ UpTo(w, r.nodes, m)
  BY DEF Reached
<1>c. \A w, r : Reached(sp, w, n, D \cup {c}, r) <=>
            /\ UpTo(w, r.clusters, total) /\ UpTo(w, r.shards, Len(list) + s)
            /\ UpTo(w, r.nodes, Nodes(list) + m)
  BY <1>2 DEF Reached
<1> HIDE DEF list, s, m, total
<1>3. Len(list) \in Nat /\ DOMAIN list = 1 .. Len(list) /\ Nodes(list) \in Nat  BY <1>1, ShardSums
<1>4. Upper(1) = 0 /\ Upper(Len(list) + 1) = Nodes(list)
  <2>1. 1 - 1 = 0 /\ (Len(list) + 1) - 1 = Len(list)  BY <1>3, SMT
  <2>2. /\ Nodes(list) = SumFunctionOnSet(ShardSizes(list), 1 .. Len(list))
        /\ SumFunctionOnSet(ShardSizes(list), 1 .. 0) = 0
    BY <1>1, ShardSums
  <2> QED  BY <2>1, <2>2
<1>5. \A i \in 1 .. Len(list) :
            list[i].nodes \in Nat /\ Upper(i) \in Nat /\ Upper(i + 1) = list[i].nodes + Upper(i)
  <2> SUFFICES ASSUME NEW i \in 1 .. Len(list)
               PROVE  /\ list[i].nodes \in Nat /\ Upper(i) \in Nat
                      /\ Upper(i + 1) = list[i].nodes + Upper(i)
    OBVIOUS
  <2>1. (i + 1) - 1 = i  BY <1>3, SMT
  <2>2. /\ list[i].nodes \in Nat /\ SumFunctionOnSet(ShardSizes(list), 1 .. i - 1) \in Nat
        /\ SumFunctionOnSet(ShardSizes(list), 1 .. i)
            = list[i].nodes + SumFunctionOnSet(ShardSizes(list), 1 .. i - 1)
    BY <1>1, ShardSums
  <2> QED  BY <2>1, <2>2
<1> HIDE DEF Upper
<1>6. row.clusters \in Nat /\ row.shards \in Nat /\ row.nodes \in Nat  BY <1>0
<1>7. ASSUME Reached(sp, whole, n, D, row)
      PROVE  ReachedShard(sp, whole, n, D, c, 1, [row EXCEPT !.shards = @ + Len(list)])
  <2> DEFINE r == [row EXCEPT !.shards = @ + Len(list)]
  <2>1. r.clusters = row.clusters /\ r.shards = row.shards + Len(list) /\ r.nodes = row.nodes
    BY <1>0
  <2>2. UpTo(whole, row.clusters, total) /\ UpTo(whole, row.shards, s) /\ UpTo(whole, row.nodes, m)
    BY <1>7, <1>b
  <2> HIDE DEF r
  <2>3. UpTo(whole, r.shards, s + Len(list))  BY <1>2, <1>3, <1>6, <2>1, <2>2, SMT DEF UpTo
  <2>4. UpTo(whole, r.nodes, m + Upper(1))  BY <1>2, <1>4, <1>6, <2>1, <2>2, SMT DEF UpTo
  <2>5. UpTo(whole, r.clusters, total)  BY <2>1, <2>2
  <2> QED  BY <1>a, <2>3, <2>4, <2>5 DEF r
<1>8. ASSUME NEW i \in DOMAIN list, NEW count \in Nat,
             ReachedShard(sp, whole, n, D, c, i, row), UpTo(whole, count, list[i].nodes)
      PROVE  ReachedShard(sp, whole, n, D, c, i + 1, [row EXCEPT !.nodes = @ + count])
  <2> DEFINE r == [row EXCEPT !.nodes = @ + count]
  <2>1. r.clusters = row.clusters /\ r.shards = row.shards /\ r.nodes = row.nodes + count
    BY <1>0
  <2>2. /\ UpTo(whole, row.clusters, total) /\ UpTo(whole, row.shards, s + Len(list))
        /\ UpTo(whole, row.nodes, m + Upper(i))
    BY <1>8, <1>a
  <2>3. list[i].nodes \in Nat /\ Upper(i) \in Nat /\ Upper(i + 1) = list[i].nodes + Upper(i)
    BY <1>3, <1>5
  <2> HIDE DEF r
  <2>4. UpTo(whole, r.nodes, m + Upper(i + 1))
    BY <1>2, <1>6, <1>8, <2>1, <2>2, <2>3, SMT DEF UpTo
  <2>5. UpTo(whole, r.clusters, total) /\ UpTo(whole, r.shards, s + Len(list))  BY <2>1, <2>2
  <2> QED  BY <1>a, <2>4, <2>5 DEF r
<1>9. ASSUME ReachedShard(sp, whole, n, D, c, Len(list) + 1, row)
      PROVE  Reached(sp, whole, n, D \cup {c}, row)
  <2>1. /\ UpTo(whole, row.clusters, total) /\ UpTo(whole, row.shards, s + Len(list))
        /\ UpTo(whole, row.nodes, m + Upper(Len(list) + 1))
    BY <1>9, <1>a
  <2>2. s + Len(list) = Len(list) + s /\ m + Upper(Len(list) + 1) = Nodes(list) + m
    BY <1>2, <1>3, <1>4, SMT
  <2> QED  BY <1>c, <2>1, <2>2
<1>10. ASSUME Reached(sp, whole, n, D, row), ~whole
       PROVE  Reached(sp, whole, n, D \cup {c}, row)
  <2>1. UpTo(whole, row.clusters, total) /\ UpTo(whole, row.shards, s) /\ UpTo(whole, row.nodes, m)
    BY <1>10, <1>b
  <2>2. UpTo(whole, row.shards, Len(list) + s) /\ UpTo(whole, row.nodes, Nodes(list) + m)
    BY <1>2, <1>3, <1>6, <1>10, <2>1, SMT DEF UpTo
  <2> QED  BY <1>c, <2>1, <2>2
<1> QED  BY <1>7, <1>8, <1>9, <1>10 DEF list

(* What a visit has to have counted when it looks for the next shard.      *)
ShardTurn(sp, task, n, c, index, shards, row) ==
    /\ SpaceRows(sp, task.whole, task.rows)
    /\ DOMAIN task.rows \cup task.names \cup {n} = DOMAIN sp
    /\ task.clusters \subseteq DOMAIN sp[n] /\ c \in DOMAIN sp[n] \ task.clusters
    /\ shards = sp[n][c] /\ index \in 1 .. Len(shards) + 1
    /\ ReachedShard(sp, task.whole, n, DOMAIN sp[n] \ (task.clusters \cup {c}), c, index, row)

(* The next shard of the cluster, or the next cluster.                     *)
LEMMA NextShardVisits ==
    ASSUME NEW v, v = "home", NEW task \in TaskType(v), NEW request \in RequestType(v),
           request.op \in {"shards", "nodes"}, NEW index \in Nat, NEW shards \in Seq(Shard),
           NEW row \in RowType(v)
    PROVE  /\ GoesOn(task, NextShard(task, request, index, shards, row))
           /\ \A sp \in Spaces :
                ShardTurn(sp, task, request.name, request.cluster, index, shards, row) =>
                    Visited(sp, NextShard(task, request, index, shards, row))
<1> DEFINE n == request.name
           c == request.cluster
           next == NextShard(task, request, index, shards, row)
<1>1. n \in Name /\ c \in ClusterName  BY DEF RequestType
<1>2. CASE index > Len(shards)
  <2>1. next = NextCluster(task, n, row)  BY <1>2 DEF NextShard
  <2> HIDE DEF next, n, c
  <2>2. GoesOn(task, next)  BY <1>1, <2>1, NextClusterVisits
  <2>3. ASSUME NEW sp \in Spaces, ShardTurn(sp, task, n, c, index, shards, row)
        PROVE  Visited(sp, next)
    <3> DEFINE D == DOMAIN sp[n] \ (task.clusters \cup {c})
    <3>1. /\ SpaceRows(sp, task.whole, task.rows)
          /\ DOMAIN task.rows \cup task.names \cup {n} = DOMAIN sp
          /\ task.clusters \subseteq DOMAIN sp[n] /\ c \in DOMAIN sp[n] \ task.clusters
          /\ shards = sp[n][c] /\ index \in 1 .. Len(shards) + 1
          /\ ReachedShard(sp, task.whole, n, D, c, index, row)
      BY <2>3 DEF ShardTurn
    <3>2. index = Len(sp[n][c]) + 1  BY <1>2, <3>1, SMT
    <3>3. /\ n \in DOMAIN sp /\ D \in SUBSET DOMAIN sp[n] /\ c \in DOMAIN sp[n] \ D
          /\ D \cup {c} = DOMAIN sp[n] \ task.clusters
      BY <3>1
    <3> HIDE DEF D
    <3>4. row \in [clusters : Nat, shards : Nat, nodes : Nat]  BY DEF RowType
    <3>5. task.whole \in BOOLEAN  BY TaskFields
    <3>6. Reached(sp, task.whole, n, D \cup {c}, row)
      <4>1. ReachedShard(sp, task.whole, n, D, c, Len(sp[n][c]) + 1, row)  BY <3>1, <3>2
      <4>2. At(sp, n, D, c, task.whole, row)  BY <3>3, <3>4, <3>5 DEF At
      <4> QED  BY <4>1, <4>2, CountCluster
    <3>7. Turn(sp, task, n, row)  BY <3>1, <3>3, <3>6 DEF Turn
    <3> QED  BY <1>1, <2>1, <3>7, NextClusterVisits
  <2> QED  BY <2>2, <2>3 DEF next, n, c
<1>3. CASE ~(index > Len(shards))
  <2> DEFINE q == [Request("nodes", n, c, index, row) EXCEPT !.shards = shards]
             awaits == Just(Main, q)
  <2>1. next = [task EXCEPT !.awaits = awaits]  BY <1>3 DEF NextShard
  <2>2. /\ Fresh(q) /\ q.op = "nodes" /\ q.name = n /\ q.cluster = c /\ q.status # "data"
        /\ q.row = row /\ q.index = index /\ q.shards = shards
    BY DEF Request, Fresh, ReadOp
  <2> HIDE DEF q
  <2>3. awaits = Just(Main, q) /\ awaits[Main] = q /\ awaits # NoClusters  BY JustFacts
  <2> HIDE DEF awaits, next, n, c
  <2>4. /\ next.for = task.for /\ next.since = task.since /\ next.whole = task.whole
        /\ next.awaits = awaits /\ next.rows = task.rows /\ next.names = task.names
        /\ next.clusters = task.clusters
    BY <2>1 DEF TaskType
  <2>5. GoesOn(task, next)  BY <2>2, <2>3, <2>4 DEF GoesOn, VisitOp
  <2>6. ASSUME NEW sp \in Spaces, ShardTurn(sp, task, n, c, index, shards, row)
        PROVE  Visited(sp, next)
    <3>1. /\ SpaceRows(sp, next.whole, next.rows)
          /\ DOMAIN next.rows \cup next.names \cup {q.name} = DOMAIN sp
      BY <2>2, <2>4, <2>6 DEF ShardTurn
    <3>2. Current(sp, q)  BY <2>2 DEF Current
    <3>3. index \in DOMAIN shards  BY <1>3, <2>6, SMT DEF ShardTurn
    <3>4. InNamespace(sp, next, q)  BY <2>2, <2>4, <2>6, <3>3 DEF ShardTurn, InNamespace
    <3>5. Visiting(sp, next, q)  BY <3>1, <3>2, <3>4 DEF Visiting
    <3> QED  BY <2>3, <2>4, <3>1, <3>5 DEF Visited
  <2> QED  BY <2>5, <2>6 DEF next, n, c
<1> QED  BY <1>2, <1>3

(* How the effect goes on after an await.                                  *)
Proceeds(sp, ver, next) ==
    /\ next.for = "load" /\ next.since <= ver
    /\ \/ next.awaits = NoClusters
       \/ \E q : next.awaits = Just(Main, q) /\ Fresh(q) /\ q.op \in VisitOp
    /\ next.since = ver => Visited(sp, next)

(* What a handler of the effect knows of the answer that it has got.       *)
LEMMA HomeAnswer ==
    ASSUME NEW sp \in Spaces, NEW ver \in Nat, NEW v, v = "home", NEW p, NEW task \in TaskType(v),
           TaskInv(sp, ver, v, p, task), task.for = "load",
           Main \in DOMAIN task.awaits, task.awaits[Main].status # "sent"
    PROVE  LET q == task.awaits[Main] IN
           /\ q \in RequestType(v) /\ AnswerInv(sp, ver, q)
           /\ q.op \in ReadOp /\ q.status \in {"data", "error"} /\ (task.whole => q.status = "data")
           /\ q.op = "namespaces" => task.rows = NoClusters
           /\ q.op # "namespaces" /\ task.since = ver => Visiting(sp, task, q)
           /\ task.since \in Nat /\ task.since <= ver /\ task.whole \in BOOLEAN
<1> DEFINE q == task.awaits[Main]
<1>1. /\ q \in RequestType(v) /\ task.since \in Nat /\ task.whole \in BOOLEAN
  BY TaskFields
<1>2. q.status \in Status  BY <1>1 DEF RequestType, RequestFields
<1>3. /\ AnswerInv(sp, ver, q) /\ (task.whole => q.status # "error")
      /\ task.since <= ver /\ HomeTask(sp, ver, task)
  BY DEF TaskInv
<1>4. /\ q.op \in {"namespaces", "clusters", "shards", "nodes"}
      /\ q.op = "namespaces" => task.rows = NoClusters
      /\ q.op # "namespaces" /\ task.since = ver => Visiting(sp, task, q)
  BY <1>3 DEF HomeTask
<1>5. q.status # "sent"  OBVIOUS
<1> HIDE DEF q
<1>6. q.op \in ReadOp  BY <1>4 DEF ReadOp
<1>7. q.status \in {"data", "error"}  BY <1>2, <1>3, <1>5, <1>6 DEF AnswerInv, Status
<1>8. task.whole => q.status = "data"  BY <1>3, <1>7
<1> QED  BY <1>1, <1>3, <1>4, <1>6, <1>7, <1>8 DEF q

(* The namespaces are known.                                               *)
LEMMA NamespacesProceed ==
    ASSUME NEW sp \in Spaces, NEW ver \in Nat, NEW v, v = "home", NEW p, NEW task \in TaskType(v),
           TaskInv(sp, ver, v, p, task), task.for = "load",
           Main \in DOMAIN task.awaits, task.awaits[Main].status # "sent",
           task.awaits[Main].op = "namespaces"
    PROVE  Proceeds(sp, ver, NextNamespace([task EXCEPT !.names = task.awaits[Main].names,
                                                        !.since = task.awaits[Main].read]))
<1> DEFINE q == task.awaits[Main]
           more == [task EXCEPT !.names = q.names, !.since = q.read]
<1>1. q \in RequestType(v) /\ AnswerInv(sp, ver, q) /\ task.rows = NoClusters  BY HomeAnswer
<1>2. q.op = "namespaces"  OBVIOUS
<1> HIDE DEF q
<1>3. q.names \in Finite(Name) /\ q.read \in Nat  BY <1>1, <1>2 DEF RequestType, RequestFields
<1>4. q.read <= ver /\ (q.read = ver => q.names = DOMAIN sp)
  BY <1>1, <1>2 DEF AnswerInv, ReadOp
<1>5. /\ more \in TaskType(v) /\ more.for = task.for /\ more.since = q.read
      /\ more.names = q.names /\ more.rows = task.rows /\ more.whole = task.whole
  BY <1>3 DEF TaskType
<1> HIDE DEF more
<1> DEFINE next == NextNamespace(more)
<1>6. GoesOn(more, next)  BY <1>5, NextNamespaceVisits
<1>7. ASSUME q.read = ver  PROVE Visited(sp, next)
  <2>1. DOMAIN NoClusters = {}  BY DEF NoClusters
  <2>2. SpaceRows(sp, more.whole, more.rows)  BY <1>1, <1>5, <2>1 DEF SpaceRows
  <2>3. DOMAIN more.rows \cup more.names = DOMAIN sp  BY <1>1, <1>4, <1>5, <1>7, <2>1
  <2> QED  BY <1>5, <2>2, <2>3, NextNamespaceVisits
<1> HIDE DEF next
<1>8. Proceeds(sp, ver, next)  BY <1>4, <1>5, <1>6, <1>7 DEF Proceeds, GoesOn
<1> QED  BY <1>8 DEF next, more, q

(* The clusters of a namespace are known, or could not be read.            *)
LEMMA ClustersProceed ==
    ASSUME NEW sp \in Spaces, NEW ver \in Nat, NEW v, v = "home", NEW p, NEW task \in TaskType(v),
           TaskInv(sp, ver, v, p, task), task.for = "load",
           Main \in DOMAIN task.awaits, task.awaits[Main].status # "sent",
           task.awaits[Main].op = "clusters"
    PROVE  LET q == task.awaits[Main] IN
           Proceeds(sp, ver, NextCluster([task EXCEPT !.clusters = q.names],
                                         q.name, Row(Cardinality(q.names))))
<1> DEFINE q == task.awaits[Main]
           more == [task EXCEPT !.clusters = q.names]
           n == q.name
           row == Row(Cardinality(q.names))
<1>1. /\ q \in RequestType(v) /\ AnswerInv(sp, ver, q) /\ q.status \in {"data", "error"}
      /\ task.whole => q.status = "data"
      /\ q.op # "namespaces" /\ task.since = ver => Visiting(sp, task, q)
      /\ task.since \in Nat /\ task.since <= ver /\ task.whole \in BOOLEAN
  BY HomeAnswer
<1>2. q.op = "clusters"  OBVIOUS
<1> HIDE DEF q
<1>3. n \in Name /\ q.names \in Finite(ClusterName)  BY <1>1, <1>2 DEF RequestType
<1>4. /\ more \in TaskType(v) /\ more.for = task.for /\ more.since = task.since
      /\ more.names = task.names /\ more.rows = task.rows /\ more.whole = task.whole
      /\ more.clusters = q.names
  BY <1>3 DEF TaskType
<1> HIDE DEF more, n
<1>5. IsFiniteSet(q.names) /\ Cardinality(q.names) \in Nat
  BY <1>3, FS_CardinalityType DEF Finite
<1>6. /\ row \in RowType(v)
      /\ row.clusters = Cardinality(q.names) /\ row.shards = 0 /\ row.nodes = 0
  BY <1>5 DEF Row, RowType
<1> HIDE DEF row
<1> DEFINE next == NextCluster(more, n, row)
<1>7. GoesOn(more, next)  BY <1>3, <1>4, <1>6, NextClusterVisits
<1>8. ASSUME task.since = ver  PROVE Visited(sp, next)
  <2>1. /\ SpaceRows(sp, more.whole, more.rows)
        /\ DOMAIN more.rows \cup more.names \cup {n} = DOMAIN sp
        /\ Current(sp, q)
    BY <1>1, <1>2, <1>4, <1>8 DEF Visiting, n
  <2>2. n \in DOMAIN sp  BY <2>1
  <2>3. /\ more.clusters \subseteq DOMAIN sp[n]
        /\ Reached(sp, more.whole, n, DOMAIN sp[n] \ more.clusters, row)
    <3>1. CASE q.status = "data"
      <4>1. q.names = DOMAIN sp[n]  BY <1>2, <2>1, <3>1 DEF Current, n
      <4>2. DOMAIN sp[n] \ more.clusters = {}  BY <1>4, <4>1
      <4>3. \A g : SumFunctionOnSet(g, {}) = 0  BY SumEmpty
      <4>4. \A w, g : UpTo(w, 0, SumFunctionOnSet(g, {}))  BY <4>3, SMT DEF UpTo
      <4>5. \A w : UpTo(w, row.clusters, Cardinality(DOMAIN sp[n]))
        BY <1>5, <1>6, <4>1, SMT DEF UpTo
      <4> QED  BY <1>4, <1>6, <4>1, <4>2, <4>4, <4>5 DEF Reached
    <3>2. CASE q.status = "error"
      <4>1. q.names = {}  BY <1>1, <1>2, <3>2 DEF AnswerInv, ReadOp
      <4>2. DOMAIN sp[n] \ more.clusters = DOMAIN sp[n]  BY <1>4, <4>1
      <4>3. ~more.whole  BY <1>1, <1>4, <3>2
      <4>4. \A total \in Nat : UpTo(more.whole, 0, total)  BY <4>3, SMT DEF UpTo
      <4>5. row.clusters = 0  BY <1>6, <4>1, FS_EmptySet
      <4>6. Cardinality(DOMAIN sp[n]) \in Nat
        BY <2>2, SpaceFacts, FS_CardinalityType
      <4>7. /\ SumFunctionOnSet(Lens(sp, n), DOMAIN sp[n]) \in Nat
            /\ SumFunctionOnSet(NodeCounts(sp, n), DOMAIN sp[n]) \in Nat
        BY <2>2, ClusterSums
      <4>8. Reached(sp, more.whole, n, DOMAIN sp[n], row)
        BY <1>6, <4>4, <4>5, <4>6, <4>7 DEF Reached
      <4> QED  BY <1>4, <4>1, <4>2, <4>8
    <3> QED  BY <1>1, <3>1, <3>2
  <2>4. Turn(sp, more, n, row)  BY <2>1, <2>3 DEF Turn
  <2> QED  BY <1>3, <1>4, <1>6, <2>4, NextClusterVisits
<1> HIDE DEF next
<1>9. Proceeds(sp, ver, next)  BY <1>1, <1>4, <1>7, <1>8 DEF Proceeds, GoesOn
<1> QED  BY <1>9 DEF next, more, q, n, row

(* The shards of a cluster are known, or could not be read.                *)
LEMMA ShardsProceed ==
    ASSUME NEW sp \in Spaces, NEW ver \in Nat, NEW v, v = "home", NEW p, NEW task \in TaskType(v),
           TaskInv(sp, ver, v, p, task), task.for = "load",
           Main \in DOMAIN task.awaits, task.awaits[Main].status # "sent",
           task.awaits[Main].op = "shards"
    PROVE  LET q == task.awaits[Main] IN
           Proceeds(sp, ver, NextShard(task, q, 1, q.shards,
                                       [q.row EXCEPT !.shards = @ + Len(q.shards)]))
<1> DEFINE q == task.awaits[Main]
           n == q.name
           c == q.cluster
           list == q.shards
           row == [q.row EXCEPT !.shards = @ + Len(list)]
           D == DOMAIN sp[n] \ (task.clusters \cup {c})
           next == NextShard(task, q, 1, list, row)
<1>1. /\ q \in RequestType(v) /\ AnswerInv(sp, ver, q) /\ q.status \in {"data", "error"}
      /\ task.whole => q.status = "data"
      /\ q.op # "namespaces" /\ task.since = ver => Visiting(sp, task, q)
      /\ task.since \in Nat /\ task.since <= ver /\ task.whole \in BOOLEAN
  BY HomeAnswer
<1>2. q.op = "shards"  OBVIOUS
<1> HIDE DEF q
<1>3. /\ n \in Name /\ list \in Seq(Shard)
      /\ q.row \in [clusters : Nat, shards : Nat, nodes : Nat]
  BY <1>1, <1>2 DEF RequestType, RequestFields, RowType
<1>4. Len(list) \in Nat  BY <1>3, SMT
<1> HIDE DEF list
<1>5. row \in RowType(v)  BY <1>3, <1>4, SMT DEF RowType
<1> HIDE DEF row
<1>6. GoesOn(task, next)  BY <1>1, <1>2, <1>3, <1>5, NextShardVisits
<1>7. ASSUME task.since = ver  PROVE Visited(sp, next)
  <2>1. /\ SpaceRows(sp, task.whole, task.rows)
        /\ DOMAIN task.rows \cup task.names \cup {n} = DOMAIN sp
        /\ Current(sp, q) /\ InNamespace(sp, task, q)
    BY <1>1, <1>2, <1>7 DEF Visiting
  <2>2. /\ c \in DOMAIN sp[n] \ task.clusters /\ task.clusters \subseteq DOMAIN sp[n]
        /\ Reached(sp, task.whole, n, D, q.row)
    BY <1>2, <2>1 DEF InNamespace
  <2>3. /\ D \in SUBSET DOMAIN sp[n] /\ D \cup {c} = DOMAIN sp[n] \ task.clusters
        /\ c \in DOMAIN sp[n] \ D
    BY <2>2
  <2> HIDE DEF next, D, n, c
  <2>4. At(sp, n, D, c, task.whole, q.row)  BY <1>1, <1>3, <2>1, <2>3 DEF At
  <2>5. CASE q.status = "data"
    <3>1. list = sp[n][c]  BY <1>2, <2>1, <2>5 DEF Current, n, c, list
    <3>2. ReachedShard(sp, task.whole, n, D, c, 1, row)
      BY <2>2, <2>4, <3>1, CountCluster DEF row
    <3>3. ShardTurn(sp, task, n, c, 1, list, row)
      BY <1>4, <2>1, <2>2, <3>1, <3>2, SMT DEF ShardTurn, D
    <3> QED  BY <1>1, <1>2, <1>3, <1>5, <3>3, NextShardVisits DEF next, n, c
  <2>6. CASE q.status = "error"
    <3>1. list = << >>  BY <1>1, <1>2, <2>6 DEF AnswerInv, ReadOp, list
    <3>2. row = q.row
      <4>1. Len(list) = 0  BY <3>1
      <4> QED  BY <1>3, <4>1, SMT DEF row
    <3>3. ~task.whole  BY <1>1, <2>6
    <3>4. Reached(sp, task.whole, n, D \cup {c}, row)
      BY <2>2, <2>4, <3>2, <3>3, CountCluster
    <3>5. Turn(sp, task, n, row)  BY <2>1, <2>2, <2>3, <3>4 DEF Turn
    <3>6. next = NextCluster(task, n, row)  BY <3>1, SMT DEF next, NextShard, n
    <3> QED  BY <1>3, <1>5, <3>5, <3>6, NextClusterVisits
  <2> QED  BY <1>1, <2>5, <2>6
<1> HIDE DEF next
<1>8. Proceeds(sp, ver, next)  BY <1>1, <1>6, <1>7 DEF Proceeds, GoesOn
<1> QED  BY <1>8 DEF next, row, list, q

(* The nodes of a shard are known, or could not be read.                   *)
LEMMA NodesProceed ==
    ASSUME NEW sp \in Spaces, NEW ver \in Nat, NEW v, v = "home", NEW p, NEW task \in TaskType(v),
           TaskInv(sp, ver, v, p, task), task.for = "load",
           Main \in DOMAIN task.awaits, task.awaits[Main].status # "sent",
           task.awaits[Main].op = "nodes"
    PROVE  LET q == task.awaits[Main] IN
           Proceeds(sp, ver, NextShard(task, q, q.index + 1, q.shards,
                                       [q.row EXCEPT !.nodes = @ + q.count]))
<1> DEFINE q == task.awaits[Main]
           n == q.name
           c == q.cluster
           list == q.shards
           i == q.index
           row == [q.row EXCEPT !.nodes = @ + q.count]
           D == DOMAIN sp[n] \ (task.clusters \cup {c})
           next == NextShard(task, q, i + 1, list, row)
<1>1. /\ q \in RequestType(v) /\ AnswerInv(sp, ver, q) /\ q.status \in {"data", "error"}
      /\ task.whole => q.status = "data"
      /\ q.op # "namespaces" /\ task.since = ver => Visiting(sp, task, q)
      /\ task.since \in Nat /\ task.since <= ver /\ task.whole \in BOOLEAN
  BY HomeAnswer
<1>2. q.op = "nodes"  OBVIOUS
<1> HIDE DEF q
<1>3. /\ n \in Name /\ list \in Seq(Shard) /\ i \in Nat /\ q.count \in Nat
      /\ q.row \in [clusters : Nat, shards : Nat, nodes : Nat]
  BY <1>1, <1>2 DEF RequestType, RequestFields, RowType
<1>4. i + 1 \in Nat  BY <1>3, SMT
<1> HIDE DEF list, i
<1>5. row \in RowType(v)  BY <1>3, SMT DEF RowType
<1> HIDE DEF row
<1>6. GoesOn(task, next)  BY <1>1, <1>2, <1>3, <1>4, <1>5, NextShardVisits
<1>7. ASSUME task.since = ver  PROVE Visited(sp, next)
  <2>1. /\ SpaceRows(sp, task.whole, task.rows)
        /\ DOMAIN task.rows \cup task.names \cup {n} = DOMAIN sp
        /\ Current(sp, q) /\ InNamespace(sp, task, q)
    BY <1>1, <1>2, <1>7 DEF Visiting
  <2>2. /\ c \in DOMAIN sp[n] \ task.clusters /\ task.clusters \subseteq DOMAIN sp[n]
        /\ list = sp[n][c] /\ i \in DOMAIN list
        /\ ReachedShard(sp, task.whole, n, D, c, i, q.row)
    BY <1>2, <2>1 DEF InNamespace, list, i
  <2>3. D \in SUBSET DOMAIN sp[n] /\ c \in DOMAIN sp[n] \ D  BY <2>2
  <2> HIDE DEF next, D, n, c
  <2>4. At(sp, n, D, c, task.whole, q.row)  BY <1>1, <1>3, <2>1, <2>3 DEF At
  <2>5. UpTo(task.whole, q.count, sp[n][c][i].nodes)
    <3>1. CASE q.status = "data"
      <4>1. q.count = sp[n][c][i].nodes  BY <1>2, <2>1, <3>1 DEF Current, n, c, i
      <4> QED  BY <1>3, <4>1, SMT DEF UpTo
    <3>2. CASE q.status = "error"
      <4>1. q.count = 0 /\ ~task.whole  BY <1>1, <1>2, <3>2 DEF AnswerInv, ReadOp
      <4>2. list[i].nodes \in Nat  BY <1>3, <2>2, ShardSums
      <4> QED  BY <2>2, <4>1, <4>2, SMT DEF UpTo
    <3> QED  BY <1>1, <3>1, <3>2
  <2>6. ReachedShard(sp, task.whole, n, D, c, i + 1, row)
    BY <1>3, <2>2, <2>4, <2>5, CountCluster DEF row
  <2>7. i + 1 \in 1 .. Len(list) + 1  BY <1>3, <2>2, SMT
  <2>8. ShardTurn(sp, task, n, c, i + 1, list, row)
    BY <2>1, <2>2, <2>6, <2>7 DEF ShardTurn, D
  <2> QED  BY <1>1, <1>2, <1>3, <1>4, <1>5, <2>8, NextShardVisits DEF next, n, c
<1> HIDE DEF next
<1>8. Proceeds(sp, ver, next)  BY <1>1, <1>6, <1>7 DEF Proceeds, GoesOn
<1> QED  BY <1>8 DEF next, row, list, i, q

=============================================================================
