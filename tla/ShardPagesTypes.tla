--------------------------- MODULE ShardPagesTypes ---------------------------
(***************************************************************************)
(* Proofs about the page of a shard and the pages of its nodes, for every  *)
(* number of shards, nodes and outstanding requests, whatever others do    *)
(* and whatever is lost: what the edits of the server make of its lists,   *)
(* what each step does to the requests, the types, and that whatever is    *)
(* busy waits for an answer.  ShardPagesProofs builds on it.               *)
(***************************************************************************)
EXTENDS ShardPages, TLAPS

-----------------------------------------------------------------------------
(* What the edits do to the lists *)

(* The elements behind the one that is taken out move up by one place.     *)
LEMMA WithoutResult ==
    ASSUME NEW T, NEW s \in Seq(T), NEW i \in DOMAIN s
    PROVE  /\ Without(s, i) \in Seq(T)
           /\ Len(Without(s, i)) = Len(s) - 1
           /\ \A j \in 1 .. Len(s) - 1 :
                Without(s, i)[j] = IF j < i THEN s[j] ELSE s[j + 1]
  <1> DEFINE front == SubSeq(s, 1, i - 1)
             back == SubSeq(s, i + 1, Len(s))
  <1>1. /\ Len(s) \in Nat /\ DOMAIN s = 1 .. Len(s) /\ i \in 1 .. Len(s)
        /\ \A k \in 1 .. Len(s) : s[k] \in T
    OBVIOUS
  <1>2. /\ front \in Seq(T) /\ Len(front) = i - 1
        /\ \A k \in 1 .. i - 1 : front[k] = s[k]
    BY <1>1
  <1>3. /\ back \in Seq(T) /\ Len(back) = Len(s) - i
        /\ \A k \in 1 .. Len(s) - i : back[k] = s[i + k]
    <2>1. back \in Seq(T) /\ Len(back) = Len(s) - i
      BY <1>1
    <2>2. ASSUME NEW k \in 1 .. Len(s) - i PROVE back[k] = s[i + k]
      BY <1>1
    <2> QED
      BY <2>1, <2>2
  <1> HIDE DEF front, back
  <1>4. /\ front \o back \in Seq(T)
        /\ Len(front \o back) = Len(s) - 1
        /\ \A k \in 1 .. Len(s) - 1 :
                (front \o back)[k] = IF k <= i - 1 THEN front[k] ELSE back[k - (i - 1)]
    <2>1. /\ front \o back \in Seq(T)
          /\ Len(front \o back) = Len(front) + Len(back)
          /\ \A k \in 1 .. Len(front) + Len(back) :
                (front \o back)[k] = IF k <= Len(front) THEN front[k] ELSE back[k - Len(front)]
      BY <1>2, <1>3
    <2>2. Len(front) + Len(back) = Len(s) - 1
      BY <1>1, <1>2, <1>3
    <2> QED
      BY <1>2, <2>1, <2>2
  <1>5. Without(s, i) = front \o back
    BY DEF Without, front, back
  <1>6. ASSUME NEW j \in 1 .. Len(s) - 1
        PROVE  (front \o back)[j] = IF j < i THEN s[j] ELSE s[j + 1]
    <2>1. CASE j < i
      BY <1>1, <1>2, <1>4, <2>1
    <2>2. CASE ~(j < i)
      <3>1. j - (i - 1) \in 1 .. Len(s) - i /\ i + (j - (i - 1)) = j + 1
        BY <1>1, <2>2
      <3> QED
        BY <1>1, <1>3, <1>4, <2>2, <3>1
    <2> QED
      BY <2>1, <2>2
  <1> QED
    BY <1>4, <1>5, <1>6

Entry == [node : Node, master : BOOLEAN]

(* Shards as the server keeps them: every node is in one place, and older  *)
(* than the one that would be created next.                                *)
Sound(list, fresh) ==
    /\ list \in Seq(Shard)
    /\ NodesOnce(list)
    /\ \A i \in DOMAIN list :
        /\ list[i].id # NoShard
        /\ \A k \in DOMAIN list[i].nodes : list[i].nodes[k].node < fresh

(* Every shard and every node is still at its place.                       *)
KeepsPlaces(before, after) ==
    \A i \in DOMAIN before :
        /\ i \in DOMAIN after /\ after[i].id = before[i].id
        /\ \A k \in DOMAIN before[i].nodes :
            k \in DOMAIN after[i].nodes /\ after[i].nodes[k].node = before[i].nodes[k].node

(* A node that is not new is in the shard that it was in.                  *)
KeepsHomes(before, after, fresh) ==
    \A j \in DOMAIN after : \A k \in DOMAIN after[j].nodes :
        \/ after[j].nodes[k].node = fresh
        \/ \E i \in DOMAIN before : \E l \in DOMAIN before[i].nodes :
                /\ before[i].id = after[j].id
                /\ before[i].nodes[l].node = after[j].nodes[k].node

Smaller(after, before) == Len(after) < Len(before) \/ ~(AllNodes(before) \subseteq AllNodes(after))

(* What every edit makes of the shards.                                    *)
Follows(before, after, fresh) ==
    /\ Sound(after, fresh + 1)
    /\ KeepsHomes(before, after, fresh)
    /\ Smaller(after, before) \/ KeepsPlaces(before, after)

Fresh == InitialNodes + version

(* The types of the parts of a list of shards.                             *)
LEMMA ListElements ==
    ASSUME NEW nodes \in Seq(Entry)
    PROVE  /\ Len(nodes) \in Nat /\ DOMAIN nodes = 1 .. Len(nodes)
           /\ \A k \in DOMAIN nodes :
                /\ nodes[k] \in Entry /\ nodes[k].node \in Node /\ nodes[k].node \in Nat \ {0}
                /\ nodes[k].master \in BOOLEAN
  <1>1. /\ Len(nodes) \in Nat /\ DOMAIN nodes = 1 .. Len(nodes)
        /\ \A k \in DOMAIN nodes : nodes[k] \in Entry
    OBVIOUS
  <1>2. \A e \in Entry : e.node \in Node /\ e.master \in BOOLEAN
    BY DEF Entry
  <1>3. Node \subseteq Nat \ {0}
    BY ShardNodesAssumption DEF Node
  <1> QED
    BY <1>1, <1>2, <1>3

(* A list of shards has shards at its places, and each of them has entries *)
(* of nodes.                                                               *)
LEMMA ShardElements ==
    ASSUME NEW list \in Seq(Shard)
    PROVE  /\ Len(list) \in Nat /\ DOMAIN list = 1 .. Len(list)
           /\ \A j \in DOMAIN list :
                /\ list[j] \in Shard /\ list[j].id \in Nat /\ list[j].nodes \in Seq(Entry)
                /\ \A k \in DOMAIN list[j].nodes :
                    list[j].nodes[k].node \in Node /\ list[j].nodes[k].node \in Nat \ {0}
  <1>1. /\ Len(list) \in Nat /\ DOMAIN list = 1 .. Len(list)
        /\ \A j \in DOMAIN list : list[j] \in Shard
    OBVIOUS
  <1>2. \A s \in Shard : s.id \in Nat /\ s.nodes \in Seq(Entry)
    BY DEF Shard, Entry
  <1> QED
    BY <1>1, <1>2, ListElements

(* An edit of the node list of one shard leaves the others alone.          *)
LEMMA WithResult ==
    ASSUME shards \in Seq(Shard), NEW i \in DOMAIN shards, NEW nodes \in Seq(Entry)
    PROVE  /\ With(i, nodes) \in Seq(Shard)
           /\ Len(With(i, nodes)) = Len(shards) /\ DOMAIN With(i, nodes) = DOMAIN shards
           /\ With(i, nodes)[i].nodes = nodes
           /\ \A j \in DOMAIN shards :
                /\ With(i, nodes)[j].id = shards[j].id
                /\ j # i => With(i, nodes)[j] = shards[j]
  <1> DEFINE new == [shards[i] EXCEPT !.nodes = nodes]
  <1>1. i \in 1 .. Len(shards) /\ shards[i] \in Shard
    OBVIOUS
  <1>2. new \in Shard /\ new.nodes = nodes /\ new.id = shards[i].id
    BY <1>1 DEF Shard, Entry
  <1>3. With(i, nodes) = [shards EXCEPT ![i] = new]
    BY DEF With
  <1> HIDE DEF new
  <1>4. /\ With(i, nodes) \in Seq(Shard)
        /\ Len(With(i, nodes)) = Len(shards)
        /\ \A j \in 1 .. Len(shards) : With(i, nodes)[j] = IF j = i THEN new ELSE shards[j]
    BY <1>1, <1>2, <1>3
  <1> QED
    BY <1>1, <1>2, <1>4

(* Such an edit is sound when it lists nodes of the shard and a new one.   *)
LEMMA WithSound ==
    ASSUME version \in Nat, Sound(shards, Fresh), NEW i \in DOMAIN shards,
           NEW nodes \in Seq(Entry),
           \A k \in DOMAIN nodes :
              \/ nodes[k].node = Fresh
              \/ \E l \in DOMAIN shards[i].nodes : shards[i].nodes[l].node = nodes[k].node,
           \A k, l \in DOMAIN nodes : nodes[k].node = nodes[l].node => k = l
    PROVE  Sound(With(i, nodes), Fresh + 1) /\ KeepsHomes(shards, With(i, nodes), Fresh)
  <1> DEFINE after == With(i, nodes)
  <1>0. Fresh \in Nat
    BY ShardNodesAssumption DEF Fresh
  <1>1. /\ after \in Seq(Shard) /\ DOMAIN after = DOMAIN shards
        /\ after[i].nodes = nodes
        /\ \A j \in DOMAIN shards :
            after[j].id = shards[j].id /\ (j # i => after[j] = shards[j])
    BY WithResult DEF Sound
  <1> HIDE DEF after
  <1>2. \A j \in DOMAIN shards : \A k \in DOMAIN shards[j].nodes :
            shards[j].nodes[k].node \in Nat /\ shards[j].nodes[k].node < Fresh
    BY ShardElements DEF Sound
  <1>3. \A k \in DOMAIN nodes : nodes[k].node < Fresh + 1
    BY <1>0, <1>2
  <1>4. NodesOnce(after)
    <2> SUFFICES ASSUME NEW a \in DOMAIN after, NEW b \in DOMAIN after,
                        NEW k \in DOMAIN after[a].nodes, NEW l \in DOMAIN after[b].nodes,
                        after[a].nodes[k].node = after[b].nodes[l].node
                 PROVE  a = b /\ k = l
      BY DEF NodesOnce
    <2>1. CASE a = i /\ b = i
      BY <1>1, <2>1
    <2>2. CASE a # i /\ b # i
      BY <1>1, <2>2 DEF Sound, NodesOnce
    <2>3. ASSUME NEW c \in DOMAIN shards, c # i, NEW m \in DOMAIN shards[c].nodes,
                 NEW n \in DOMAIN nodes, shards[c].nodes[m].node = nodes[n].node
          PROVE  FALSE
      BY <1>0, <1>2, <2>3 DEF Sound, NodesOnce
    <2>4. CASE a = i /\ b # i
      BY <1>1, <2>3, <2>4
    <2>5. CASE a # i /\ b = i
      BY <1>1, <2>3, <2>5
    <2> QED
      BY <2>1, <2>2, <2>4, <2>5
  <1>5. Sound(after, Fresh + 1)
    <2>1. ASSUME NEW j \in DOMAIN after, NEW k \in DOMAIN after[j].nodes
          PROVE  after[j].nodes[k].node < Fresh + 1
      BY <1>0, <1>1, <1>2, <1>3
    <2> QED
      BY <1>1, <1>4, <2>1 DEF Sound
  <1>6. KeepsHomes(shards, after, Fresh)
    BY <1>1 DEF KeepsHomes
  <1> QED
    BY <1>5, <1>6 DEF after

(* A node is taken out of its list, and of no other.                       *)
LEMMA RemoveFromFollows ==
    ASSUME version \in Nat, Sound(shards, Fresh),
           NEW i \in DOMAIN shards, NEW p \in DOMAIN shards[i].nodes
    PROVE  LET after == With(i, Without(shards[i].nodes, p)) IN
           /\ Follows(shards, after, Fresh) /\ Smaller(after, shards)
           /\ Nodes(after[i].nodes) = Nodes(shards[i].nodes) \ {shards[i].nodes[p].node}
  <1> DEFINE old == shards[i].nodes
             nodes == Without(old, p)
             after == With(i, nodes)
             n == old[p].node
  <1>1. shards \in Seq(Shard) /\ NodesOnce(shards)
    BY DEF Sound
  <1>2. old \in Seq(Entry) /\ Len(old) \in Nat /\ p \in 1 .. Len(old) /\ DOMAIN old = 1 .. Len(old)
    BY <1>1, ShardElements, ListElements
  <1>3. /\ nodes \in Seq(Entry) /\ DOMAIN nodes = 1 .. Len(old) - 1
        /\ \A k \in 1 .. Len(old) - 1 : nodes[k] = IF k < p THEN old[k] ELSE old[k + 1]
    <2>1. /\ nodes \in Seq(Entry) /\ Len(nodes) = Len(old) - 1
          /\ \A k \in 1 .. Len(old) - 1 : nodes[k] = IF k < p THEN old[k] ELSE old[k + 1]
      <3> HIDE DEF old
      <3> QED
        BY <1>2, WithoutResult
    <2> HIDE DEF nodes, old
    <2>2. DOMAIN nodes = 1 .. Len(nodes)
      BY <2>1, ListElements
    <2> QED
      BY <2>1, <2>2
  <1> HIDE DEF nodes
  <1>4. \A k, l \in DOMAIN old : old[k].node = old[l].node => k = l
    BY <1>1 DEF NodesOnce
  <1>5. \A k \in DOMAIN nodes : \E l \in DOMAIN old \ {p} : nodes[k] = old[l]
    <2> HIDE DEF old
    <2> TAKE k \in DOMAIN nodes
    <2>1. CASE k < p
      BY <1>2, <1>3, <2>1
    <2>2. CASE ~(k < p)
      <3>1. k + 1 \in DOMAIN old \ {p} /\ nodes[k] = old[k + 1]
        BY <1>2, <1>3, <2>2
      <3> QED
        BY <3>1
    <2> QED
      BY <2>1, <2>2
  <1>6. \A l \in DOMAIN old \ {p} : \E k \in DOMAIN nodes : nodes[k] = old[l]
    <2> TAKE l \in DOMAIN old \ {p}
    <2>1. CASE l < p
      BY <1>2, <1>3, <2>1
    <2>2. CASE ~(l < p)
      <3>1. l - 1 \in 1 .. Len(old) - 1 /\ ~(l - 1 < p) /\ (l - 1) + 1 = l
        BY <1>2, <2>2
      <3> QED
        BY <1>3, <3>1
    <2> QED
      BY <2>1, <2>2
  <1>7. \A k, l \in DOMAIN nodes : nodes[k].node = nodes[l].node => k = l
    <2> TAKE k \in DOMAIN nodes, l \in DOMAIN nodes
    <2> DEFINE kk == IF k < p THEN k ELSE k + 1
               ll == IF l < p THEN l ELSE l + 1
    <2> HIDE DEF old
    <2>1. kk \in DOMAIN old /\ ll \in DOMAIN old /\ nodes[k] = old[kk] /\ nodes[l] = old[ll]
      BY <1>2, <1>3
    <2>2. kk = ll => k = l
      BY <1>2, <1>3
    <2> QED
      BY <1>4, <2>1, <2>2
  <1>8. Nodes(nodes) = Nodes(old) \ {n}
    <2>1. ASSUME NEW x \in Nodes(nodes) PROVE x \in Nodes(old) \ {n}
      BY <1>4, <1>5 DEF Nodes
    <2>2. ASSUME NEW x \in Nodes(old) \ {n} PROVE x \in Nodes(nodes)
      BY <1>6 DEF Nodes
    <2> QED
      BY <2>1, <2>2
  <1>9. Sound(after, Fresh + 1) /\ KeepsHomes(shards, after, Fresh)
    BY <1>3, <1>5, <1>7, WithSound
  <1>10. /\ DOMAIN after = DOMAIN shards /\ after[i].nodes = nodes
         /\ \A j \in DOMAIN shards : j # i => after[j] = shards[j]
    BY <1>1, <1>3, WithResult
  <1> HIDE DEF after
  <1>11. n \in AllNodes(shards) /\ n \notin AllNodes(after)
    <2>1. ASSUME NEW j \in DOMAIN shards, j # i PROVE n \notin Nodes(shards[j].nodes)
      BY <1>1, <1>2, <2>1 DEF NodesOnce, Nodes
    <2>2. n \in Nodes(old)
      BY <1>2 DEF Nodes
    <2>3. ASSUME NEW j \in DOMAIN shards PROVE n \notin Nodes(after[j].nodes)
      BY <1>8, <1>10, <2>1
    <2> QED
      BY <1>10, <2>2, <2>3 DEF AllNodes
  <1>12. Follows(shards, after, Fresh) /\ Smaller(after, shards)
    BY <1>9, <1>11 DEF Follows, Smaller
  <1> QED
    BY <1>8, <1>10, <1>12 DEF after, nodes

(* A new node comes last in its list.                                      *)
LEMMA AddNodeFollows ==
    ASSUME version \in Nat \ {0}, version < MaxVersion, Sound(shards, Fresh),
           NEW i, NEW master \in BOOLEAN, NEW after \in addNode(i, master)
    PROVE  Follows(shards, after, Fresh)
  <1> DEFINE old == shards[i].nodes
             new == Listed(Fresh, master)
             nodes == Append(old, new)
  <1>1. i \in DOMAIN shards /\ after = With(i, nodes)
    BY DEF addNode, Fresh
  <1>2. shards \in Seq(Shard)
    BY DEF Sound
  <1>3. old \in Seq(Entry) /\ Len(old) \in Nat /\ DOMAIN old = 1 .. Len(old)
    BY <1>1, <1>2, ShardElements, ListElements
  <1>4. new \in Entry /\ new.node = Fresh /\ Fresh \in Nat
    BY ShardNodesAssumption DEF Entry, Listed, Fresh, Node
  <1>5. \A k \in DOMAIN old : old[k].node < Fresh /\ old[k].node \in Nat
    BY <1>1, <1>2, ShardElements DEF Sound
  <1>6. \A k, l \in DOMAIN old : old[k].node = old[l].node => k = l
    BY <1>1 DEF Sound, NodesOnce
  <1> HIDE DEF new
  <1>7. /\ nodes \in Seq(Entry) /\ Len(nodes) = Len(old) + 1 /\ DOMAIN nodes = 1 .. Len(old) + 1
        /\ \A k \in DOMAIN old : nodes[k] = old[k]
        /\ nodes[Len(old) + 1] = new
    <2> HIDE DEF old
    <2>1. /\ nodes \in Seq(Entry) /\ Len(nodes) = Len(old) + 1
          /\ \A k \in 1 .. Len(old) : nodes[k] = old[k]
          /\ nodes[Len(old) + 1] = new
      BY <1>3, <1>4
    <2> QED
      BY <1>3, <2>1, ListElements
  <1> HIDE DEF nodes
  <1>8. \A k \in DOMAIN nodes : 
            nodes[k].node = Fresh \/ (k \in DOMAIN old /\ nodes[k] = old[k])
    <2> HIDE DEF old
    <2> QED
      BY <1>3, <1>4, <1>7
  <1>9. \A k, l \in DOMAIN nodes : nodes[k].node = nodes[l].node => k = l
    <2> HIDE DEF old
    <2> TAKE k \in DOMAIN nodes, l \in DOMAIN nodes
    <2>1. CASE k \in DOMAIN old /\ l \in DOMAIN old
      BY <1>6, <1>7, <2>1
    <2>2. \A j \in DOMAIN nodes : j \in DOMAIN old \/ j = Len(old) + 1
      BY <1>3, <1>7
    <2>3. \A j \in DOMAIN old : nodes[j].node # nodes[Len(old) + 1].node
      BY <1>4, <1>5, <1>7
    <2> QED
      BY <2>1, <2>2, <2>3
  <1>10. Sound(after, Fresh + 1) /\ KeepsHomes(shards, after, Fresh)
    <2>1. \A k \in DOMAIN nodes :
              \/ nodes[k].node = Fresh
              \/ \E l \in DOMAIN shards[i].nodes : shards[i].nodes[l].node = nodes[k].node
      BY <1>8
    <2> QED
      BY <1>1, <1>7, <1>9, <2>1, WithSound
  <1>11. KeepsPlaces(shards, after)
    <2>1. /\ DOMAIN after = DOMAIN shards /\ after[i].nodes = nodes
          /\ \A j \in DOMAIN shards :
                after[j].id = shards[j].id /\ (j # i => after[j] = shards[j])
      BY <1>1, <1>2, <1>7, WithResult
    <2>2. \A k \in DOMAIN old : k \in DOMAIN nodes /\ nodes[k].node = old[k].node
      BY <1>3, <1>7
    <2> QED
      BY <2>1, <2>2 DEF KeepsPlaces
  <1> QED
    BY <1>10, <1>11 DEF Follows

(* A failover changes roles only.                                          *)
LEMMA PromoteFollows ==
    ASSUME version \in Nat \ {0}, Sound(shards, Fresh),
           NEW i, NEW preferred, NEW after \in promoteNewMaster(i, preferred)
    PROVE  Follows(shards, after, Fresh)
  <1> DEFINE old == shards[i].nodes
             list(new) == [j \in DOMAIN old |-> Listed(old[j].node, old[j].node = new)]
  <1>1. i \in DOMAIN shards /\ \E new : after = With(i, list(new))
    BY Zenon DEF promoteNewMaster
  <1>2. PICK new : after = With(i, list(new))
    BY <1>1
  <1> DEFINE nodes == list(new)
  <1>3. shards \in Seq(Shard)
    BY DEF Sound
  <1>4. /\ old \in Seq(Entry) /\ Len(old) \in Nat /\ DOMAIN old = 1 .. Len(old)
        /\ \A k \in DOMAIN old : old[k].node \in Node
    BY <1>1, <1>3, ShardElements, ListElements
  <1>5. \A k, l \in DOMAIN old : old[k].node = old[l].node => k = l
    BY <1>1 DEF Sound, NodesOnce
  <1>6. /\ nodes \in Seq(Entry) /\ DOMAIN nodes = DOMAIN old
        /\ \A k \in DOMAIN old : nodes[k].node = old[k].node
    <2> HIDE DEF old
    <2>1. ASSUME NEW k \in DOMAIN old, NEW b \in BOOLEAN
          PROVE  Listed(old[k].node, b) \in Entry /\ Listed(old[k].node, b).node = old[k].node
      BY <1>4 DEF Listed, Entry
    <2>2. \A k \in DOMAIN old : (old[k].node = new) \in BOOLEAN
      OBVIOUS
    <2>3. \A k \in DOMAIN old : nodes[k] = Listed(old[k].node, old[k].node = new)
      BY Zenon
    <2>4. \A k \in DOMAIN old : nodes[k] \in Entry /\ nodes[k].node = old[k].node
      BY <2>1, <2>2, <2>3, Zenon
    <2>5. DOMAIN nodes = DOMAIN old /\ nodes = [k \in DOMAIN old |-> nodes[k]]
      BY Zenon
    <2> HIDE DEF nodes
    <2>6. nodes \in [1 .. Len(old) -> Entry]
      BY <1>4, <2>4, <2>5
    <2> QED
      BY <1>4, <2>4, <2>5, <2>6
  <1> HIDE DEF list
  <1>7. Sound(after, Fresh + 1) /\ KeepsHomes(shards, after, Fresh)
    BY <1>1, <1>2, <1>5, <1>6, WithSound
  <1>8. KeepsPlaces(shards, after)
    <2>1. /\ DOMAIN after = DOMAIN shards /\ after[i].nodes = nodes
          /\ \A j \in DOMAIN shards :
                after[j].id = shards[j].id /\ (j # i => after[j] = shards[j])
      BY <1>1, <1>2, <1>3, <1>6, WithResult
    <2> QED
      BY <1>6, <2>1 DEF KeepsPlaces
  <1> QED
    BY <1>7, <1>8 DEF Follows

(* The shards behind one that is removed move up by one place.             *)
LEMMA RemoveShardFollows ==
    ASSUME version \in Nat \ {0}, Sound(shards, Fresh), NEW i, NEW after \in RemoveShard(i)
    PROVE  Follows(shards, after, Fresh) /\ Smaller(after, shards)
  <1>1. i \in DOMAIN shards /\ after = Without(shards, i)
    BY DEF RemoveShard
  <1>2. /\ shards \in Seq(Shard) /\ Len(shards) \in Nat /\ DOMAIN shards = 1 .. Len(shards)
        /\ \A j \in DOMAIN shards : \A k \in DOMAIN shards[j].nodes :
                shards[j].nodes[k].node \in Nat
    BY ShardElements DEF Sound
  <1>3. /\ after \in Seq(Shard) /\ Len(after) = Len(shards) - 1
        /\ DOMAIN after = 1 .. Len(shards) - 1
        /\ \A j \in 1 .. Len(shards) - 1 :
                after[j] = IF j < i THEN shards[j] ELSE shards[j + 1]
    BY <1>1, <1>2, WithoutResult, ShardElements
  <1> DEFINE from(j) == IF j < i THEN j ELSE j + 1
  <1>4. \A j \in DOMAIN after : from(j) \in DOMAIN shards /\ after[j] = shards[from(j)]
    BY <1>1, <1>2, <1>3
  <1>5. \A j, k \in DOMAIN after : from(j) = from(k) => j = k
    BY <1>1, <1>2, <1>3
  <1> HIDE DEF from
  <1>6. Fresh \in Nat
    BY ShardNodesAssumption DEF Fresh
  <1>7. NodesOnce(after)
    <2> SUFFICES ASSUME NEW a \in DOMAIN after, NEW b \in DOMAIN after,
                        NEW k \in DOMAIN after[a].nodes, NEW l \in DOMAIN after[b].nodes,
                        after[a].nodes[k].node = after[b].nodes[l].node
                 PROVE  a = b /\ k = l
      BY DEF NodesOnce
    <2>1. from(a) = from(b) /\ k = l
      BY <1>4 DEF Sound, NodesOnce
    <2> QED
      BY <1>5, <2>1
  <1>8. Sound(after, Fresh + 1)
    <2>1. ASSUME NEW j \in DOMAIN after
          PROVE  /\ after[j].id # NoShard
                 /\ \A k \in DOMAIN after[j].nodes : after[j].nodes[k].node < Fresh + 1
      <3>1. /\ shards[from(j)].id # NoShard
            /\ \A k \in DOMAIN shards[from(j)].nodes : shards[from(j)].nodes[k].node < Fresh + 1
        BY <1>2, <1>4, <1>6 DEF Sound
      <3> QED
        BY <1>4, <3>1
    <2> QED
      BY <1>3, <1>7, <2>1 DEF Sound
  <1>9. KeepsHomes(shards, after, Fresh)
    BY <1>4 DEF KeepsHomes
  <1>10. Smaller(after, shards)
    BY <1>2, <1>3 DEF Smaller
  <1> QED
    BY <1>8, <1>9, <1>10 DEF Follows

-----------------------------------------------------------------------------
(* The cluster as the server keeps it *)

ServerInv == version \in Nat \ {0} /\ removals \in Nat /\ Sound(shards, Fresh)

-----------------------------------------------------------------------------
(* Requests *)

CallSlots == [Call -> CallType \cup {NoCall}]

(* What is asked for, and who awaits the answer.                           *)
Op == {"nodes", "shards", "removeNode", "createNode", "failover", "removeShard"}

Awaiter == {"load", "refresh", "delete", "side", "page", "dialog", "form", "stray", "item",
            "visit", "nodeSide", "nodeItem"}

(* The names of the requests and of those that await them.                 *)
LEMMA RequestNames ==
    /\ "nodes" \in Op /\ "shards" \in Op /\ "removeNode" \in Op
    /\ "createNode" \in Op /\ "failover" \in Op /\ "removeShard" \in Op
    /\ "load" \in Awaiter /\ "refresh" \in Awaiter /\ "delete" \in Awaiter
    /\ "side" \in Awaiter /\ "page" \in Awaiter /\ "dialog" \in Awaiter
    /\ "form" \in Awaiter /\ "item" \in Awaiter /\ "visit" \in Awaiter
    /\ "nodeSide" \in Awaiter /\ "nodeItem" \in Awaiter
  BY DEF Op, Awaiter

(* A request that is sent: its fields, and that it knows nothing of the    *)
(* server yet.                                                             *)
LEMMA RequestResult ==
    ASSUME NEW op \in Op, NEW for \in Awaiter, NEW index \in Nat, NEW node \in Node \cup {Automatic}
    PROVE  LET r == Request(op, for, index, node) IN
           /\ r \in CallType /\ r # NoCall
           /\ r.op = op /\ r.for = for /\ r.status = "sent" /\ r.index = index /\ r.node = node
           /\ r.at = NoShard /\ r.seen = 0 /\ r.nodes = << >> /\ r.read = 0
  <1> DEFINE r == Request(op, for, index, node)
  <1>1. /\ r.op = op /\ r.for = for /\ r.status = "sent" /\ r.index = index /\ r.node = node
        /\ r.at = NoShard /\ r.seen = 0 /\ r.nodes = << >> /\ r.read = 0
    BY DEF Request
  <1>2. << >> \in NodeList /\ NoShard \in Nat /\ "sent" \in Status
    BY DEF NodeList, NoShard, Status
  <1>3. r \in CallType
    BY <1>2 DEF Request, CallType, Op, Awaiter
  <1>4. r # NoCall
    BY <1>3, NoCallAssumption
  <1> HIDE DEF r
  <1> QED
    BY <1>1, <1>3, <1>4 DEF r

(* The fields of a request.                                                *)
LEMMA CallFields ==
    ASSUME NEW r \in CallType
    PROVE  /\ r.op \in {"nodes", "shards", "removeNode", "createNode", "failover", "removeShard"}
           /\ r.for \in {"load", "refresh", "delete", "side", "page", "dialog", "form", "stray",
                          "item", "visit", "nodeSide", "nodeItem"}
           /\ r.status \in Status /\ r.index \in Nat /\ r.node \in Node \cup {Automatic}
           /\ r.at \in Nat /\ r.seen \in Nat /\ r.nodes \in NodeList /\ r.count \in Nat
           /\ r.read \in Nat /\ r # NoCall
  BY NoCallAssumption DEF CallType

(* One place gets another content.                                         *)
LEMMA SlotResult ==
    ASSUME calls \in CallSlots, NEW c \in Call, NEW r \in CallType \cup {NoCall},
           calls' = [calls EXCEPT ![c] = r]
    PROVE  /\ calls' \in CallSlots /\ calls'[c] = r
           /\ \A d \in Call : d # c => calls'[d] = calls[d]
  BY DEF CallSlots

(* A request that is refused or carried out is answered with little.       *)
LEMMA ReplyResult ==
    ASSUME calls \in CallSlots, NEW c \in Call, calls[c] # NoCall,
           NEW status \in {"data", "empty", "error"}, NEW read \in Nat,
           Reply(c, status, read)
    PROVE  /\ calls' \in CallSlots /\ calls'[c] \in CallType
           /\ calls'[c].op = calls[c].op /\ calls'[c].for = calls[c].for
           /\ calls'[c].status = status /\ calls'[c].read = read
           /\ calls'[c].at = NoShard /\ calls'[c].seen = 0 /\ calls'[c].nodes = << >>
           /\ \A d \in Call : d # c => calls'[d] = calls[d]
  <1>1. calls[c] \in CallType
    BY DEF CallSlots
  <1> DEFINE q == Request(calls[c].op, calls[c].for, 0, Automatic)
             r == [q EXCEPT !.status = status, !.read = read]
  <1>2. /\ q \in CallType /\ q.op = calls[c].op /\ q.for = calls[c].for
        /\ q.at = NoShard /\ q.seen = 0 /\ q.nodes = << >>
    <2>1. calls[c].op \in Op /\ calls[c].for \in Awaiter
      BY <1>1, CallFields DEF Op, Awaiter
    <2> QED
      BY <2>1, RequestResult
  <1>3. calls' = [calls EXCEPT ![c] = r]
    BY DEF Reply
  <1> HIDE DEF q
  <1>4. /\ r \in CallType /\ r.op = q.op /\ r.for = q.for /\ r.status = status /\ r.read = read
        /\ r.at = q.at /\ r.seen = q.seen /\ r.nodes = q.nodes
    BY <1>2 DEF CallType, Status
  <1> HIDE DEF r
  <1>5. /\ calls' \in CallSlots /\ calls'[c] = r
        /\ \A d \in Call : d # c => calls'[d] = calls[d]
    BY <1>3, <1>4, SlotResult
  <1> QED
    BY <1>2, <1>4, <1>5

-----------------------------------------------------------------------------
(* What the server may do in one step *)

Moves ==
    \/ UNCHANGED server
    \/ /\ version' = version + 1
       /\ Follows(shards, shards', Fresh)
       /\ removals' = IF Smaller(shards', shards) THEN removals + 1 ELSE removals

(* An answer to a request for nodes: an error, or the nodes as they are.   *)
AnswersNodes(c) ==
    \/ /\ calls'[c].at = NoShard /\ calls'[c].seen = 0 /\ calls'[c].nodes = << >>
       /\ calls'[c].read = 0
    \/ /\ calls'[c].status = "data"
       /\ calls[c].index \in DOMAIN shards
       /\ calls'[c].nodes = shards[calls[c].index].nodes
       /\ calls'[c].at = shards[calls[c].index].id
       /\ calls'[c].read = version /\ calls'[c].seen = removals

Answers(c) ==
    /\ calls' \in CallSlots
    /\ calls[c] \in CallType /\ calls[c].status = "sent"
    /\ calls'[c] \in CallType /\ calls'[c].status # "sent"
    /\ calls'[c].op = calls[c].op /\ calls'[c].for = calls[c].for
    /\ calls'[c].read \in {0, version', calls[c].read}
    /\ \A d \in Call : d # c => calls'[d] = calls[d]
    /\ calls[c].op = "nodes" => UNCHANGED server /\ AnswersNodes(c)

(* Every change that is stored is one of the edits.                        *)
LEMMA EditResult ==
    ASSUME ServerInv, calls \in CallSlots, NEW c \in Call,
           calls[c] \in CallType, calls[c].status = "sent", calls[c].op # "nodes",
           NEW edits, NEW status \in {"data", "empty"},
           version < MaxVersion => \A after \in edits : Follows(shards, after, Fresh),
           Edit(c, edits, status)
    PROVE  Moves /\ Answers(c)
  <1>0. calls[c] # NoCall /\ version \in Nat /\ MaxVersion \in Nat
    BY NoCallAssumption, ShardNodesAssumption DEF ServerInv
  <1>1. ASSUME NEW after \in edits, Store(after),
               NEW s \in {status} \cup (IF "answer" \in Faults THEN {"error"} ELSE {}),
               Reply(c, s, version')
        PROVE  Moves /\ Answers(c)
    <2>1. /\ version < MaxVersion /\ shards' = after /\ version' = version + 1
          /\ removals' = IF Smaller(after, shards) THEN removals + 1 ELSE removals
      BY <1>1 DEF Store, Smaller
    <2>2. Moves
      BY <1>1, <2>1 DEF Moves
    <2>3. s \in {"data", "empty", "error"} /\ version' \in Nat /\ s # "sent"
      BY <1>0, <2>1
    <2>4. Answers(c)
      BY <1>0, <1>1, <2>3, ReplyResult DEF Answers
    <2> QED
      BY <2>2, <2>4
  <1>2. ASSUME Reply(c, "error", 0), UNCHANGED server
        PROVE  Moves /\ Answers(c)
    BY <1>0, <1>2, ReplyResult DEF Answers, Moves
  <1> QED
    BY <1>1, <1>2 DEF Edit

(* The edits of a removal of a node.                                       *)
LEMMA RemoveNodeFollows ==
    ASSUME ServerInv, NEW i, NEW node, NEW after \in removeNode(i, node)
    PROVE  /\ Follows(shards, after, Fresh) /\ Smaller(after, shards)
           /\ i \in DOMAIN shards /\ node \in Replicas(shards[i].nodes)
           /\ Nodes(after[i].nodes) = Nodes(shards[i].nodes) \ {node}
  <1>1. i \in DOMAIN shards
    BY DEF removeNode
  <1>2. PICK p \in DOMAIN shards[i].nodes :
            /\ shards[i].nodes[p].node = node /\ ~shards[i].nodes[p].master
            /\ after = With(i, Without(shards[i].nodes, p))
    BY <1>1 DEF removeNode, RemoveFrom
  <1>3. node \in Replicas(shards[i].nodes)
    BY <1>2 DEF Replicas
  <1>4. version \in Nat /\ Sound(shards, Fresh)
    BY DEF ServerInv
  <1> QED
    BY <1>1, <1>2, <1>3, <1>4, RemoveFromFollows

(* Whatever is served is answered, and the shards are edited or left.      *)
LEMMA ServeResult ==
    ASSUME ServerInv, calls \in CallSlots, NEW c \in Call, Serve(c)
    PROVE  Moves /\ Answers(c)
  <1>0. version \in Nat \ {0} /\ Sound(shards, Fresh)
    BY DEF ServerInv
  <1>1. calls[c] \in CallType /\ calls[c].status = "sent" /\ calls[c] # NoCall
    BY DEF Serve, ServeNodes, ServeShards, ServeRemoveNode, ServeCreateNode, ServeFailover,
           ServeRemoveShard, LoseRequest, Sent, Outstanding, CallSlots
  <1>2. CASE ServeNodes(c)
    <2>1. CASE calls[c].index \in DOMAIN shards
      <3> DEFINE i == calls[c].index
                 r == [calls[c] EXCEPT !.status = "data", !.nodes = shards[i].nodes,
                            !.at = shards[i].id, !.read = version, !.seen = removals]
      <3>1. shards[i].nodes \in NodeList /\ shards[i].id \in Nat
        BY <1>0, <2>1, ShardElements DEF Sound, NodeList, Entry
      <3>2. /\ r \in CallType /\ r.status = "data" /\ r.op = calls[c].op /\ r.for = calls[c].for
            /\ r.nodes = shards[i].nodes /\ r.at = shards[i].id /\ r.read = version
            /\ r.seen = removals
        BY <1>1, <3>1 DEF CallType, Status, ServerInv
      <3>3. calls' = [calls EXCEPT ![c] = r] /\ UNCHANGED server
        BY <1>2, <2>1 DEF ServeNodes
      <3> HIDE DEF r
      <3>4. /\ calls' \in CallSlots /\ calls'[c] = r
            /\ \A d \in Call : d # c => calls'[d] = calls[d]
        BY <3>2, <3>3, SlotResult
      <3>5. AnswersNodes(c)
        BY <2>1, <3>2, <3>4 DEF AnswersNodes
      <3>6. version' = version
        BY <3>3 DEF server
      <3> QED
        BY <1>1, <3>2, <3>3, <3>4, <3>5, <3>6 DEF Moves, Answers
    <2>2. CASE calls[c].index \notin DOMAIN shards
      <3>1. Reply(c, "error", 0) /\ UNCHANGED server
        BY <1>2, <2>2 DEF ServeNodes
      <3> QED
        BY <1>1, <3>1, ReplyResult DEF Moves, Answers, AnswersNodes
    <2> QED
      BY <2>1, <2>2
  <1>3. CASE ServeShards(c)
    <2> DEFINE r == [calls[c] EXCEPT !.status = "data", !.count = Len(shards)]
    <2>1. Len(shards) \in Nat
      BY <1>0, ShardElements DEF Sound
    <2>2. /\ r \in CallType /\ r.status = "data" /\ r.op = calls[c].op /\ r.for = calls[c].for
          /\ r.read = calls[c].read
      BY <1>1, <2>1 DEF CallType, Status
    <2>3. calls' = [calls EXCEPT ![c] = r] /\ UNCHANGED server /\ calls[c].op = "shards"
      BY <1>3 DEF ServeShards, Sent, Outstanding
    <2> HIDE DEF r
    <2>4. /\ calls' \in CallSlots /\ calls'[c] = r
          /\ \A d \in Call : d # c => calls'[d] = calls[d]
      BY <2>2, <2>3, SlotResult
    <2> QED
      BY <1>1, <2>2, <2>3, <2>4 DEF Moves, Answers
  <1>4. CASE ServeRemoveNode(c)
    <2>1. calls[c].op # "nodes" /\ Edit(c, removeNode(calls[c].index, calls[c].node), "empty")
      BY <1>4 DEF ServeRemoveNode, Sent, Outstanding
    <2>2. \A after \in removeNode(calls[c].index, calls[c].node) : Follows(shards, after, Fresh)
      BY RemoveNodeFollows
    <2> QED
      BY <1>1, <2>1, <2>2, EditResult
  <1>5. CASE ServeCreateNode(c)
    <2>1. PICK master \in BOOLEAN : Edit(c, addNode(calls[c].index, master), "data")
      BY <1>5 DEF ServeCreateNode
    <2>2. calls[c].op # "nodes"
      BY <1>5 DEF ServeCreateNode, Sent, Outstanding
    <2>3. version < MaxVersion =>
            \A after \in addNode(calls[c].index, master) : Follows(shards, after, Fresh)
      BY <1>0, AddNodeFollows
    <2> QED
      BY <1>1, <2>1, <2>2, <2>3, EditResult
  <1>6. CASE ServeFailover(c)
    <2>1. calls[c].op # "nodes" /\ Edit(c, promoteNewMaster(calls[c].index, calls[c].node), "data")
      BY <1>6 DEF ServeFailover, Sent, Outstanding
    <2>2. \A after \in promoteNewMaster(calls[c].index, calls[c].node) :
            Follows(shards, after, Fresh)
      BY <1>0, PromoteFollows
    <2> QED
      BY <1>1, <2>1, <2>2, EditResult
  <1>7. CASE ServeRemoveShard(c)
    <2>1. calls[c].op # "nodes" /\ Edit(c, RemoveShard(calls[c].index), "empty")
      BY <1>7 DEF ServeRemoveShard, Sent, Outstanding
    <2>2. \A after \in RemoveShard(calls[c].index) : Follows(shards, after, Fresh)
      BY <1>0, RemoveShardFollows
    <2> QED
      BY <1>1, <2>1, <2>2, EditResult
  <1>8. CASE LoseRequest(c)
    <2>1. Reply(c, "error", 0) /\ UNCHANGED server
      BY <1>8 DEF LoseRequest
    <2> QED
      BY <1>1, <2>1, ReplyResult DEF Moves, Answers, AnswersNodes
  <1> QED
    BY <1>2, <1>3, <1>4, <1>5, <1>6, <1>7, <1>8 DEF Serve

(* An edit by somebody else moves the server on as one of the page's own   *)
(* edits does.                                                             *)
LEMMA OthersMove ==
    ASSUME ServerInv, Others
    PROVE  Moves
  <1> DEFINE Edited(i, after) ==
                \/ after \in RemoveShard(i)
                \/ after \in promoteNewMaster(i, Automatic)
                \/ after \in addNode(i, FALSE)
                \/ \E n \in Nodes(shards[i].nodes) : after \in removeNode(i, n)
  <1>a. PICK i \in DOMAIN shards : \E after : Edited(i, after) /\ Store(after)
    BY DEF Others
  <1>1. PICK after : Edited(i, after) /\ Store(after)
    BY <1>a
  <1>2. /\ version < MaxVersion /\ shards' = after /\ version' = version + 1
        /\ removals' = IF Smaller(after, shards) THEN removals + 1 ELSE removals
    BY <1>1 DEF Store, Smaller
  <1>3. version \in Nat \ {0} /\ Sound(shards, Fresh)
    BY DEF ServerInv
  <1>4. Follows(shards, after, Fresh)
    BY <1>1, <1>2, <1>3, RemoveShardFollows, PromoteFollows, AddNodeFollows, RemoveNodeFollows
  <1> QED
    BY <1>2, <1>4 DEF Moves

(* Whoever edits the cluster leaves its list of shards sound, and the      *)
(* counters within the version.                                            *)
LEMMA MovesServerInv ==
    ASSUME ServerInv, Moves
    PROVE  ServerInv'
  <1>1. CASE UNCHANGED server
    <2>1. shards' = shards /\ version' = version /\ removals' = removals
      BY <1>1 DEF server
    <2> QED
      BY <2>1 DEF ServerInv, Sound, Fresh, NodesOnce
  <1>2. CASE ~UNCHANGED server
    <2>1. /\ version' = version + 1 /\ Sound(shards', Fresh + 1)
          /\ removals' = removals + 1 \/ removals' = removals
      BY <1>2 DEF Moves, Follows
    <2>2. Fresh' = Fresh + 1
      BY <2>1, ShardNodesAssumption DEF Fresh, ServerInv
    <2>3. Sound(shards', Fresh') /\ version' \in Nat \ {0} /\ removals' \in Nat
      BY <2>1, <2>2 DEF ServerInv
    <2> QED
      BY <2>3 DEF ServerInv, Sound, NodesOnce
  <1> QED
    BY <1>1, <1>2

-----------------------------------------------------------------------------
(* Types *)

PageType == [nodes : NodeList, at : Nat, read : Nat, seen : Nat, loading : BOOLEAN,
             deleting : Nat, done : Nat, overlap : BOOLEAN]

DialogType == [open : BOOLEAN, selected : Node \cup {Automatic}, busy : BOOLEAN]

SideType == [items : Nat, confirm : Nat]

VisitType == [index : Nat, node : Node \cup {0}, from : Nat, seen : Nat,
              nodes : NodeList, at : Nat, read : Nat, loading : BOOLEAN,
              items : NodeList, itemsSeen : Nat, itemsAt : Nat, confirm : Node \cup {0}]

ShardTypes ==
    page \in PageType /\ dialog \in DialogType /\ side \in SideType /\ form \in FormType

(* The types of the fields of the shard page.                              *)
LEMMA PageFields ==
    ASSUME NEW r \in PageType
    PROVE  /\ r.nodes \in NodeList /\ r.at \in Nat /\ r.read \in Nat /\ r.seen \in Nat
           /\ r.loading \in BOOLEAN /\ r.deleting \in Nat /\ r.done \in Nat /\ r.overlap \in BOOLEAN
  BY DEF PageType

(* The types of the fields of the node page.                               *)
LEMMA VisitFields ==
    ASSUME NEW r \in VisitType
    PROVE  /\ r.index \in Nat /\ r.node \in Node \cup {0} /\ r.from \in Nat /\ r.seen \in Nat
           /\ r.nodes \in NodeList /\ r.at \in Nat /\ r.read \in Nat /\ r.loading \in BOOLEAN
           /\ r.items \in NodeList /\ r.itemsSeen \in Nat /\ r.itemsAt \in Nat
           /\ r.confirm \in Node \cup {0}
  BY DEF VisitType

(* A page that has just been opened waits for one call.                    *)
LEMMA OnlyResult ==
    ASSUME NEW r \in CallType
    PROVE  /\ Only(r) \in CallSlots /\ First \in Call /\ Only(r)[First] = r
           /\ \A c \in Call : c # First => Only(r)[c] = NoCall
  <1>1. First \in Call
    BY CallAssumption DEF First
  <1> QED
    BY <1>1 DEF Only, CallSlots

(* A fetch gives a list of nodes, whatever the answer was (an error gives  *)
(* the empty list).                                                        *)
LEMMA FetchedListType ==
    ASSUME NEW status, NEW list \in NodeList
    PROVE  FetchedList(status, list) \in NodeList
  BY DEF FetchedList, NodeList

(* What the page becomes when it shows the answer to a fetch of its nodes. *)
LEMMA ShownResult ==
    ASSUME page \in PageType, NEW c \in Call, calls[c] \in CallType
    PROVE  /\ Shown(c) \in PageType
           /\ Shown(c).nodes = FetchedList(calls[c].status, calls[c].nodes)
           /\ Shown(c).at = calls[c].at /\ Shown(c).read = calls[c].read
           /\ Shown(c).seen = calls[c].seen /\ Shown(c).loading = page.loading
           /\ Shown(c).deleting = page.deleting /\ Shown(c).done = page.done
           /\ Shown(c).overlap = page.overlap
  <1>1. /\ calls[c].at \in Nat /\ calls[c].read \in Nat /\ calls[c].seen \in Nat
        /\ FetchedList(calls[c].status, calls[c].nodes) \in NodeList
    BY CallFields, FetchedListType
  <1> QED
    BY <1>1 DEF Shown, PageType

(* Every row that can be on the screen shows one of the nodes.             *)
LEMMA ShownRowsResult ==
    ASSUME page \in PageType, NEW row \in ShownRows
    PROVE  row.place \in Nat /\ \E i \in DOMAIN page.nodes : row.node = page.nodes[i].node
  <1>1. PICK searchTerm, filterOption, sortOption :
            row \in filteredAndSortedNodes(searchTerm, filterOption, sortOption)
    BY DEF ShownRows
  <1> DEFINE shown == filteredNodes(searchTerm, filterOption)
  <1>2. row.place \in DOMAIN page.nodes /\ \E i \in shown : row.node = page.nodes[i].node
    BY <1>1 DEF filteredAndSortedNodes
  <1>3. shown \subseteq DOMAIN page.nodes
    BY DEF filteredNodes
  <1>4. page.nodes \in Seq(Entry)
    BY PageFields DEF NodeList, Entry
  <1>5. DOMAIN page.nodes \subseteq Nat
    BY <1>4, ListElements
  <1> HIDE DEF shown
  <1> QED
    BY <1>2, <1>3, <1>5

(* What is sent from the page is meant for the shard that is shown.        *)
LEMMA ForShownResult ==
    ASSUME page \in PageType, NEW r \in CallType
    PROVE  /\ ForShown(r) \in CallType
           /\ ForShown(r).at = page.at /\ ForShown(r).seen = page.seen
           /\ ForShown(r).op = r.op /\ ForShown(r).for = r.for /\ ForShown(r).status = r.status
           /\ ForShown(r).index = r.index /\ ForShown(r).node = r.node /\ ForShown(r).read = r.read
  BY DEF ForShown, PageType, CallType

(* What a step of a page does to the requests: each is kept, dropped,      *)
(* without a handler from now on, or new.                                  *)
LEMMA UnmountedResult ==
    ASSUME calls \in CallSlots, NEW c \in Call
    PROVE  /\ Unmounted \in CallSlots
           /\ \/ Unmounted[c] = NoCall /\ (calls[c] = NoCall \/ calls[c].for = "side")
              \/ /\ calls[c] \in CallType /\ calls[c].for \notin {"dialog", "form", "side"}
                 /\ Unmounted[c] = calls[c]
              \/ /\ calls[c] \in CallType /\ calls[c].for \in {"dialog", "form"}
                 /\ Unmounted[c] \in CallType /\ Unmounted[c] = [calls[c] EXCEPT !.for = "stray"]
  <1>1. ASSUME NEW d \in Call, calls[d] # NoCall
        PROVE  [calls[d] EXCEPT !.for = "stray"] \in CallType
    BY <1>1 DEF CallSlots, CallType
  <1>2. Unmounted \in CallSlots
    BY <1>1 DEF Unmounted, CallSlots
  <1>3. calls[c] \in CallType \cup {NoCall}
    BY DEF CallSlots
  <1> QED
    BY <1>1, <1>2, <1>3 DEF Unmounted

(* A call whose page has gone differs from the call it was in its          *)
(* continuation only.                                                      *)
LEMMA StrayFields ==
    ASSUME NEW r \in CallType
    PROVE  LET q == [r EXCEPT !.for = "stray"] IN
           /\ q.for = "stray" /\ q.op = r.op /\ q.status = r.status /\ q.index = r.index
           /\ q.node = r.node /\ q.at = r.at /\ q.seen = r.seen /\ q.nodes = r.nodes
           /\ q.read = r.read
  BY DEF CallType

(* The request for the nodes of the shard that fetchData sends.            *)
LEMMA FetchShardResult ==
    ASSUME NEW for \in {"load", "refresh", "delete"}
    PROVE  LET r == FetchShard(for) IN
           /\ r \in CallType /\ r # NoCall /\ r.op = "nodes" /\ r.for = for
           /\ r.status = "sent" /\ r.index = At /\ r.at = NoShard /\ r.seen = 0 /\ r.read = 0
  BY RequestResult, RequestNames, ShardNodesAssumption DEF FetchShard

(* The requests that the node page and the sidebar next to it send.        *)
LEMMA VisitRequestResult ==
    ASSUME NEW for \in {"visit", "nodeSide"}
    PROVE  LET r == Request("nodes", for, At, Automatic) IN
           /\ r \in CallType /\ r # NoCall /\ r.op = "nodes" /\ r.for = for
           /\ r.status = "sent" /\ r.index = At /\ r.at = NoShard /\ r.seen = 0 /\ r.read = 0
  BY RequestResult, RequestNames, ShardNodesAssumption

(* The request for the shards that the sidebar next to the page sends.     *)
LEMMA SideRequestResult ==
    LET r == Request("shards", "side", 0, Automatic) IN
    /\ r \in CallType /\ r # NoCall /\ r.op = "shards" /\ r.for = "side"
    /\ r.status = "sent" /\ r.at = NoShard /\ r.seen = 0 /\ r.read = 0
  BY RequestResult, RequestNames

(* The request of the failover dialog.                                     *)
LEMMA FailoverRequestResult ==
    ASSUME NEW node \in Node \cup {Automatic}
    PROVE  LET r == Request("failover", "dialog", At, node) IN
           /\ r \in CallType /\ r # NoCall /\ r.op = "failover" /\ r.for = "dialog"
           /\ r.status = "sent" /\ r.index = At /\ r.read = 0
  BY RequestResult, RequestNames, ShardNodesAssumption

(* The page is loaded anew, and nothing of it is left.                     *)
LEMMA OpenResult ==
    ASSUME Open
    PROVE  /\ ShardTypes' /\ calls' \in CallSlots
           /\ page' = Loading /\ ~dialog'.busy /\ ~form'.submitting
           /\ First \in Call /\ calls'[First] = FetchShard("load")
           /\ \A c \in Call : c # First => calls'[c] = NoCall
  <1>1. FetchShard("load") \in CallType
    BY FetchShardResult
  <1>2. /\ calls' \in CallSlots /\ First \in Call /\ calls'[First] = FetchShard("load")
        /\ \A c \in Call : c # First => calls'[c] = NoCall
    BY <1>1, OnlyResult DEF Open
  <1>3. << >> \in NodeList
    BY DEF NodeList
  <1>4. page' \in PageType /\ page' = Loading
    BY <1>3 DEF Open, Loading, PageType, NoShard
  <1>5. dialog' \in DialogType /\ ~dialog'.busy
    BY DEF Open, NoDialog, DialogType
  <1>6. side' \in SideType /\ form' \in FormType /\ ~form'.submitting
    BY DEF Open, NoSide, SideType, NoForm, FormType
  <1> QED
    BY <1>2, <1>4, <1>5, <1>6 DEF ShardTypes

(* The shard is fetched again, and dialog, form and sidebar are unmounted. *)
LEMMA StartFetchResult ==
    ASSUME ShardTypes, calls \in CallSlots, NEW c \in Call, calls[c] \in CallType,
           NEW for \in {"refresh", "delete"}, StartFetch(c, for)
    PROVE  /\ ShardTypes' /\ calls' \in CallSlots
           /\ page'.nodes = page.nodes /\ page'.at = page.at /\ page'.read = page.read
           /\ page'.seen = page.seen /\ page'.loading /\ page'.deleting = page.deleting
           /\ page'.done = IF calls[c].read > page.done THEN calls[c].read ELSE page.done
           /\ page'.overlap <=> page.overlap \/ Fetching
           /\ ~dialog'.busy /\ ~form'.submitting
           /\ calls'[c] = FetchShard(for)
           /\ \A d \in Call : d # c => calls'[d] = Unmounted[d]
  <1> DEFINE done == IF calls[c].read > page.done THEN calls[c].read ELSE page.done
             changed(b) == [page EXCEPT !.loading = TRUE, !.overlap = b, !.done = done]
  <1>0. page \in PageType /\ dialog \in DialogType
    BY DEF ShardTypes
  <1>1. done \in Nat
    BY <1>0, CallFields, PageFields
  <1> HIDE DEF done
  <1>2. ASSUME NEW b \in BOOLEAN
        PROVE  /\ changed(b) \in PageType
               /\ changed(b).nodes = page.nodes /\ changed(b).at = page.at
               /\ changed(b).read = page.read /\ changed(b).seen = page.seen
               /\ changed(b).loading = TRUE /\ changed(b).deleting = page.deleting
               /\ changed(b).done = done /\ changed(b).overlap = b
    BY <1>0, <1>1 DEF PageType
  <1>3. (page.overlap \/ Fetching) \in BOOLEAN
    OBVIOUS
  <1>4. page' = changed(page.overlap \/ Fetching)
    BY Zenon DEF StartFetch, done
  <1> HIDE DEF changed
  <1>5. PICK b \in BOOLEAN : (b <=> page.overlap \/ Fetching) /\ page' = changed(b)
    BY <1>3, <1>4, Zenon
  <1>6. dialog' \in DialogType /\ ~dialog'.busy
    <2>1. ASSUME NEW o \in BOOLEAN
          PROVE  [NoDialog EXCEPT !.open = o] \in DialogType /\ ~[NoDialog EXCEPT !.open = o].busy
      BY DEF NoDialog, DialogType
    <2>2. (dialog.open /\ for # "refresh") \in BOOLEAN
      OBVIOUS
    <2>3. dialog' = [NoDialog EXCEPT !.open = dialog.open /\ for # "refresh"]
      BY Zenon DEF StartFetch
    <2> QED
      BY <2>1, <2>2, <2>3, Zenon
  <1>7. side' \in SideType /\ form' \in FormType /\ ~form'.submitting
    BY DEF StartFetch, NoSide, SideType, NoForm, FormType
  <1>8. Unmounted \in CallSlots /\ FetchShard(for) \in CallType
    BY UnmountedResult, FetchShardResult
  <1>9. /\ calls' \in CallSlots /\ calls'[c] = FetchShard(for)
        /\ \A d \in Call : d # c => calls'[d] = Unmounted[d]
    BY <1>8 DEF StartFetch, CallSlots
  <1>10. ShardTypes'
    BY <1>2, <1>5, <1>6, <1>7 DEF ShardTypes
  <1>11. /\ page'.nodes = page.nodes /\ page'.at = page.at /\ page'.read = page.read
         /\ page'.seen = page.seen /\ page'.loading /\ page'.deleting = page.deleting
         /\ page'.done = done /\ page'.overlap = b
    BY <1>2, <1>5
  <1>12. page'.overlap <=> page.overlap \/ Fetching
    BY <1>5, <1>11, Zenon
  <1> QED
    BY <1>6, <1>7, <1>9, <1>10, <1>11, <1>12, Zenon DEF done

(* The spinner goes, and the sidebar comes back if it was there.           *)
LEMMA EndLoadingResult ==
    ASSUME ShardTypes, calls \in CallSlots, NEW c \in Call, calls[c] \in CallType,
           NEW after \in PageType, EndLoading(c, after)
    PROVE  /\ ShardTypes' /\ calls' \in CallSlots
           /\ page' = [after EXCEPT !.loading = FALSE]
           /\ page'.nodes = after.nodes /\ page'.at = after.at /\ page'.read = after.read
           /\ page'.seen = after.seen /\ ~page'.loading /\ page'.deleting = after.deleting
           /\ page'.done = after.done /\ page'.overlap = after.overlap
           /\ calls'[c] \in {NoCall, Request("shards", "side", 0, Automatic)}
           /\ \A d \in Call : d # c => calls'[d] = calls[d]
           /\ UNCHANGED <<server, dialog, side, form>>
  <1> DEFINE r == IF page.loading THEN Request("shards", "side", 0, Automatic) ELSE NoCall
  <1>1. r \in CallType \cup {NoCall} /\ r \in {NoCall, Request("shards", "side", 0, Automatic)}
    <2>1. Request("shards", "side", 0, Automatic) \in CallType
      BY SideRequestResult
    <2> QED
      BY <2>1
  <1>2. calls' = [calls EXCEPT ![c] = r] /\ page' = [after EXCEPT !.loading = FALSE]
    BY DEF EndLoading
  <1>3. UNCHANGED <<server, dialog, side, form>>
    BY DEF EndLoading
  <1> HIDE DEF r
  <1>4. /\ calls' \in CallSlots /\ calls'[c] = r
        /\ \A d \in Call : d # c => calls'[d] = calls[d]
    BY <1>1, <1>2, SlotResult
  <1>5. /\ page' \in PageType
        /\ page'.nodes = after.nodes /\ page'.at = after.at /\ page'.read = after.read
        /\ page'.seen = after.seen /\ ~page'.loading /\ page'.deleting = after.deleting
        /\ page'.done = after.done /\ page'.overlap = after.overlap
    BY <1>2 DEF PageType
  <1>6. ShardTypes'
    BY <1>3, <1>5 DEF ShardTypes
  <1> QED
    BY <1>1, <1>2, <1>3, <1>4, <1>5, <1>6

(* The page of a node and its sidebar each send a request.                 *)
LEMMA GoToResult ==
    ASSUME NEW index \in Nat, NEW n \in Node \cup {0}, NEW from \in Nat, NEW seen \in Nat,
           GoTo(index, n, from, seen)
    PROVE  /\ visit' \in VisitType
           /\ visit'.index = index /\ visit'.node = n /\ visit'.from = from /\ visit'.seen = seen
           /\ visit'.nodes = << >> /\ visit'.at = NoShard /\ visit'.items = << >>
           /\ visit'.itemsAt = NoShard /\ visit'.itemsSeen = 0
           /\ calls' \in CallSlots
           /\ \E c, d \in Call :
                /\ c # d /\ calls'[c] = Request("nodes", "visit", At, Automatic)
                /\ calls'[d] = Request("nodes", "nodeSide", At, Automatic)
                /\ \A e \in Call \ {c, d} : calls'[e] = NoCall
  <1> DEFINE q == Request("nodes", "visit", At, Automatic)
             r == Request("nodes", "nodeSide", At, Automatic)
             d == FirstFree(Only(q))
  <1>1. q \in CallType /\ q # NoCall /\ r \in CallType
    BY VisitRequestResult
  <1>2. /\ visit' \in VisitType
        /\ visit'.index = index /\ visit'.node = n /\ visit'.from = from /\ visit'.seen = seen
        /\ visit'.nodes = << >> /\ visit'.at = NoShard /\ visit'.items = << >>
        /\ visit'.itemsAt = NoShard /\ visit'.itemsSeen = 0
    <2>1. << >> \in NodeList
      BY DEF NodeList
    <2> QED
      BY <2>1 DEF GoTo, Visit, VisitType, NoShard
  <1>3. calls' = [Only(q) EXCEPT ![d] = r]
    BY DEF GoTo
  <1> HIDE DEF q, r
  <1>4. /\ Only(q) \in CallSlots /\ First \in Call /\ Only(q)[First] = q
        /\ \A c \in Call : c # First => Only(q)[c] = NoCall
    BY <1>1, OnlyResult
  <1>5. \E c \in Call : Only(q)[c] = NoCall
    BY <1>4, NodePageAssumption
  <1>6. d \in Call /\ Only(q)[d] = NoCall
    BY <1>5 DEF FirstFree
  <1> HIDE DEF d
  <1>7. First # d
    BY <1>1, <1>4, <1>6
  <1>8. /\ calls' \in CallSlots /\ calls'[First] = q /\ calls'[d] = r
        /\ \A e \in Call \ {First, d} : calls'[e] = NoCall
    BY <1>1, <1>3, <1>4, <1>6, <1>7 DEF CallSlots
  <1> QED
    BY <1>2, <1>4, <1>6, <1>7, <1>8 DEF q, r

(* What awaits an answer, and has one.                                     *)
LEMMA AnsweredResult ==
    ASSUME calls \in CallSlots, NEW c \in Call, NEW op, Answered(c, op)
    PROVE  calls[c] \in CallType /\ calls[c].op = op /\ calls[c].status # "sent"
  BY DEF Answered, Outstanding, CallSlots

(* The slot of a call that has come to its end is free; the others are as  *)
(* they were.                                                              *)
LEMMA DoneResult ==
    ASSUME calls \in CallSlots, NEW c \in Call, Done(c)
    PROVE  /\ calls' \in CallSlots /\ calls'[c] = NoCall
           /\ \A d \in Call : d # c => calls'[d] = calls[d]
  BY SlotResult DEF Done

(* The replicas of a list are nodes.                                       *)
LEMMA ReplicasAreNodes ==
    ASSUME NEW list \in NodeList
    PROVE  Replicas(list) \subseteq Node
  <1>1. list \in Seq(Entry)
    BY DEF NodeList, Entry
  <1> QED
    BY <1>1, ListElements DEF Replicas

(* Each step of the shard page keeps the types.                            *)
LEMMA ShardContinueTypes ==
    ASSUME ShardTypes, calls \in CallSlots, NEW c \in Call, ShardContinue(c)
    PROVE  ShardTypes' /\ calls' \in CallSlots /\ UNCHANGED server
  <1>0. page \in PageType /\ dialog \in DialogType /\ side \in SideType /\ form \in FormType
    BY DEF ShardTypes
  <1>1. CASE LoadDone(c)
    <2>1. calls[c] \in CallType /\ EndLoading(c, Shown(c))
      BY <1>1, AnsweredResult DEF LoadDone, AnsweredTo
    <2> QED
      BY <1>0, <2>1, ShownResult, EndLoadingResult
  <1>2. CASE SideLoaded(c)
    <2>1. calls[c] \in CallType
      BY <1>2, AnsweredResult DEF SideLoaded, AnsweredTo
    <2>2. side' \in SideType
      BY <1>0, <1>2, <2>1, CallFields DEF SideLoaded, SideType
    <2>3. UNCHANGED <<server, page, dialog, form>> /\ Done(c)
      BY <1>2 DEF SideLoaded
    <2> QED
      BY <1>0, <2>2, <2>3, DoneResult DEF ShardTypes
  <1>3. CASE DeleteDone(c)
    <2>1. calls[c] \in CallType
      BY <1>3, AnsweredResult DEF DeleteDone, AnsweredTo
    <2>2. CASE EndLoading(c, [page EXCEPT !.deleting = 0])
      <3>1. [page EXCEPT !.deleting = 0] \in PageType
        BY <1>0 DEF PageType
      <3> QED
        BY <2>1, <2>2, <3>1, EndLoadingResult
    <2>3. CASE StartFetch(c, "delete") /\ UNCHANGED server
      BY <2>1, <2>3, StartFetchResult
    <2> QED
      BY <1>3, <2>2, <2>3 DEF DeleteDone
  <1>4. CASE DeleteFetched(c)
    <2>1. calls[c] \in CallType /\ EndLoading(c, [Shown(c) EXCEPT !.deleting = 0])
      BY <1>4, AnsweredResult DEF DeleteFetched, AnsweredTo
    <2>2. Shown(c) \in PageType
      BY <1>0, <2>1, ShownResult
    <2>3. [Shown(c) EXCEPT !.deleting = 0] \in PageType
      BY <2>2 DEF PageType
    <2> QED
      BY <2>1, <2>3, EndLoadingResult
  <1>5. CASE FailoverDone(c)
    <2>1. calls[c] \in CallType /\ UNCHANGED server
      BY <1>5, AnsweredResult DEF FailoverDone
    <2>2. CASE /\ dialog' = IF calls[c].for = "dialog" THEN [dialog EXCEPT !.busy = FALSE] ELSE dialog
               /\ Done(c) /\ UNCHANGED <<page, side, form>>
      <3>1. dialog' \in DialogType
        BY <1>0, <2>2 DEF DialogType
      <3> QED
        BY <1>0, <2>1, <2>2, <3>1, DoneResult DEF ShardTypes
    <2>3. CASE StartFetch(c, "refresh")
      BY <2>1, <2>3, StartFetchResult
    <2> QED
      BY <1>5, <2>2, <2>3 DEF FailoverDone
  <1>6. CASE FormDone(c)
    <2>1. UNCHANGED server
      BY <1>6 DEF FormDone
    <2>2. CASE Open
      BY <2>1, <2>2, OpenResult
    <2>3. CASE /\ IF calls[c].for = "form" THEN EndSubmit(handleError) ELSE UNCHANGED form
               /\ Done(c) /\ UNCHANGED <<page, dialog, side>>
      <3>1. ASSUME NEW b \in BOOLEAN PROVE [open |-> b, submitting |-> FALSE] \in FormType
        BY DEF FormType
      <3>2. (form.open /\ handleError # "") \in BOOLEAN
        OBVIOUS
      <3>3. form' = form \/ form' = [open |-> form.open /\ handleError # "", submitting |-> FALSE]
        BY <2>3, Zenon DEF EndSubmit
      <3>4. form' \in FormType
        BY <1>0, <3>1, <3>2, <3>3, Zenon
      <3> QED
        BY <1>0, <2>1, <2>3, <3>4, DoneResult DEF ShardTypes
    <2> QED
      BY <1>6, <2>2, <2>3 DEF FormDone
  <1>7. CASE ConfirmDone(c)
    <2>1. UNCHANGED server /\ (Open \/ (Done(c) /\ UNCHANGED shardVars))
      BY <1>7 DEF ConfirmDone
    <2> QED
      BY <2>1, OpenResult, DoneResult DEF ShardTypes, shardVars
  <1> QED
    BY <1>1, <1>2, <1>3, <1>4, <1>5, <1>6, <1>7 DEF ShardContinue

(* The requests that the user sends from the shard page.                   *)
LEMMA DeleteClickResult ==
    ASSUME ShardTypes, calls \in CallSlots, NEW c \in Call, DeleteClick(c)
    PROVE  /\ ShardTypes' /\ calls' \in CallSlots /\ calls[c] = NoCall
           /\ page' = [page EXCEPT !.deleting = page'.deleting]
           /\ UNCHANGED <<server, dialog, side, form>>
           /\ \A d \in Call : d # c => calls'[d] = calls[d]
           /\ calls'[c] \in CallType /\ calls'[c].op = "removeNode" /\ calls'[c].for = "page"
           /\ calls'[c].status = "sent" /\ calls'[c].index = At /\ calls'[c].read = 0
           /\ calls'[c].at = page.at /\ calls'[c].seen = page.seen
           /\ \E i \in DOMAIN page.nodes : calls'[c].node = page.nodes[i].node
  <1>0. page \in PageType
    BY DEF ShardTypes
  <1>1. PICK row \in ShownRows :
            /\ page' = [page EXCEPT !.deleting = row.place]
            /\ calls' = [calls EXCEPT
                    ![c] = ForShown(Request("removeNode", "page", At, row.node))]
    BY DEF DeleteClick
  <1>2. row.place \in Nat /\ \E i \in DOMAIN page.nodes : row.node = page.nodes[i].node
    BY <1>0, ShownRowsResult
  <1>3. page.nodes \in Seq(Entry)
    BY <1>0, PageFields DEF NodeList, Entry
  <1>4. row.node \in Node
    BY <1>2, <1>3, ListElements
  <1> DEFINE q == Request("removeNode", "page", At, row.node)
  <1>5. /\ q \in CallType /\ q.op = "removeNode" /\ q.for = "page" /\ q.status = "sent"
        /\ q.index = At /\ q.node = row.node /\ q.read = 0
    BY <1>4, RequestResult, RequestNames, ShardNodesAssumption
  <1> HIDE DEF q
  <1>6. /\ ForShown(q) \in CallType /\ ForShown(q).op = "removeNode" /\ ForShown(q).for = "page"
        /\ ForShown(q).status = "sent" /\ ForShown(q).index = At /\ ForShown(q).node = row.node
        /\ ForShown(q).read = 0 /\ ForShown(q).at = page.at /\ ForShown(q).seen = page.seen
    BY <1>0, <1>5, ForShownResult
  <1>7. /\ calls' \in CallSlots /\ calls'[c] = ForShown(q)
        /\ \A d \in Call : d # c => calls'[d] = calls[d]
    BY <1>1, <1>6, SlotResult DEF q
  <1>8. page' \in PageType /\ page' = [page EXCEPT !.deleting = page'.deleting]
    BY <1>0, <1>1, <1>2 DEF PageType
  <1>9. UNCHANGED <<server, dialog, side, form>> /\ calls[c] = NoCall
    BY DEF DeleteClick, Free
  <1>10. ShardTypes'
    BY <1>8, <1>9 DEF ShardTypes
  <1> QED
    BY <1>2, <1>6, <1>7, <1>8, <1>9, <1>10

(* The failover dialog, the form and the sidebar send a request each, and  *)
(* each of the first two marks its own busy flag, which was not set.       *)
LEMMA OtherRequestsResult ==
    ASSUME ShardTypes, calls \in CallSlots, NEW c \in Call,
           handleFailover(c) \/ SubmitForm(c) \/ confirmDelete(c)
    PROVE  /\ ShardTypes' /\ calls' \in CallSlots /\ calls[c] = NoCall
           /\ UNCHANGED <<server, page, side>>
           /\ \A d \in Call : d # c => calls'[d] = calls[d]
           /\ calls'[c] \in CallType /\ calls'[c].status = "sent" /\ calls'[c].read = 0
           /\ \/ /\ calls'[c].op = "failover" /\ calls'[c].for = "dialog" /\ calls'[c].index = At
                 /\ calls'[c].at = page.at /\ calls'[c].seen = page.seen
                 /\ ~dialog.busy /\ dialog'.busy /\ UNCHANGED form
              \/ /\ calls'[c].op = "createNode" /\ calls'[c].for = "form" /\ calls'[c].index = At
                 /\ calls'[c].at = page.at /\ calls'[c].seen = page.seen
                 /\ ~form.submitting /\ form'.submitting /\ UNCHANGED dialog
              \/ /\ calls'[c].op = "removeShard" /\ calls'[c].for = "item"
                 /\ calls'[c].at = NoShard /\ calls'[c].seen = 0 /\ UNCHANGED <<dialog, form>>
  <1>0. /\ page \in PageType /\ dialog \in DialogType /\ side \in SideType /\ form \in FormType
        /\ At \in Nat
    BY ShardNodesAssumption DEF ShardTypes
  <1>1. CASE handleFailover(c)
    <2> DEFINE q == Request("failover", "dialog", At, dialog.selected)
    <2>1. dialog.selected \in Node \cup {Automatic}
      BY <1>0 DEF DialogType
    <2>2. /\ q \in CallType /\ q.op = "failover" /\ q.for = "dialog" /\ q.status = "sent"
          /\ q.index = At /\ q.read = 0
      BY <2>1, FailoverRequestResult
    <2>3. calls' = [calls EXCEPT ![c] = ForShown(q)]
      BY <1>1 DEF handleFailover
    <2> HIDE DEF q
    <2>4. /\ ForShown(q) \in CallType /\ ForShown(q).op = "failover" /\ ForShown(q).for = "dialog"
          /\ ForShown(q).status = "sent" /\ ForShown(q).index = At /\ ForShown(q).read = 0
          /\ ForShown(q).at = page.at /\ ForShown(q).seen = page.seen
      BY <1>0, <2>2, ForShownResult
    <2>5. /\ calls' \in CallSlots /\ calls'[c] = ForShown(q)
          /\ \A d \in Call : d # c => calls'[d] = calls[d]
      BY <2>3, <2>4, SlotResult
    <2>6. dialog' \in DialogType /\ dialog'.busy /\ ~dialog.busy
      BY <1>0, <1>1 DEF handleFailover, DialogType
    <2>7. UNCHANGED <<server, page, side, form>> /\ calls[c] = NoCall
      BY <1>1 DEF handleFailover, Free
    <2>8. ShardTypes'
      BY <1>0, <2>6, <2>7 DEF ShardTypes
    <2> QED
      BY <2>4, <2>5, <2>6, <2>7, <2>8
  <1>2. CASE SubmitForm(c)
    <2> DEFINE q == Request("createNode", "form", At, Automatic)
    <2>2. /\ q \in CallType /\ q.op = "createNode" /\ q.for = "form" /\ q.status = "sent"
          /\ q.index = At /\ q.read = 0
      BY <1>0, RequestResult, RequestNames
    <2>3. calls' = [calls EXCEPT ![c] = ForShown(q)] /\ handleSubmit
      BY <1>2 DEF SubmitForm
    <2> HIDE DEF q
    <2>4. /\ ForShown(q) \in CallType /\ ForShown(q).op = "createNode" /\ ForShown(q).for = "form"
          /\ ForShown(q).status = "sent" /\ ForShown(q).index = At /\ ForShown(q).read = 0
          /\ ForShown(q).at = page.at /\ ForShown(q).seen = page.seen
      BY <1>0, <2>2, ForShownResult
    <2>5. /\ calls' \in CallSlots /\ calls'[c] = ForShown(q)
          /\ \A d \in Call : d # c => calls'[d] = calls[d]
      BY <2>3, <2>4, SlotResult
    <2>6. form' \in FormType /\ form'.submitting /\ ~form.submitting
      BY <1>0, <2>3 DEF handleSubmit, FormType
    <2>7. UNCHANGED <<server, page, dialog, side>> /\ calls[c] = NoCall
      BY <1>2 DEF SubmitForm, Free
    <2>8. ShardTypes'
      BY <1>0, <2>6, <2>7 DEF ShardTypes
    <2> QED
      BY <2>4, <2>5, <2>6, <2>7, <2>8
  <1>3. CASE confirmDelete(c)
    <2> DEFINE q == Request("removeShard", "item", side.confirm, Automatic)
    <2>1. side.confirm \in Nat
      BY <1>0 DEF SideType
    <2>2. /\ q \in CallType /\ q.op = "removeShard" /\ q.for = "item" /\ q.status = "sent"
          /\ q.at = NoShard /\ q.seen = 0 /\ q.read = 0
      BY <2>1, RequestResult, RequestNames
    <2>3. calls' = [calls EXCEPT ![c] = q]
      BY <1>3 DEF confirmDelete
    <2> HIDE DEF q
    <2>5. /\ calls' \in CallSlots /\ calls'[c] = q
          /\ \A d \in Call : d # c => calls'[d] = calls[d]
      BY <2>2, <2>3, SlotResult
    <2>7. UNCHANGED <<server, page, dialog, side, form>> /\ calls[c] = NoCall
      BY <1>3 DEF confirmDelete, Free
    <2>8. ShardTypes'
      BY <1>0, <2>7 DEF ShardTypes
    <2> QED
      BY <2>2, <2>5, <2>7, <2>8
  <1> QED
    BY <1>1, <1>2, <1>3

(* Clicks send nothing, and leave what is busy busy.                       *)
LEMMA ShardClickResult ==
    ASSUME ShardTypes, ShardClick
    PROVE  /\ ShardTypes' /\ UNCHANGED <<server, page, calls>>
           /\ dialog'.busy = dialog.busy /\ form'.submitting = form.submitting
  <1>0. page \in PageType /\ dialog \in DialogType /\ side \in SideType /\ form \in FormType
    BY DEF ShardTypes
  <1>1. CASE OpenFailover
    <2>1. dialog' \in DialogType /\ dialog'.busy = dialog.busy
      BY <1>0, <1>1 DEF OpenFailover, DialogType
    <2> QED
      BY <1>0, <1>1, <2>1 DEF OpenFailover, ShardTypes
  <1>2. CASE SelectNode
    <2>1. page.nodes \in NodeList
      BY <1>0, PageFields
    <2>2. \E node \in Node \cup {Automatic} : dialog' = [dialog EXCEPT !.selected = node]
      BY <1>2, <2>1, ReplicasAreNodes DEF SelectNode
    <2>3. dialog' \in DialogType /\ dialog'.busy = dialog.busy
      BY <1>0, <2>2 DEF DialogType
    <2> QED
      BY <1>0, <1>2, <2>3 DEF SelectNode, ShardTypes
  <1>3. CASE CloseFailover
    <2>1. dialog' \in DialogType /\ dialog'.busy = dialog.busy
      BY <1>0, <1>3 DEF CloseFailover, DialogType, NoDialog
    <2> QED
      BY <1>0, <1>3, <2>1 DEF CloseFailover, ShardTypes
  <1>4. CASE OpenForm \/ LeaveForm
    <2>1. form' \in FormType /\ form'.submitting = form.submitting
      BY <1>0, <1>4 DEF OpenForm, LeaveForm, openDialog, closeDialog, FormType
    <2> QED
      BY <1>0, <1>4, <2>1 DEF OpenForm, LeaveForm, ShardTypes
  <1>5. CASE AskRemoval \/ CancelRemoval
    <2>1. side' \in SideType
      BY <1>0, <1>5 DEF AskRemoval, CancelRemoval, SideType
    <2> QED
      BY <1>0, <1>5, <2>1 DEF AskRemoval, CancelRemoval, ShardTypes
  <1> QED
    BY <1>1, <1>2, <1>3, <1>4, <1>5 DEF ShardClick

(* The steps of the page of a node.                                        *)
LEMMA NodeLoadedResult ==
    ASSUME visit \in VisitType, calls \in CallSlots, NEW c \in Call, NodeLoaded(c)
    PROVE  /\ visit' \in VisitType /\ calls' \in CallSlots /\ UNCHANGED server
           /\ calls[c] \in CallType /\ calls[c].op = "nodes" /\ calls[c].for = "visit"
           /\ calls[c].status # "sent"
           /\ calls'[c] = NoCall /\ \A d \in Call : d # c => calls'[d] = calls[d]
           /\ ~visit'.loading /\ visit'.at = calls[c].at /\ visit'.read = calls[c].seen
           /\ visit'.nodes = FetchedList(calls[c].status, calls[c].nodes)
           /\ visit'.index = visit.index /\ visit'.node = visit.node /\ visit'.from = visit.from
           /\ visit'.seen = visit.seen /\ visit'.items = visit.items
           /\ visit'.itemsAt = visit.itemsAt /\ visit'.itemsSeen = visit.itemsSeen
  <1>1. /\ calls[c] \in CallType /\ calls[c].op = "nodes" /\ calls[c].for = "visit"
        /\ calls[c].status # "sent"
    BY AnsweredResult DEF NodeLoaded, AnsweredTo
  <1>2. /\ calls[c].at \in Nat /\ calls[c].seen \in Nat
        /\ FetchedList(calls[c].status, calls[c].nodes) \in NodeList
    BY <1>1, CallFields, FetchedListType
  <1>3. /\ visit' \in VisitType
        /\ ~visit'.loading /\ visit'.at = calls[c].at /\ visit'.read = calls[c].seen
        /\ visit'.nodes = FetchedList(calls[c].status, calls[c].nodes)
        /\ visit'.index = visit.index /\ visit'.node = visit.node /\ visit'.from = visit.from
        /\ visit'.seen = visit.seen /\ visit'.items = visit.items
        /\ visit'.itemsAt = visit.itemsAt /\ visit'.itemsSeen = visit.itemsSeen
    BY <1>2 DEF NodeLoaded, VisitType
  <1>4. Done(c) /\ UNCHANGED server
    BY DEF NodeLoaded
  <1> QED
    BY <1>1, <1>3, <1>4, DoneResult

(* The sidebar next to the node page shows the list that it has fetched;   *)
(* the page beside it is as it was.                                        *)
LEMMA NodeSideLoadedResult ==
    ASSUME visit \in VisitType, calls \in CallSlots, NEW c \in Call, NodeSideLoaded(c)
    PROVE  /\ visit' \in VisitType /\ calls' \in CallSlots /\ UNCHANGED server
           /\ calls[c] \in CallType /\ calls[c].op = "nodes" /\ calls[c].for = "nodeSide"
           /\ calls[c].status # "sent"
           /\ calls'[c] = NoCall /\ \A d \in Call : d # c => calls'[d] = calls[d]
           /\ visit'.itemsAt = calls[c].at /\ visit'.itemsSeen = calls[c].seen
           /\ visit'.items = FetchedList(calls[c].status, calls[c].nodes)
           /\ visit'.index = visit.index /\ visit'.node = visit.node /\ visit'.from = visit.from
           /\ visit'.seen = visit.seen /\ visit'.nodes = visit.nodes /\ visit'.at = visit.at
           /\ visit'.read = visit.read /\ visit'.loading = visit.loading
  <1>1. /\ calls[c] \in CallType /\ calls[c].op = "nodes" /\ calls[c].for = "nodeSide"
        /\ calls[c].status # "sent"
    BY AnsweredResult DEF NodeSideLoaded, AnsweredTo
  <1>2. /\ calls[c].at \in Nat /\ calls[c].seen \in Nat
        /\ FetchedList(calls[c].status, calls[c].nodes) \in NodeList
    BY <1>1, CallFields, FetchedListType
  <1>3. /\ visit' \in VisitType
        /\ visit'.itemsAt = calls[c].at /\ visit'.itemsSeen = calls[c].seen
        /\ visit'.items = FetchedList(calls[c].status, calls[c].nodes)
        /\ visit'.index = visit.index /\ visit'.node = visit.node /\ visit'.from = visit.from
        /\ visit'.seen = visit.seen /\ visit'.nodes = visit.nodes /\ visit'.at = visit.at
        /\ visit'.read = visit.read /\ visit'.loading = visit.loading
    BY <1>2 DEF NodeSideLoaded, VisitType
  <1>4. Done(c) /\ UNCHANGED server
    BY DEF NodeSideLoaded
  <1> QED
    BY <1>1, <1>3, <1>4, DoneResult

(* The sidebar next to the node page asks for the removal of the node that *)
(* was confirmed.                                                          *)
LEMMA ConfirmDeleteNodeResult ==
    ASSUME visit \in VisitType, calls \in CallSlots, NEW c \in Call, confirmDeleteNode(c)
    PROVE  /\ calls' \in CallSlots /\ calls[c] = NoCall /\ UNCHANGED <<server, visit>>
           /\ \A d \in Call : d # c => calls'[d] = calls[d]
           /\ calls'[c] \in CallType /\ calls'[c].op = "removeNode" /\ calls'[c].for = "nodeItem"
           /\ calls'[c].status = "sent" /\ calls'[c].at = NoShard /\ calls'[c].seen = 0
           /\ calls'[c].read = 0
  <1> DEFINE q == Request("removeNode", "nodeItem", At, visit.confirm)
  <1>1. visit.confirm \in Node /\ At \in Nat
    BY VisitFields, ShardNodesAssumption DEF confirmDeleteNode
  <1>2. /\ q \in CallType /\ q.op = "removeNode" /\ q.for = "nodeItem" /\ q.status = "sent"
        /\ q.at = NoShard /\ q.seen = 0 /\ q.read = 0
    BY <1>1, RequestResult, RequestNames
  <1>3. /\ calls' = [calls EXCEPT ![c] = q] /\ UNCHANGED <<server, visit>>
        /\ calls[c] = NoCall
    BY DEF confirmDeleteNode, Free
  <1> HIDE DEF q
  <1>4. /\ calls' \in CallSlots /\ calls'[c] = q
        /\ \A d \in Call : d # c => calls'[d] = calls[d]
    BY <1>2, <1>3, SlotResult
  <1> QED
    BY <1>2, <1>3, <1>4

(* The question of the sidebar is asked or taken back.                     *)
LEMMA AskNodeRemovalResult ==
    ASSUME visit \in VisitType, AskNodeRemoval \/ CancelNodeRemoval
    PROVE  /\ visit' \in VisitType /\ UNCHANGED <<server, calls>>
           /\ visit' = [visit EXCEPT !.confirm = visit'.confirm]
  <1>1. visit.items \in Seq(Entry)
    BY VisitFields DEF NodeList, Entry
  <1>2. \E n \in Node \cup {0} : visit' = [visit EXCEPT !.confirm = n]
    BY <1>1, ListElements DEF AskNodeRemoval, CancelNodeRemoval
  <1>3. visit' \in VisitType /\ visit' = [visit EXCEPT !.confirm = visit'.confirm]
    BY <1>2 DEF VisitType
  <1> QED
    BY <1>3 DEF AskNodeRemoval, CancelNodeRemoval

(* A link of the sidebar is followed.                                      *)
LEMMA FollowItemResult ==
    ASSUME visit \in VisitType, FollowItem
    PROVE  /\ UNCHANGED server
           /\ \E i \in DOMAIN visit.items :
                /\ i \in Nat /\ visit.items[i].node \in Node
                /\ visit.itemsAt \in Nat /\ visit.itemsSeen \in Nat
                /\ GoTo(i, visit.items[i].node, visit.itemsAt, visit.itemsSeen)
  <1>1. visit.items \in Seq(Entry) /\ visit.itemsAt \in Nat /\ visit.itemsSeen \in Nat
    BY VisitFields DEF NodeList, Entry
  <1>2. \A i \in DOMAIN visit.items : i \in Nat /\ visit.items[i].node \in Node
    BY <1>1, ListElements
  <1> QED
    BY <1>1, <1>2 DEF FollowItem

(* A link of the shard page is followed, one that stands for a node or one *)
(* that stands for none.                                                   *)
LEMMA FollowLinkResult ==
    ASSUME ShardTypes, FollowLink
    PROVE  /\ ShardTypes' /\ UNCHANGED server /\ view' = "node"
           /\ page' = [Loading EXCEPT !.loading = FALSE] /\ ~dialog'.busy /\ ~form'.submitting
           /\ page.at \in Nat /\ page.seen \in Nat
           /\ \/ \E p \in DOMAIN page.nodes :
                    /\ p \in Nat /\ page.nodes[p].node \in Node
                    /\ GoTo(p, page.nodes[p].node, page.at, page.seen)
              \/ \E p \in Nat : GoTo(p, 0, page.at, page.seen)
  <1>0. page \in PageType
    BY DEF ShardTypes
  <1>1. page.nodes \in Seq(Entry) /\ page.at \in Nat /\ page.seen \in Nat
    BY <1>0, PageFields DEF NodeList, Entry
  <1>2. \A p \in DOMAIN page.nodes : p \in Nat /\ page.nodes[p].node \in Node
    BY <1>1, ListElements
  <1>3. \A p \in {row.place : row \in ShownRows} : p \in Nat
    BY <1>0, ShownRowsResult
  <1>4. << >> \in NodeList
    BY DEF NodeList
  <1>5. page' \in PageType /\ page' = [Loading EXCEPT !.loading = FALSE]
    BY <1>4 DEF FollowLink, Closed, Loading, PageType, NoShard
  <1>6. dialog' \in DialogType /\ ~dialog'.busy
    BY DEF FollowLink, Closed, NoDialog, DialogType
  <1>7. side' \in SideType /\ form' \in FormType /\ ~form'.submitting
    BY DEF FollowLink, Closed, NoSide, SideType, NoForm, FormType
  <1>8. ShardTypes'
    BY <1>5, <1>6, <1>7 DEF ShardTypes
  <1> QED
    BY <1>1, <1>2, <1>3, <1>5, <1>6, <1>7, <1>8 DEF FollowLink

(* The steps by what they change.                                          *)
LEMMA NextCases ==
    ASSUME Next
    PROVE  \/ \E c \in Call : Serve(c) /\ UNCHANGED <<shardVars, visit, view>>
           \/ Others /\ UNCHANGED <<shardVars, visit, view, calls>>
           \/ \E c \in Call :
                view = "shard" /\ (ShardContinue(c) \/ ShardUser(c)) /\ UNCHANGED <<visit, view>>
           \/ view = "shard" /\ ShardClick /\ UNCHANGED <<visit, view>>
           \/ \E c \in Call :
                /\ view = "node" /\ (NodeContinue(c) \/ confirmDeleteNode(c))
                /\ UNCHANGED <<shardVars, view>>
           \/ view = "node" /\ NodeClick /\ UNCHANGED <<shardVars, view>>
           \/ view = "shard" /\ FollowLink
           \/ view' = "shard" /\ visit' = NoVisit /\ Open /\ UNCHANGED server
  <1>1. \A c \in Call : ItemDone(c) => view' = "shard" /\ visit' = NoVisit /\ Open /\ UNCHANGED server
    BY DEF ItemDone, ItemRemoved
  <1>2. GoBack => view' = "shard" /\ visit' = NoVisit /\ Open /\ UNCHANGED server
    BY DEF GoBack
  <1>3. FollowLink => view = "shard"
    BY DEF FollowLink
  <1> QED
    BY <1>1, <1>2, <1>3, ZenonT(60) DEF Next, Answer, Continue, User, Click, OnShard, OnNode

TypeInv ==
    /\ ServerInv /\ ShardTypes /\ visit \in VisitType
    /\ view \in {"shard", "node"} /\ calls \in CallSlots

(* A node page that has not been opened: no node, no lists.                *)
LEMMA NoVisitType ==
    /\ NoVisit \in VisitType /\ ~NoVisit.loading /\ NoVisit.node = 0 /\ NoVisit.seen = 0
    /\ NoVisit.nodes = << >> /\ NoVisit.items = << >>
    /\ NoVisit.itemsAt = NoShard /\ NoVisit.itemsSeen = 0
  <1>1. << >> \in NodeList
    BY DEF NodeList
  <1> QED
    BY <1>1 DEF NoVisit, Visit, VisitType, NoShard

(* The types hold at the start.                                            *)
LEMMA TypeInit == Init => TypeInv
  <1> SUFFICES ASSUME Init PROVE TypeInv
    OBVIOUS
  <1>1. ServerInv
    <2>1. /\ shards \in Seq(Shard) /\ NodesOnce(shards)
          /\ \A i \in DOMAIN shards :
                shards[i].id # NoShard /\ Nodes(shards[i].nodes) \subseteq 1 .. InitialNodes
      BY ShardNodesAssumption DEF Init
    <2>2. Fresh = InitialNodes + 1 /\ InitialNodes \in Nat /\ version = 1 /\ removals = 0
      BY ShardNodesAssumption DEF Init, Fresh
    <2>3. ASSUME NEW i \in DOMAIN shards, NEW k \in DOMAIN shards[i].nodes
          PROVE  shards[i].nodes[k].node < Fresh
      <3>1. shards[i].nodes[k].node \in 1 .. InitialNodes
        BY <2>1 DEF Nodes
      <3> QED
        BY <2>2, <3>1
    <2> QED
      BY <2>1, <2>2, <2>3 DEF ServerInv, Sound
  <1>2. << >> \in NodeList
    BY DEF NodeList
  <1>3. ShardTypes
    BY <1>2 DEF Init, ShardTypes, Loading, PageType, NoDialog, DialogType, NoSide, SideType,
                NoForm, FormType, NoShard
  <1>4. visit \in VisitType /\ view \in {"shard", "node"}
    BY NoVisitType DEF Init
  <1>5. calls \in CallSlots
    BY FetchShardResult, OnlyResult DEF Init
  <1> QED
    BY <1>1, <1>3, <1>4, <1>5 DEF TypeInv

(* Every step keeps the types, and the list of shards sound.               *)
LEMMA TypeStep == TypeInv /\ [Next]_vars => TypeInv'
  <1> SUFFICES ASSUME TypeInv, [Next]_vars PROVE TypeInv'
    OBVIOUS
  <1>0. /\ ServerInv /\ ShardTypes /\ visit \in VisitType
        /\ view \in {"shard", "node"} /\ calls \in CallSlots
    BY DEF TypeInv
  <1>a. UNCHANGED server => ServerInv'
    BY <1>0, MovesServerInv DEF Moves
  <1>b. UNCHANGED shardVars => ShardTypes'
    BY <1>0 DEF ShardTypes, shardVars
  <1>1. CASE UNCHANGED vars
    BY <1>0, <1>1, <1>a, <1>b DEF vars, TypeInv
  <1>2. ASSUME NEW c \in Call, Serve(c), UNCHANGED <<shardVars, visit, view>>
        PROVE  TypeInv'
    BY <1>0, <1>2, <1>b, ServeResult, MovesServerInv DEF Answers, TypeInv
  <1>3. CASE Others /\ UNCHANGED <<shardVars, visit, view, calls>>
    BY <1>0, <1>3, <1>b, OthersMove, MovesServerInv DEF TypeInv
  <1>4. ASSUME NEW c \in Call, ShardContinue(c), UNCHANGED <<visit, view>>
        PROVE  TypeInv'
    BY <1>0, <1>4, <1>a, ShardContinueTypes DEF TypeInv
  <1>5. ASSUME NEW c \in Call, ShardUser(c), UNCHANGED <<visit, view>>
        PROVE  TypeInv'
    <2>1. ShardTypes' /\ calls' \in CallSlots /\ UNCHANGED server
      BY <1>0, <1>5, DeleteClickResult, OtherRequestsResult DEF ShardUser
    <2> QED
      BY <1>0, <1>5, <1>a, <2>1 DEF TypeInv
  <1>6. CASE ShardClick /\ UNCHANGED <<visit, view>>
    <2>1. ShardTypes' /\ calls' = calls /\ UNCHANGED server
      BY <1>0, <1>6, ShardClickResult
    <2> QED
      BY <1>0, <1>6, <1>a, <2>1 DEF TypeInv
  <1>7. ASSUME NEW c \in Call, NodeContinue(c) \/ confirmDeleteNode(c),
               UNCHANGED <<shardVars, view>>
        PROVE  TypeInv'
    <2>1. CASE ItemRefused(c)
      <3>1. calls' \in CallSlots /\ UNCHANGED <<server, visit>>
        BY <1>0, <2>1, DoneResult DEF ItemRefused
      <3> QED
        BY <1>0, <1>7, <1>a, <1>b, <3>1 DEF TypeInv
    <2>2. CASE ~ItemRefused(c)
      <3>1. visit' \in VisitType /\ calls' \in CallSlots /\ UNCHANGED server
        BY <1>0, <1>7, <2>2, NodeLoadedResult, NodeSideLoadedResult, ConfirmDeleteNodeResult
           DEF NodeContinue
      <3> QED
        BY <1>0, <1>7, <1>a, <1>b, <3>1 DEF TypeInv
    <2> QED
      BY <2>1, <2>2
  <1>8. CASE NodeClick /\ UNCHANGED <<shardVars, view>>
    <2>1. visit' \in VisitType /\ calls' \in CallSlots /\ UNCHANGED server
      BY <1>0, <1>8, FollowItemResult, GoToResult, AskNodeRemovalResult DEF NodeClick
    <2> QED
      BY <1>0, <1>8, <1>a, <1>b, <2>1 DEF TypeInv
  <1>9. CASE FollowLink
    <2>1. /\ ShardTypes' /\ UNCHANGED server /\ view' = "node"
          /\ visit' \in VisitType /\ calls' \in CallSlots
      BY <1>0, <1>9, FollowLinkResult, GoToResult
    <2> QED
      BY <1>a, <2>1 DEF TypeInv
  <1>10. CASE view' = "shard" /\ visit' = NoVisit /\ Open /\ UNCHANGED server
    BY <1>10, <1>a, OpenResult, NoVisitType DEF TypeInv
  <1> QED
    BY <1>1, <1>2, <1>3, <1>4, <1>5, <1>6, <1>7, <1>8, <1>9, <1>10, NextCases, ZenonT(60)

(* The state of the shard page, of the node page and of the requests keeps *)
(* its types, whatever others do to the shards and however late answers    *)
(* come.                                                                   *)
THEOREM TypeCorrect == Spec => []TypeOK
  <1>1. TypeInv => TypeOK
    BY DEF TypeInv, TypeOK, ServerInv, Sound, ShardTypes, PageType, DialogType, SideType,
           VisitType, CallSlots
  <1> QED
    BY <1>1, TypeInit, TypeStep, PTL DEF Spec

-----------------------------------------------------------------------------
(* What is busy waits for an answer *)

(* Which handlers wait for which requests.                                 *)
Awaits(r) ==
    /\ r.for \in {"load", "refresh", "delete", "visit", "nodeSide"} => r.op = "nodes"
    /\ r.for = "side" => r.op = "shards"
    /\ r.for \in {"page", "nodeItem"} => r.op = "removeNode"
    /\ r.for = "item" => r.op = "removeShard"
    /\ r.for = "dialog" => r.op = "failover"
    /\ r.for = "form" => r.op = "createNode"
    /\ r.for = "stray" => r.op \in {"failover", "createNode"}

Waiting(for) == \E c \in Call : calls[c] # NoCall /\ calls[c].for \in for

AtMostOne(for) ==
    \A c, d \in Call : calls[c] # NoCall /\ calls[d] # NoCall
                        /\ calls[c].for = for /\ calls[d].for = for => c = d

BusyInv ==
    /\ \A c \in Call : calls[c] # NoCall => Awaits(calls[c])
    /\ page.loading => Waiting({"load", "refresh", "delete"})
    /\ page.deleting # 0 => Waiting({"page", "delete"})
    /\ dialog.busy <=> Waiting({"dialog"})
    /\ form.submitting <=> Waiting({"form"})
    /\ AtMostOne("dialog") /\ AtMostOne("form")
    /\ visit.loading => Waiting({"visit"})
    /\ view = "shard" => ~visit.loading
    /\ view = "node" => ~page.loading /\ page.deleting = 0 /\ ~dialog.busy /\ ~form.submitting

(* What waits, when one place gets another content.                        *)
LEMMA WaitingSlot ==
    ASSUME NEW c \in Call, \A d \in Call : d # c => calls'[d] = calls[d], NEW for
    PROVE  /\ calls'[c] # NoCall /\ calls'[c].for \in for => Waiting(for)'
           /\ calls[c] = NoCall \/ calls[c].for \notin for =>
                /\ Waiting(for) => Waiting(for)'
                /\ calls'[c] = NoCall \/ calls'[c].for \notin for => (Waiting(for)' <=> Waiting(for))
  BY DEF Waiting

(* A step at one slot: how it bears on the number of calls that continue   *)
(* in a given way.                                                         *)
LEMMA AtMostOneSlot ==
    ASSUME NEW c \in Call, \A d \in Call : d # c => calls'[d] = calls[d], NEW for, AtMostOne(for)
    PROVE  /\ calls'[c] = NoCall \/ calls'[c].for # for \/ ~Waiting({for}) => AtMostOne(for)'
           /\ /\ calls[c] # NoCall /\ calls[c].for = for
              /\ calls'[c] = NoCall \/ calls'[c].for # for
              => ~Waiting({for})'
  BY DEF AtMostOne, Waiting

(* The page is loaded anew.                                                *)
LEMMA BusyOpen ==
    ASSUME Open, view' = "shard", ~visit'.loading
    PROVE  BusyInv'
  <1>1. /\ page' = Loading /\ ~dialog'.busy /\ ~form'.submitting
        /\ First \in Call /\ calls'[First] = FetchShard("load")
        /\ \A c \in Call : c # First => calls'[c] = NoCall
    BY OpenResult
  <1>2. FetchShard("load") # NoCall /\ FetchShard("load").op = "nodes" /\ FetchShard("load").for = "load"
    BY FetchShardResult
  <1>3. page'.deleting = 0
    BY <1>1 DEF Loading
  <1>4. Waiting({"load", "refresh", "delete"})' /\ ~Waiting({"dialog"})' /\ ~Waiting({"form"})'
    BY <1>1, <1>2 DEF Waiting
  <1>5. AtMostOne("dialog")' /\ AtMostOne("form")'
    BY <1>1, <1>2 DEF AtMostOne
  <1>6. \A c \in Call : calls'[c] # NoCall => Awaits(calls'[c])
    BY <1>1, <1>2 DEF Awaits
  <1>7. view' # "node"
    OBVIOUS
  <1> QED
    BY <1>1, <1>3, <1>4, <1>5, <1>6, <1>7, Zenon DEF BusyInv

(* A node page is opened.                                                  *)
LEMMA BusyGoTo ==
    ASSUME NEW index \in Nat, NEW n \in Node \cup {0}, NEW from \in Nat, NEW seen \in Nat,
           GoTo(index, n, from, seen), view' = "node",
           ~page'.loading, page'.deleting = 0, ~dialog'.busy, ~form'.submitting
    PROVE  BusyInv'
  <1>1. PICK c \in Call, d \in Call :
            /\ c # d /\ calls'[c] = Request("nodes", "visit", At, Automatic)
            /\ calls'[d] = Request("nodes", "nodeSide", At, Automatic)
            /\ \A e \in Call \ {c, d} : calls'[e] = NoCall
    BY GoToResult
  <1> DEFINE q == Request("nodes", "visit", At, Automatic)
             r == Request("nodes", "nodeSide", At, Automatic)
  <1>a. q # NoCall /\ q.op = "nodes" /\ q.for = "visit"
    BY VisitRequestResult
  <1>b. r.op = "nodes" /\ r.for = "nodeSide"
    BY VisitRequestResult
  <1>3. calls'[c] # NoCall /\ calls'[c].op = "nodes" /\ calls'[c].for = "visit"
    BY <1>1, <1>a
  <1>4. calls'[d].op = "nodes" /\ calls'[d].for = "nodeSide"
    BY <1>1, <1>b
  <1>5. Waiting({"visit"})' /\ ~Waiting({"dialog"})' /\ ~Waiting({"form"})'
    BY <1>1, <1>3, <1>4 DEF Waiting
  <1>6. AtMostOne("dialog")' /\ AtMostOne("form")'
    BY <1>1, <1>3, <1>4 DEF AtMostOne
  <1>7. \A e \in Call : calls'[e] # NoCall => Awaits(calls'[e])
    BY <1>1, <1>3, <1>4 DEF Awaits
  <1>8. view' # "shard"
    OBVIOUS
  <1> QED
    BY <1>5, <1>6, <1>7, <1>8, Zenon DEF BusyInv

(* The shard is fetched again.                                             *)
LEMMA BusyStartFetch ==
    ASSUME TypeInv, BusyInv, NEW c \in Call, calls[c] \in CallType,
           NEW for \in {"refresh", "delete"}, StartFetch(c, for), view = "shard",
           for = "refresh" => calls[c].for \notin {"page", "delete"}, UNCHANGED <<visit, view>>
    PROVE  BusyInv'
  <1>0. ShardTypes /\ calls \in CallSlots
    BY DEF TypeInv
  <1>1. /\ page'.deleting = page.deleting /\ ~dialog'.busy /\ ~form'.submitting
        /\ calls'[c] = FetchShard(for)
        /\ \A d \in Call : d # c => calls'[d] = Unmounted[d]
    BY <1>0, StartFetchResult
  <1>2. calls'[c] # NoCall /\ calls'[c].op = "nodes" /\ calls'[c].for = for
    BY <1>1, FetchShardResult
  <1>3. ASSUME NEW d \in Call, d # c
        PROVE  \/ calls'[d] = NoCall /\ (calls[d] = NoCall \/ calls[d].for = "side")
               \/ /\ calls[d] # NoCall /\ calls[d].for \notin {"dialog", "form", "side"}
                  /\ calls'[d] = calls[d]
               \/ /\ calls[d] # NoCall /\ calls[d].for \in {"dialog", "form"}
                  /\ calls'[d].for = "stray" /\ calls'[d].op = calls[d].op
    <2>1. \/ calls'[d] = NoCall /\ (calls[d] = NoCall \/ calls[d].for = "side")
          \/ /\ calls[d] \in CallType /\ calls[d].for \notin {"dialog", "form", "side"}
             /\ calls'[d] = calls[d]
          \/ /\ calls[d] \in CallType /\ calls[d].for \in {"dialog", "form"}
             /\ calls'[d] = [calls[d] EXCEPT !.for = "stray"]
      BY <1>0, <1>1, <1>3, UnmountedResult
    <2>2. calls[d] \in CallType => calls[d] # NoCall
      BY NoCallAssumption
    <2>3. ASSUME calls[d] \in CallType, calls'[d] = [calls[d] EXCEPT !.for = "stray"]
          PROVE  calls'[d].for = "stray" /\ calls'[d].op = calls[d].op
      BY <2>3, StrayFields
    <2> QED
      BY <2>1, <2>2, <2>3
  <1>4. Waiting({"load", "refresh", "delete"})'
    BY <1>2 DEF Waiting
  <1>5. page'.deleting # 0 => Waiting({"page", "delete"})'
    <2> SUFFICES ASSUME page'.deleting # 0 PROVE Waiting({"page", "delete"})'
      OBVIOUS
    <2>1. CASE for = "delete"
      BY <1>2, <2>1 DEF Waiting
    <2>2. CASE for = "refresh"
      <3>1. PICK d \in Call : calls[d] # NoCall /\ calls[d].for \in {"page", "delete"}
        BY <1>1 DEF BusyInv, Waiting
      <3>2. d # c
        BY <2>2, <3>1
      <3>3. calls'[d] = calls[d]
        BY <1>3, <3>1, <3>2
      <3> QED
        BY <3>1, <3>3 DEF Waiting
    <2> QED
      BY <2>1, <2>2
  <1>6. \A d \in Call : calls'[d] # NoCall => calls'[d].for \notin {"dialog", "form"}
    BY <1>2, <1>3
  <1>7. ~Waiting({"dialog"})' /\ ~Waiting({"form"})' /\ AtMostOne("dialog")' /\ AtMostOne("form")'
    BY <1>6 DEF Waiting, AtMostOne
  <1>8. ASSUME NEW d \in Call, calls'[d] # NoCall PROVE Awaits(calls'[d])
    <2>1. CASE d = c
      BY <1>2, <2>1 DEF Awaits
    <2>2. CASE d # c
      <3>1. calls[d] # NoCall => Awaits(calls[d])
        BY DEF BusyInv
      <3> QED
        BY <1>3, <1>8, <2>2, <3>1 DEF Awaits
    <2> QED
      BY <2>1, <2>2
  <1>9. ~visit'.loading /\ view' = "shard"
    BY DEF BusyInv
  <1> QED
    BY <1>1, <1>4, <1>5, <1>7, <1>8, <1>9 DEF BusyInv

(* One request changes or goes; the rest follows from what then waits.     *)
LEMMA BusySlot ==
    ASSUME BusyInv, NEW c \in Call, \A d \in Call : d # c => calls'[d] = calls[d],
           calls'[c] # NoCall => Awaits(calls'[c]),
           calls'[c] = NoCall \/ calls'[c].for # "dialog" \/ ~Waiting({"dialog"}),
           calls'[c] = NoCall \/ calls'[c].for # "form" \/ ~Waiting({"form"}),
           page'.loading => Waiting({"load", "refresh", "delete"})',
           page'.deleting # 0 => Waiting({"page", "delete"})',
           dialog'.busy <=> Waiting({"dialog"})',
           form'.submitting <=> Waiting({"form"})',
           visit'.loading => Waiting({"visit"})',
           view' = "shard" => ~visit'.loading,
           view' = "node" =>
               ~page'.loading /\ page'.deleting = 0 /\ ~dialog'.busy /\ ~form'.submitting
    PROVE  BusyInv'
  <1>1. AtMostOne("dialog") /\ AtMostOne("form")
    BY DEF BusyInv
  <1>2. AtMostOne("dialog")'
    BY <1>1, AtMostOneSlot
  <1>3. AtMostOne("form")'
    BY <1>1, AtMostOneSlot
  <1>4. \A d \in Call : calls'[d] # NoCall => Awaits(calls'[d])
    BY DEF BusyInv
  <1> QED
    BY <1>2, <1>3, <1>4, Zenon DEF BusyInv

(* The spinner goes.                                                       *)
LEMMA BusyEndLoading ==
    ASSUME TypeInv, BusyInv, NEW c \in Call, calls[c] \in CallType,
           calls[c].for \in {"load", "refresh", "delete", "page"},
           NEW after \in PageType, EndLoading(c, after), view = "shard", UNCHANGED <<visit, view>>,
           after.deleting = 0 \/ (after.deleting = page.deleting /\ calls[c].for \in {"load", "refresh"})
    PROVE  BusyInv'
  <1>0. ShardTypes /\ calls \in CallSlots
    BY DEF TypeInv
  <1>1. /\ ~page'.loading /\ page'.deleting = after.deleting
        /\ calls'[c] \in {NoCall, Request("shards", "side", 0, Automatic)}
        /\ \A d \in Call : d # c => calls'[d] = calls[d]
        /\ UNCHANGED <<dialog, form>>
    BY <1>0, EndLoadingResult
  <1> DEFINE q == Request("shards", "side", 0, Automatic)
  <1>2. q.op = "shards" /\ q.for = "side"
    BY SideRequestResult
  <1> HIDE DEF q
  <1>3. calls'[c] = NoCall \/ (calls'[c].op = "shards" /\ calls'[c].for = "side")
    BY <1>1, <1>2 DEF q
  <1>4. calls'[c] # NoCall => Awaits(calls'[c])
    BY <1>3 DEF Awaits
  <1>5. Waiting({"dialog"})' <=> Waiting({"dialog"})
    BY <1>1, <1>3, WaitingSlot
  <1>6. Waiting({"form"})' <=> Waiting({"form"})
    BY <1>1, <1>3, WaitingSlot
  <1>7. page'.deleting # 0 => Waiting({"page", "delete"})'
    <2>1. CASE after.deleting = 0
      BY <1>1, <2>1
    <2>2. CASE after.deleting = page.deleting /\ calls[c].for \in {"load", "refresh"}
      <3>1. Waiting({"page", "delete"}) => Waiting({"page", "delete"})'
        BY <1>1, <2>2, WaitingSlot
      <3> QED
        BY <1>1, <2>2, <3>1 DEF BusyInv
    <2> QED
      BY <2>1, <2>2
  <1>8. ~visit'.loading /\ view' # "node"
    BY DEF BusyInv
  <1>9. (dialog.busy <=> Waiting({"dialog"})) /\ (form.submitting <=> Waiting({"form"}))
    BY Zenon DEF BusyInv
  <1>10. (dialog'.busy <=> Waiting({"dialog"})') /\ (form'.submitting <=> Waiting({"form"})')
    BY <1>1, <1>5, <1>6, <1>9, Zenon
  <1>11. calls'[c] = NoCall \/ (calls'[c].for # "dialog" /\ calls'[c].for # "form")
    BY <1>3
  <1> QED
    BY <1>1, <1>4, <1>7, <1>8, <1>10, <1>11, BusySlot, Zenon

(* A request is answered to a handler that changes nothing of the page but *)
(* perhaps the dialog or the form.                                         *)
LEMMA BusyDone ==
    ASSUME TypeInv, BusyInv, NEW c \in Call, calls[c] \in CallType, Done(c),
           calls[c].for \notin {"load", "refresh", "delete", "page", "visit"},
           UNCHANGED <<page, visit, view>>,
           (dialog'.busy <=> dialog.busy) \/ (calls[c].for = "dialog" /\ ~dialog'.busy),
           calls[c].for = "dialog" => ~dialog'.busy,
           (form'.submitting <=> form.submitting) \/ (calls[c].for = "form" /\ ~form'.submitting),
           calls[c].for = "form" => ~form'.submitting
    PROVE  BusyInv'
  <1>0. calls \in CallSlots /\ calls[c] # NoCall
    BY NoCallAssumption DEF TypeInv
  <1>1. calls'[c] = NoCall /\ \A d \in Call : d # c => calls'[d] = calls[d]
    BY <1>0, DoneResult
  <1>2. Waiting({"load", "refresh", "delete"}) => Waiting({"load", "refresh", "delete"})'
    BY <1>1, WaitingSlot
  <1>3. Waiting({"page", "delete"}) => Waiting({"page", "delete"})'
    BY <1>1, WaitingSlot
  <1>4. Waiting({"visit"}) => Waiting({"visit"})'
    BY <1>1, WaitingSlot
  <1>5. dialog'.busy <=> Waiting({"dialog"})'
    <2>1. CASE calls[c].for = "dialog"
      <3>1. ~Waiting({"dialog"})'
        BY <1>0, <1>1, <2>1, AtMostOneSlot DEF BusyInv
      <3> QED
        BY <2>1, <3>1
    <2>2. CASE calls[c].for # "dialog"
      <3>1. Waiting({"dialog"})' <=> Waiting({"dialog"})
        BY <1>1, <2>2, WaitingSlot
      <3>2. dialog.busy <=> Waiting({"dialog"})
        BY Zenon DEF BusyInv
      <3> QED
        BY <2>2, <3>1, <3>2, Zenon
    <2> QED
      BY <2>1, <2>2
  <1>6. form'.submitting <=> Waiting({"form"})'
    <2>1. CASE calls[c].for = "form"
      <3>1. ~Waiting({"form"})'
        BY <1>0, <1>1, <2>1, AtMostOneSlot DEF BusyInv
      <3> QED
        BY <2>1, <3>1
    <2>2. CASE calls[c].for # "form"
      <3>1. Waiting({"form"})' <=> Waiting({"form"})
        BY <1>1, <2>2, WaitingSlot
      <3>2. form.submitting <=> Waiting({"form"})
        BY Zenon DEF BusyInv
      <3> QED
        BY <2>2, <3>1, <3>2, Zenon
    <2> QED
      BY <2>1, <2>2
  <1>7. /\ page'.loading => Waiting({"load", "refresh", "delete"})'
        /\ page'.deleting # 0 => Waiting({"page", "delete"})'
        /\ visit'.loading => Waiting({"visit"})'
        /\ view' = "shard" => ~visit'.loading
    BY <1>2, <1>3, <1>4, Zenon DEF BusyInv
  <1>8. view' = "node" =>
               ~page'.loading /\ page'.deleting = 0 /\ ~dialog'.busy /\ ~form'.submitting
    BY Zenon DEF BusyInv
  <1> QED
    BY <1>1, <1>5, <1>6, <1>7, <1>8, BusySlot, Zenon

(* Which handlers may be told of an answer.                                *)
LEMMA AwaitedKind ==
    ASSUME NEW r \in CallType, Awaits(r)
    PROVE  /\ r.op = "failover" => r.for \in {"dialog", "stray"}
           /\ r.op = "createNode" => r.for \in {"form", "stray"}
           /\ r.op = "removeShard" => r.for = "item"
           /\ r.op = "nodes" => r.for \in {"load", "refresh", "delete", "visit", "nodeSide"}
  BY CallFields DEF Awaits

(* A continuation of the shard page keeps the busy flags in step with the  *)
(* calls.                                                                  *)
LEMMA BusyShardContinue ==
    ASSUME TypeInv, BusyInv, view = "shard", NEW c \in Call, ShardContinue(c),
           UNCHANGED <<visit, view>>
    PROVE  BusyInv'
  <1>0. /\ page \in PageType /\ dialog \in DialogType /\ form \in FormType /\ calls \in CallSlots
        /\ ~visit'.loading /\ view' = "shard"
    BY DEF TypeInv, ShardTypes, BusyInv
  <1>1. CASE LoadDone(c)
    <2>1. /\ calls[c] \in CallType /\ EndLoading(c, Shown(c)) /\ calls[c].for \in {"load", "refresh"}
      BY <1>0, <1>1, AnsweredResult DEF LoadDone, AnsweredTo
    <2>2. Shown(c) \in PageType /\ Shown(c).deleting = page.deleting
      BY <1>0, <2>1, ShownResult
    <2> QED
      BY <2>1, <2>2, BusyEndLoading
  <1>2. CASE SideLoaded(c)
    <2>1. /\ calls[c] \in CallType /\ calls[c].for = "side" /\ Done(c)
          /\ UNCHANGED <<page, dialog, form>>
      BY <1>0, <1>2, AnsweredResult DEF SideLoaded, AnsweredTo
    <2> QED
      BY <2>1, BusyDone
  <1>3. CASE DeleteDone(c)
    <2>1. calls[c] \in CallType /\ calls[c].for = "page"
      BY <1>0, <1>3, AnsweredResult DEF DeleteDone, AnsweredTo
    <2>2. CASE EndLoading(c, [page EXCEPT !.deleting = 0])
      <3>1. [page EXCEPT !.deleting = 0] \in PageType /\ [page EXCEPT !.deleting = 0].deleting = 0
        BY <1>0 DEF PageType
      <3> QED
        BY <2>1, <2>2, <3>1, BusyEndLoading
    <2>3. CASE StartFetch(c, "delete")
      BY <2>1, <2>3, BusyStartFetch
    <2> QED
      BY <1>3, <2>2, <2>3 DEF DeleteDone
  <1>4. CASE DeleteFetched(c)
    <2>1. /\ calls[c] \in CallType /\ calls[c].for = "delete"
          /\ EndLoading(c, [Shown(c) EXCEPT !.deleting = 0])
      BY <1>0, <1>4, AnsweredResult DEF DeleteFetched, AnsweredTo
    <2>2. Shown(c) \in PageType
      BY <1>0, <2>1, ShownResult
    <2>3. [Shown(c) EXCEPT !.deleting = 0] \in PageType /\ [Shown(c) EXCEPT !.deleting = 0].deleting = 0
      BY <2>2 DEF PageType
    <2> QED
      BY <2>1, <2>3, BusyEndLoading
  <1>5. CASE FailoverDone(c)
    <2>1. calls[c] \in CallType /\ calls[c].op = "failover"
      BY <1>0, <1>5, AnsweredResult DEF FailoverDone
    <2>2. calls[c].for \in {"dialog", "stray"}
      BY <2>1, AwaitedKind, CallFields DEF BusyInv
    <2>3. CASE /\ dialog' = IF calls[c].for = "dialog" THEN [dialog EXCEPT !.busy = FALSE] ELSE dialog
               /\ Done(c) /\ UNCHANGED <<page, side, form>>
      <3>1. /\ calls[c].for = "dialog" => ~dialog'.busy
            /\ calls[c].for # "dialog" => dialog' = dialog
        BY <1>0, <2>3 DEF DialogType
      <3>2. /\ (dialog'.busy <=> dialog.busy) \/ (calls[c].for = "dialog" /\ ~dialog'.busy)
            /\ calls[c].for \notin {"load", "refresh", "delete", "page", "visit"}
            /\ UNCHANGED <<page, visit, view>> /\ Done(c)
        BY <2>2, <2>3, <3>1
      <3>3. (form'.submitting <=> form.submitting) /\ calls[c].for # "form"
        BY <2>2, <2>3
      <3> QED
        BY <2>1, <3>1, <3>2, <3>3, BusyDone
    <2>4. CASE StartFetch(c, "refresh")
      BY <2>1, <2>2, <2>4, BusyStartFetch
    <2> QED
      BY <1>5, <2>3, <2>4 DEF FailoverDone
  <1>6. CASE FormDone(c)
    <2>1. calls[c] \in CallType /\ calls[c].op = "createNode"
      BY <1>0, <1>6, AnsweredResult DEF FormDone
    <2>2. calls[c].for \in {"form", "stray"}
      BY <2>1, AwaitedKind, CallFields DEF BusyInv
    <2>3. CASE Open
      BY <1>0, <2>3, BusyOpen
    <2>4. CASE /\ IF calls[c].for = "form" THEN EndSubmit(handleError) ELSE UNCHANGED form
               /\ Done(c) /\ UNCHANGED <<page, dialog, side>>
      <3>1. /\ calls[c].for = "form" => ~form'.submitting
            /\ calls[c].for # "form" => form' = form
        <4>1. ASSUME NEW b \in BOOLEAN PROVE ~[open |-> b, submitting |-> FALSE].submitting
          OBVIOUS
        <4>2. (form.open /\ handleError # "") \in BOOLEAN
          OBVIOUS
        <4>3. IF calls[c].for = "form"
              THEN form' = [open |-> form.open /\ handleError # "", submitting |-> FALSE]
              ELSE form' = form
          BY <2>4, Zenon DEF EndSubmit
        <4> QED
          BY <4>1, <4>2, <4>3, Zenon
      <3>2. /\ (form'.submitting <=> form.submitting) \/ (calls[c].for = "form" /\ ~form'.submitting)
            /\ calls[c].for \notin {"load", "refresh", "delete", "page", "visit", "dialog"}
            /\ UNCHANGED <<page, dialog>> /\ Done(c)
        BY <2>2, <2>4, <3>1
      <3> QED
        BY <2>1, <3>1, <3>2, BusyDone
    <2> QED
      BY <1>6, <2>3, <2>4 DEF FormDone
  <1>7. CASE ConfirmDone(c)
    <2>1. calls[c] \in CallType /\ calls[c].op = "removeShard"
      BY <1>0, <1>7, AnsweredResult DEF ConfirmDone
    <2>2. calls[c].for = "item"
      BY <2>1, AwaitedKind, CallFields DEF BusyInv
    <2>3. CASE Open
      BY <1>0, <2>3, BusyOpen
    <2>4. CASE Done(c) /\ UNCHANGED shardVars
      BY <2>1, <2>2, <2>4, BusyDone DEF shardVars
    <2> QED
      BY <1>7, <2>3, <2>4 DEF ConfirmDone
  <1> QED
    BY <1>1, <1>2, <1>3, <1>4, <1>5, <1>6, <1>7 DEF ShardContinue

(* A request is sent from a free place.                                    *)
LEMMA BusySend ==
    ASSUME BusyInv, NEW c \in Call, calls[c] = NoCall,
           \A d \in Call : d # c => calls'[d] = calls[d],
           calls'[c] \in CallType, Awaits(calls'[c]),
           page'.loading = page.loading, UNCHANGED <<visit, view>>,
           page'.deleting = page.deleting \/ calls'[c].for = "page",
           view = "shard" \/ (calls'[c].for = "nodeItem" /\ UNCHANGED <<page, dialog, form>>),
           IF calls'[c].for = "dialog" THEN ~dialog.busy /\ dialog'.busy ELSE dialog' = dialog,
           IF calls'[c].for = "form" THEN ~form.submitting /\ form'.submitting ELSE form' = form
    PROVE  BusyInv'
  <1>0. calls'[c] # NoCall
    BY NoCallAssumption
  <1>1. /\ Waiting({"load", "refresh", "delete"}) => Waiting({"load", "refresh", "delete"})'
        /\ Waiting({"visit"}) => Waiting({"visit"})'
        /\ Waiting({"page", "delete"}) => Waiting({"page", "delete"})'
    BY DEF Waiting
  <1>2. page'.deleting # 0 => Waiting({"page", "delete"})'
    <2>1. CASE page'.deleting = page.deleting
      BY <1>1, <2>1 DEF BusyInv
    <2>2. CASE calls'[c].for = "page"
      BY <1>0, <2>2 DEF Waiting
    <2> QED
      BY <2>1, <2>2
  <1>3. (dialog.busy <=> Waiting({"dialog"})) /\ (form.submitting <=> Waiting({"form"}))
    BY Zenon DEF BusyInv
  <1>4. (dialog'.busy <=> Waiting({"dialog"})') /\ (calls'[c].for # "dialog" \/ ~Waiting({"dialog"}))
    <2>1. CASE calls'[c].for = "dialog"
      <3>1. Waiting({"dialog"})'
        BY <1>0, <2>1 DEF Waiting
      <3> QED
        BY <1>3, <2>1, <3>1
    <2>2. CASE calls'[c].for # "dialog"
      <3>1. Waiting({"dialog"})' <=> Waiting({"dialog"})
        BY <2>2, WaitingSlot
      <3>2. dialog' = dialog
        BY <2>2
      <3> QED
        BY <1>3, <2>2, <3>1, <3>2, Zenon
    <2> QED
      BY <2>1, <2>2
  <1>5. (form'.submitting <=> Waiting({"form"})') /\ (calls'[c].for # "form" \/ ~Waiting({"form"}))
    <2>1. CASE calls'[c].for = "form"
      <3>1. Waiting({"form"})'
        BY <1>0, <2>1 DEF Waiting
      <3> QED
        BY <1>3, <2>1, <3>1
    <2>2. CASE calls'[c].for # "form"
      <3>1. Waiting({"form"})' <=> Waiting({"form"})
        BY <2>2, WaitingSlot
      <3>2. form' = form
        BY <2>2
      <3> QED
        BY <1>3, <2>2, <3>1, <3>2, Zenon
    <2> QED
      BY <2>1, <2>2
  <1>6. /\ page'.loading => Waiting({"load", "refresh", "delete"})'
        /\ visit'.loading => Waiting({"visit"})'
        /\ view' = "shard" => ~visit'.loading
    BY <1>1, Zenon DEF BusyInv
  <1>7. view' = "node" =>
               ~page'.loading /\ page'.deleting = 0 /\ ~dialog'.busy /\ ~form'.submitting
    <2>1. CASE view = "shard"
      BY <2>1
    <2>2. CASE UNCHANGED <<page, dialog, form>>
      BY <2>2, Zenon DEF BusyInv
    <2> QED
      BY <2>1, <2>2
  <1> QED
    BY <1>2, <1>4, <1>5, <1>6, <1>7, BusySlot, Zenon

(* At the start the page loads, and it waits for one call.                 *)
LEMMA BusyInit == Init => BusyInv
  <1> SUFFICES ASSUME Init PROVE BusyInv
    OBVIOUS
  <1> DEFINE r == FetchShard("load")
  <1>1. r \in CallType /\ r # NoCall /\ r.op = "nodes" /\ r.for = "load"
    BY FetchShardResult
  <1>2. calls = Only(r)
    BY DEF Init
  <1> HIDE DEF r
  <1>3. First \in Call /\ calls[First] = r /\ \A c \in Call : c # First => calls[c] = NoCall
    BY <1>1, <1>2, OnlyResult
  <1>4. Waiting({"load", "refresh", "delete"}) /\ ~Waiting({"dialog"}) /\ ~Waiting({"form"})
    BY <1>1, <1>3 DEF Waiting
  <1>5. AtMostOne("dialog") /\ AtMostOne("form")
    BY <1>1, <1>3 DEF AtMostOne
  <1>6. \A c \in Call : calls[c] # NoCall => Awaits(calls[c])
    BY <1>1, <1>3 DEF Awaits
  <1>7. page.deleting = 0 /\ ~dialog.busy /\ ~form.submitting /\ ~visit.loading /\ view # "node"
    BY NoVisitType DEF Init, Loading, NoDialog, NoForm
  <1> QED
    BY <1>4, <1>5, <1>6, <1>7, Zenon DEF BusyInv

(* Every step keeps the busy flags in step with the calls.                 *)
LEMMA BusyStep == TypeInv /\ BusyInv /\ [Next]_vars => BusyInv'
  <1> SUFFICES ASSUME TypeInv, BusyInv, [Next]_vars PROVE BusyInv'
    OBVIOUS
  <1>0. ServerInv /\ ShardTypes /\ visit \in VisitType /\ calls \in CallSlots
    BY DEF TypeInv
  <1>1. CASE UNCHANGED <<shardVars, visit, view, calls>>
    <2>1. UNCHANGED <<page, dialog, form, visit, view, calls>>
      BY <1>1 DEF shardVars
    <2>2. \A for : (Waiting(for)' <=> Waiting(for)) /\ (AtMostOne(for)' <=> AtMostOne(for))
      BY <2>1 DEF Waiting, AtMostOne
    <2>3. \A d \in Call : calls'[d] # NoCall => Awaits(calls'[d])
      BY <2>1 DEF BusyInv
    <2> QED
      BY <2>1, <2>2, <2>3, Zenon DEF BusyInv
  <1>2. ASSUME NEW c \in Call, Serve(c), UNCHANGED <<shardVars, visit, view>>
        PROVE  BusyInv'
    <2>1. /\ calls[c] # NoCall /\ calls'[c] # NoCall
          /\ calls'[c].op = calls[c].op /\ calls'[c].for = calls[c].for
          /\ \A d \in Call : d # c => calls'[d] = calls[d]
      BY <1>0, <1>2, ServeResult, NoCallAssumption DEF Answers
    <2>2. \A d \in Call : /\ calls'[d] = NoCall <=> calls[d] = NoCall
                          /\ calls'[d].op = calls[d].op /\ calls'[d].for = calls[d].for
      BY <2>1
    <2>3. \A for : Waiting(for)' <=> Waiting(for)
      BY <2>2 DEF Waiting
    <2>4. \A for : AtMostOne(for)' <=> AtMostOne(for)
      BY <2>2 DEF AtMostOne
    <2>5. \A d \in Call : calls'[d] # NoCall => Awaits(calls'[d])
      <3> SUFFICES ASSUME NEW d \in Call, calls'[d] # NoCall PROVE Awaits(calls'[d])
        OBVIOUS
      <3>1. Awaits(calls[d])
        BY <2>2 DEF BusyInv
      <3>2. calls'[d].op = calls[d].op /\ calls'[d].for = calls[d].for
        BY <2>2
      <3> QED
        BY <3>1, <3>2, Zenon DEF Awaits
    <2>6. UNCHANGED <<page, dialog, form, visit, view>>
      BY <1>2 DEF shardVars
    <2> QED
      BY <2>3, <2>4, <2>5, <2>6, Zenon DEF BusyInv
  <1>3. ASSUME NEW c \in Call, view = "shard", ShardContinue(c), UNCHANGED <<visit, view>>
        PROVE  BusyInv'
    BY <1>3, BusyShardContinue
  <1>4. ASSUME NEW c \in Call, view = "shard", ShardUser(c), UNCHANGED <<visit, view>>
        PROVE  BusyInv'
    <2>1. CASE DeleteClick(c)
      <3>1. /\ calls[c] = NoCall /\ \A d \in Call : d # c => calls'[d] = calls[d]
            /\ calls'[c] \in CallType /\ calls'[c].op = "removeNode" /\ calls'[c].for = "page"
            /\ page' = [page EXCEPT !.deleting = page'.deleting] /\ UNCHANGED <<dialog, form>>
        BY <1>0, <2>1, DeleteClickResult
      <3>2. Awaits(calls'[c])
        BY <3>1 DEF Awaits
      <3>3. page'.loading = page.loading
        BY <1>0, <3>1 DEF ShardTypes, PageType
      <3> QED
        BY <1>4, <3>1, <3>2, <3>3, BusySend
    <2>2. CASE handleFailover(c) \/ SubmitForm(c) \/ confirmDelete(c)
      <3>1. /\ calls[c] = NoCall /\ \A d \in Call : d # c => calls'[d] = calls[d]
            /\ calls'[c] \in CallType /\ UNCHANGED page
            /\ \/ /\ calls'[c].op = "failover" /\ calls'[c].for = "dialog"
                  /\ ~dialog.busy /\ dialog'.busy /\ UNCHANGED form
               \/ /\ calls'[c].op = "createNode" /\ calls'[c].for = "form"
                  /\ ~form.submitting /\ form'.submitting /\ UNCHANGED dialog
               \/ /\ calls'[c].op = "removeShard" /\ calls'[c].for = "item"
                  /\ UNCHANGED <<dialog, form>>
        BY <1>0, <2>2, OtherRequestsResult
      <3>2. Awaits(calls'[c])
        BY <3>1 DEF Awaits
      <3> QED
        BY <1>4, <3>1, <3>2, BusySend
    <2> QED
      BY <1>4, <2>1, <2>2 DEF ShardUser
  <1>5. CASE ShardClick /\ UNCHANGED <<visit, view>>
    <2>1. /\ UNCHANGED <<page, calls, visit, view>>
          /\ dialog'.busy = dialog.busy /\ form'.submitting = form.submitting
      BY <1>0, <1>5, ShardClickResult
    <2>2. \A for : Waiting(for)' <=> Waiting(for)
      BY <2>1 DEF Waiting
    <2>3. \A for : AtMostOne(for)' <=> AtMostOne(for)
      BY <2>1 DEF AtMostOne
    <2> QED
      BY <2>1, <2>2, <2>3, Zenon DEF BusyInv
  <1>6. ASSUME NEW c \in Call, view = "node", NodeContinue(c), UNCHANGED <<shardVars, view>>
        PROVE  BusyInv'
    <2>0. UNCHANGED <<page, dialog, form>>
      BY <1>6 DEF shardVars
    <2>1. CASE NodeLoaded(c)
      <3>1. /\ calls[c].for = "visit" /\ calls'[c] = NoCall /\ ~visit'.loading
            /\ \A d \in Call : d # c => calls'[d] = calls[d]
        BY <1>0, <2>1, NodeLoadedResult
      <3>2. Waiting({"dialog"})' <=> Waiting({"dialog"})
        BY <3>1, WaitingSlot
      <3>3. Waiting({"form"})' <=> Waiting({"form"})
        BY <3>1, WaitingSlot
      <3>4. ~page.loading /\ page.deleting = 0 /\ ~dialog.busy /\ ~form.submitting
        BY <1>6 DEF BusyInv
      <3>5. (dialog'.busy <=> Waiting({"dialog"})') /\ (form'.submitting <=> Waiting({"form"})')
        BY <2>0, <3>2, <3>3, Zenon DEF BusyInv
      <3> QED
        BY <2>0, <3>1, <3>4, <3>5, BusySlot, Zenon
    <2>2. CASE NodeSideLoaded(c)
      <3>1. /\ calls[c].for = "nodeSide" /\ calls'[c] = NoCall /\ visit'.loading = visit.loading
            /\ \A d \in Call : d # c => calls'[d] = calls[d]
        BY <1>0, <2>2, NodeSideLoadedResult
      <3>2. Waiting({"dialog"})' <=> Waiting({"dialog"})
        BY <3>1, WaitingSlot
      <3>3. Waiting({"form"})' <=> Waiting({"form"})
        BY <3>1, WaitingSlot
      <3>4. Waiting({"visit"})' <=> Waiting({"visit"})
        BY <3>1, WaitingSlot
      <3>5. ~page.loading /\ page.deleting = 0 /\ ~dialog.busy /\ ~form.submitting
        BY <1>6 DEF BusyInv
      <3>6. (dialog'.busy <=> Waiting({"dialog"})') /\ (form'.submitting <=> Waiting({"form"})')
        BY <2>0, <3>2, <3>3, Zenon DEF BusyInv
      <3>7. (visit'.loading => Waiting({"visit"})') /\ view' # "shard"
        BY <1>6, <3>1, <3>4 DEF BusyInv
      <3> QED
        BY <2>0, <3>1, <3>5, <3>6, <3>7, BusySlot, Zenon
    <2>3. CASE ItemRefused(c)
      <3>1. calls[c] \in CallType /\ calls[c].for = "nodeItem" /\ Done(c) /\ UNCHANGED visit
        BY <1>0, <2>3, AnsweredResult DEF ItemRefused, AnsweredTo
      <3> QED
        BY <1>6, <2>0, <3>1, BusyDone
    <2> QED
      BY <1>6, <2>1, <2>2, <2>3 DEF NodeContinue
  <1>7. ASSUME NEW c \in Call, view = "node", confirmDeleteNode(c), UNCHANGED <<shardVars, view>>
        PROVE  BusyInv'
    <2>1. /\ calls[c] = NoCall /\ UNCHANGED visit /\ \A d \in Call : d # c => calls'[d] = calls[d]
          /\ calls'[c] \in CallType /\ calls'[c].op = "removeNode" /\ calls'[c].for = "nodeItem"
      BY <1>0, <1>7, ConfirmDeleteNodeResult
    <2>2. Awaits(calls'[c])
      BY <2>1 DEF Awaits
    <2>3. UNCHANGED <<page, dialog, form>>
      BY <1>7 DEF shardVars
    <2> QED
      BY <1>7, <2>1, <2>2, <2>3, BusySend
  <1>8. CASE view = "node" /\ NodeClick /\ UNCHANGED <<shardVars, view>>
    <2>0. UNCHANGED <<page, dialog, form>>
      BY <1>8 DEF shardVars
    <2>1. CASE FollowItem
      <3>1. ~page'.loading /\ page'.deleting = 0 /\ ~dialog'.busy /\ ~form'.submitting
        BY <1>8, <2>0 DEF BusyInv
      <3> QED
        BY <1>0, <1>8, <2>1, <3>1, FollowItemResult, BusyGoTo
    <2>2. CASE AskNodeRemoval \/ CancelNodeRemoval
      <3>1. visit' = [visit EXCEPT !.confirm = visit'.confirm] /\ UNCHANGED calls
        BY <1>0, <2>2, AskNodeRemovalResult
      <3>2. visit'.loading = visit.loading
        BY <1>0, <3>1 DEF VisitType
      <3>3. \A for : Waiting(for)' <=> Waiting(for)
        BY <3>1 DEF Waiting
      <3>4. \A for : AtMostOne(for)' <=> AtMostOne(for)
        BY <3>1 DEF AtMostOne
      <3> QED
        BY <1>8, <2>0, <3>1, <3>2, <3>3, <3>4, Zenon DEF BusyInv
    <2> QED
      BY <1>8, <2>1, <2>2 DEF NodeClick
  <1>9. CASE FollowLink
    <2>1. /\ page' = [Loading EXCEPT !.loading = FALSE] /\ ~dialog'.busy /\ ~form'.submitting
          /\ view' = "node"
          /\ \E p \in Nat, n \in Node \cup {0}, from \in Nat, seen \in Nat : GoTo(p, n, from, seen)
      BY <1>0, <1>9, FollowLinkResult
    <2>2. ~page'.loading /\ page'.deleting = 0
      BY <2>1 DEF Loading
    <2> QED
      BY <2>1, <2>2, BusyGoTo
  <1>10. CASE view' = "shard" /\ visit' = NoVisit /\ Open
    BY <1>10, BusyOpen, NoVisitType
  <1>11. CASE UNCHANGED vars
    BY <1>1, <1>11 DEF vars
  <1>12. CASE Next
    BY <1>1, <1>2, <1>3, <1>4, <1>5, <1>6, <1>7, <1>8, <1>9, <1>10, <1>12, NextCases, ZenonT(60)
  <1> QED
    BY <1>11, <1>12

(* Spinner, disabled button, busy dialog and busy form each stand for a    *)
(* request that is outstanding, and a mounted dialog or form has one at    *)
(* most, whatever unmounts them and in whatever order the answers come.    *)
THEOREM BusyCorrect == Spec => []BusyIsOutstanding
  <1>1. TypeInv /\ BusyInv => BusyIsOutstanding
    <2> SUFFICES ASSUME TypeInv, BusyInv PROVE BusyIsOutstanding
      OBVIOUS
    <2>1. \A for : Waiting(for) <=> AwaitedBy(for) # {}
      BY DEF Waiting, AwaitedBy
    <2>2. page.loading => \E c \in AwaitedBy({"load", "refresh", "delete"}) : calls[c].op = "nodes"
      BY DEF BusyInv, Waiting, AwaitedBy, Awaits
    <2>3. \A for \in {"dialog", "form"} : AtMostOne(for)
      BY DEF BusyInv
    <2>4. \A for \in {"dialog", "form"} : \A c, d \in AwaitedBy({for}) : c = d
      BY <2>3 DEF AwaitedBy, AtMostOne
    <2> QED
      BY <2>1, <2>2, <2>4, Zenon DEF BusyInv, BusyIsOutstanding
  <1> QED
    BY <1>1, TypeInit, TypeStep, BusyInit, BusyStep, PTL DEF Spec
==============================================================================
