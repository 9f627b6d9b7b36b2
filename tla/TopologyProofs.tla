--------------------------- MODULE TopologyProofs ---------------------------
(***************************************************************************)
(* The edits of Topology turn sound topologies into sound topologies, for  *)
(* any number of slots, shards and nodes.                                  *)
(*                                                                         *)
(* The lists of ranges of SlotLists implement the sets of slots that       *)
(* Topology has in their place, for every slot space, every number of      *)
(* shards and every import: what AddSlotToSlotRanges and                   *)
(* RemoveSlotFromSlotRanges return, whatever order sort.Slice leaves       *)
(* ranges of one start in, and from it the invariants of MigrateSlot.      *)
(***************************************************************************)
EXTENDS Topology, SlotLists, SequenceTheorems, WellFoundedInduction, TLAPS

-----------------------------------------------------------------------------
(* Slots *)

(* The slots of a range that NewSlotRange accepts are slots.               *)
LEMMA SlotsInSlot ==
    ASSUME NEW r \in SlotRange
    PROVE  SlotsIn(r) \in SUBSET Slot
  BY MaxSlotIDAssumption DEF SlotsIn, SlotRange, Slot

(* Replacing one shard of a list leaves a list of the same shards          *)
(* elsewhere (the in-place assignments to cluster.Shards[i]).              *)
LEMMA ReplaceShard ==
    ASSUME NEW shards \in Seq(Shard), NEW i \in DOMAIN shards, NEW shard \in Shard,
           NEW edited, edited = [shards EXCEPT ![i] = shard]
    PROVE  /\ edited \in Seq(Shard)
           /\ DOMAIN edited = DOMAIN shards
           /\ edited[i] = shard
           /\ \A j \in DOMAIN shards : j # i => edited[j] = shards[j]
  <1>1. i \in 1 .. Len(shards) /\ DOMAIN shards = 1 .. Len(shards)
    BY LenProperties
  <1>2. [shards EXCEPT ![i] = shard] \in Seq(Shard)
    BY <1>1, ExceptSeq
  <1>3. QED
    BY <1>1, <1>2

(* Under complete ownership, the only shard that touches a slot range owns *)
(* the whole of it (findShardIndexBySlot).                                 *)
LEMMA SourceOwnsRange ==
    ASSUME NEW shards \in Seq(Shard), OwnsEverySlotOnce(shards), NEW slot \in SlotRange,
           NEW source \in SourceShards(SlotsOfShards(shards), slot)
    PROVE  source \in DOMAIN shards /\ SlotsIn(slot) \subseteq shards[source].slots
  <1>1. /\ source \in DOMAIN shards
        /\ \A j \in DOMAIN shards \ {source} : shards[j].slots \cap SlotsIn(slot) = {}
    BY DEF SourceShards, SlotsOfShards
  <1>2. QED
    BY <1>1, SlotsInSlot DEF OwnsEverySlotOnce

(* moved is shards with the slots of a range gone from the source and      *)
(* added to the target.                                                    *)
IsMove(shards, source, target, slot, moved) ==
    /\ moved \in Seq(Shard)
    /\ DOMAIN moved = DOMAIN shards
    /\ \A j \in DOMAIN shards :
         /\ j = target => moved[j].slots = shards[j].slots \cup SlotsIn(slot)
         /\ j = source /\ j # target => moved[j].slots = shards[j].slots \ SlotsIn(slot)
         /\ j \notin {source, target} => moved[j].slots = shards[j].slots
         /\ moved[j].masters = shards[j].masters
         /\ moved[j].slaves = shards[j].slaves
         /\ moved[j].migrating = shards[j].migrating
         /\ moved[j].target = shards[j].target

(* MoveSlots is such a move, also when the source and the target are the   *)
(* same shard.                                                             *)
LEMMA MoveSlotsResult ==
    ASSUME NEW shards \in Seq(Shard), NEW slot \in SlotRange,
           NEW source \in DOMAIN shards, NEW target \in DOMAIN shards,
           NEW moved, moved = MoveSlots(shards, source, target, slot)
    PROVE  IsMove(shards, source, target, slot, moved)
  <1> DEFINE removed == [shards EXCEPT ![source].slots = @ \ SlotsIn(slot)]
             S == SlotsIn(slot)
  <1>0. \A j \in DOMAIN shards : shards[j] \in Shard
    BY ElementOfSeq, LenProperties
  <1>1. [shards[source] EXCEPT !.slots = @ \ S] \in Shard
    BY <1>0, Zenon DEF Shard
  <1>2. /\ removed \in Seq(Shard)
        /\ DOMAIN removed = DOMAIN shards
        /\ removed[source] = [shards[source] EXCEPT !.slots = @ \ S]
        /\ \A j \in DOMAIN shards : j # source => removed[j] = shards[j]
    <2> DEFINE shard == [shards[source] EXCEPT !.slots = @ \ S]
    <2>1. removed = [shards EXCEPT ![source] = shard]
      OBVIOUS
    <2> HIDE DEF shard, removed
    <2>2. shard \in Shard
      BY <1>1 DEF shard
    <2>3. /\ removed \in Seq(Shard)
          /\ DOMAIN removed = DOMAIN shards
          /\ removed[source] = shard
          /\ \A j \in DOMAIN shards : j # source => removed[j] = shards[j]
      BY <2>1, <2>2, ReplaceShard
    <2>4. QED
      BY <2>3 DEF shard
  <1>3. removed[target] \in Shard
    BY <1>2, <1>1, <1>0
  <1>4. [removed[target] EXCEPT !.slots = @ \cup S] \in Shard
    BY <1>3, SlotsInSlot, Zenon DEF Shard
  <1>5. moved = [removed EXCEPT ![target] = [removed[target] EXCEPT !.slots = @ \cup S]]
    BY DEF MoveSlots
  <1>6. /\ moved \in Seq(Shard)
        /\ DOMAIN moved = DOMAIN shards
        /\ moved[target] = [removed[target] EXCEPT !.slots = @ \cup S]
        /\ \A j \in DOMAIN shards : j # target => moved[j] = removed[j]
    <2> DEFINE shard == [removed[target] EXCEPT !.slots = @ \cup S]
    <2> HIDE DEF shard, removed
    <2>1. moved = [removed EXCEPT ![target] = shard] /\ shard \in Shard
      BY <1>4, <1>5 DEF shard
    <2>2. /\ moved \in Seq(Shard)
          /\ DOMAIN moved = DOMAIN removed
          /\ moved[target] = shard
          /\ \A j \in DOMAIN removed : j # target => moved[j] = removed[j]
      BY <1>2, <2>1, ReplaceShard
    <2>3. QED
      BY <1>2, <2>2 DEF shard
  <1> HIDE DEF removed, S
  <1>7. ASSUME NEW j \in DOMAIN shards
        PROVE  /\ j = target => moved[j].slots = shards[j].slots \cup S
               /\ j = source /\ j # target => moved[j].slots = shards[j].slots \ S
               /\ j \notin {source, target} => moved[j].slots = shards[j].slots
               /\ moved[j].masters = shards[j].masters
               /\ moved[j].slaves = shards[j].slaves
               /\ moved[j].migrating = shards[j].migrating
               /\ moved[j].target = shards[j].target
    <2>1. CASE j = target /\ j = source
      <3>0. /\ removed[j].slots = shards[j].slots \ S
            /\ removed[j].masters = shards[j].masters
            /\ removed[j].slaves = shards[j].slaves
            /\ removed[j].migrating = shards[j].migrating
            /\ removed[j].target = shards[j].target
        BY <1>0, <1>2, <2>1 DEF Shard
      <3>1. /\ moved[j].slots = removed[j].slots \cup S
            /\ moved[j].masters = removed[j].masters
            /\ moved[j].slaves = removed[j].slaves
            /\ moved[j].migrating = removed[j].migrating
            /\ moved[j].target = removed[j].target
        BY <1>3, <1>6, <2>1 DEF Shard
      <3>2. moved[j].slots = shards[j].slots \cup S
        BY <3>0, <3>1
      <3>3. QED
        BY <2>1, <3>0, <3>1, <3>2
    <2>2. CASE j = target /\ j # source
      BY <1>0, <1>2, <1>6, <2>2 DEF Shard
    <2>3. CASE j # target /\ j = source
      BY <1>0, <1>2, <1>6, <2>3 DEF Shard
    <2>4. CASE j \notin {source, target}
      BY <1>2, <1>6, <2>4
    <2>5. QED
      BY <2>1, <2>2, <2>3, <2>4
  <1>8. QED
    BY <1>6, <1>7 DEF S, IsMove

(* ClearMigrateState changes nothing but the two fields of one shard.      *)
LEMMA ClearResult ==
    ASSUME NEW shards \in Seq(Shard), NEW i \in DOMAIN shards,
           NEW cleared, cleared = ClearMigrateState(shards, i)
    PROVE  /\ cleared \in Seq(Shard)
           /\ DOMAIN cleared = DOMAIN shards
           /\ cleared[i].slots = shards[i].slots
           /\ cleared[i].masters = shards[i].masters
           /\ cleared[i].slaves = shards[i].slaves
           /\ ~IsMigrating(cleared[i])
           /\ \A j \in DOMAIN shards : j # i => cleared[j] = shards[j]
  <1> DEFINE shard == [shards[i] EXCEPT !.migrating = NotMigrating, !.target = NoTarget]
  <1>1. shards[i] \in Shard
    BY LenProperties
  <1>2. shard \in Shard
    BY <1>1, Zenon DEF Shard, NoTarget
  <1>3. cleared = [shards EXCEPT ![i] = shard]
    BY <1>1, Zenon DEF ClearMigrateState, Shard
  <1> HIDE DEF shard
  <1>4. /\ cleared \in Seq(Shard)
        /\ DOMAIN cleared = DOMAIN shards
        /\ cleared[i] = shard
        /\ \A j \in DOMAIN shards : j # i => cleared[j] = shards[j]
    BY <1>2, <1>3, ReplaceShard
  <1>5. QED
    BY <1>1, <1>4 DEF shard, Shard, IsMigrating

(* Who owns a slot depends on nothing but the slots of the shards.         *)
LEMMA SameSlots ==
    ASSUME NEW shards, NEW edited, OwnsEverySlotOnce(shards),
           DOMAIN edited = DOMAIN shards,
           \A j \in DOMAIN shards : edited[j].slots = shards[j].slots
    PROVE  OwnsEverySlotOnce(edited)
  <1>1. ASSUME NEW s \in Slot
        PROVE  \E o \in DOMAIN edited : \A j \in DOMAIN edited : s \in edited[j].slots <=> j = o
    <2>1. PICK o \in DOMAIN shards : \A j \in DOMAIN shards : s \in shards[j].slots <=> j = o
      BY DEF OwnsEverySlotOnce
    <2>2. \A j \in DOMAIN edited : s \in edited[j].slots <=> j = o
      BY <2>1
    <2>3. QED
      BY <2>2
  <1>2. QED
    BY <1>1 DEF OwnsEverySlotOnce

(* A shard that has been cleared is not migrating.                         *)
LEMMA ClearKeepsSound ==
    ASSUME NEW shards \in Seq(Shard), NEW i \in DOMAIN shards,
           OwnsEverySlotOnce(shards),
           \A j \in DOMAIN shards \ {i} : IsMigrating(shards[j]) =>
                SlotsIn(shards[j].migrating) \subseteq shards[j].slots,
           \A j \in DOMAIN shards : HasOneMaster(shards[j]),
           NEW cleared, cleared = ClearMigrateState(shards, i)
    PROVE  cleared \in Seq(Shard) /\ Sound(cleared) /\ ~IsMigrating(cleared[i])
  <1>1. /\ cleared \in Seq(Shard)
        /\ DOMAIN cleared = DOMAIN shards
        /\ cleared[i].slots = shards[i].slots
        /\ cleared[i].masters = shards[i].masters
        /\ cleared[i].slaves = shards[i].slaves
        /\ ~IsMigrating(cleared[i])
        /\ \A j \in DOMAIN shards : j # i => cleared[j] = shards[j]
    BY ClearResult
  <1>2. OwnsEverySlotOnce(cleared)
    <2>1. \A j \in DOMAIN shards : cleared[j].slots = shards[j].slots
      BY <1>1
    <2>2. QED
      BY <1>1, <2>1, SameSlots
  <1>3. MigratesOwnSlots(cleared)
    BY <1>1 DEF MigratesOwnSlots
  <1>4. \A j \in DOMAIN cleared : HasOneMaster(cleared[j])
    BY <1>1 DEF HasOneMaster
  <1>5. QED
    BY <1>1, <1>2, <1>3, <1>4 DEF Sound

(* Moving a range that the source owns keeps everything but the pending    *)
(* migration of the source itself in order.                                *)
LEMMA MoveKeepsSlots ==
    ASSUME NEW shards \in Seq(Shard), Sound(shards), NEW slot \in SlotRange,
           NEW source \in DOMAIN shards, NEW target \in DOMAIN shards,
           SlotsIn(slot) \subseteq shards[source].slots,
           NEW moved, moved = MoveSlots(shards, source, target, slot)
    PROVE  /\ moved \in Seq(Shard)
           /\ DOMAIN moved = DOMAIN shards
           /\ OwnsEverySlotOnce(moved)
           /\ \A j \in DOMAIN moved \ {source} : IsMigrating(moved[j]) =>
                SlotsIn(moved[j].migrating) \subseteq moved[j].slots
           /\ \A j \in DOMAIN moved : HasOneMaster(moved[j])
           /\ IsMigrating(moved[source]) => IsMigrating(shards[source])
  <1> DEFINE S == SlotsIn(slot)
  <1>0. IsMove(shards, source, target, slot, moved)
    BY MoveSlotsResult
  <1>1. /\ moved \in Seq(Shard)
        /\ DOMAIN moved = DOMAIN shards
        /\ \A j \in DOMAIN shards :
             /\ j = target => moved[j].slots = shards[j].slots \cup SlotsIn(slot)
             /\ j = source /\ j # target => moved[j].slots = shards[j].slots \ SlotsIn(slot)
             /\ j \notin {source, target} => moved[j].slots = shards[j].slots
             /\ moved[j].masters = shards[j].masters
             /\ moved[j].slaves = shards[j].slaves
             /\ moved[j].migrating = shards[j].migrating
             /\ moved[j].target = shards[j].target
    BY <1>0 DEF IsMove
  <1>4. OwnsEverySlotOnce(moved)
    <2> SUFFICES ASSUME NEW s \in Slot
                 PROVE  \E i \in DOMAIN moved :
                            \A j \in DOMAIN moved : s \in moved[j].slots <=> j = i
      BY DEF OwnsEverySlotOnce
    <2>1. PICK i \in DOMAIN shards : \A j \in DOMAIN shards : s \in shards[j].slots <=> j = i
      BY DEF Sound, OwnsEverySlotOnce
    <2>2. CASE s \in S
      <3>1. i = source
        BY <2>1, <2>2
      <3>2. \A j \in DOMAIN moved : s \in moved[j].slots <=> j = target
        BY <1>1, <2>1, <2>2, <3>1
      <3>3. QED
        BY <1>1, <3>2
    <2>3. CASE s \notin S
      <3>1. \A j \in DOMAIN moved : s \in moved[j].slots <=> s \in shards[j].slots
        BY <1>1, <2>3
      <3>2. QED
        <4>1. i \in DOMAIN moved /\ \A j \in DOMAIN moved : s \in moved[j].slots <=> j = i
          BY <1>1, <2>1, <3>1
        <4>2. QED
          BY <4>1
    <2>4. QED
      BY <2>2, <2>3
  <1>5. ASSUME NEW j \in DOMAIN moved \ {source}, IsMigrating(moved[j])
        PROVE  SlotsIn(moved[j].migrating) \subseteq moved[j].slots
    <2>1. SlotsIn(shards[j].migrating) \subseteq shards[j].slots
      BY <1>1, <1>5 DEF Sound, MigratesOwnSlots, IsMigrating
    <2>2. QED
      BY <1>1, <2>1
  <1>6. \A j \in DOMAIN moved : HasOneMaster(moved[j])
    BY <1>1 DEF Sound, HasOneMaster
  <1>7. IsMigrating(moved[source]) => IsMigrating(shards[source])
    BY <1>1 DEF IsMigrating
  <1>8. QED
    BY <1>1, <1>4, <1>5, <1>6, <1>7

(* Replacing a shard by one with the same slots keeps a topology sound if  *)
(* the new shard is in order by itself.                                    *)
LEMMA ReplaceKeepsSound ==
    ASSUME NEW shards \in Seq(Shard), Sound(shards), NEW i \in DOMAIN shards,
           NEW shard \in Shard, shard.slots = shards[i].slots, HasOneMaster(shard),
           IsMigrating(shard) => SlotsIn(shard.migrating) \subseteq shard.slots,
           NEW edited, edited = [shards EXCEPT ![i] = shard]
    PROVE  edited \in Seq(Shard) /\ Sound(edited)
  <1>1. /\ edited \in Seq(Shard)
        /\ DOMAIN edited = DOMAIN shards
        /\ edited[i] = shard
        /\ \A j \in DOMAIN shards : j # i => edited[j] = shards[j]
    BY ReplaceShard
  <1>2. OwnsEverySlotOnce(edited)
    <2>1. \A j \in DOMAIN shards : edited[j].slots = shards[j].slots
      BY <1>1
    <2>2. QED
      BY <1>1, <2>1, SameSlots, Zenon DEF Sound
  <1>3. MigratesOwnSlots(edited)
    BY <1>1 DEF Sound, MigratesOwnSlots
  <1>4. \A j \in DOMAIN edited : HasOneMaster(edited[j])
    BY <1>1 DEF Sound
  <1>5. QED
    BY <1>1, <1>2, <1>3, <1>4 DEF Sound

(* A slot_only move (MigrateSlot) cancels the migration of its source and  *)
(* moves slots that the source owns.                                       *)
LEMMA MigrateSlotOnlySound ==
    ASSUME NEW shards \in Seq(Shard), Sound(shards), NEW slot \in SlotRange, NEW target,
           NEW edited \in MigrateSlotOnly(shards, slot, target)
    PROVE  edited \in Seq(Shard) /\ Sound(edited)
  <1>1. PICK source \in MigrationSources(shards, slot, target) :
            edited = MoveSlots(ClearMigrateState(shards, source), source, target, slot)
    BY DEF MigrateSlotOnly
  <1>2. /\ source \in SourceShards(SlotsOfShards(shards), slot)
        /\ target \in DOMAIN shards
    BY DEF MigrationSources
  <1>3. source \in DOMAIN shards /\ SlotsIn(slot) \subseteq shards[source].slots
    BY <1>2, SourceOwnsRange DEF Sound
  <1> DEFINE cleared == ClearMigrateState(shards, source)
  <1> HIDE DEF cleared
  <1>4. cleared \in Seq(Shard) /\ Sound(cleared) /\ ~IsMigrating(cleared[source])
    BY <1>3, ClearKeepsSound DEF Sound, MigratesOwnSlots, cleared
  <1>5. DOMAIN cleared = DOMAIN shards /\ cleared[source].slots = shards[source].slots
    BY <1>3, ClearResult DEF cleared
  <1>6. edited = MoveSlots(cleared, source, target, slot)
    BY <1>1 DEF cleared
  <1>7. /\ edited \in Seq(Shard)
        /\ OwnsEverySlotOnce(edited)
        /\ \A j \in DOMAIN edited \ {source} : IsMigrating(edited[j]) =>
                SlotsIn(edited[j].migrating) \subseteq edited[j].slots
        /\ \A j \in DOMAIN edited : HasOneMaster(edited[j])
        /\ ~IsMigrating(edited[source])
    BY <1>2, <1>3, <1>4, <1>5, <1>6, MoveKeepsSlots
  <1>8. QED
    BY <1>7 DEF Sound, MigratesOwnSlots

(* A migration with data is recorded for slots that the source owns.       *)
LEMMA MigrateSlotDataSound ==
    ASSUME NEW shards \in Seq(Shard), Sound(shards), NEW slot \in SlotRange, NEW target \in Nat,
           NEW edited \in MigrateSlotData(shards, slot, target)
    PROVE  edited \in Seq(Shard) /\ Sound(edited)
  <1>1. PICK source \in DataMigrationSources(shards, slot, target) :
            edited = [shards EXCEPT ![source].migrating = slot, ![source].target = target]
    BY DEF MigrateSlotData
  <1>2. source \in SourceShards(SlotsOfShards(shards), slot)
    BY DEF DataMigrationSources, MigrationSources
  <1>3. source \in DOMAIN shards /\ SlotsIn(slot) \subseteq shards[source].slots
    BY <1>2, SourceOwnsRange DEF Sound
  <1>4. shards[source] \in Shard /\ HasOneMaster(shards[source])
    BY <1>3, LenProperties DEF Sound
  <1> DEFINE shard == [shards[source] EXCEPT !.migrating = slot, !.target = target]
  <1>5. edited = [shards EXCEPT ![source] = shard]
    BY <1>1, <1>3, <1>4, Zenon DEF Shard
  <1>6. /\ shard \in Shard
        /\ shard.slots = shards[source].slots
        /\ shard.migrating = slot
        /\ HasOneMaster(shard)
    BY <1>4, Zenon DEF Shard, HasOneMaster
  <1> HIDE DEF shard
  <1>7. QED
    BY <1>3, <1>5, <1>6, ReplaceKeepsSound, Zenon

(* A failed migration leaves the slots where they are, a successful one    *)
(* hands over slots that the source owns (tryUpdateMigrationStatus).       *)
LEMMA SettledSound ==
    ASSUME NEW shards \in Seq(Shard), Sound(shards), NEW i \in DOMAIN shards,
           IsMigrating(shards[i]), shards[i].target \in DOMAIN shards,
           NEW edited \in {MigrationFailed(shards, i), MigrationSucceeded(shards, i)}
    PROVE  edited \in Seq(Shard) /\ Sound(edited)
  <1>1. CASE edited = MigrationFailed(shards, i)
    BY <1>1, ClearKeepsSound DEF MigrationFailed, Sound, MigratesOwnSlots
  <1>2. CASE edited = MigrationSucceeded(shards, i)
    <2> DEFINE moved == MoveSlots(shards, i, shards[i].target, shards[i].migrating)
    <2> HIDE DEF moved
    <2>1. shards[i] \in Shard
      BY LenProperties
    <2>2. /\ shards[i].migrating \in SlotRange
          /\ SlotsIn(shards[i].migrating) \subseteq shards[i].slots
      BY <2>1 DEF Shard, IsMigrating, Sound, MigratesOwnSlots
    <2>3. /\ moved \in Seq(Shard)
          /\ DOMAIN moved = DOMAIN shards
          /\ OwnsEverySlotOnce(moved)
          /\ \A j \in DOMAIN moved \ {i} : IsMigrating(moved[j]) =>
                SlotsIn(moved[j].migrating) \subseteq moved[j].slots
          /\ \A j \in DOMAIN moved : HasOneMaster(moved[j])
      BY <2>2, MoveKeepsSlots DEF moved
    <2>4. edited = ClearMigrateState(moved, i)
      BY <1>2 DEF MigrationSucceeded, moved
    <2>5. QED
      BY <2>3, <2>4, ClearKeepsSound
  <1>3. QED
    BY <1>1, <1>2

-----------------------------------------------------------------------------
(* Shards and nodes *)

(* A new shard (ShardHandler.Create) owns nothing and has one master.      *)
LEMMA NewShardInOrder ==
    ASSUME NEW group \in Group
    PROVE  /\ NewShard(group) \in Shard
           /\ HasOneMaster(NewShard(group))
           /\ ~IsMigrating(NewShard(group))
           /\ NewShard(group).slots = {}
  BY DEF NewShard, Group, Shard, NoTarget, HasOneMaster, IsMigrating

(* A new shard has a master, no slots and no migration (Shard.Create).     *)
LEMMA CreateShardSound ==
    ASSUME NEW shards \in Seq(Shard), Sound(shards), NEW group \in Group,
           NEW edited \in CreateShard(shards, group)
    PROVE  edited \in Seq(Shard) /\ Sound(edited)
  <1> DEFINE shard == NewShard(group)
             n == Len(shards) + 1
  <1>1. /\ shard \in Shard
        /\ HasOneMaster(shard)
        /\ ~IsMigrating(shard)
        /\ shard.slots = {}
    BY NewShardInOrder
  <1> HIDE DEF shard
  <1>2. edited = Append(shards, shard)
    BY DEF CreateShard, shard
  <1>3. /\ edited \in Seq(Shard)
        /\ Len(edited) = n
        /\ edited[n] = shard
        /\ \A j \in 1 .. Len(shards) : edited[j] = shards[j]
    BY <1>1, <1>2, AppendProperties
  <1>4. /\ Len(shards) \in Nat
        /\ DOMAIN shards = 1 .. Len(shards)
        /\ DOMAIN edited = 1 .. Len(shards) \cup {n}
        /\ n \notin DOMAIN shards
    BY <1>3, LenProperties
  <1> HIDE DEF n
  <1>5. OwnsEverySlotOnce(edited)
    <2> SUFFICES ASSUME NEW s \in Slot
                 PROVE  \E i \in DOMAIN edited :
                            \A j \in DOMAIN edited : s \in edited[j].slots <=> j = i
      BY DEF OwnsEverySlotOnce
    <2>1. PICK i \in DOMAIN shards : \A j \in DOMAIN shards : s \in shards[j].slots <=> j = i
      BY DEF Sound, OwnsEverySlotOnce
    <2>2. \A j \in DOMAIN edited : s \in edited[j].slots <=> j = i
      BY <1>1, <1>3, <1>4, <2>1
    <2>3. QED
      BY <1>4, <2>1, <2>2
  <1>6. MigratesOwnSlots(edited)
    BY <1>1, <1>3, <1>4 DEF Sound, MigratesOwnSlots
  <1>7. \A j \in DOMAIN edited : HasOneMaster(edited[j])
    BY <1>1, <1>3, <1>4 DEF Sound
  <1>8. QED
    BY <1>3, <1>5, <1>6, <1>7 DEF Sound

(* Only a shard without slots is removed (IsServicing), so that every slot *)
(* keeps its owner although the owner's index may change.                  *)
LEMMA RemoveShardSound ==
    ASSUME NEW shards \in Seq(Shard), Sound(shards), NEW k,
           NEW edited \in RemoveShard(shards, k)
    PROVE  edited \in Seq(Shard) /\ Sound(edited)
  <1> DEFINE n == Len(shards) - 1
             old(j) == IF j < k THEN j ELSE j + 1
  <1>1. /\ k \in DOMAIN shards
        /\ ~IsServicing(shards[k])
        /\ edited = [j \in 1 .. n |-> IF j < k THEN shards[j] ELSE shards[j + 1]]
    BY DEF RemoveShard
  <1>2. /\ Len(shards) \in Nat
        /\ DOMAIN shards = 1 .. Len(shards)
        /\ k \in 1 .. Len(shards)
        /\ n \in Nat
        /\ \A j \in 1 .. Len(shards) : shards[j] \in Shard
    BY <1>1, LenProperties
  <1>3. /\ DOMAIN edited = 1 .. n
        /\ \A j \in 1 .. n : old(j) \in 1 .. Len(shards) /\ edited[j] = shards[old(j)]
    BY <1>1, <1>2
  <1>4. edited \in Seq(Shard)
    <2>1. \A j \in 1 .. n : (IF j < k THEN shards[j] ELSE shards[j + 1]) \in Shard
      BY <1>2
    <2>2. QED
      BY <1>1, <1>2, <2>1, IsASeq
  <1>5. OwnsEverySlotOnce(edited)
    <2> SUFFICES ASSUME NEW s \in Slot
                 PROVE  \E i \in DOMAIN edited :
                            \A j \in DOMAIN edited : s \in edited[j].slots <=> j = i
      BY DEF OwnsEverySlotOnce
    <2>1. PICK o \in DOMAIN shards : \A j \in DOMAIN shards : s \in shards[j].slots <=> j = o
      BY DEF Sound, OwnsEverySlotOnce
    <2>2. o # k
      BY <1>1, <2>1 DEF IsServicing
    <2> DEFINE i == IF o < k THEN o ELSE o - 1
    <2>3. i \in 1 .. n /\ \A j \in 1 .. n : old(j) = o <=> j = i
      BY <1>2, <2>1, <2>2
    <2>4. \A j \in DOMAIN edited : s \in edited[j].slots <=> j = i
      BY <1>2, <1>3, <2>1, <2>3
    <2>5. QED
      BY <1>3, <2>3, <2>4, SMTT(60)
  <1> HIDE DEF old, n
  <1>6. MigratesOwnSlots(edited)
    BY <1>2, <1>3 DEF Sound, MigratesOwnSlots
  <1>7. \A j \in DOMAIN edited : HasOneMaster(edited[j])
    BY <1>2, <1>3 DEF Sound
  <1>8. QED
    BY <1>4, <1>5, <1>6, <1>7 DEF Sound

(* The edits of the nodes of a shard (addNode, removeNode and              *)
(* promoteNewMaster) leave its slots alone and leave it one master.        *)
LEMMA NodeEditsSound ==
    ASSUME NEW shards \in Seq(Shard), Sound(shards), NEW i, NEW node \in Node, NEW master,
           NEW edited \in AddNode(shards, i, node) \cup RemoveNode(shards, i, node)
                            \cup PromoteNewMaster(shards, i, master)
    PROVE  edited \in Seq(Shard) /\ Sound(edited)
  <1>1. i \in DOMAIN shards
    BY Zenon DEF AddNode, RemoveNode, PromoteNewMaster
  <1>2. /\ shards[i] \in Shard
        /\ HasOneMaster(shards[i])
        /\ IsMigrating(shards[i]) => SlotsIn(shards[i].migrating) \subseteq shards[i].slots
    BY <1>1, LenProperties DEF Sound, MigratesOwnSlots
  <1>3. PICK m \in Node : shards[i].masters = {m} /\ m \notin shards[i].slaves
    BY <1>2 DEF HasOneMaster
  <1>4. ASSUME NEW masters \in SUBSET Node, NEW slaves \in SUBSET Node,
               \E n \in Node : masters = {n} /\ n \notin slaves,
               edited = [shards EXCEPT ![i] =
                            [shards[i] EXCEPT !.masters = masters, !.slaves = slaves]]
        PROVE  edited \in Seq(Shard) /\ Sound(edited)
    <2> DEFINE shard == [shards[i] EXCEPT !.masters = masters, !.slaves = slaves]
    <2>1. edited = [shards EXCEPT ![i] = shard]
      BY <1>4
    <2>2. /\ shard \in Shard
          /\ shard.slots = shards[i].slots
          /\ shard.migrating = shards[i].migrating
          /\ shard.target = shards[i].target
          /\ shard.masters = masters
          /\ shard.slaves = slaves
      BY <1>2, ZenonT(60) DEF Shard
    <2> HIDE DEF shard
    <2>3. HasOneMaster(shard) /\ (IsMigrating(shard) => IsMigrating(shards[i]))
      BY <1>4, <2>2 DEF HasOneMaster, IsMigrating
    <2>4. QED
      BY <1>1, <1>2, <2>1, <2>2, <2>3, ReplaceKeepsSound, Zenon
  <1>5. CASE edited \in AddNode(shards, i, node)
    <2>1. /\ edited = [shards EXCEPT ![i].slaves = @ \cup {node}]
          /\ node \notin shards[i].masters
      BY <1>5 DEF AddNode
    <2>2. [shards[i] EXCEPT !.slaves = @ \cup {node}]
            = [shards[i] EXCEPT !.masters = shards[i].masters,
                                !.slaves = shards[i].slaves \cup {node}]
      BY <1>2, Zenon DEF Shard
    <2>3. QED
      <3>1. edited = [shards EXCEPT ![i] =
                        [shards[i] EXCEPT !.masters = shards[i].masters,
                                          !.slaves = shards[i].slaves \cup {node}]]
        BY <2>1, <2>2, Zenon
      <3>2. /\ shards[i].masters \in SUBSET Node
            /\ shards[i].slaves \cup {node} \in SUBSET Node
            /\ m \notin shards[i].slaves \cup {node}
        BY <1>2, <1>3, <2>1 DEF Shard
      <3>3. QED
        BY <1>3, <1>4, <3>1, <3>2, Zenon
  <1>6. CASE edited \in RemoveNode(shards, i, node)
    <2>1. edited = [shards EXCEPT ![i].slaves = @ \ {node}]
      BY <1>6 DEF RemoveNode
    <2>2. [shards[i] EXCEPT !.slaves = @ \ {node}]
            = [shards[i] EXCEPT !.masters = shards[i].masters,
                                !.slaves = shards[i].slaves \ {node}]
      BY <1>2, ZenonT(60) DEF Shard
    <2>3. QED
      <3>1. edited = [shards EXCEPT ![i] =
                        [shards[i] EXCEPT !.masters = shards[i].masters,
                                          !.slaves = shards[i].slaves \ {node}]]
        BY <2>1, <2>2, Zenon
      <3>2. /\ shards[i].masters \in SUBSET Node
            /\ shards[i].slaves \ {node} \in SUBSET Node
            /\ m \notin shards[i].slaves \ {node}
        BY <1>2, <1>3 DEF Shard
      <3>3. QED
        BY <1>3, <1>4, <3>1, <3>2, Zenon
  <1>7. CASE edited \in PromoteNewMaster(shards, i, master)
    <2>1. PICK p \in Node \X Node :
            /\ p[1] \in shards[i].masters
            /\ p[2] \in shards[i].slaves
            /\ edited = [shards EXCEPT ![i].masters = (@ \ {p[1]}) \cup {p[2]},
                                       ![i].slaves  = (@ \ {p[2]}) \cup {p[1]}]
      BY <1>7, Zenon DEF PromoteNewMaster
    <2> DEFINE masters == (shards[i].masters \ {p[1]}) \cup {p[2]}
               slaves == (shards[i].slaves \ {p[2]}) \cup {p[1]}
    <2>2. edited = [shards EXCEPT ![i] =
                        [shards[i] EXCEPT !.masters = masters, !.slaves = slaves]]
      BY <1>1, <1>2, <2>1, Zenon DEF Shard
    <2>3. /\ masters \in SUBSET Node
          /\ slaves \in SUBSET Node
          /\ \E n \in Node : masters = {n} /\ n \notin slaves
      BY <1>2, <1>3, <2>1 DEF Shard
    <2> HIDE DEF masters, slaves
    <2>4. QED
      BY <1>4, <2>2, <2>3, Zenon
  <1>8. QED
    BY <1>5, <1>6, <1>7, SMTT(60)

-----------------------------------------------------------------------------
(* New clusters *)

(* Multiplication by a natural number is monotonic.                        *)
LEMMA TimesMonotonic ==
    ASSUME NEW a \in Nat, NEW b \in Nat, NEW c \in Nat, a <= b
    PROVE  a * c <= b * c
  <1>1. PICK d \in Nat : b = a + d
    <2>1. b - a \in Nat /\ b = a + (b - a)
      OBVIOUS
    <2>2. QED
      BY <2>1
  <1>2. b * c = a * c + d * c /\ d * c \in Nat
    BY <1>1
  <1>3. QED
    BY <1>2

(* The ranges of CalculateSlotRanges lie within the slot space, are        *)
(* disjoint and leave no slot out, for every number of slots and of shards *)
(* (also when there are more shards than slots).                           *)
LEMMA CalculateSlotRangesPartition ==
    ASSUME NEW n \in Nat \ {0}
    PROVE  /\ \A i \in 1 .. n : SlotsIn(CalculateSlotRanges(n)[i]) \subseteq Slot
           /\ \A s \in Slot : \E i \in 1 .. n : \A j \in 1 .. n :
                s \in SlotsIn(CalculateSlotRanges(n)[j]) <=> j = i
  <1> DEFINE size == (MaxSlotID + 1) \div n
             In(s, j) == /\ (j - 1) * size <= s
                         /\ s <= IF j # n THEN j * size - 1 ELSE MaxSlotID
  <1>1. size \in Nat /\ n * size <= MaxSlotID + 1
    BY MaxSlotIDAssumption
  <1> HIDE DEF size
  <1>2. ASSUME NEW j \in 1 .. n
        PROVE  j * size \in Nat /\ (j - 1) * size \in Nat /\ j * size <= MaxSlotID + 1
    <2>1. j * size \in Nat /\ (j - 1) * size \in Nat /\ n * size \in Nat
      BY <1>1
    <2>2. j * size <= n * size
      BY <1>1, TimesMonotonic
    <2>3. QED
      BY <1>1, <2>1, <2>2, MaxSlotIDAssumption
  <1>3. \A s \in Int, j \in 1 .. n : s \in SlotsIn(CalculateSlotRanges(n)[j]) <=> In(s, j)
    BY <1>1, <1>2, MaxSlotIDAssumption DEF SlotsIn, CalculateSlotRanges, size
  <1>4. \A i \in 1 .. n : SlotsIn(CalculateSlotRanges(n)[i]) \subseteq Slot
    <2> SUFFICES ASSUME NEW i \in 1 .. n, NEW s \in SlotsIn(CalculateSlotRanges(n)[i])
                 PROVE  s \in Slot
      OBVIOUS
    <2>1. s \in Int
      BY DEF SlotsIn
    <2>2. In(s, i)
      BY <1>3, <2>1
    <2>3. QED
      BY <1>2, <2>1, <2>2, MaxSlotIDAssumption DEF Slot
  <1>5. ASSUME NEW s \in Slot
        PROVE  \E i \in 1 .. n : \A j \in 1 .. n : In(s, j) <=> j = i
    <2>1. s \in Nat /\ s <= MaxSlotID
      BY MaxSlotIDAssumption DEF Slot
    <2>2. CASE (n - 1) * size <= s
      <3>1. In(s, n)
        BY <2>1, <2>2
      <3>2. ASSUME NEW j \in 1 .. n, j # n
            PROVE  ~In(s, j)
        <4>1. j * size <= (n - 1) * size
          BY <1>1, <3>2, TimesMonotonic
        <4>2. QED
          BY <1>1, <1>2, <2>1, <2>2, <3>2, <4>1
      <3>3. QED
        BY <3>1, <3>2
    <2>3. CASE s < (n - 1) * size
      <3>1. size # 0
        BY <1>1, <2>1, <2>3
      <3>2. PICK q \in Nat : q * size <= s /\ s < (q + 1) * size
        <4>1. s \div size \in Nat
          BY <1>1, <2>1, <3>1
        <4>2. (s \div size) * size <= s /\ s < (s \div size + 1) * size
          BY <1>1, <2>1, <3>1
        <4>3. QED
          BY <4>1, <4>2
      <3>3. q < n - 1
        <4>1. SUFFICES ASSUME n - 1 <= q PROVE FALSE
          OBVIOUS
        <4>2. (n - 1) * size <= q * size
          BY <1>1, <4>1, TimesMonotonic
        <4>3. QED
          BY <1>1, <2>1, <2>3, <3>2, <4>2
      <3> DEFINE i == q + 1
      <3>4. i \in 1 .. n /\ i # n /\ In(s, i)
        BY <1>1, <1>2, <2>1, <3>2, <3>3
      <3>5. ASSUME NEW j \in 1 .. n, j # i
            PROVE  ~In(s, j)
        <4>1. CASE j < i
          <5>1. j * size <= q * size
            BY <1>1, <4>1, TimesMonotonic
          <5>2. QED
            BY <1>1, <1>2, <2>1, <3>2, <3>3, <4>1, <5>1
        <4>2. CASE i < j
          <5>1. (q + 1) * size <= (j - 1) * size
            BY <1>1, <4>2, TimesMonotonic
          <5>2. QED
            BY <1>1, <1>2, <2>1, <3>2, <5>1
        <4>3. QED
          BY <3>5, <4>1, <4>2
      <3>6. QED
        BY <3>4, <3>5, Zenon
    <2>4. QED
      BY <1>1, <2>1, <2>2, <2>3
  <1> HIDE DEF In
  <1>6. \A s \in Slot : s \in Int
    BY MaxSlotIDAssumption DEF Slot
  <1>7. QED
    BY <1>3, <1>4, <1>5, <1>6, Zenon

(* A cluster made by NewCluster is sound.                                  *)
LEMMA NewClusterSound ==
    ASSUME NEW groups \in Seq(Group), groups # <<>>
    PROVE  NewCluster(groups) \in Seq(Shard) /\ Sound(NewCluster(groups))
  <1> DEFINE n == Len(groups)
             ranges == CalculateSlotRanges(n)
             shards == NewCluster(groups)
             new(i) == [NewShard(groups[i]) EXCEPT !.slots = SlotsIn(ranges[i])]
  <1>1. /\ n \in Nat \ {0}
        /\ DOMAIN groups = 1 .. n
        /\ \A i \in 1 .. n : groups[i] \in Group
    BY LenProperties, EmptySeq
  <1>2. shards = [i \in 1 .. n |-> new(i)]
    BY <1>1 DEF NewCluster
  <1>3. /\ \A i \in 1 .. n : SlotsIn(ranges[i]) \subseteq Slot
        /\ \A s \in Slot : \E i \in 1 .. n : \A j \in 1 .. n : s \in SlotsIn(ranges[j]) <=> j = i
    BY <1>1, CalculateSlotRangesPartition, Zenon
  <1> HIDE DEF ranges, n
  <1>4. ASSUME NEW i \in 1 .. n
        PROVE  /\ new(i) \in Shard
               /\ new(i).slots = SlotsIn(ranges[i])
               /\ HasOneMaster(new(i))
               /\ ~IsMigrating(new(i))
    <2>1. /\ NewShard(groups[i]) \in Shard
          /\ HasOneMaster(NewShard(groups[i]))
          /\ ~IsMigrating(NewShard(groups[i]))
      BY <1>1, NewShardInOrder
    <2>2. QED
      BY <1>3, <2>1 DEF Shard, HasOneMaster, IsMigrating
  <1> HIDE DEF new
  <1>5. shards \in Seq(Shard)
    BY <1>1, <1>2, <1>4, IsASeq
  <1> HIDE DEF shards
  <1>6. DOMAIN shards = 1 .. n /\ \A i \in 1 .. n : shards[i] = new(i)
    BY <1>2
  <1>7. OwnsEverySlotOnce(shards)
    BY <1>3, <1>4, <1>6 DEF OwnsEverySlotOnce
  <1>8. MigratesOwnSlots(shards) /\ \A i \in DOMAIN shards : HasOneMaster(shards[i])
    BY <1>4, <1>6 DEF MigratesOwnSlots
  <1>9. QED
    BY <1>5, <1>7, <1>8 DEF Sound, shards

-----------------------------------------------------------------------------
(* The lists of slot ranges *)

(* Induction over the natural numbers, with a set in place of a predicate. *)
LEMMA Induction ==
    ASSUME NEW S, 0 \in S, \A n \in Nat : n \in S => n + 1 \in S
    PROVE  \A n \in Nat : n \in S
  <1> DEFINE R == OpToRel(<,Nat)
             T == Nat \ S
  <1>1. \A x, y \in Nat : x < y => <<x, y>> \in R
    BY DEF OpToRel
  <1>2. IsWellFoundedOn(OpToRel(<,Nat), Nat)
    BY NatLessThanWellFounded
  <1> HIDE DEF R
  <1>3. IsWellFoundedOn(R, Nat)
    BY <1>2 DEF R
  <1>4. SUFFICES ASSUME T # {} PROVE FALSE
    OBVIOUS
  <1>5. PICK x \in T : \A y \in T : ~(<<y, x>> \in R)
    <2> HIDE DEF T
    <2>1. T \subseteq Nat
      BY DEF T
    <2>2. QED
      BY <1>3, <1>4, <2>1, WFMin
  <1>6. x # 0 /\ x - 1 \in Nat /\ x - 1 < x
    OBVIOUS
  <1>7. x - 1 \in S
    BY <1>1, <1>5, <1>6
  <1>8. QED
    BY <1>6, <1>7

(* The merge loop runs: there is one list of merged ranges for every       *)
(* number of ranges seen, each made from the one before.                   *)
LEMMA MergedSteps ==
    ASSUME NEW s, Len(s) \in Nat \ {0}, DOMAIN s = 1 .. Len(s)
    PROVE  \E m : /\ m = [k \in DOMAIN s |-> IF k = 1 THEN <<s[1]>> ELSE MergeNext(m[k - 1], s[k])]
                  /\ Merged(s) = m[Len(s)]
  <1> DEFINE Step(m, n) ==
                m = [k \in 1 .. n |-> IF k = 1 THEN <<s[1]>> ELSE MergeNext(m[k - 1], s[k])]
             Steps == {n \in Nat : \E m : Step(m, n)}
  <1>1. 0 \in Steps
    <2>1. Step([k \in 1 .. 0 |-> 0], 0)
      OBVIOUS
    <2>2. QED
      BY <2>1
  <1>2. ASSUME NEW n \in Nat, n \in Steps
        PROVE  n + 1 \in Steps
    <2>1. PICK m : Step(m, n)
      BY <1>2
    <2> DEFINE next == [k \in 1 .. n + 1 |->
                            IF k = n + 1
                            THEN IF k = 1 THEN <<s[1]>> ELSE MergeNext(m[n], s[k])
                            ELSE m[k]]
    <2>2. \A k \in 1 .. n + 1 :
            next[k] = IF k = 1 THEN <<s[1]>> ELSE MergeNext(next[k - 1], s[k])
      <3> SUFFICES ASSUME NEW k \in 1 .. n + 1
                   PROVE  next[k] = IF k = 1 THEN <<s[1]>> ELSE MergeNext(next[k - 1], s[k])
        OBVIOUS
      <3>1. CASE k = n + 1
        BY <3>1
      <3>2. CASE k # n + 1
        <4>1. k \in 1 .. n /\ (k # 1 => k - 1 \in 1 .. n)
          BY <3>2
        <4>2. m[k] = IF k = 1 THEN <<s[1]>> ELSE MergeNext(m[k - 1], s[k])
          BY <2>1, <4>1
        <4>3. QED
          BY <3>2, <4>1, <4>2
      <3>3. QED
        BY <3>1, <3>2
    <2>3. Step(next, n + 1)
      BY <2>2
    <2>4. n + 1 \in Nat
      OBVIOUS
    <2> HIDE DEF next
    <2>5. QED
      BY <2>3, <2>4, Zenon
  <1>3. \A n \in Nat : n \in Steps
    <2> HIDE DEF Steps
    <2>1. QED
      BY <1>1, <1>2, Induction
  <1>4. \E m : m = [k \in DOMAIN s |-> IF k = 1 THEN <<s[1]>> ELSE MergeNext(m[k - 1], s[k])]
    BY <1>3
  <1> DEFINE merged == CHOOSE m :
                m = [k \in DOMAIN s |-> IF k = 1 THEN <<s[1]>> ELSE MergeNext(m[k - 1], s[k])]
  <1>5. merged = [k \in DOMAIN s |-> IF k = 1 THEN <<s[1]>> ELSE MergeNext(merged[k - 1], s[k])]
    BY <1>4, Zenon
  <1>6. Merged(s) = merged[Len(s)]
    BY DEF Merged
  <1> HIDE DEF merged
  <1>7. QED
    BY <1>5, <1>6

-----------------------------------------------------------------------------
(* Ranges *)

(* What is known of the bounds of a range that NewSlotRange accepts.       *)
LEMMA Bounds ==
    ASSUME NEW r \in SlotRange
    PROVE  r.start \in Nat /\ r.stop \in Nat /\ r.start <= r.stop /\ r.stop <= MaxSlotID
  BY MaxSlotIDAssumption DEF SlotRange, Slot

(* The slots of a range are those between its bounds.                      *)
LEMMA InRange ==
    ASSUME NEW r \in SlotRange, NEW x
    PROVE  x \in SlotsIn(r) <=> x \in Nat /\ r.start <= x /\ x <= r.stop
  BY Bounds DEF SlotsIn

(* Bounds that NewSlotRange accepts make a range.                          *)
LEMMA MakeRange ==
    ASSUME NEW a \in Nat, NEW b \in Nat, a <= b, b <= MaxSlotID
    PROVE  [start |-> a, stop |-> b] \in SlotRange
  BY MaxSlotIDAssumption DEF SlotRange, Slot

(* Two ranges overlap when they have a slot in common (HasOverlap).        *)
LEMMA OverlapShares ==
    ASSUME NEW a \in SlotRange, NEW b \in SlotRange
    PROVE  HasOverlap(a, b) <=> SlotsIn(a) \cap SlotsIn(b) # {}
  <1>1. HasOverlap(a, b) => SlotsIn(a) \cap SlotsIn(b) # {}
    <2>1. HasOverlap(a, b) => a.start \in SlotsIn(b) \/ b.start \in SlotsIn(a)
      BY Bounds, InRange DEF HasOverlap
    <2>2. a.start \in SlotsIn(a) /\ b.start \in SlotsIn(b)
      BY Bounds, InRange
    <2>3. QED
      BY <2>1, <2>2
  <1>2. SlotsIn(a) \cap SlotsIn(b) # {} => HasOverlap(a, b)
    BY Bounds, InRange DEF HasOverlap
  <1>3. QED
    BY <1>1, <1>2

(* Lists of ranges *)

(* A slot is covered when one of the ranges holds it.                      *)
LEMMA InCovered ==
    ASSUME NEW ranges, NEW x
    PROVE  x \in Covered(ranges) <=> \E i \in DOMAIN ranges : x \in SlotsIn(ranges[i])
  BY DEF Covered

(* Between any two ranges there is a slot that neither of them holds.      *)
Apart(ranges) ==
    \A i, j \in DOMAIN ranges :
        i # j => ranges[i].stop + 1 < ranges[j].start \/ ranges[j].stop + 1 < ranges[i].start

Disjoint(ranges) ==
    \A i, j \in DOMAIN ranges : i # j => SlotsIn(ranges[i]) \cap SlotsIn(ranges[j]) = {}

Increasing(ranges) ==
    \A i, j \in DOMAIN ranges : i < j => ranges[i].start <= ranges[j].start

(* In a list in normal form every range ends before all that follow begin, *)
(* not only the next.                                                      *)
LEMMA NormalOrdered ==
    ASSUME NEW l \in Seq(SlotRange), Normal(l)
    PROVE  \A i, j \in DOMAIN l : i < j => l[i].stop + 1 < l[j].start
  <1> DEFINE S == {n \in Nat : \A i, j \in DOMAIN l :
                        j = i + 1 + n => l[i].stop + 1 < l[j].start}
  <1>1. 0 \in S
    BY DEF Normal
  <1>2. ASSUME NEW n \in Nat, n \in S
        PROVE  n + 1 \in S
    <2> SUFFICES ASSUME NEW i \in DOMAIN l, NEW j \in DOMAIN l, j = i + 1 + (n + 1)
                 PROVE  l[i].stop + 1 < l[j].start
      OBVIOUS
    <2>1. i \in 1 .. Len(l) /\ j \in 1 .. Len(l) /\ Len(l) \in Nat
      OBVIOUS
    <2>2. PICK k \in 1 .. Len(l) - 1 : k = i + 1 + n /\ k + 1 = j
      BY <2>1
    <2>3. l[i].stop + 1 < l[k].start
      BY <1>2, <2>2
    <2>4. l[k].stop + 1 < l[j].start
      BY <2>2 DEF Normal
    <2>5. l[i].stop \in Nat /\ l[j].start \in Nat
      BY Bounds
    <2>6. l[k].start \in Nat /\ l[k].stop \in Nat /\ l[k].start <= l[k].stop
      BY <2>2, Bounds
    <2>7. \A a, b, c, d \in Nat : a + 1 < b /\ b <= c /\ c + 1 < d => a + 1 < d
      OBVIOUS
    <2>8. QED
      BY <2>3, <2>4, <2>5, <2>6, <2>7, Zenon
  <1>3. \A n \in Nat : n \in S
    <2> HIDE DEF S
    <2>1. QED
      BY <1>1, <1>2, Induction
  <1>4. \A i, j \in DOMAIN l : i < j => j - i - 1 \in Nat /\ j = i + 1 + (j - i - 1)
    OBVIOUS
  <1>5. QED
    BY <1>3, <1>4

(* The normal form is the order of the ranges and the gaps between them.   *)
LEMMA NormalIsApart ==
    ASSUME NEW l \in Seq(SlotRange)
    PROVE  Normal(l) <=> Apart(l) /\ Increasing(l)
  <1>1. \A i \in DOMAIN l : l[i] \in SlotRange
    OBVIOUS
  <1>2. Normal(l) => Apart(l) /\ Increasing(l)
    <2>1. SUFFICES ASSUME Normal(l) PROVE Apart(l) /\ Increasing(l)
      OBVIOUS
    <2>2. \A i, j \in DOMAIN l : i < j => l[i].stop + 1 < l[j].start
      BY <2>1, NormalOrdered
    <2>3. Increasing(l)
      BY <1>1, <2>2, Bounds DEF Increasing
    <2>4. \A i, j \in DOMAIN l : i # j => i < j \/ j < i
      OBVIOUS
    <2>5. QED
      BY <2>2, <2>3, <2>4 DEF Apart
  <1>3. Apart(l) /\ Increasing(l) => Normal(l)
    <2>1. SUFFICES ASSUME Apart(l), Increasing(l), NEW i \in 1 .. Len(l) - 1
                   PROVE  l[i].stop + 1 < l[i + 1].start
      BY DEF Normal
    <2>2. i \in DOMAIN l /\ i + 1 \in DOMAIN l /\ i # i + 1 /\ i < i + 1
      OBVIOUS
    <2>3. l[i].start <= l[i + 1].start
      BY <2>1, <2>2 DEF Increasing
    <2>4. l[i].stop + 1 < l[i + 1].start \/ l[i + 1].stop + 1 < l[i].start
      BY <2>1, <2>2 DEF Apart
    <2>5. QED
      BY <1>1, <2>2, <2>3, <2>4, Bounds
  <1>4. QED
    BY <1>2, <1>3

(* Ranges with gaps between them share no slot.                            *)
LEMMA ApartDisjoint ==
    ASSUME NEW l \in Seq(SlotRange), Apart(l)
    PROVE  Disjoint(l)
  <1>1. SUFFICES ASSUME NEW i \in DOMAIN l, NEW j \in DOMAIN l, i # j
                 PROVE  SlotsIn(l[i]) \cap SlotsIn(l[j]) = {}
    BY DEF Disjoint
  <1>2. l[i].stop + 1 < l[j].start \/ l[j].stop + 1 < l[i].start
    BY <1>1 DEF Apart
  <1>3. l[i] \in SlotRange /\ l[j] \in SlotRange
    OBVIOUS
  <1>4. QED
    BY <1>2, <1>3, Bounds, InRange

-----------------------------------------------------------------------------
(* Sorting *)

(* Whatever order sort.Slice leaves ranges of equal start in, the sorted   *)
(* list has the ranges of the list, each as often: it covers the same      *)
(* slots, and gaps and disjointness stay.                                  *)
LEMMA Sorting ==
    ASSUME NEW l \in Seq(SlotRange), NEW s \in ByStart(l)
    PROVE  /\ s \in Seq(SlotRange) /\ Len(s) = Len(l)
           /\ Increasing(s)
           /\ Covered(s) = Covered(l)
           /\ Apart(l) => Apart(s)
           /\ Disjoint(l) => Disjoint(s)
  <1>1. PICK p \in Bijection(DOMAIN l, DOMAIN l) :
            /\ \A i, j \in DOMAIN l : i < j => l[p[i]].start <= l[p[j]].start
            /\ s = [i \in DOMAIN l |-> l[p[i]]]
    BY DEF ByStart
  <1>2. /\ p \in [DOMAIN l -> DOMAIN l]
        /\ \A i, j \in DOMAIN l : p[i] = p[j] => i = j
        /\ \A j \in DOMAIN l : \E i \in DOMAIN l : p[i] = j
    BY DEF Bijection, Injection, Surjection, IsInjective
  <1>3. \A i \in DOMAIN l : s[i] = l[p[i]] /\ p[i] \in DOMAIN l
    BY <1>1, <1>2
  <1>4. DOMAIN s = DOMAIN l /\ s \in Seq(SlotRange) /\ Len(s) = Len(l)
    <2>1. DOMAIN l = 1 .. Len(l) /\ Len(l) \in Nat /\ \A i \in DOMAIN l : l[i] \in SlotRange
      OBVIOUS
    <2>2. s \in [1 .. Len(l) -> SlotRange]
      BY <1>1, <1>3, <2>1
    <2>3. QED
      BY <2>1, <2>2
  <1>5. Increasing(s)
    BY <1>1, <1>3, <1>4 DEF Increasing
  <1>6. Covered(s) = Covered(l)
    <2>1. ASSUME NEW x \in Covered(s) PROVE x \in Covered(l)
      BY <1>3, <1>4, InCovered
    <2>2. ASSUME NEW x \in Covered(l) PROVE x \in Covered(s)
      <3>1. PICK j \in DOMAIN l : x \in SlotsIn(l[j])
        BY InCovered
      <3>2. PICK i \in DOMAIN l : p[i] = j
        BY <1>2
      <3>3. QED
        BY <1>3, <1>4, <3>1, <3>2, InCovered
    <2>3. QED
      BY <2>1, <2>2
  <1>7. ASSUME NEW i \in DOMAIN s, NEW j \in DOMAIN s, i # j
        PROVE  p[i] \in DOMAIN l /\ p[j] \in DOMAIN l /\ p[i] # p[j]
    BY <1>2, <1>3, <1>4, <1>7
  <1>8. Apart(l) => Apart(s)
    BY <1>3, <1>4, <1>7 DEF Apart
  <1>9. Disjoint(l) => Disjoint(s)
    BY <1>3, <1>4, <1>7 DEF Disjoint
  <1>10. QED
    BY <1>4, <1>5, <1>6, <1>8, <1>9

-----------------------------------------------------------------------------
(* Merging *)

(* One turn of the merge loop, for a range that starts no earlier than the *)
(* last merged one: the list stays in normal form and covers the slots of  *)
(* the range as well.                                                      *)
LEMMA MergeTurn ==
    ASSUME NEW m \in Seq(SlotRange), m # << >>, Normal(m), NEW r \in SlotRange,
           m[Len(m)].start <= r.start, NEW next, next = MergeNext(m, r)
    PROVE  /\ next \in Seq(SlotRange) /\ next # << >>
           /\ Normal(next)
           /\ next[Len(next)].start <= r.start
           /\ Covered(next) = Covered(m) \cup SlotsIn(r)
  <1> DEFINE n == Len(m)
             last == m[n]
  <1>1. n \in Nat \ {0} /\ DOMAIN m = 1 .. n /\ \A i \in 1 .. n : m[i] \in SlotRange
    OBVIOUS
  <1>2. last \in SlotRange
    BY <1>1
  <1>3. /\ last.start \in Nat /\ last.stop \in Nat /\ last.start <= last.stop /\ last.stop <= MaxSlotID
        /\ r.start \in Nat /\ r.stop \in Nat /\ r.start <= r.stop /\ r.stop <= MaxSlotID
        /\ last.start <= r.start
    BY <1>2, Bounds
  <1>4. \A i \in 1 .. n - 1 : m[i].stop + 1 < m[i + 1].start
    BY DEF Normal
  <1>5. next = IF CanMerge(last, r) THEN [m EXCEPT ![n] = MergeSlotRanges(r, last)]
                                    ELSE Append(m, r)
    BY DEF MergeNext
  <1>6. last = m[n] /\ n = Len(m)
    OBVIOUS
  <1> HIDE DEF n, last
  <1>7. CASE CanMerge(last, r)
    <2> DEFINE grown == MergeSlotRanges(r, last)
    <2>1. next = [m EXCEPT ![n] = grown]
      BY <1>7, <1>5
    <2>2. /\ grown.start = last.start
          /\ grown.stop \in {last.stop, r.stop} /\ last.stop <= grown.stop /\ r.stop <= grown.stop
          /\ grown = [start |-> grown.start, stop |-> grown.stop]
      BY <1>3 DEF MergeSlotRanges
    <2>3. r.start <= last.stop + 1
      BY <1>3, <1>7 DEF CanMerge
    <2>4. grown \in SlotRange
      <3>1. grown.start \in Nat /\ grown.stop \in Nat /\ grown.start <= grown.stop
                /\ grown.stop <= MaxSlotID
        BY <1>3, <2>2
      <3>2. QED
        BY <2>2, <3>1, MakeRange
    <2>5. \A x : x \in SlotsIn(grown) <=> x \in SlotsIn(last) \/ x \in SlotsIn(r)
      BY <1>2, <1>3, <2>2, <2>3, <2>4, InRange
    <2> HIDE DEF grown
    <2>6. /\ next \in Seq(SlotRange) /\ Len(next) = n /\ DOMAIN next = 1 .. n
          /\ next[n] = grown /\ \A i \in 1 .. n : i # n => next[i] = m[i]
      <3>1. next \in [1 .. n -> SlotRange]
        BY <1>1, <1>6, <2>1, <2>4
      <3>2. next \in Seq(SlotRange) /\ Len(next) = n /\ DOMAIN next = 1 .. n
        BY <1>1, <3>1
      <3>3. next[n] = grown /\ \A i \in 1 .. n : i # n => next[i] = m[i]
        BY <1>1, <2>1
      <3>4. QED
        BY <3>2, <3>3
    <2>7. Normal(next)
      <3>1. SUFFICES ASSUME NEW i \in 1 .. n - 1
                     PROVE  next[i].stop + 1 < next[i + 1].start
        BY <2>6 DEF Normal
      <3>2. m[i].stop + 1 < m[i + 1].start
        BY <1>4
      <3>3. next[i] = m[i] /\ next[i + 1].start = m[i + 1].start
        <4>1. i \in 1 .. n /\ i # n /\ i + 1 \in 1 .. n
          BY <1>1
        <4>2. CASE i + 1 = n
          BY <1>6, <2>2, <2>6, <4>1, <4>2
        <4>3. CASE i + 1 # n
          BY <2>6, <4>1, <4>3
        <4>4. QED
          BY <4>2, <4>3
      <3>4. QED
        BY <3>2, <3>3
    <2>8. \A x : x \in Covered(next) <=> x \in Covered(m) \/ x \in SlotsIn(r)
      <3>1. ASSUME NEW x, x \in Covered(next)
            PROVE  x \in Covered(m) \/ x \in SlotsIn(r)
        <4>1. PICK i \in 1 .. n : x \in SlotsIn(next[i])
          BY <2>6, <3>1, InCovered
        <4>2. CASE i = n
          BY <1>1, <1>6, <2>5, <2>6, <4>1, <4>2, InCovered
        <4>3. CASE i # n
          BY <1>1, <2>6, <4>1, <4>3, InCovered
        <4>4. QED
          BY <4>2, <4>3
      <3>2. ASSUME NEW x, x \in SlotsIn(r)
            PROVE  x \in Covered(next)
        <4>1. n \in 1 .. n /\ x \in SlotsIn(next[n])
          BY <1>1, <2>5, <2>6, <3>2
        <4>2. QED
          BY <2>6, <4>1, InCovered
      <3>3. ASSUME NEW x, x \in Covered(m)
            PROVE  x \in Covered(next)
        <4>1. PICK i \in 1 .. n : x \in SlotsIn(m[i])
          BY <1>1, <3>3, InCovered
        <4>2. CASE i = n
          BY <1>1, <1>6, <2>5, <2>6, <4>1, <4>2, InCovered
        <4>3. CASE i # n
          BY <1>1, <2>6, <4>1, <4>3, InCovered
        <4>4. QED
          BY <4>2, <4>3
      <3>4. QED
        BY <3>1, <3>2, <3>3
    <2>9. next # << >> /\ next[Len(next)].start <= r.start
      BY <1>1, <1>3, <2>2, <2>6
    <2>10. QED
      BY <2>6, <2>7, <2>8, <2>9
  <1>8. CASE ~CanMerge(last, r)
    <2>1. next = Append(m, r)
      BY <1>8, <1>5
    <2>2. last.stop + 1 < r.start
      BY <1>3, <1>8 DEF CanMerge
    <2>3. /\ next \in Seq(SlotRange) /\ Len(next) = n + 1 /\ DOMAIN next = 1 .. n + 1
          /\ next[n + 1] = r /\ \A i \in 1 .. n : next[i] = m[i]
      BY <1>1, <1>6, <2>1
    <2>4. Normal(next)
      <3>1. SUFFICES ASSUME NEW i \in 1 .. n
                     PROVE  next[i].stop + 1 < next[i + 1].start
        BY <1>1, <2>3 DEF Normal
      <3>2. CASE i = n
        BY <1>1, <1>6, <2>2, <2>3, <3>2
      <3>3. CASE i # n
        <4>1. i \in 1 .. n - 1 /\ i + 1 \in 1 .. n
          BY <1>1, <3>3
        <4>2. m[i].stop + 1 < m[i + 1].start
          BY <4>1, <1>4
        <4>3. QED
          BY <2>3, <4>1, <4>2
      <3>4. QED
        BY <3>2, <3>3
    <2>5. \A x : x \in Covered(next) <=> x \in Covered(m) \/ x \in SlotsIn(r)
      <3>1. ASSUME NEW x, x \in Covered(next)
            PROVE  x \in Covered(m) \/ x \in SlotsIn(r)
        <4>1. PICK i \in 1 .. n + 1 : x \in SlotsIn(next[i])
          BY <2>3, <3>1, InCovered
        <4>2. CASE i = n + 1
          BY <2>3, <4>1, <4>2
        <4>3. CASE i # n + 1
          <5>1. i \in 1 .. n
            BY <1>1, <4>3
          <5>2. QED
            BY <1>1, <2>3, <4>1, <5>1, InCovered
        <4>4. QED
          BY <4>2, <4>3
      <3>2. ASSUME NEW x, x \in SlotsIn(r)
            PROVE  x \in Covered(next)
        <4>1. n + 1 \in 1 .. n + 1
          BY <1>1
        <4>2. QED
          BY <2>3, <3>2, <4>1, InCovered
      <3>3. ASSUME NEW x, x \in Covered(m)
            PROVE  x \in Covered(next)
        <4>1. PICK i \in 1 .. n : x \in SlotsIn(m[i])
          BY <1>1, <3>3, InCovered
        <4>2. i \in 1 .. n + 1
          BY <1>1
        <4>3. QED
          BY <2>3, <4>1, <4>2, InCovered
      <3>4. QED
        BY <3>1, <3>2, <3>3
    <2>6. next # << >> /\ next[Len(next)].start <= r.start
      BY <1>1, <1>3, <2>3
    <2>7. QED
      BY <2>3, <2>4, <2>5, <2>6
  <1>9. QED
    BY <1>7, <1>8

(* The merge loop turns a list in increasing order into one in normal form *)
(* that covers the same slots.                                             *)
LEMMA MergedResult ==
    ASSUME NEW s \in Seq(SlotRange), s # << >>, Increasing(s)
    PROVE  /\ Merged(s) \in Seq(SlotRange)
           /\ Normal(Merged(s))
           /\ Covered(Merged(s)) = Covered(s)
  <1>1. Len(s) \in Nat \ {0} /\ DOMAIN s = 1 .. Len(s) /\ \A i \in 1 .. Len(s) : s[i] \in SlotRange
    OBVIOUS
  <1>2. PICK m : /\ m = [k \in DOMAIN s |-> IF k = 1 THEN <<s[1]>> ELSE MergeNext(m[k - 1], s[k])]
                 /\ Merged(s) = m[Len(s)]
    BY <1>1, MergedSteps
  <1> DEFINE Seen(k) == UNION {SlotsIn(s[i]) : i \in 1 .. k}
             Good(k) == /\ m[k] \in Seq(SlotRange) /\ m[k] # << >>
                        /\ Normal(m[k])
                        /\ m[k][Len(m[k])].start <= s[k].start
                        /\ Covered(m[k]) = Seen(k)
             S == {n \in Nat : n + 1 \in DOMAIN s => Good(n + 1)}
  <1>3. 0 \in S
    <2>1. m[1] = <<s[1]>>
      BY <1>1, <1>2
    <2>2. /\ <<s[1]>> \in Seq(SlotRange) /\ <<s[1]>> # << >> /\ Len(<<s[1]>>) = 1
          /\ <<s[1]>>[1] = s[1] /\ DOMAIN <<s[1]>> = {1}
      BY <1>1
    <2>3. Normal(<<s[1]>>)
      BY <2>2 DEF Normal
    <2>4. s[1].start <= s[1].start
      BY <1>1, Bounds
    <2>5. \A x : x \in Covered(<<s[1]>>) <=> x \in SlotsIn(s[1])
      BY <2>2, InCovered
    <2>6. \A x : x \in Seen(1) <=> x \in SlotsIn(s[1])
      OBVIOUS
    <2>7. Covered(m[1]) = Seen(1)
      BY <2>1, <2>5, <2>6
    <2>8. Good(1)
      BY <2>1, <2>2, <2>3, <2>4, <2>7
    <2>9. QED
      BY <2>8
  <1>4. ASSUME NEW n \in Nat, n \in S
        PROVE  n + 1 \in S
    <2> DEFINE k == n + 1
    <2>1. SUFFICES ASSUME k + 1 \in DOMAIN s PROVE Good(k + 1)
      OBVIOUS
    <2>2. k \in DOMAIN s /\ k \in Nat \ {0} /\ k < k + 1
      BY <1>1, <2>1
    <2>3. Good(k)
      BY <1>4, <2>2
    <2>4. m[k + 1] = MergeNext(m[k], s[k + 1])
      <3>1. k + 1 # 1 /\ (k + 1) - 1 = k
        BY <2>2
      <3>2. QED
        BY <1>2, <2>1, <3>1
    <2>5. \A x : x \in Seen(k + 1) <=> x \in Seen(k) \/ x \in SlotsIn(s[k + 1])
      <3>1. \A i : i \in 1 .. k + 1 <=> i \in 1 .. k \/ i = k + 1
        BY <2>2
      <3> HIDE DEF k
      <3>2. QED
        BY <3>1
    <2> HIDE DEF k
    <2>6. s[k + 1] \in SlotRange /\ s[k] \in SlotRange
      BY <1>1, <2>1, <2>2
    <2>7. s[k].start <= s[k + 1].start
      BY <2>1, <2>2 DEF Increasing
    <2>8. m[k][Len(m[k])].start <= s[k + 1].start
      <3>1. m[k][Len(m[k])] \in SlotRange
        BY <2>3
      <3>2. /\ m[k][Len(m[k])].start \in Nat /\ s[k].start \in Nat /\ s[k + 1].start \in Nat
            /\ m[k][Len(m[k])].start <= s[k].start
        BY <2>3, <2>6, <3>1, Bounds
      <3>3. QED
        BY <2>7, <3>2
    <2> HIDE DEF Seen
    <2>9. /\ m[k + 1] \in Seq(SlotRange) /\ m[k + 1] # << >>
          /\ Normal(m[k + 1])
          /\ m[k + 1][Len(m[k + 1])].start <= s[k + 1].start
          /\ Covered(m[k + 1]) = Covered(m[k]) \cup SlotsIn(s[k + 1])
      BY <2>3, <2>4, <2>6, <2>8, MergeTurn
    <2>10. Covered(m[k + 1]) = Seen(k + 1)
      BY <2>3, <2>5, <2>9
    <2>11. QED
      BY <2>9, <2>10
  <1>5. \A n \in Nat : n \in S
    <2> HIDE DEF S
    <2>1. QED
      BY <1>3, <1>4, Induction
  <1>6. Good(Len(s))
    <2>1. Len(s) - 1 \in Nat /\ (Len(s) - 1) + 1 = Len(s) /\ Len(s) \in DOMAIN s
      BY <1>1
    <2> HIDE DEF Good
    <2>2. QED
      BY <1>5, <2>1
  <1>7. Seen(Len(s)) = Covered(s)
    BY <1>1 DEF Covered
  <1>8. QED
    BY <1>2, <1>6, <1>7

(* AddSlotToSlotRanges: whatever the order of the list, the slots of the   *)
(* range join those of the list, and the result is in normal form.         *)
THEOREM AddSlotResult ==
    ASSUME NEW source \in Seq(SlotRange), NEW slot \in SlotRange,
           NEW joined \in AddSlotToSlotRanges(source, slot)
    PROVE  /\ joined \in Seq(SlotRange)
           /\ Normal(joined)
           /\ Covered(joined) = Covered(source) \cup SlotsIn(slot)
  <1> DEFINE l == Append(source, slot)
  <1>1. /\ l \in Seq(SlotRange) /\ Len(l) = Len(source) + 1 /\ l[Len(l)] = slot
        /\ \A i \in DOMAIN source : l[i] = source[i]
        /\ DOMAIN source = 1 .. Len(source) /\ DOMAIN l = 1 .. Len(l) /\ Len(source) \in Nat
    OBVIOUS
  <1>2. PICK s \in ByStart(l) : joined = Merged(s)
    BY DEF AddSlotToSlotRanges
  <1> HIDE DEF l
  <1>3. s \in Seq(SlotRange) /\ Len(s) = Len(l) /\ Increasing(s) /\ Covered(s) = Covered(l)
    BY <1>1, Sorting
  <1>4. s # << >>
    BY <1>1, <1>3
  <1>5. \A x : x \in Covered(l) <=> x \in Covered(source) \/ x \in SlotsIn(slot)
    <2>1. ASSUME NEW i
          PROVE  i \in DOMAIN l <=> i \in DOMAIN source \/ i = Len(l)
      BY <1>1
    <2>2. QED
      BY <1>1, <2>1, InCovered
  <1>6. QED
    BY <1>2, <1>3, <1>4, <1>5, MergedResult

-----------------------------------------------------------------------------
(* Removing *)

(* The ranges of one list end at least two slots before those of another.  *)
Precedes(a, b) == \A i \in DOMAIN a, j \in DOMAIN b : a[i].stop + 1 < b[j].start

(* Every range of a list is one of the two lists.                          *)
From(c, a, b) ==
    \A i \in DOMAIN c : (\E k \in DOMAIN a : c[i] = a[k]) \/ (\E k \in DOMAIN b : c[i] = b[k])

(* What concatenation does to lists of ranges.                             *)
LEMMA Concatenation ==
    ASSUME NEW a \in Seq(SlotRange), NEW b \in Seq(SlotRange), NEW c, c = a \o b
    PROVE  /\ c \in Seq(SlotRange) /\ Covered(c) = Covered(a) \cup Covered(b)
           /\ Disjoint(a) /\ Disjoint(b) /\ Covered(a) \cap Covered(b) = {} => Disjoint(c)
           /\ Normal(a) /\ Normal(b) /\ Precedes(a, b) => Normal(c)
           /\ From(c, a, b)
  <1> DEFINE m == Len(a)
             n == Len(b)
  <1>1. /\ m \in Nat /\ n \in Nat /\ DOMAIN a = 1 .. m /\ DOMAIN b = 1 .. n
        /\ m = Len(a) /\ n = Len(b)
    OBVIOUS
  <1>2. /\ c \in Seq(SlotRange) /\ Len(c) = m + n /\ DOMAIN c = 1 .. m + n
        /\ \A i \in 1 .. m : c[i] = a[i]
        /\ \A i \in 1 .. n : c[m + i] = b[i]
    OBVIOUS
  <1> HIDE DEF m, n
  <1>3. /\ \A i \in 1 .. m : i \in 1 .. m + n
        /\ \A i \in 1 .. n : m + i \in 1 .. m + n
        /\ \A i \in 1 .. m + n : i \in 1 .. m \/ (i - m \in 1 .. n /\ m + (i - m) = i)
    BY <1>1
  <1>4. \A i \in 1 .. m + n : i \in 1 .. m \/ \E k \in 1 .. n : i = m + k
    BY <1>3
  <1>5. Covered(c) = Covered(a) \cup Covered(b)
    <2>1. ASSUME NEW x, x \in Covered(c)
          PROVE  x \in Covered(a) \/ x \in Covered(b)
      <3>1. PICK i \in 1 .. m + n : x \in SlotsIn(c[i])
        BY <1>2, <2>1, InCovered
      <3>2. CASE i \in 1 .. m
        BY <1>1, <1>2, <3>1, <3>2, InCovered
      <3>3. CASE \E k \in 1 .. n : i = m + k
        <4>1. PICK k \in 1 .. n : i = m + k
          BY <3>3
        <4>2. QED
          BY <1>1, <1>2, <3>1, <4>1, InCovered
      <3>4. QED
        BY <1>4, <3>2, <3>3
    <2>2. ASSUME NEW x, x \in Covered(a)
          PROVE  x \in Covered(c)
      <3>1. PICK i \in 1 .. m : x \in SlotsIn(a[i])
        BY <1>1, <2>2, InCovered
      <3>2. i \in DOMAIN c /\ x \in SlotsIn(c[i])
        BY <1>2, <1>3, <3>1
      <3>3. QED
        BY <1>2, <3>2, InCovered
    <2>3. ASSUME NEW x, x \in Covered(b)
          PROVE  x \in Covered(c)
      <3>1. PICK i \in 1 .. n : x \in SlotsIn(b[i])
        BY <1>1, <2>3, InCovered
      <3>2. QED
        BY <1>2, <1>3, <3>1, InCovered
    <2>4. QED
      BY <2>1, <2>2, <2>3
  <1>6. ASSUME Disjoint(a), Disjoint(b), Covered(a) \cap Covered(b) = {}
        PROVE  Disjoint(c)
    <2>1. SUFFICES ASSUME NEW i \in 1 .. m + n, NEW j \in 1 .. m + n, i # j,
                          NEW x, x \in SlotsIn(c[i]), x \in SlotsIn(c[j])
                   PROVE  FALSE
      BY <1>2 DEF Disjoint
    <2>2. CASE i \in 1 .. m /\ j \in 1 .. m
      BY <1>1, <1>2, <1>6, <2>1, <2>2 DEF Disjoint
    <2>3. CASE i \in 1 .. m /\ \E k \in 1 .. n : j = m + k
      <3>1. PICK k \in 1 .. n : j = m + k
        BY <2>3
      <3>2. x \in Covered(a) /\ x \in Covered(b)
        BY <1>1, <1>2, <2>1, <2>3, <3>1, InCovered
      <3>3. QED
        BY <1>6, <3>2
    <2>4. CASE j \in 1 .. m /\ \E k \in 1 .. n : i = m + k
      <3>1. PICK k \in 1 .. n : i = m + k
        BY <2>4
      <3>2. x \in Covered(a) /\ x \in Covered(b)
        BY <1>1, <1>2, <2>1, <2>4, <3>1, InCovered
      <3>3. QED
        BY <1>6, <3>2
    <2>5. CASE (\E k \in 1 .. n : i = m + k) /\ \E k \in 1 .. n : j = m + k
      <3>1. PICK k \in 1 .. n : i = m + k
        BY <2>5
      <3>2. PICK l \in 1 .. n : j = m + l
        BY <2>5
      <3>3. k # l /\ x \in SlotsIn(b[k]) /\ x \in SlotsIn(b[l])
        BY <1>2, <2>1, <3>1, <3>2
      <3>4. QED
        BY <1>1, <1>6, <3>3 DEF Disjoint
    <2>6. QED
      BY <1>4, <2>2, <2>3, <2>4, <2>5
  <1>7. ASSUME Normal(a), Normal(b), Precedes(a, b)
        PROVE  Normal(c)
    <2> SUFFICES ASSUME NEW i \in 1 .. Len(c) - 1
                 PROVE  c[i].stop + 1 < c[i + 1].start
      BY DEF Normal
    <2>1. i \in Nat /\ 1 <= i /\ i < m + n
      BY <1>1, <1>2
    <2>2. CASE i < m
      <3>1. i \in 1 .. m - 1 /\ i \in 1 .. m /\ i + 1 \in 1 .. m
        BY <1>1, <2>1, <2>2
      <3>2. a[i].stop + 1 < a[i + 1].start
        BY <1>1, <1>7, <3>1 DEF Normal
      <3>3. QED
        BY <1>2, <3>1, <3>2
    <2>3. CASE i = m
      <3>1. i \in 1 .. m /\ 1 \in 1 .. n /\ i + 1 = m + 1
        BY <1>1, <2>1, <2>3
      <3>2. a[i].stop + 1 < b[1].start
        BY <1>1, <1>7, <3>1 DEF Precedes
      <3>3. QED
        BY <1>2, <3>1, <3>2
    <2>4. CASE i > m
      <3>1. PICK k \in 1 .. n - 1 : i = m + k
        <4>1. i - m \in 1 .. n - 1 /\ i = m + (i - m)
          BY <1>1, <2>1, <2>4
        <4>2. QED
          BY <4>1
      <3>2. k \in 1 .. n /\ k + 1 \in 1 .. n /\ i + 1 = m + (k + 1)
        BY <1>1, <3>1
      <3>3. b[k].stop + 1 < b[k + 1].start
        BY <1>1, <1>7 DEF Normal
      <3>4. c[i] = b[k] /\ c[i + 1] = b[k + 1]
        BY <1>2, <3>1, <3>2
      <3>5. QED
        BY <3>3, <3>4
    <2>5. i < m \/ i = m \/ i > m
      <3>1. m \in Nat
        BY <1>1
      <3>2. QED
        BY <2>1, <3>1
    <2>6. QED
      BY <2>2, <2>3, <2>4, <2>5
  <1>8. From(c, a, b)
    <2> SUFFICES ASSUME NEW i \in DOMAIN c
                 PROVE  (\E k \in DOMAIN a : c[i] = a[k]) \/ (\E k \in DOMAIN b : c[i] = b[k])
      BY DEF From
    <2>1. CASE i \in 1 .. m
      BY <1>1, <1>2, <2>1
    <2>2. CASE \E k \in 1 .. n : i = m + k
      <3>1. PICK k \in 1 .. n : i = m + k
        BY <2>2
      <3>2. k \in DOMAIN b /\ c[i] = b[k]
        BY <1>1, <1>2, <3>1
      <3>3. QED
        BY <3>2
    <2>3. i \in 1 .. m + n
      BY <1>2
    <2>4. QED
      BY <1>4, <2>1, <2>2, <2>3
  <1>9. QED
    BY <1>2, <1>5, <1>6, <1>7, <1>8

(* One turn of the loop of RemoveSlotFromSlotRanges: of a range, exactly   *)
(* the slots of the cut go, and what stays are ranges within it, in order  *)
(* and with a gap between them.                                            *)
LEMMA RemainderResult ==
    ASSUME NEW r \in SlotRange, NEW cut \in SlotRange, NEW q, q = Remainder(r, cut)
    PROVE  /\ q \in Seq(SlotRange)
           /\ Normal(q)
           /\ \A k \in DOMAIN q : r.start <= q[k].start /\ q[k].stop <= r.stop
           /\ Covered(q) = SlotsIn(r) \ SlotsIn(cut)
  <1> DEFINE left == [start |-> r.start, stop |-> cut.start - 1]
             right == [start |-> cut.stop + 1, stop |-> r.stop]
  <1>1. /\ r.start \in Nat /\ r.stop \in Nat /\ r.start <= r.stop /\ r.stop <= MaxSlotID
        /\ cut.start \in Nat /\ cut.stop \in Nat /\ cut.start <= cut.stop
    BY Bounds
  <1>2. ASSUME r.start < cut.start, HasOverlap(r, cut)
        PROVE  left \in SlotRange
    <2>1. r.start <= cut.start - 1 /\ cut.start - 1 \in Nat /\ cut.start - 1 <= MaxSlotID
      BY <1>1, <1>2, MaxSlotIDAssumption DEF HasOverlap
    <2>2. QED
      BY <1>1, <2>1, MakeRange
  <1>3. ASSUME r.stop > cut.stop
        PROVE  right \in SlotRange
    <2>1. cut.stop + 1 <= r.stop /\ cut.stop + 1 \in Nat
      BY <1>1, <1>3
    <2>2. QED
      BY <1>1, <2>1, MakeRange
  <1>4. \A x : /\ x \in SlotsIn(r) <=> x \in Nat /\ r.start <= x /\ x <= r.stop
               /\ x \in SlotsIn(cut) <=> x \in Nat /\ cut.start <= x /\ x <= cut.stop
    BY InRange
  <1>5. left.start = r.start /\ left.stop = cut.start - 1
           /\ right.start = cut.stop + 1 /\ right.stop = r.stop
    OBVIOUS
  <1>6. \A x : /\ left \in SlotRange =>
                    (x \in SlotsIn(left) <=> x \in Nat /\ r.start <= x /\ x <= cut.start - 1)
               /\ right \in SlotRange =>
                    (x \in SlotsIn(right) <=> x \in Nat /\ cut.stop + 1 <= x /\ x <= r.stop)
    BY <1>5, InRange
  <1>7. q = IF ~HasOverlap(r, cut) THEN <<r>>
            ELSE (IF r.start < cut.start THEN <<left>> ELSE << >>)
                    \o (IF r.stop > cut.stop THEN <<right>> ELSE << >>)
    BY DEF Remainder
  <1> HIDE DEF left, right
  <1>8. CASE ~HasOverlap(r, cut)
    <2>1. q = <<r>>
      BY <1>7, <1>8
    <2>2. q \in Seq(SlotRange) /\ DOMAIN q = {1} /\ q[1] = r /\ Len(q) = 1
      BY <2>1
    <2>3. Normal(q)
      BY <2>2 DEF Normal
    <2>4. \A x : x \in Covered(q) <=> x \in SlotsIn(r) /\ x \notin SlotsIn(cut)
      <3>1. \A x : x \in Covered(q) <=> x \in SlotsIn(r)
        BY <2>2, InCovered
      <3>2. SlotsIn(r) \cap SlotsIn(cut) = {}
        BY <1>8, OverlapShares
      <3>3. QED
        BY <3>1, <3>2
    <2>5. QED
      BY <1>1, <2>2, <2>3, <2>4
  <1>9. CASE HasOverlap(r, cut) /\ r.start < cut.start /\ r.stop > cut.stop
    <2>1. q = <<left>> \o <<right>>
      BY <1>7, <1>9
    <2>2. left \in SlotRange /\ right \in SlotRange
      BY <1>2, <1>3, <1>9
    <2>3. q \in Seq(SlotRange) /\ DOMAIN q = {1, 2} /\ q[1] = left /\ q[2] = right /\ Len(q) = 2
      BY <2>1, <2>2
    <2>4. left.stop + 1 < right.start
      BY <1>1, <1>5
    <2>5. Normal(q)
      BY <2>3, <2>4 DEF Normal
    <2>6. \A x : x \in Covered(q) <=> x \in SlotsIn(left) \/ x \in SlotsIn(right)
      BY <2>3, InCovered
    <2>7. \A x : x \in Covered(q) <=> x \in SlotsIn(r) /\ x \notin SlotsIn(cut)
      BY <1>1, <1>4, <1>6, <1>9, <2>2, <2>6
    <2>8. r.start <= left.start /\ left.stop <= r.stop /\ r.start <= right.start /\ right.stop <= r.stop
      BY <1>1, <1>5, <1>9
    <2>9. QED
      BY <2>3, <2>5, <2>7, <2>8
  <1>10. CASE HasOverlap(r, cut) /\ r.start < cut.start /\ ~(r.stop > cut.stop)
    <2>1. q = <<left>>
      BY <1>7, <1>10
    <2>2. left \in SlotRange
      BY <1>2, <1>10
    <2>3. q \in Seq(SlotRange) /\ DOMAIN q = {1} /\ q[1] = left /\ Len(q) = 1
      BY <2>1, <2>2
    <2>4. Normal(q)
      BY <2>3 DEF Normal
    <2>5. \A x : x \in Covered(q) <=> x \in SlotsIn(left)
      BY <2>3, InCovered
    <2>6. \A x : x \in Covered(q) <=> x \in SlotsIn(r) /\ x \notin SlotsIn(cut)
      BY <1>1, <1>4, <1>6, <1>10, <2>2, <2>5 DEF HasOverlap
    <2>7. r.start <= left.start /\ left.stop <= r.stop
      BY <1>1, <1>5, <1>10 DEF HasOverlap
    <2>8. QED
      BY <2>3, <2>4, <2>6, <2>7
  <1>11. CASE HasOverlap(r, cut) /\ ~(r.start < cut.start) /\ r.stop > cut.stop
    <2>1. q = <<right>>
      BY <1>7, <1>11
    <2>2. right \in SlotRange
      BY <1>3, <1>11
    <2>3. q \in Seq(SlotRange) /\ DOMAIN q = {1} /\ q[1] = right /\ Len(q) = 1
      BY <2>1, <2>2
    <2>4. Normal(q)
      BY <2>3 DEF Normal
    <2>5. \A x : x \in Covered(q) <=> x \in SlotsIn(right)
      BY <2>3, InCovered
    <2>6. \A x : x \in Covered(q) <=> x \in SlotsIn(r) /\ x \notin SlotsIn(cut)
      BY <1>1, <1>4, <1>6, <1>11, <2>2, <2>5 DEF HasOverlap
    <2>7. r.start <= right.start /\ right.stop <= r.stop
      BY <1>1, <1>5, <1>11 DEF HasOverlap
    <2>8. QED
      BY <2>3, <2>4, <2>6, <2>7
  <1>12. CASE HasOverlap(r, cut) /\ ~(r.start < cut.start) /\ ~(r.stop > cut.stop)
    <2>1. q = << >>
      BY <1>7, <1>12
    <2>2. q \in Seq(SlotRange) /\ DOMAIN q = {} /\ Len(q) = 0
      BY <2>1
    <2>3. Normal(q)
      BY <2>2 DEF Normal
    <2>4. \A x : x \notin Covered(q)
      BY <2>2, InCovered
    <2>5. SlotsIn(r) \ SlotsIn(cut) = {}
      BY <1>1, <1>4, <1>12
    <2>6. QED
      BY <2>2, <2>3, <2>4, <2>5
  <1>13. QED
    BY <1>8, <1>9, <1>10, <1>11, <1>12

(* The loop of RemoveSlotFromSlotRanges runs: there is one list of what is *)
(* left for every number of ranges seen, each made from the one before.    *)
LEMMA KeptSteps ==
    ASSUME NEW s, Len(s) \in Nat, NEW slot
    PROVE  \E m : /\ m = [k \in 0 .. Len(s) |->
                            IF k = 0 THEN << >> ELSE m[k - 1] \o Remainder(s[k], slot)]
                  /\ Kept(s, slot) = m[Len(s)]
  <1> DEFINE Step(m, n) ==
                m = [k \in 0 .. n |-> IF k = 0 THEN << >> ELSE m[k - 1] \o Remainder(s[k], slot)]
             Steps == {n \in Nat : \E m : Step(m, n)}
  <1>1. 0 \in Steps
    <2>1. Step([k \in 0 .. 0 |-> << >>], 0)
      OBVIOUS
    <2>2. QED
      BY <2>1
  <1>2. ASSUME NEW n \in Nat, n \in Steps
        PROVE  n + 1 \in Steps
    <2>1. PICK m : Step(m, n)
      BY <1>2
    <2> DEFINE next == [k \in 0 .. n + 1 |->
                            IF k = n + 1 THEN m[n] \o Remainder(s[k], slot) ELSE m[k]]
    <2>2. \A k \in 0 .. n + 1 :
            next[k] = IF k = 0 THEN << >> ELSE next[k - 1] \o Remainder(s[k], slot)
      <3> SUFFICES ASSUME NEW k \in 0 .. n + 1
                   PROVE  next[k] = IF k = 0 THEN << >> ELSE next[k - 1] \o Remainder(s[k], slot)
        OBVIOUS
      <3>1. CASE k = n + 1
        BY <3>1
      <3>2. CASE k # n + 1
        <4>1. k \in 0 .. n /\ (k # 0 => k - 1 \in 0 .. n)
          BY <3>2
        <4>2. m[k] = IF k = 0 THEN << >> ELSE m[k - 1] \o Remainder(s[k], slot)
          BY <2>1, <4>1
        <4>3. QED
          BY <3>2, <4>1, <4>2
      <3>3. QED
        BY <3>1, <3>2
    <2>3. Step(next, n + 1)
      BY <2>2
    <2>4. n + 1 \in Nat
      OBVIOUS
    <2> HIDE DEF next
    <2>5. QED
      BY <2>3, <2>4, Zenon
  <1>3. \A n \in Nat : n \in Steps
    <2> HIDE DEF Steps
    <2>1. QED
      BY <1>1, <1>2, Induction
  <1>4. \E m : m = [k \in 0 .. Len(s) |->
                        IF k = 0 THEN << >> ELSE m[k - 1] \o Remainder(s[k], slot)]
    BY <1>3
  <1> DEFINE kept == CHOOSE m : m = [k \in 0 .. Len(s) |->
                        IF k = 0 THEN << >> ELSE m[k - 1] \o Remainder(s[k], slot)]
  <1>5. kept = [k \in 0 .. Len(s) |->
                    IF k = 0 THEN << >> ELSE kept[k - 1] \o Remainder(s[k], slot)]
    BY <1>4, Zenon
  <1>6. Kept(s, slot) = kept[Len(s)]
    BY DEF Kept
  <1> HIDE DEF kept
  <1>7. QED
    BY <1>5, <1>6

(* The loop takes exactly the slots of the range from the list, and keeps  *)
(* disjoint ranges disjoint and the normal form.                           *)
LEMMA KeptResult ==
    ASSUME NEW s \in Seq(SlotRange), NEW slot \in SlotRange
    PROVE  /\ Kept(s, slot) \in Seq(SlotRange)
           /\ Covered(Kept(s, slot)) = Covered(s) \ SlotsIn(slot)
           /\ Disjoint(s) => Disjoint(Kept(s, slot))
           /\ Normal(s) => Normal(Kept(s, slot))
  <1>1. Len(s) \in Nat /\ DOMAIN s = 1 .. Len(s) /\ \A i \in 1 .. Len(s) : s[i] \in SlotRange
    OBVIOUS
  <1>2. PICK m : /\ m = [k \in 0 .. Len(s) |->
                            IF k = 0 THEN << >> ELSE m[k - 1] \o Remainder(s[k], slot)]
                 /\ Kept(s, slot) = m[Len(s)]
    BY <1>1, KeptSteps
  <1> DEFINE Seen(k) == UNION {SlotsIn(s[i]) : i \in 1 .. k}
             Good(k) == /\ m[k] \in Seq(SlotRange)
                        /\ Covered(m[k]) = Seen(k) \ SlotsIn(slot)
                        /\ Disjoint(s) => Disjoint(m[k])
                        /\ Normal(s) => Normal(m[k])
                        /\ \A i \in DOMAIN m[k] : \E j \in 1 .. k : m[k][i].stop <= s[j].stop
             S == {k \in Nat : k \in 0 .. Len(s) => Good(k)}
  <1>3. 0 \in S
    <2>1. m[0] = << >>
      BY <1>1, <1>2
    <2>2. << >> \in Seq(SlotRange) /\ DOMAIN << >> = {} /\ Len(<< >>) = 0
      OBVIOUS
    <2>3. Normal(<< >>) /\ Disjoint(<< >>)
      BY <2>2 DEF Normal, Disjoint
    <2>4. Covered(<< >>) = {}
      BY <2>2 DEF Covered
    <2>5. Seen(0) = {}
      OBVIOUS
    <2>6. Good(0)
      BY <2>1, <2>2, <2>3, <2>4, <2>5
    <2>7. QED
      BY <2>6
  <1>4. ASSUME NEW k \in Nat, k \in S
        PROVE  k + 1 \in S
    <2>1. SUFFICES ASSUME k + 1 \in 0 .. Len(s) PROVE Good(k + 1)
      OBVIOUS
    <2>2. /\ k \in 0 .. Len(s) /\ k + 1 \in 1 .. Len(s) /\ k + 1 # 0 /\ (k + 1) - 1 = k
          /\ \A j \in 1 .. k : j \in 1 .. Len(s) /\ j < k + 1 /\ j \in 1 .. k + 1
          /\ k + 1 \in 1 .. k + 1
      BY <1>1, <2>1
    <2>3. Good(k)
      BY <1>4, <2>2
    <2> DEFINE r == s[k + 1]
               q == Remainder(r, slot)
    <2>4. m[k + 1] = m[k] \o q
      BY <1>2, <2>1, <2>2
    <2>5. \A x : x \in Seen(k + 1) <=> x \in Seen(k) \/ x \in SlotsIn(r)
      <3>1. \A i : i \in 1 .. k + 1 <=> i \in 1 .. k \/ i = k + 1
        BY <2>2
      <3>2. QED
        BY <3>1
    <2>6. r \in SlotRange
      BY <1>1, <2>2
    <2>7. r = s[k + 1]
      OBVIOUS
    <2> HIDE DEF r
    <2>8. /\ q \in Seq(SlotRange) /\ Normal(q)
          /\ \A i \in DOMAIN q : r.start <= q[i].start /\ q[i].stop <= r.stop
          /\ Covered(q) = SlotsIn(r) \ SlotsIn(slot)
      BY <2>6, RemainderResult
    <2> HIDE DEF q
    <2>9. \A x : x \in Seen(k) <=> \E j \in 1 .. k : x \in SlotsIn(s[j])
      OBVIOUS
    <2> HIDE DEF Seen
    <2>10. m[k] \in Seq(SlotRange) /\ q \in Seq(SlotRange)
      BY <2>3, <2>8
    <2>11. m[k + 1] \in Seq(SlotRange) /\ Covered(m[k + 1]) = Covered(m[k]) \cup Covered(q)
      BY <2>3, <2>4, <2>8, Concatenation
    <2>12. Covered(m[k + 1]) = Seen(k + 1) \ SlotsIn(slot)
      <3>1. Covered(m[k]) = Seen(k) \ SlotsIn(slot)
        BY <2>3
      <3>2. QED
        BY <2>5, <2>8, <2>11, <3>1
    <2>13. ASSUME Disjoint(s)
           PROVE  Disjoint(m[k + 1])
      <3>1. Seen(k) \cap SlotsIn(r) = {}
        <4>1. \A j \in 1 .. k : SlotsIn(s[j]) \cap SlotsIn(r) = {}
          BY <1>1, <2>2, <2>13, <2>7 DEF Disjoint
        <4>2. QED
          BY <2>9, <4>1
      <3>2. Covered(m[k]) \cap Covered(q) = {}
        BY <2>3, <2>8, <3>1
      <3>3. Disjoint(q)
        BY <2>8, NormalIsApart, ApartDisjoint
      <3>4. QED
        BY <2>10, <2>3, <2>4, <2>13, <3>2, <3>3, Concatenation
    <2>14. ASSUME Normal(s)
           PROVE  Normal(m[k + 1])
      <3>1. Precedes(m[k], q)
        <4> SUFFICES ASSUME NEW i \in DOMAIN m[k], NEW j \in DOMAIN q
                     PROVE  m[k][i].stop + 1 < q[j].start
          BY DEF Precedes
        <4>1. PICK l \in 1 .. k : m[k][i].stop <= s[l].stop
          BY <2>3
        <4>2. s[l].stop + 1 < r.start
          BY <1>1, <2>2, <2>14, <2>7, NormalOrdered
        <4>3. r.start <= q[j].start
          BY <2>8
        <4>4. m[k][i].stop \in Nat /\ s[l].stop \in Nat /\ r.start \in Nat /\ q[j].start \in Nat
          <5>1. m[k][i] \in SlotRange /\ s[l] \in SlotRange /\ q[j] \in SlotRange
            BY <1>1, <2>2, <2>3, <2>8
          <5>2. QED
            BY <2>6, <5>1, Bounds
        <4>5. \A a, b, c, d \in Nat : a <= b /\ b + 1 < c /\ c <= d => a + 1 < d
          OBVIOUS
        <4>6. QED
          BY <4>1, <4>2, <4>3, <4>4, <4>5, Zenon
      <3>2. QED
        BY <2>10, <2>3, <2>4, <2>8, <2>14, <3>1, Concatenation
    <2>15. \A i \in DOMAIN m[k + 1] : \E j \in 1 .. k + 1 : m[k + 1][i].stop <= s[j].stop
      <3> SUFFICES ASSUME NEW i \in DOMAIN m[k + 1]
                   PROVE  \E j \in 1 .. k + 1 : m[k + 1][i].stop <= s[j].stop
        OBVIOUS
      <3>1. \/ \E l \in DOMAIN m[k] : m[k + 1][i] = m[k][l]
            \/ \E l \in DOMAIN q : m[k + 1][i] = q[l]
        <4>1. From(m[k + 1], m[k], q)
          BY <2>10, <2>4, Concatenation
        <4>2. QED
          BY <4>1 DEF From
      <3>2. CASE \E l \in DOMAIN m[k] : m[k + 1][i] = m[k][l]
        BY <2>2, <2>3, <3>2
      <3>3. CASE \E l \in DOMAIN q : m[k + 1][i] = q[l]
        BY <2>2, <2>8, <2>7, <3>3
      <3>4. QED
        BY <3>1, <3>2, <3>3
    <2>16. QED
      BY <2>11, <2>12, <2>13, <2>14, <2>15
  <1>5. \A k \in Nat : k \in S
    <2> HIDE DEF S
    <2>1. QED
      BY <1>3, <1>4, Induction
  <1>6. Good(Len(s))
    <2> HIDE DEF Good
    <2>1. QED
      BY <1>1, <1>5
  <1>7. Seen(Len(s)) = Covered(s)
    BY <1>1 DEF Covered
  <1>8. QED
    BY <1>2, <1>6, <1>7

(* RemoveSlotFromSlotRanges: whatever the order of the list, exactly the   *)
(* slots of the range go; a list that names no slot twice still does not,  *)
(* and a list in normal form stays in it.                                  *)
THEOREM RemoveSlotResult ==
    ASSUME NEW source \in Seq(SlotRange), NEW slot \in SlotRange,
           NEW left \in RemoveSlotFromSlotRanges(source, slot)
    PROVE  /\ left \in Seq(SlotRange)
           /\ Covered(left) = Covered(source) \ SlotsIn(slot)
           /\ Disjoint(source) => Disjoint(left)
           /\ Normal(source) => Normal(left)
  <1>1. PICK s \in ByStart(source) : left = Kept(s, slot)
    BY DEF RemoveSlotFromSlotRanges
  <1>2. /\ s \in Seq(SlotRange) /\ Increasing(s) /\ Covered(s) = Covered(source)
        /\ Apart(source) => Apart(s)
        /\ Disjoint(source) => Disjoint(s)
    BY Sorting
  <1>3. Normal(source) => Normal(s)
    BY <1>2, NormalIsApart
  <1>4. QED
    BY <1>1, <1>2, <1>3, KeptResult

-----------------------------------------------------------------------------
(* The lists of a cluster *)

ListsInv ==
    /\ lists \in Seq(Seq(SlotRange))
    /\ \A i \in DOMAIN lists : Disjoint(lists[i])
    /\ \A i, j \in DOMAIN lists : i # j => Covered(lists[i]) \cap Covered(lists[j]) = {}

Sets == [i \in DOMAIN lists |-> Covered(lists[i])]

(* The set of slots that the only hit of findShardIndexBySlot belongs to   *)
(* is the only one that the range touches, and it touches no gap of it.    *)
LEMMA HitIsSource ==
    ASSUME ListsInv, NEW slot \in SlotRange
    PROVE  FindShardIndexBySlot(lists, slot) \subseteq SourceShards(Sets, slot)
  <1> SUFFICES ASSUME NEW i \in FindShardIndexBySlot(lists, slot)
               PROVE  i \in SourceShards(Sets, slot)
    OBVIOUS
  <1>1. i \in DOMAIN lists /\ DOMAIN Sets = DOMAIN lists
    BY DEF FindShardIndexBySlot, Sets
  <1>2. PICK k \in DOMAIN lists[i] :
            /\ HasOverlap(lists[i][k], slot)
            /\ \A j \in DOMAIN lists : \A l \in DOMAIN lists[j] :
                HasOverlap(lists[j][l], slot) => j = i /\ l = k
    BY DEF FindShardIndexBySlot
  <1>3. \A j \in DOMAIN lists : Sets[j] = Covered(lists[j])
    BY DEF Sets
  <1>4. \A j \in DOMAIN lists : \A l \in DOMAIN lists[j] : lists[j][l] \in SlotRange
    BY DEF ListsInv
  <1>5. ASSUME NEW j \in DOMAIN lists, NEW x, x \in Covered(lists[j]), x \in SlotsIn(slot)
        PROVE  j = i /\ x \in SlotsIn(lists[i][k])
    <2>1. PICK l \in DOMAIN lists[j] : x \in SlotsIn(lists[j][l])
      BY <1>5, InCovered
    <2>2. HasOverlap(lists[j][l], slot)
      BY <1>4, <1>5, <2>1, OverlapShares
    <2>3. QED
      BY <1>2, <2>1, <2>2
  <1>6. Sets[i] \cap SlotsIn(slot) # {}
    <2>1. PICK x : x \in SlotsIn(lists[i][k]) /\ x \in SlotsIn(slot)
      BY <1>1, <1>2, <1>4, OverlapShares
    <2>2. x \in Covered(lists[i])
      BY <2>1, InCovered
    <2>3. QED
      BY <1>1, <1>3, <2>1, <2>2
  <1>7. ~TouchesTwoRuns(Sets[i], slot)
    <2>1. SUFFICES ASSUME NEW x \in Sets[i] \cap SlotsIn(slot), NEW y \in Sets[i] \cap SlotsIn(slot),
                          NEW gap \in SlotsIn(slot) \ Sets[i], x < gap, gap < y
                   PROVE  FALSE
      BY DEF TouchesTwoRuns
    <2>2. x \in SlotsIn(lists[i][k]) /\ y \in SlotsIn(lists[i][k])
      BY <1>1, <1>3, <1>5
    <2>3. gap \in SlotsIn(lists[i][k])
      <3>1. lists[i][k] \in SlotRange
        BY <1>1, <1>4
      <3>2. gap \in Nat
        BY InRange
      <3>3. lists[i][k].start \in Nat /\ lists[i][k].stop \in Nat
        BY <3>1, Bounds
      <3>4. x \in Nat /\ y \in Nat /\ lists[i][k].start <= x /\ y <= lists[i][k].stop
        BY <2>2, <3>1, InRange
      <3>5. lists[i][k].start <= gap /\ gap <= lists[i][k].stop
        BY <2>1, <3>2, <3>3, <3>4
      <3>6. QED
        BY <3>1, <3>2, <3>5, InRange
    <2>4. gap \in Covered(lists[i])
      BY <2>3, InCovered
    <2>5. QED
      BY <1>1, <1>3, <2>4
  <1>8. \A j \in DOMAIN lists \ {i} : Sets[j] \cap SlotsIn(slot) = {}
    BY <1>3, <1>5
  <1>9. QED
    BY <1>1, <1>6, <1>7, <1>8 DEF SourceShards

(* On lists in normal form the shard that only one run of the range        *)
(* touches is hit once.                                                    *)
LEMMA SourceIsHit ==
    ASSUME ListsInv, NEW slot \in SlotRange, \A i \in DOMAIN lists : Normal(lists[i])
    PROVE  SourceShards(Sets, slot) \subseteq FindShardIndexBySlot(lists, slot)
  <1> SUFFICES ASSUME NEW i \in SourceShards(Sets, slot)
               PROVE  i \in FindShardIndexBySlot(lists, slot)
    OBVIOUS
  <1>1. /\ i \in DOMAIN lists
        /\ Sets[i] \cap SlotsIn(slot) # {}
        /\ ~TouchesTwoRuns(Sets[i], slot)
        /\ \A j \in DOMAIN lists \ {i} : Sets[j] \cap SlotsIn(slot) = {}
    BY DEF SourceShards, Sets
  <1>2. \A j \in DOMAIN lists : Sets[j] = Covered(lists[j])
    BY DEF Sets
  <1>3. \A j \in DOMAIN lists : \A l \in DOMAIN lists[j] : lists[j][l] \in SlotRange
    BY DEF ListsInv
  <1>4. PICK k \in DOMAIN lists[i] : HasOverlap(lists[i][k], slot)
    <2>1. PICK x : x \in Covered(lists[i]) /\ x \in SlotsIn(slot)
      BY <1>1, <1>2
    <2>2. PICK k \in DOMAIN lists[i] : x \in SlotsIn(lists[i][k])
      BY <2>1, InCovered
    <2>3. QED
      BY <1>1, <1>3, <2>1, <2>2, OverlapShares
  <1>5. ASSUME NEW j \in DOMAIN lists, NEW l \in DOMAIN lists[j], HasOverlap(lists[j][l], slot)
        PROVE  j = i
    <2>1. PICK x : x \in SlotsIn(lists[j][l]) /\ x \in SlotsIn(slot)
      BY <1>3, <1>5, OverlapShares
    <2>2. x \in Sets[j]
      BY <1>2, <2>1, InCovered
    <2>3. QED
      BY <1>1, <2>1, <2>2
  <1>6. ASSUME NEW a \in DOMAIN lists[i], NEW b \in DOMAIN lists[i], a < b,
               HasOverlap(lists[i][a], slot), HasOverlap(lists[i][b], slot)
        PROVE  FALSE
    <2> DEFINE gap == lists[i][a].stop + 1
    <2>1. lists[i] \in Seq(SlotRange) /\ Normal(lists[i])
      BY <1>1 DEF ListsInv
    <2>2. \A c, d \in DOMAIN lists[i] : c < d => lists[i][c].stop + 1 < lists[i][d].start
      BY <2>1, NormalOrdered
    <2>3. \A c \in DOMAIN lists[i] : /\ lists[i][c].start \in Nat /\ lists[i][c].stop \in Nat
                                     /\ lists[i][c].start <= lists[i][c].stop
      BY <1>1, <1>3, Bounds
    <2>4. PICK x : x \in SlotsIn(lists[i][a]) /\ x \in SlotsIn(slot)
      BY <1>1, <1>3, <1>6, OverlapShares
    <2>5. PICK y : y \in SlotsIn(lists[i][b]) /\ y \in SlotsIn(slot)
      BY <1>1, <1>3, <1>6, OverlapShares
    <2>6. x \in Sets[i] /\ y \in Sets[i]
      BY <1>1, <1>2, <2>4, <2>5, InCovered
    <2>7. /\ x \in Nat /\ y \in Nat /\ x <= lists[i][a].stop /\ lists[i][b].start <= y
          /\ slot.start <= x /\ y <= slot.stop
      BY <1>1, <1>3, <2>4, <2>5, InRange
    <2>8. lists[i][a].stop + 1 < lists[i][b].start
      BY <1>6, <2>2
    <2>9. gap \in Nat /\ x < gap /\ gap < y
      BY <2>3, <2>7, <2>8
    <2>10. gap \in SlotsIn(slot)
      <3>1. slot.start \in Nat /\ slot.stop \in Nat
        BY Bounds
      <3>2. slot.start <= gap /\ gap <= slot.stop
        BY <2>7, <2>9, <3>1
      <3>3. QED
        BY <2>9, <3>2, InRange
    <2>11. gap \notin Covered(lists[i])
      <3>1. SUFFICES ASSUME NEW c \in DOMAIN lists[i], gap \in SlotsIn(lists[i][c])
                     PROVE  FALSE
        BY InCovered
      <3>2. lists[i][c].start <= gap /\ gap <= lists[i][c].stop
        BY <1>1, <1>3, <3>1, InRange
      <3>3. c \in Nat /\ a \in Nat
        BY <2>1
      <3>4. CASE c < a
        <4>1. lists[i][c].stop + 1 < lists[i][a].start
          BY <2>2, <3>4
        <4>2. QED
          BY <2>3, <3>2, <4>1
      <3>5. CASE c = a
        BY <2>3, <3>2, <3>5
      <3>6. CASE a < c
        <4>1. lists[i][a].stop + 1 < lists[i][c].start
          BY <2>2, <3>6
        <4>2. QED
          BY <2>3, <3>2, <4>1
      <3>7. QED
        BY <3>3, <3>4, <3>5, <3>6
    <2> HIDE DEF gap
    <2>12. TouchesTwoRuns(Sets[i], slot)
      BY <1>1, <1>2, <2>4, <2>5, <2>6, <2>9, <2>10, <2>11 DEF TouchesTwoRuns
    <2>13. QED
      BY <1>1, <2>12
  <1>7. ASSUME NEW l \in DOMAIN lists[i], HasOverlap(lists[i][l], slot)
        PROVE  l = k
    <2>1. l \in Nat /\ k \in Nat
      BY <1>1 DEF ListsInv
    <2>2. l < k \/ k < l \/ l = k
      BY <2>1
    <2>3. QED
      BY <1>4, <1>6, <1>7, <2>2
  <1>8. QED
    BY <1>1, <1>4, <1>5, <1>7 DEF FindShardIndexBySlot

(* A move, as one on the sets: the range was of one shard only, which      *)
(* loses its slots to the target.                                          *)
MovesSets(source, target, slot) ==
    /\ source \in SourceShards(Sets, slot) \ {target} /\ source \in DOMAIN lists
    /\ target \in DOMAIN lists
    /\ lists' \in Seq(Seq(SlotRange)) /\ DOMAIN lists' = DOMAIN lists
    /\ Covered(lists'[source]) = Covered(lists[source]) \ SlotsIn(slot)
    /\ Disjoint(lists'[source]) /\ (Normal(lists[source]) => Normal(lists'[source]))
    /\ Covered(lists'[target]) = Covered(lists[target]) \cup SlotsIn(slot)
    /\ Normal(lists'[target])
    /\ \A j \in DOMAIN lists : j # source /\ j # target => lists'[j] = lists[j]

(* MigrateSlot's move is such a move, whatever the sorts do.               *)
LEMMA MoveResult ==
    ASSUME ListsInv, NEW slot \in SlotRange, NEW target \in DOMAIN lists, Move(slot, target)
    PROVE  \E source \in DOMAIN lists : MovesSets(source, target, slot)
  <1>1. PICK source \in FindShardIndexBySlot(lists, slot) \ {target} :
          \E left \in RemoveSlotFromSlotRanges(lists[source], slot),
             joined \in AddSlotToSlotRanges(lists[target], slot) :
                lists' = [lists EXCEPT ![source] = left, ![target] = joined]
    BY DEF Move
  <1>2. PICK left \in RemoveSlotFromSlotRanges(lists[source], slot),
             joined \in AddSlotToSlotRanges(lists[target], slot) :
                lists' = [lists EXCEPT ![source] = left, ![target] = joined]
    BY <1>1
  <1>3. source \in SourceShards(Sets, slot) /\ source # target /\ source \in DOMAIN lists
    BY <1>1, HitIsSource DEF FindShardIndexBySlot
  <1>4. lists[source] \in Seq(SlotRange) /\ lists[target] \in Seq(SlotRange) /\ Disjoint(lists[source])
    BY <1>3 DEF ListsInv
  <1>5. /\ left \in Seq(SlotRange) /\ Covered(left) = Covered(lists[source]) \ SlotsIn(slot)
        /\ Disjoint(left) /\ (Normal(lists[source]) => Normal(left))
    BY <1>4, RemoveSlotResult
  <1>6. /\ joined \in Seq(SlotRange) /\ Covered(joined) = Covered(lists[target]) \cup SlotsIn(slot)
        /\ Normal(joined)
    BY <1>4, AddSlotResult
  <1>7. /\ lists'[source] = left /\ lists'[target] = joined /\ DOMAIN lists' = DOMAIN lists
        /\ \A j \in DOMAIN lists : j # source /\ j # target => lists'[j] = lists[j]
    BY <1>2, <1>3 DEF ListsInv
  <1>8. lists' \in Seq(Seq(SlotRange))
    <2>1. Len(lists) \in Nat /\ DOMAIN lists = 1 .. Len(lists)
            /\ \A j \in DOMAIN lists : lists[j] \in Seq(SlotRange)
      BY DEF ListsInv
    <2>2. lists' \in [1 .. Len(lists) -> Seq(SlotRange)]
      BY <1>2, <1>5, <1>6, <1>7, <2>1
    <2>3. QED
      BY <2>1, <2>2
  <1>9. MovesSets(source, target, slot)
    BY <1>3, <1>5, <1>6, <1>7, <1>8 DEF MovesSets
  <1>10. QED
    BY <1>3, <1>9

(* The ranges that CalculateSlotRanges hands out are such as NewSlotRange  *)
(* accepts, as long as there are no more shards than slots.                *)
LEMMA CalculatedInSlotRange ==
    ASSUME NEW n \in 1 .. MaxSlotID + 1, NEW i \in 1 .. n
    PROVE  CalculateSlotRanges(n)[i] \in SlotRange
  <1> DEFINE size == (MaxSlotID + 1) \div n
  <1>1. size \in Nat /\ size >= 1 /\ n * size <= MaxSlotID + 1
    BY MaxSlotIDAssumption
  <1>2. CalculateSlotRanges(n)[i] =
            [start |-> (i - 1) * size, stop |-> IF i # n THEN i * size - 1 ELSE MaxSlotID]
    BY DEF CalculateSlotRanges
  <1> HIDE DEF size
  <1>3. i * size = (i - 1) * size + size /\ (i - 1) * size \in Nat /\ i * size \in Nat
    BY <1>1
  <1>4. i * size <= n * size /\ n * size \in Nat
    BY <1>1, TimesMonotonic
  <1>5. i * size <= MaxSlotID + 1
    BY <1>1, <1>3, <1>4, MaxSlotIDAssumption
  <1> DEFINE stop == IF i # n THEN i * size - 1 ELSE MaxSlotID
  <1>6. stop \in Nat /\ (i - 1) * size <= stop /\ stop <= MaxSlotID
    BY <1>1, <1>3, <1>5, MaxSlotIDAssumption
  <1> HIDE DEF stop
  <1>7. [start |-> (i - 1) * size, stop |-> stop] \in SlotRange
    BY <1>3, <1>6, MakeRange
  <1>8. QED
    BY <1>2, <1>7 DEF stop

(* The lists of a new cluster are one range each, disjoint and complete.   *)
LEMMA CreatedResult ==
    ASSUME lists \in CreatedLists
    PROVE  ListsInv /\ UNION {Covered(lists[i]) : i \in DOMAIN lists} = Slot
  <1>1. PICK n \in 1 .. MaxCreated : lists = [i \in 1 .. n |-> <<CalculateSlotRanges(n)[i]>>]
    BY DEF CreatedLists
  <1> DEFINE r(i) == CalculateSlotRanges(n)[i]
  <1>2. n \in 1 .. MaxSlotID + 1 /\ n \in Nat \ {0}
    BY MaxCreatedAssumption, MaxSlotIDAssumption
  <1>3. \A i \in 1 .. n : r(i) \in SlotRange
    BY <1>2, CalculatedInSlotRange
  <1>4. /\ \A i \in 1 .. n : SlotsIn(r(i)) \subseteq Slot
        /\ \A s \in Slot : \E i \in 1 .. n : \A j \in 1 .. n : s \in SlotsIn(r(j)) <=> j = i
    BY <1>2, CalculateSlotRangesPartition
  <1> HIDE DEF r
  <1>5. DOMAIN lists = 1 .. n /\ \A i \in 1 .. n : lists[i] = <<r(i)>>
    BY <1>1 DEF r
  <1>6. ASSUME NEW i \in 1 .. n
        PROVE  <<r(i)>> \in Seq(SlotRange) /\ Disjoint(<<r(i)>>) /\ Covered(<<r(i)>>) = SlotsIn(r(i))
    <2>1. <<r(i)>> \in Seq(SlotRange) /\ DOMAIN <<r(i)>> = {1} /\ <<r(i)>>[1] = r(i)
      BY <1>3
    <2>2. \A x : x \in Covered(<<r(i)>>) <=> x \in SlotsIn(r(i))
      BY <2>1, InCovered
    <2>3. QED
      BY <2>1, <2>2 DEF Disjoint
  <1>7. lists \in Seq(Seq(SlotRange))
    <2>1. lists \in [1 .. n -> Seq(SlotRange)]
      BY <1>1, <1>6 DEF r
    <2>2. QED
      BY <1>2, <2>1
  <1>8. ASSUME NEW i \in 1 .. n, NEW j \in 1 .. n, i # j
        PROVE  Covered(lists[i]) \cap Covered(lists[j]) = {}
    <2>1. SlotsIn(r(i)) \cap SlotsIn(r(j)) = {}
      BY <1>4, <1>8
    <2>2. QED
      BY <1>5, <1>6, <2>1
  <1>9. UNION {Covered(lists[i]) : i \in DOMAIN lists} = Slot
    <2>1. \A i \in DOMAIN lists : Covered(lists[i]) = SlotsIn(r(i))
      BY <1>5, <1>6
    <2>2. \A x : (\E i \in DOMAIN lists : x \in Covered(lists[i])) <=> x \in Slot
      BY <1>4, <1>5, <2>1
    <2>3. QED
      BY <2>2
  <1>10. QED
    BY <1>5, <1>6, <1>7, <1>8, <1>9 DEF ListsInv

(* The lists of an imported cluster are disjoint.                          *)
LEMMA ImportedResult ==
    ASSUME lists \in Imported
    PROVE  ListsInv
  <1>1. PICK n \in 1 .. MaxParsed : lists \in [1 .. n -> ImportedList]
    BY DEF Imported
  <1>2. ASSUME NEW l \in ImportedList
        PROVE  l \in Seq(SlotRange) /\ Disjoint(l)
    <2>1. PICK m \in 0 .. MaxImported : l \in [1 .. m -> SlotRange]
      BY DEF ImportedList
    <2>2. \A i, j \in DOMAIN l : i # j => ~HasOverlap(l[i], l[j])
      BY DEF ImportedList
    <2>3. m \in Nat
      BY ImportAssumption
    <2>4. l \in Seq(SlotRange) /\ \A i \in DOMAIN l : l[i] \in SlotRange
      BY <2>1, <2>3
    <2>5. Disjoint(l)
      BY <2>2, <2>4, OverlapShares DEF Disjoint
    <2>6. QED
      BY <2>4, <2>5
  <1>3. \A i, j \in DOMAIN lists : i # j => Covered(lists[i]) \cap Covered(lists[j]) = {}
    BY DEF Imported
  <1>4. lists \in Seq(Seq(SlotRange))
    <2>1. n \in Nat
      BY ImportAssumption
    <2>2. lists \in [1 .. n -> Seq(SlotRange)]
      BY <1>1, <1>2
    <2>3. QED
      BY <2>1, <2>2
  <1>5. QED
    BY <1>1, <1>2, <1>3, <1>4 DEF ListsInv

(* A move keeps the lists disjoint, within each shard and between them.    *)
LEMMA MoveKeepsLists ==
    ASSUME ListsInv, [ListsNext]_lists
    PROVE  ListsInv'
  <1>1. CASE UNCHANGED lists
    BY <1>1 DEF ListsInv
  <1>2. CASE ListsNext
    <2>1. PICK slot \in SlotRange, target \in DOMAIN lists : Move(slot, target)
      BY <1>2 DEF ListsNext
    <2>2. PICK source \in DOMAIN lists : MovesSets(source, target, slot)
      BY <2>1, MoveResult
    <2>3. /\ lists' \in Seq(Seq(SlotRange)) /\ DOMAIN lists' = DOMAIN lists
          /\ source # target
          /\ Covered(lists'[source]) = Covered(lists[source]) \ SlotsIn(slot)
          /\ Covered(lists'[target]) = Covered(lists[target]) \cup SlotsIn(slot)
          /\ \A j \in DOMAIN lists : j # source /\ j # target => lists'[j] = lists[j]
      BY <2>2 DEF MovesSets
    <2>4. Disjoint(lists'[target])
      <3>1. lists'[target] \in Seq(SlotRange) /\ Normal(lists'[target])
        BY <2>2, <2>3 DEF MovesSets
      <3>2. QED
        BY <3>1, NormalIsApart, ApartDisjoint
    <2>5. \A j \in DOMAIN lists : Disjoint(lists'[j])
      BY <2>2, <2>3, <2>4 DEF MovesSets, ListsInv
    <2>6. \A j \in DOMAIN lists : j # source => Covered(lists[j]) \cap SlotsIn(slot) = {}
      BY <2>2 DEF MovesSets, SourceShards, Sets
    <2>7. \A i, j \in DOMAIN lists : i # j => Covered(lists[i]) \cap Covered(lists[j]) = {}
      BY DEF ListsInv
    <2>8. ASSUME NEW i \in DOMAIN lists, NEW j \in DOMAIN lists, i # j, j # target
          PROVE  Covered(lists'[i]) \cap Covered(lists'[j]) = {}
      <3>1. Covered(lists'[j]) \subseteq Covered(lists[j]) \ SlotsIn(slot)
        BY <2>3, <2>6, <2>8
      <3>2. Covered(lists'[i]) \subseteq Covered(lists[i]) \cup SlotsIn(slot)
        BY <2>3
      <3>3. QED
        BY <2>7, <2>8, <3>1, <3>2
    <2>9. \A i, j \in DOMAIN lists : i # j => Covered(lists'[i]) \cap Covered(lists'[j]) = {}
      <3> SUFFICES ASSUME NEW i \in DOMAIN lists, NEW j \in DOMAIN lists, i # j
                   PROVE  Covered(lists'[i]) \cap Covered(lists'[j]) = {}
        OBVIOUS
      <3>1. CASE j # target
        BY <2>8, <3>1
      <3>2. CASE i # target
        BY <2>8, <3>2
      <3>3. QED
        BY <3>1, <3>2
    <2>10. QED
      BY <2>3, <2>5, <2>9 DEF ListsInv
  <1>3. QED
    BY <1>1, <1>2

(* The lists hold ranges only, no slot twice, and no slot in two lists.    *)
LEMMA ListsInvariant == ListsSpec => []ListsInv
  <1>1. ListsInit => ListsInv
    BY CreatedResult, ImportedResult DEF ListsInit
  <1>2. ListsInv /\ [ListsNext]_lists => ListsInv'
    BY MoveKeepsLists
  <1>3. QED
    BY <1>1, <1>2, PTL DEF ListsSpec

(* The lists only ever hold ranges that NewSlotRange would accept: the     *)
(* pieces that RemoveSlotFromSlotRanges leaves are never empty, and        *)
(* nothing runs past the last slot.                                        *)
THEOREM SlotListsTyped == ListsSpec => []ListsTypeOK
  <1>1. ListsInv => ListsTypeOK
    BY DEF ListsInv, ListsTypeOK
  <1>2. QED
    BY <1>1, ListsInvariant, PTL

(* No slot is ever listed twice, in one shard or in two, whatever the      *)
(* order in which the ranges of a cluster were imported.                   *)
THEOREM SlotsListedOnce == ListsSpec => []ListedOnce
  <1>1. ListsInv => ListedOnce
    <2> SUFFICES ASSUME ListsInv, NEW i \in DOMAIN lists, NEW j \in DOMAIN lists,
                        NEW k \in DOMAIN lists[i], NEW l \in DOMAIN lists[j],
                        HasOverlap(lists[i][k], lists[j][l])
                 PROVE  i = j /\ k = l
      BY DEF ListedOnce
    <2>1. lists[i][k] \in SlotRange /\ lists[j][l] \in SlotRange
      BY DEF ListsInv
    <2>2. PICK x : x \in SlotsIn(lists[i][k]) /\ x \in SlotsIn(lists[j][l])
      BY <2>1, OverlapShares
    <2>3. x \in Covered(lists[i]) /\ x \in Covered(lists[j])
      BY <2>2, InCovered
    <2>4. i = j
      BY <2>3 DEF ListsInv
    <2>5. k = l
      BY <2>2, <2>4 DEF ListsInv, Disjoint
    <2>6. QED
      BY <2>4, <2>5
  <1>2. QED
    BY <1>1, ListsInvariant, PTL

(* On lists in normal form, counting the ranges that a slot range touches  *)
(* (findShardIndexBySlot) finds the same shard as looking at the sets.     *)
THEOREM SourceByCounting == ListsSpec => []SourceAgreesWithSets
  <1>1. ListsInv => SourceAgreesWithSets
    <2> SUFFICES ASSUME ListsInv, \A i \in DOMAIN lists : Normal(lists[i]), NEW slot \in SlotRange
                 PROVE  FindShardIndexBySlot(lists, slot) = SourceShards(Sets, slot)
      BY DEF SourceAgreesWithSets, Sets
    <2>1. QED
      BY HitIsSource, SourceIsHit
  <1>2. QED
    BY <1>1, ListsInvariant, PTL

(* The list algorithms implement the sets of slots that the other modules  *)
(* use: every move of ranges between lists is a move of exactly these      *)
(* slots between the sets.                                                 *)
THEOREM ListsImplementSets == ListsSpec => ImplementsSlotSets
  <1>1. /\ SlotSetsOf!Slot = Slot /\ SlotSetsOf!SlotRange = SlotRange
        /\ \A r : SlotSetsOf!SlotsIn(r) = SlotsIn(r)
    BY DEF SlotSetsOf!Slot, SlotSetsOf!SlotRange, SlotSetsOf!SlotsIn, Slot, SlotRange, SlotsIn
  <1>2. \A S, r : SlotSetsOf!SourceShards(S, r) = SourceShards(S, r)
    BY DEF SlotSetsOf!SourceShards, SlotSetsOf!TouchesTwoRuns, SlotSetsOf!SlotsIn,
           SourceShards, TouchesTwoRuns, SlotsIn
  <1>3. ListsInv => SlotSetsOf!Init
    <2> SUFFICES ASSUME ListsInv PROVE SlotSetsOf!Init
      OBVIOUS
    <2>1. /\ Len(lists) \in Nat /\ DOMAIN lists = 1 .. Len(lists)
          /\ \A i \in DOMAIN lists : lists[i] \in Seq(SlotRange)
      BY DEF ListsInv
    <2>2. \A i \in DOMAIN lists : Covered(lists[i]) \in SUBSET Slot
      BY <2>1, SlotsInSlot DEF Covered
    <2>3. Sets \in [1 .. Len(lists) -> SUBSET Slot] /\ DOMAIN Sets = DOMAIN lists
      BY <2>1, <2>2 DEF Sets
    <2>4. Sets \in Seq(SUBSET Slot)
      BY <2>1, <2>3
    <2>5. \A i, j \in DOMAIN Sets : i # j => Sets[i] \cap Sets[j] = {}
      BY DEF ListsInv, Sets
    <2>6. QED
      BY <1>1, <2>4, <2>5 DEF SlotSetsOf!Init, Sets
  <1>4. ListsInv /\ [ListsNext]_lists => [SlotSetsOf!Next]_([i \in DOMAIN lists |-> Covered(lists[i])])
    <2> SUFFICES ASSUME ListsInv, [ListsNext]_lists
                 PROVE  SlotSetsOf!Next \/ Sets' = Sets
      BY DEF Sets
    <2>1. CASE UNCHANGED lists
      BY <2>1 DEF Sets
    <2>2. CASE ListsNext
      <3>1. PICK slot \in SlotRange, target \in DOMAIN lists : Move(slot, target)
        BY <2>2 DEF ListsNext
      <3>2. PICK source \in DOMAIN lists : MovesSets(source, target, slot)
        BY <3>1, MoveResult
      <3>3. source \in SourceShards(Sets, slot) \ {target} /\ target \in DOMAIN Sets
        BY <3>2 DEF MovesSets, Sets
      <3>4. Sets' = [Sets EXCEPT ![source] = @ \ SlotsIn(slot), ![target] = @ \cup SlotsIn(slot)]
        <4>1. Sets' = [i \in DOMAIN lists |-> Covered(lists'[i])]
          BY <3>2 DEF MovesSets, Sets
        <4>2. \A i \in DOMAIN lists : Covered(lists'[i]) =
                    IF i = target THEN Sets[i] \cup SlotsIn(slot)
                    ELSE IF i = source THEN Sets[i] \ SlotsIn(slot) ELSE Sets[i]
          BY <3>2 DEF MovesSets, Sets
        <4>3. QED
          BY <3>3, <4>1, <4>2 DEF Sets
      <3>5. SlotSetsOf!Move(slot, target)
        BY <1>1, <1>2, <3>3, <3>4 DEF SlotSetsOf!Move, Sets
      <3>6. QED
        BY <1>1, <3>3, <3>5 DEF SlotSetsOf!Next, Sets
    <2>3. QED
      BY <2>1, <2>2
  <1>5. ListsInit => ListsInv
    BY CreatedResult, ImportedResult DEF ListsInit
  <1>6. QED
    BY <1>3, <1>4, <1>5, ListsInvariant, PTL DEF ListsSpec, ImplementsSlotSets, SlotSetsOf!Spec

(* A list in normal form stays in it, and a list that gains slots comes    *)
(* out in normal form whatever it was before.                              *)
THEOREM NormalFormKept == ListsSpec => MovesNormalize
  <1>1. ListsInv /\ [ListsNext]_lists =>
            [\A i \in DOMAIN lists :
                Normal(lists[i]) \/ Covered(lists[i]) \subseteq Covered(lists'[i])
                    => Normal(lists'[i]) \/ lists'[i] = lists[i]]_lists
    <2> SUFFICES ASSUME ListsInv, ListsNext, NEW i \in DOMAIN lists,
                        Normal(lists[i]) \/ Covered(lists[i]) \subseteq Covered(lists'[i])
                 PROVE  Normal(lists'[i]) \/ lists'[i] = lists[i]
      OBVIOUS
    <2>1. PICK slot \in SlotRange, target \in DOMAIN lists : Move(slot, target)
      BY DEF ListsNext
    <2>2. PICK source \in DOMAIN lists : MovesSets(source, target, slot)
      BY <2>1, MoveResult
    <2>3. Covered(lists[source]) \cap SlotsIn(slot) # {}
      BY <2>2 DEF MovesSets, SourceShards, Sets
    <2>4. QED
      BY <2>2, <2>3 DEF MovesSets
  <1>2. QED
    BY <1>1, ListsInvariant, PTL DEF ListsSpec, MovesNormalize

Complete == UNION {Covered(lists[i]) : i \in DOMAIN lists} = Slot

(* A cluster made by NewCluster owns every slot, and no sequence of moves  *)
(* ever leaves a slot without an owner.                                    *)
THEOREM CompletenessKept == ListsSpec => CreatedStaysComplete
  <1>1. lists \in CreatedLists => Complete
    BY CreatedResult DEF Complete
  <1>2. ListsInv /\ Complete /\ [ListsNext]_lists => Complete'
    <2> SUFFICES ASSUME ListsInv, Complete, [ListsNext]_lists
                 PROVE  Complete'
      OBVIOUS
    <2>1. CASE UNCHANGED lists
      BY <2>1 DEF Complete
    <2>2. CASE ListsNext
      <3>1. PICK slot \in SlotRange, target \in DOMAIN lists : Move(slot, target)
        BY <2>2 DEF ListsNext
      <3>2. PICK source \in DOMAIN lists : MovesSets(source, target, slot)
        BY <3>1, MoveResult
      <3>3. SlotsIn(slot) \in SUBSET Slot
        BY SlotsInSlot
      <3>4. \A x : (\E i \in DOMAIN lists : x \in Covered(lists[i])) <=> x \in Slot
        BY DEF Complete
      <3>5. ASSUME NEW x
            PROVE  (\E i \in DOMAIN lists : x \in Covered(lists'[i])) <=> x \in Slot
        <4>1. CASE x \in SlotsIn(slot)
          BY <3>2, <3>3, <4>1 DEF MovesSets
        <4>2. CASE x \notin SlotsIn(slot)
          <5>1. \A i \in DOMAIN lists : x \in Covered(lists'[i]) <=> x \in Covered(lists[i])
            BY <3>2, <4>2 DEF MovesSets
          <5>2. QED
            BY <3>4, <5>1
        <4>3. QED
          BY <4>1, <4>2
      <3>6. DOMAIN lists' = DOMAIN lists
        BY <3>2 DEF MovesSets
      <3>7. QED
        BY <3>5, <3>6 DEF Complete
    <2>3. QED
      BY <2>1, <2>2
  <1>3. Complete <=> UNION {Covered(lists[i]) : i \in DOMAIN lists} = Slot
    BY DEF Complete
  <1>4. QED
    BY <1>1, <1>2, <1>3, ListsInvariant, PTL DEF ListsSpec, CreatedStaysComplete
=============================================================================
