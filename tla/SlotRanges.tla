----------------------------- MODULE SlotRanges -----------------------------
(***************************************************************************)
(* The slot-range algorithms of store/slot.go.  A shard keeps the slots it *)
(* owns as a list of ranges with inclusive bounds.  SlotLists shows that   *)
(* the lists implement the sets of slots that the other modules use.       *)
(***************************************************************************)
EXTENDS Slots, Functions

HasOverlap(a, b) == a.stop >= b.start /\ a.start <= b.stop

(* Adjacent ranges left apart: the successor of a.stop is forgotten.       *)
CanMergeOverlapOnly(a, b) ==
    IF a.start > b.start THEN b.stop >= a.start ELSE a.stop >= b.start

CanMerge(a, b) ==
    IF a.start > b.start THEN b.stop + 1 >= a.start
                         ELSE a.stop + 1 >= b.start

MergeSlotRanges(a, b) ==
    [start |-> IF a.start < b.start THEN a.start ELSE b.start,
     stop  |-> IF a.stop > b.stop THEN a.stop ELSE b.stop]

(* What sort.Slice by Start may leave: the sort is not stable, so that     *)
(* ranges with the same start come in any order.                           *)
ByStart(ranges) ==
    {[i \in DOMAIN ranges |-> ranges[order[i]]] :
        order \in {p \in Bijection(DOMAIN ranges, DOMAIN ranges) :
            \A i, j \in DOMAIN ranges : i < j => ranges[p[i]].start <= ranges[p[j]].start}}

(* The body of the merge loop: grow the last merged range or open one.     *)
MergeNext(merged, r) ==
    LET last == merged[Len(merged)]
    IN  IF CanMerge(last, r)
        THEN [merged EXCEPT ![Len(merged)] = MergeSlotRanges(r, last)]
        ELSE Append(merged, r)

(* The merge loop: merged[k] are the merged ranges after the first k.      *)
Merged(sorted) ==
    LET merged[k \in DOMAIN sorted] ==
            IF k = 1 THEN <<sorted[1]>> ELSE MergeNext(merged[k - 1], sorted[k])
    IN  merged[Len(sorted)]

AddSlotToSlotRanges(source, slot) == {Merged(sorted) : sorted \in ByStart(Append(source, slot))}

(* The left piece keeps the first slot that was to be removed.             *)
RemainderOffByOne(r, cut) ==
    IF ~HasOverlap(r, cut) THEN <<r>>
    ELSE (IF r.start < cut.start
          THEN <<[start |-> r.start, stop |-> cut.start]>> ELSE <<>>)
         \o
         (IF r.stop > cut.stop
          THEN <<[start |-> cut.stop + 1, stop |-> r.stop]>> ELSE <<>>)

(* The right piece is kept also when nothing is left of it.                *)
RemainderEmptyPiece(r, cut) ==
    IF ~HasOverlap(r, cut) THEN <<r>>
    ELSE (IF r.start < cut.start
          THEN <<[start |-> r.start, stop |-> cut.start - 1]>> ELSE <<>>)
         \o
         (IF r.stop >= cut.stop
          THEN <<[start |-> cut.stop + 1, stop |-> r.stop]>> ELSE <<>>)

(* What is left of the range r once the slots of cut are taken out: a left *)
(* piece, a right piece, both or none.                                     *)
Remainder(r, cut) ==
    IF ~HasOverlap(r, cut) THEN <<r>>
    ELSE (IF r.start < cut.start
          THEN <<[start |-> r.start, stop |-> cut.start - 1]>> ELSE <<>>)
         \o
         (IF r.stop > cut.stop
          THEN <<[start |-> cut.stop + 1, stop |-> r.stop]>> ELSE <<>>)

(* The loop over the sorted ranges: kept[k] is what is left of the first k.*)
Kept(sorted, slot) ==
    LET kept[k \in 0 .. Len(sorted)] ==
            IF k = 0 THEN << >> ELSE kept[k - 1] \o Remainder(sorted[k], slot)
    IN  kept[Len(sorted)]

RemoveSlotFromSlotRanges(source, slot) == {Kept(sorted, slot) : sorted \in ByStart(source)}

(* Whether there is another hit is not looked at.                          *)
FindShardIndexAnyHit(lists, slot) ==
    {i \in DOMAIN lists : \E k \in DOMAIN lists[i] : HasOverlap(lists[i][k], slot)}

(* Every range of every list counts, so that a slot range which touches    *)
(* two ranges of one shard has no source.                                  *)
FindShardIndexBySlot(lists, slot) ==
    {i \in DOMAIN lists : \E k \in DOMAIN lists[i] :
        /\ HasOverlap(lists[i][k], slot)
        /\ \A j \in DOMAIN lists : \A l \in DOMAIN lists[j] :
            HasOverlap(lists[j][l], slot) => j = i /\ l = k}

-----------------------------------------------------------------------------
(* The set of slots that a list of ranges stands for.                      *)
Covered(ranges) == UNION {SlotsIn(ranges[i]) : i \in DOMAIN ranges}

(* In increasing order with a gap between neighbours: the list is then the *)
(* list of the maximal runs of the set it covers.                          *)
Normal(ranges) ==
    \A i \in 1 .. Len(ranges) - 1 : ranges[i].stop + 1 < ranges[i + 1].start
=============================================================================
