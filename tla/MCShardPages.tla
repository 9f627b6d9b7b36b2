---------------------------- MODULE MCShardPages ----------------------------
(***************************************************************************)
(* Instances of ShardPages.                                                *)
(***************************************************************************)
EXTENDS ShardPages

(* The shard of the page, which may be removed, with its master last, and  *)
(* the shard that would take its place.                                    *)
TwoShards ==
    {<<[id |-> 1, servicing |-> FALSE, nodes |-> <<Listed(1, FALSE), Listed(2, TRUE)>>],
       [id |-> 2, servicing |-> TRUE, nodes |-> <<Listed(3, TRUE)>>]>>}

Typed == [address : {"ok", "blank"}, role : {"ok"}]
=============================================================================
