-------------------------- MODULE MCNamespacePages --------------------------
(***************************************************************************)
(* Instances of NamespacePages.                                            *)
(***************************************************************************)
EXTENDS NamespacePages

CONSTANTS ns1, ns2, cl1, cl2

One == <<[nodes |-> 1, slots |-> FALSE, migrating |-> "null"]>>

(* A cluster whose second shard migrates one slot to the first.            *)
Two == <<[nodes |-> 1, slots |-> FALSE, migrating |-> "null"],
         [nodes |-> 1, slots |-> TRUE, migrating |-> "slot"]>>

Shapes == {One, Two}

(* A namespace that can be removed, and one with two clusters of one       *)
(* shard; see Two for what others make of one.                             *)
TwoSpaces == {Put(Just(ns1, NoClusters), ns2, Put(Just(cl1, One), cl2, One))}

Typed == [name : {"ok", "blank"}, replicas : {"ok"}, nodes : {"ok", "none"}]
=============================================================================
