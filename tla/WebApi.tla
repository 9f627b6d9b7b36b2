------------------------------- MODULE WebApi -------------------------------
(***************************************************************************)
(* The client of the HTTP API that the pages of the web UI share           *)
(* (webui/src/app/lib/api.ts): what a page is told of an answer.           *)
(*                                                                         *)
(* A call is outstanding with status "sent" until it is answered: with     *)
(* "data" (200, 201), with "empty" (204 No Content) or with "error", which *)
(* stands for a refusal and for a connection that broke before or after    *)
(* the server had done the work.  No function of the client throws: one    *)
(* that writes returns a message, empty for success, and one that reads    *)
(* returns an empty list in place of an error.                             *)
(***************************************************************************)
EXTENDS Sequences

Status == {"sent", "data", "empty", "error"}

(* Never the empty message, which the callers take for success.            *)
handleError == "Unknown error"

(* createNamespace, createCluster, importCluster, createShard, createNode  *)
(* and migrateSlot.                                                        *)
handleCreateResponse(status) == IF status = "data" THEN "" ELSE handleError

(* deleteNamespace, deleteCluster, deleteShard and deleteNode.             *)
handleDeleteResponse(status) == IF status = "empty" THEN "" ELSE handleError

(* failoverShard: an error unless the answer names the new master.         *)
failoverShard(status) == IF status = "data" THEN "" ELSE handleError

(* fetchNamespaces, fetchClusters, listShards and listNodes, and the       *)
(* shards or nodes of fetchCluster and fetchShard, which return {}.        *)
FetchedList(status, list) == IF status = "data" THEN list ELSE << >>
=============================================================================
