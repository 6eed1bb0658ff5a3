--------------------------- MODULE MCSliverUpload ---------------------------
(* Three nodes owning 2, 1 and 1 of four shards; the quorum is 3, so a node may
   be a straggler when it is reached. *)
EXTENDS SliverUpload, TLC

CONSTANTS n1, n2, n3

MCNodes  == {n1, n2, n3}
MCShards == n1 :> 2 @@ n2 :> 1 @@ n3 :> 1
=============================================================================
