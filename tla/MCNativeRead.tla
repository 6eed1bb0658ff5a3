---------------------------- MODULE MCNativeRead ----------------------------
(* Four shards on three nodes; the blob ID rotates the shards by three. *)
EXTENDS NativeRead

CONSTANTS n1, n2, n3

MCMembers == <<n1, n2, n3>>
MCShards  == (n1 :> {0, 3}) @@ (n2 :> {1}) @@ (n3 :> {2})
MCBlobId  == <<2, 3>>
=============================================================================
