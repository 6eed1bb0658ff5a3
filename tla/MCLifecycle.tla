---------------------------- MODULE MCLifecycle ----------------------------
(* Storage commands over three storage objects that can be fused by amount, by
   periods or not at all; blob commands over two blobs; extension over a blob and a
   storage.  Batches hold two calls.  Other transactions of the owner take away,
   change or add what a command has read. *)
EXTENDS Lifecycle

Reserved(id, range, size) == [id |-> id, start |-> range[1], end |-> range[2], size |-> size]

Empty == [epoch |-> 1, storages |-> <<>>, blobs |-> <<>>, shared |-> <<>>, coins |-> <<>>]

(* Storages. *)
StorageChains ==
  {[Empty EXCEPT !.storages =
      <<Reserved(1, a, 1), Reserved(2, b, 1), Reserved(3, c, z)>>] :
     a \in {<<0, 2>>, <<2, 3>>}, b \in {<<2, 3>>, <<0, 2>>},
     c \in {<<2, 3>>, <<3, 4>>}, z \in {1, 2}}

StorageCommands ==
  [op : {"fuse_amount"}, range : {<<>>, <<2, 3>>}, mode : {"execute", "simulate"}]
    \cup [op : {"fuse_periods"}, to : {NoId, 1, 3}, mode : {"execute"}]
    \cup [op : {"fuse_explicit"}, id : {1}, from : {<<2>>, <<2, 3>>, <<3, 2>>},
          mode : {"execute"}]
    \cup [op : {"split_by_epoch"}, id : {1}, at : {1}, mode : {"execute"}]
    \cup [op : {"split_by_size"}, id : {3}, at : {1}, mode : {"execute"}]
    \cup [op : {"execute_split_by_epoch"}, id : {1}, at : {1}, mode : {"execute"}]
    \cup [op : {"execute_split_by_size"}, id : {3}, at : {1}, mode : {"execute"}]
    \cup [op : {"execute_fuse"}, id : {1}, second : {2}, mode : {"execute"}]
    \cup [op : {"execute_destroy"}, id : {1}, mode : {"execute"}]
    \cup [op : {"reclaim"}, ids : {<<1, 2, 3>>}, mode : {"execute"}]
    \cup [op : {"reclaim_all"}, mode : {"execute", "simulate"}]

(* Blobs: to be deleted or burned; with metadata, to be extended or shared. *)
Blob(range, deletable, metadata) ==
  [storage |-> Reserved(NoId, range, 1), deletable |-> deletable, certified |-> TRUE,
   metadata |-> metadata]

DeleteChains ==
  {[Empty EXCEPT !.blobs = <<Blob(<<0, a>>, d, <<>>), Blob(<<0, b>>, TRUE, <<>>),
                             Blob(<<0, c>>, c > 1, <<>>)>>] :
     a \in {1, 2, 3}, b \in {2, 3}, c \in {1, 2}, d \in BOOLEAN}

DeleteCommands ==
  [op : {"delete_blob"}, id : {1}, burn : BOOLEAN, mode : {"execute"}]
    \cup [op : {"delete_all"}, burn : BOOLEAN, mode : {"execute"}]
    \cup [op : {"burn_blob"}, ids : {<<1, 2, 1, 3>>}, mode : {"execute"}]

BlobChains ==
  {[Empty EXCEPT !.blobs = <<Blob(<<0, a>>, a < 3, m)>>, !.coins = <<1, 2, 2>>] :
     a \in {1, 2, 3}, m \in {<<>>, <<{}>>, <<{"k"}>>, <<{"k", "l"}>>}}

BlobCommands ==
  [op : {"share_blob", "execute_share", "drop_all", "execute_drop_all"}, id : {1},
   mode : {"execute"}]
    \cup [op : {"set_metadata", "execute_set_metadata"}, id : {1}, keys : {<<"k", "l">>},
          mode : {"execute"}]
    \cup [op : {"drop_keys", "execute_drop_keys"}, id : {1}, keys : {<<"k">>, <<"l", "k">>},
          mode : {"execute"}]
    \cup [op : {"extend_blob_expiration"}, id : {1}, epochs : {1, 4}, merge : BOOLEAN,
          mode : {"execute"}]

(* A blob and a storage; a shared blob and coins. *)
ExtendChains ==
  {[Empty EXCEPT !.storages = <<Reserved(1, r, z)>>,
                 !.blobs = <<[Blob(<<0, 2>>, TRUE, <<>>) EXCEPT !.certified = c]>>] :
     r \in {<<2, 3>>, <<1, 2>>, <<3, 4>>, <<0, 3>>}, z \in {1, 2}, c \in BOOLEAN}

ExtendCommands ==
  [op : {"extend_blob_with_storage"}, id : {1}, second : {1}, mode : {"execute"}]

FundChains ==
  {[Empty EXCEPT !.shared = <<[storage |-> Reserved(NoId, <<0, 2>>, 1), funds |-> f]>>,
                 !.coins = c] :
     f \in {0, 2}, c \in {<<>>, <<1, 2, 2>>, <<1, 0, 3>>}}

FundCommands ==
  [op : {"fund_amount", "execute_fund"}, id : {1}, amount : {1, 3, 4, 6}, mode : {"execute"}]
    \cup [op : {"fund_coin"}, id : {1}, coin : {2}, mode : {"execute"}]
    \cup [op : {"extend_shared", "execute_extend_shared"}, id : {1}, epochs : {1}, mode : {"execute"}]

MCStarts ==
  (StorageChains \X StorageCommands) \cup (DeleteChains \X DeleteCommands)
    \cup (BlobChains \X BlobCommands)
    \cup (ExtendChains \X ExtendCommands) \cup (FundChains \X FundCommands)

MCOtherCalls(ch) ==
  [call : {"destroy"}, id : DOMAIN ch.storages]
    \cup [call : {"fuse"}, id : DOMAIN ch.storages, second : DOMAIN ch.storages]
    \cup [call : {"burn", "delete_blob"}, id : DOMAIN ch.blobs]
    \cup [call : {"set_metadata", "remove_metadata"}, id : DOMAIN ch.blobs, key : {"k"}]
    \cup [call : {"extend_blob"}, id : DOMAIN ch.blobs, epochs : {1}, coin : DOMAIN ch.coins]
    \cup [call : {"extend_shared"}, id : DOMAIN ch.shared, epochs : {1}]
    \cup [call : {"merge_coins"}, id : DOMAIN ch.coins, merged : {{c} : c \in DOMAIN ch.coins}]
=============================================================================
