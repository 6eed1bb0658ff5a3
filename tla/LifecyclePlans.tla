--------------------------- MODULE LifecyclePlans ---------------------------
(***************************************************************************)
(* What the tusky commands on storage and blobs                            *)
(* (tusky_cmds_storage.py, tusky_cmds_lifecycle.py) and the execute        *)
(* functions of core/ops read, and which transactions they then send.      *)
(*                                                                         *)
(* A command is a record whose op names it; a plan is [refused, txs]: a    *)
(* check failed, or the transactions to send, none when there is nothing   *)
(* to do.                                                                  *)
(***************************************************************************)
EXTENDS MoveCalls

CONSTANT MAX_OPS_PER_PTB   \* Move calls in one transaction of a batch (100)

ASSUME BatchAssumption == MAX_OPS_PER_PTB \in Nat \ {0}

Missing == [missing |-> TRUE]

(* The operations there are, and the lists that are given to them. *)
IsCommand(c) ==
  /\ c.op \in {"fuse_amount", "fuse_periods", "fuse_explicit", "split_by_epoch",
               "split_by_size", "reclaim", "reclaim_all", "extend_blob_with_storage",
               "extend_blob_expiration", "set_metadata", "drop_keys", "drop_all",
               "delete_blob", "delete_all", "burn_blob", "share_blob", "fund_coin",
               "fund_amount", "extend_shared", "execute_split_by_epoch",
               "execute_split_by_size", "execute_fuse", "execute_destroy",
               "execute_set_metadata", "execute_drop_keys", "execute_drop_all",
               "execute_share", "execute_fund", "execute_extend_shared"}
  /\ c.op \in {"reclaim", "burn_blob"} => c.ids \in Seq(Nat)
  /\ c.op = "fuse_explicit" => c.from \in Seq(Nat)
  /\ c.op \in {"set_metadata", "drop_keys", "execute_set_metadata", "execute_drop_keys"}
       => c.keys \in Seq(STRING)

-----------------------------------------------------------------------------
(* What a command reads, in order. *)

Distinct(ids) ==
  LET first == Ascending({i \in DOMAIN ids : \A j \in 1 .. i - 1 : ids[j] /= ids[i]})
  IN  [k \in DOMAIN first |-> ids[first[k]]]

Each(what, ids) == [i \in DOMAIN ids |-> <<what, ids[i]>>]

Reads(c) ==
  CASE c.op \in {"fuse_amount", "fuse_periods", "reclaim_all"} ->
         <<<<"package">>, <<"storages">>>>
    [] c.op = "fuse_explicit" -> <<<<"package">>>> \o Each("storage", <<c.id>> \o c.from)
    [] c.op = "extend_blob_with_storage" ->
         <<<<"blob", c.id>>, <<"epoch">>, <<"storage", c.second>>, <<"package">>>>
    [] c.op = "extend_blob_expiration" ->
         <<<<"blob", c.id>>, <<"epoch">>, <<"package">>, <<"coins">>>>
    [] c.op \in {"drop_keys", "drop_all"} -> <<<<"package">>, <<"metadata", c.id>>>>
    [] c.op = "delete_blob" -> <<<<"epoch">>, <<"package">>, <<"blob", c.id>>>>
    [] c.op = "delete_all" -> <<<<"epoch">>, <<"package">>, <<"blobs">>>>
    [] c.op = "burn_blob" ->
         <<<<"epoch">>, <<"package">>>> \o Each("blob", Distinct(c.ids))
    [] c.op = "fund_amount" -> <<<<"package">>, <<"coins">>>>
    [] c.op \in {"execute_drop_keys", "execute_drop_all"} -> <<<<"metadata", c.id>>>>
    [] c.op = "execute_fund" -> <<<<"coins">>>>
    [] c.op \in {"execute_split_by_epoch", "execute_split_by_size", "execute_fuse",
                 "execute_destroy", "execute_set_metadata", "execute_share",
                 "execute_extend_shared"} -> <<>>
    [] OTHER -> <<<<"package">>>>

Listing(f, ids) ==
  [i \in DOMAIN Ascending(ids) |-> <<Ascending(ids)[i], f[Ascending(ids)[i]]>>]

Object(f, id) == IF id \in DOMAIN f THEN f[id] ELSE Missing

(* A listing leaves out the objects whose view cannot be read. *)
list_storage_objects(ch) ==
  {[i \in DOMAIN Ascending(ids) |-> ch.storages[Ascending(ids)[i]]] :
     ids \in SUBSET DOMAIN ch.storages}

list_blobs(ch) == {Listing(ch.blobs, ids) : ids \in SUBSET DOMAIN ch.blobs}

fetch_blob_metadata(ch, id) == IF id \in DOMAIN ch.blobs THEN ch.blobs[id].metadata ELSE <<>>

Answers(ch, read) ==
  CASE read[1] = "package" -> {"package"}
    [] read[1] = "epoch" -> {ch.epoch}
    [] read[1] = "storages" -> list_storage_objects(ch)
    [] read[1] = "blobs" -> list_blobs(ch)
    [] read[1] = "coins" -> {Listing(ch.coins, DOMAIN ch.coins)}
    [] read[1] = "storage" -> {Object(ch.storages, read[2])}
    [] read[1] = "blob" -> {Object(ch.blobs, read[2])}
    [] read[1] = "metadata" -> {fetch_blob_metadata(ch, read[2])}

-----------------------------------------------------------------------------
Send(transactions) == [refused |-> FALSE, txs |-> transactions]
Refuse             == [refused |-> TRUE, txs |-> <<>>]

(* Storage commands. *)

Batches(calls) ==
  [b \in 1 .. (Len(calls) + MAX_OPS_PER_PTB - 1) \div MAX_OPS_PER_PTB |->
     SubSeq(calls, (b - 1) * MAX_OPS_PER_PTB + 1, Min({b * MAX_OPS_PER_PTB, Len(calls)}))]

destroy_storage_batches(ids) == Send(Batches(Calls("destroy", ids)))

split_storage(c) ==
  Send(<<IF c.op = "split_by_epoch" THEN add_split_by_epoch(c.id, c.at)
                                    ELSE add_split_by_size(c.id, c.at)>>)

fuse_storage(c, read) ==
  LET plan == CASE c.op = "fuse_amount"  -> plan_fuse_amount(read[1], c.range)
                [] c.op = "fuse_periods" -> plan_fuse_periods(read[1], c.to)
                [] c.op = "fuse_explicit" ->
                     (IF Missing \in ToSet(read) THEN Refused
                      ELSE plan_fuse_explicit(read[1], Tail(read)))
  IN  IF plan = Refused THEN Refuse
      ELSE Send(<<[i \in DOMAIN plan.pairs |->
                     Head(add_fuse(plan.pairs[i][1], plan.pairs[i][2]))]>>)

reclaim_storage(c, read) ==
  destroy_storage_batches(
    IF c.op = "reclaim_all" THEN [i \in DOMAIN read[1] |-> read[1][i].id] ELSE c.ids)

(* Broken: a blob is taken for expired in its last epoch. *)
expired_early(blob, epoch) == blob.storage.end <= epoch + 1

Expired(blob, epoch) == blob.storage.end <= epoch

extend_blob_with_storage(c, blob, epoch, extension) ==
  IF \/ Missing \in {blob, extension}
     \/ ~blob.certified
     \/ Expired(blob, epoch)
     \/ extension.end <= blob.storage.end
     \/ fuse_periods_incompatibility(blob.storage, extension) /= "none"
    THEN Refuse
  ELSE Send(<<<<[call |-> "extend_blob_with_resource", id |-> c.id, second |-> c.second]>>>>)

-----------------------------------------------------------------------------
(* Blob commands. *)

burn_blob_batches(ids) == Batches(Calls("burn", ids))

(* The largest coin pays, after taking in all the others with --merge. *)
extend_blob_expiration(c, blob, epoch, coins) ==
  LET largest == primary(coins)
      merge   == [call |-> "merge_coins", id |-> coins[largest][1],
                  merged |-> {coins[i][1] : i \in DOMAIN coins \ {largest}}]
  IN  IF blob = Missing \/ Expired(blob, epoch) \/ coins = <<>> THEN Refuse
      ELSE Send(<<(IF c.merge /\ Len(coins) > 1 THEN <<merge>> ELSE <<>>)
                    \o <<[call |-> "extend_blob", id |-> c.id, epochs |-> c.epochs,
                          coin |-> coins[largest][1]]>>>>)

set_blob_metadata(c) == Send(<<add_set_blob_metadata(c.id, c.keys)>>)

validate_blob_metadata_keys_exist(keys, metadata) ==
  metadata /= <<>> /\ ToSet(keys) \subseteq metadata[1]

(* A field that is present and empty does not pass, though Move would take it. *)
validate_blob_metadata_exists(metadata) == metadata \notin {<<>>, <<{}>>}

drop_blob_metadata(c, metadata) ==
  CASE c.op = "drop_keys" /\ validate_blob_metadata_keys_exist(c.keys, metadata) ->
         Send(<<add_drop_blob_metadata_keys(c.id, c.keys)>>)
    [] c.op = "drop_all" /\ validate_blob_metadata_exists(metadata) ->
         Send(<<add_drop_blob_metadata_all(c.id)>>)
    [] OTHER -> Refuse

delete_blob(c, blob, epoch) ==
  IF blob = Missing THEN Refuse
  ELSE IF blob.deletable /\ ~Expired(blob, epoch) THEN Send(<<Calls("delete_blob", <<c.id>>)>>)
  ELSE IF c.burn THEN Send(<<Calls("burn", <<c.id>>)>>)
  ELSE Refuse

delete_all_blobs(c, blobs, epoch) ==
  LET Ids(some) == [i \in DOMAIN Only(blobs, some) |-> Only(blobs, some)[i][1]]
      active  == Ids({b \in ToSet(blobs) : ~Expired(b[2], epoch) /\ b[2].deletable})
      expired == Ids({b \in ToSet(blobs) : Expired(b[2], epoch)})
  IN  Send(Batches(Calls("delete_blob", active))
             \o (IF c.burn THEN burn_blob_batches(expired) ELSE <<>>))

(* Blobs that could not be read are skipped; one named twice is burned once. *)
burn_blob(c, blobs) ==
  LET ids   == Distinct(c.ids)
      found == Ascending({i \in DOMAIN ids : blobs[i] /= Missing})
  IN  Send(burn_blob_batches([i \in DOMAIN found |-> ids[found[i]]]))

share_blob(c) == Send(<<add_share_blob(c.id)>>)

(* A coin given by the user is handed over whole. *)
fund_shared_blob(c, read) ==
  LET payment == IF c.op = "fund_coin"
                   THEN [coin |-> c.coin, merged |-> {}, split |-> FALSE, amount |-> 0]
                   ELSE prepare_wal_coin_for_amount(read[1], c.amount)
  IN  IF payment = NoPayment THEN Refuse ELSE Send(<<add_fund_shared_blob(c.id, payment)>>)

extend_shared_blob(c) == Send(<<add_extend_shared_blob(c.id, c.epochs)>>)

-----------------------------------------------------------------------------
(* The execute functions of the library: one transaction each. *)

execute_split_by_epoch(c)  == Send(<<add_split_by_epoch(c.id, c.at)>>)
execute_split_by_size(c)   == Send(<<add_split_by_size(c.id, c.at)>>)
execute_fuse(c)            == Send(<<add_fuse(c.id, c.second)>>)
execute_destroy_storage(c) == Send(<<add_destroy_storage(c.id)>>)
execute_set_blob_metadata(c) == Send(<<add_set_blob_metadata(c.id, c.keys)>>)

execute_drop_blob_metadata_keys(c, metadata) ==
  IF validate_blob_metadata_keys_exist(c.keys, metadata)
    THEN Send(<<add_drop_blob_metadata_keys(c.id, c.keys)>>) ELSE Refuse

execute_drop_blob_metadata_all(c, metadata) ==
  IF validate_blob_metadata_exists(metadata)
    THEN Send(<<add_drop_blob_metadata_all(c.id)>>) ELSE Refuse

execute_share_blob(c) == Send(<<add_share_blob(c.id)>>)

execute_fund_shared_blob(c, coins) ==
  LET payment == prepare_wal_coin_for_amount(coins, c.amount)
  IN  IF payment = NoPayment THEN Refuse ELSE Send(<<add_fund_shared_blob(c.id, payment)>>)

execute_extend_shared_blob(c) == Send(<<add_extend_shared_blob(c.id, c.epochs)>>)

(* The package ID, where it is read, says nothing the plan uses. *)
Plan(c, seen) ==
  CASE c.op \in {"fuse_amount", "fuse_periods", "fuse_explicit"} -> fuse_storage(c, Tail(seen))
    [] c.op \in {"split_by_epoch", "split_by_size"} -> split_storage(c)
    [] c.op \in {"reclaim", "reclaim_all"} -> reclaim_storage(c, Tail(seen))
    [] c.op = "extend_blob_with_storage" ->
         extend_blob_with_storage(c, seen[1], seen[2], seen[3])
    [] c.op = "extend_blob_expiration" ->
         extend_blob_expiration(c, seen[1], seen[2], seen[4])
    [] c.op = "set_metadata" -> set_blob_metadata(c)
    [] c.op \in {"drop_keys", "drop_all"} -> drop_blob_metadata(c, seen[2])
    [] c.op = "delete_blob" -> delete_blob(c, seen[3], seen[1])
    [] c.op = "delete_all" -> delete_all_blobs(c, seen[3], seen[1])
    [] c.op = "burn_blob" -> burn_blob(c, Tail(Tail(seen)))
    [] c.op = "share_blob" -> share_blob(c)
    [] c.op \in {"fund_coin", "fund_amount"} -> fund_shared_blob(c, Tail(seen))
    [] c.op = "extend_shared" -> extend_shared_blob(c)
    [] c.op = "execute_split_by_epoch" -> execute_split_by_epoch(c)
    [] c.op = "execute_split_by_size" -> execute_split_by_size(c)
    [] c.op = "execute_fuse" -> execute_fuse(c)
    [] c.op = "execute_destroy" -> execute_destroy_storage(c)
    [] c.op = "execute_set_metadata" -> execute_set_blob_metadata(c)
    [] c.op = "execute_drop_keys" -> execute_drop_blob_metadata_keys(c, seen[1])
    [] c.op = "execute_drop_all" -> execute_drop_blob_metadata_all(c, seen[1])
    [] c.op = "execute_share" -> execute_share_blob(c)
    [] c.op = "execute_fund" -> execute_fund_shared_blob(c, seen[1])
    [] c.op = "execute_extend_shared" -> execute_extend_shared_blob(c)
=============================================================================
