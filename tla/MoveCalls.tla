----------------------------- MODULE MoveCalls -----------------------------
(***************************************************************************)
(* The Move functions that pytusk calls on storage objects, blobs and      *)
(* shared blobs, as far as the code in src/ relies on them, and the        *)
(* operations of core/ops that compose them into a transaction.            *)
(*                                                                         *)
(* The chain is a record:                                                  *)
(*   epoch     the current Walrus epoch                                    *)
(*   storages  the owner's storage objects, by id                          *)
(*   blobs     by id: [storage, deletable, certified, metadata], metadata  *)
(*             being <<>> without the dynamic field, else <<keys>>         *)
(*   shared    shared blobs by id: [storage, funds]                        *)
(*   coins     the balances of the owner's WAL coins, by id                *)
(* A transaction is a sequence of calls, applied together or not at all.   *)
(***************************************************************************)
EXTENDS StorageResource, WalCoins, Functions

(* The fields of a chain; an owner has finitely many objects. *)
IsChain(ch) ==
  /\ ch = [epoch |-> ch.epoch, storages |-> ch.storages, blobs |-> ch.blobs,
           shared |-> ch.shared, coins |-> ch.coins]
  /\ ch.epoch \in Nat \ {0}
  /\ IsFiniteSet(DOMAIN ch.storages) /\ IsFiniteSet(DOMAIN ch.blobs)

-----------------------------------------------------------------------------
(* What Move allows and does. *)

Calls(name, ids) == [i \in DOMAIN ids |-> [call |-> name, id |-> ids[i]]]

FreshId(ch) == 1 + Max({0} \cup DOMAIN ch.storages)

Owned(id, storage) == [storage EXCEPT !.id = id]

Without(f, ids) == Restrict(f, DOMAIN f \ ids)

With(f, id, value) == [x \in DOMAIN f \cup {id} |-> IF x = id THEN value ELSE f[x]]

Cost(storage, epochs) == storage.size * epochs

extend_resource_allowed(ch, blob, extension) ==
  /\ blob.certified
  /\ blob.storage.end > ch.epoch
  /\ extension.end > blob.storage.end
  /\ blob.storage.start /= extension.start
  /\ move_fused(blob.storage, extension) /= Abort

Allowed(ch, c) ==
  CASE c.call \in {"split_by_epoch", "split_by_size", "destroy"} ->
         /\ c.id \in DOMAIN ch.storages
         /\ c.call = "split_by_epoch" => /\ ch.storages[c.id].start < c.at
                                         /\ c.at < ch.storages[c.id].end
         /\ c.call = "split_by_size" => ch.storages[c.id].size >= c.at
    [] c.call = "fuse" -> move_fuse_allowed(ch.storages, c.id, c.second)
    [] c.call = "delete_blob" ->
         /\ c.id \in DOMAIN ch.blobs
         /\ ch.blobs[c.id].deletable /\ ch.blobs[c.id].storage.end > ch.epoch
    [] c.call \in {"burn", "set_metadata"} -> c.id \in DOMAIN ch.blobs
    [] c.call = "share" -> c.id \in DOMAIN ch.blobs /\ ~ ch.blobs[c.id].deletable
    [] c.call = "remove_metadata" ->
         /\ c.id \in DOMAIN ch.blobs /\ ch.blobs[c.id].metadata /= <<>>
         /\ c.key \in ch.blobs[c.id].metadata[1]
    [] c.call = "take_metadata" ->
         c.id \in DOMAIN ch.blobs /\ ch.blobs[c.id].metadata /= <<>>
    [] c.call = "extend_blob" ->
         /\ c.id \in DOMAIN ch.blobs /\ ch.blobs[c.id].storage.end > ch.epoch
         /\ c.coin \in DOMAIN ch.coins
         /\ ch.coins[c.coin] >= Cost(ch.blobs[c.id].storage, c.epochs)
    [] c.call = "extend_blob_with_resource" ->
         /\ c.id \in DOMAIN ch.blobs /\ c.second \in DOMAIN ch.storages
         /\ extend_resource_allowed(ch, ch.blobs[c.id], ch.storages[c.second])
    [] c.call = "merge_coins" -> {c.id} \cup c.merged \subseteq DOMAIN ch.coins
    [] c.call = "fund" ->
         /\ c.id \in DOMAIN ch.shared /\ c.coin \in DOMAIN ch.coins
         /\ c.split => ch.coins[c.coin] >= c.amount
    [] c.call = "extend_shared" ->
         /\ c.id \in DOMAIN ch.shared /\ ch.shared[c.id].storage.end > ch.epoch
         /\ ch.shared[c.id].funds >= Cost(ch.shared[c.id].storage, c.epochs)
    [] OTHER -> FALSE

Effect(ch, c) ==
  CASE c.call = "split_by_epoch" ->
         [ch EXCEPT !.storages =
            With([ch.storages EXCEPT ![c.id].end = c.at], FreshId(ch),
                 Owned(FreshId(ch), [ch.storages[c.id] EXCEPT !.start = c.at]))]
    [] c.call = "split_by_size" ->
         [ch EXCEPT !.storages =
            With([ch.storages EXCEPT ![c.id].size = c.at], FreshId(ch),
                 Owned(FreshId(ch), [ch.storages[c.id] EXCEPT !.size = @ - c.at]))]
    [] c.call = "fuse" -> [ch EXCEPT !.storages = move_fuse(@, c.id, c.second)]
    [] c.call = "destroy" -> [ch EXCEPT !.storages = Without(@, {c.id})]
    [] c.call = "delete_blob" ->
         [ch EXCEPT !.blobs = Without(@, {c.id}),
                    !.storages = With(@, FreshId(ch),
                                      Owned(FreshId(ch), ch.blobs[c.id].storage))]
    [] c.call = "burn" -> [ch EXCEPT !.blobs = Without(@, {c.id})]
    [] c.call = "share" ->
         [ch EXCEPT !.blobs  = Without(@, {c.id}),
                    !.shared = With(@, c.id, [storage |-> ch.blobs[c.id].storage,
                                              funds   |-> 0])]
    [] c.call = "set_metadata" ->
         [ch EXCEPT !.blobs[c.id].metadata =
            IF @ = <<>> THEN <<{c.key}>> ELSE <<@[1] \cup {c.key}>>]
    [] c.call = "remove_metadata" ->
         [ch EXCEPT !.blobs[c.id].metadata = <<@[1] \ {c.key}>>]
    [] c.call = "take_metadata" -> [ch EXCEPT !.blobs[c.id].metadata = <<>>]
    [] c.call = "extend_blob" ->
         [ch EXCEPT !.blobs[c.id].storage.end = @ + c.epochs,
                    !.coins[c.coin] = @ - Cost(ch.blobs[c.id].storage, c.epochs)]
    [] c.call = "extend_blob_with_resource" ->
         [ch EXCEPT !.blobs[c.id].storage = move_fused(@, ch.storages[c.second]),
                    !.storages = Without(@, {c.second})]
    [] c.call = "merge_coins" ->
         [ch EXCEPT !.coins =
            Without([ch.coins EXCEPT ![c.id] =
                       @ + Cardinality(UNION {{coin} \X (1 .. ch.coins[coin]) : coin \in c.merged})],
                    c.merged)]
    [] c.call = "fund" ->
         IF c.split
           THEN [ch EXCEPT !.coins[c.coin] = @ - c.amount,
                           !.shared[c.id].funds = @ + c.amount]
           ELSE [ch EXCEPT !.coins = Without(@, {c.coin}),
                           !.shared[c.id].funds = @ + ch.coins[c.coin]]
    [] c.call = "extend_shared" ->
         [ch EXCEPT !.shared[c.id].storage.end = @ + c.epochs,
                    !.shared[c.id].funds = @ - Cost(ch.shared[c.id].storage, c.epochs)]

Applied(state, c) == IF state = Abort \/ ~Allowed(state, c) THEN Abort ELSE Effect(state, c)

Executed(ch, transaction) ==
  LET after[n \in 0 .. Len(transaction)] ==
        IF n = 0 THEN ch ELSE Applied(after[n - 1], transaction[n])
  IN  after[Len(transaction)]

-----------------------------------------------------------------------------
(* The compose operations: the calls each one adds to a transaction. *)

add_split_by_epoch(id, at) == <<[call |-> "split_by_epoch", id |-> id, at |-> at]>>
add_split_by_size(id, at)  == <<[call |-> "split_by_size", id |-> id, at |-> at]>>
add_fuse(first, second)    == <<[call |-> "fuse", id |-> first, second |-> second]>>
add_destroy_storage(id)    == Calls("destroy", <<id>>)

add_set_blob_metadata(id, keys) ==
  [i \in DOMAIN keys |-> [call |-> "set_metadata", id |-> id, key |-> keys[i]]]

add_drop_blob_metadata_keys(id, keys) ==
  [i \in DOMAIN keys |-> [call |-> "remove_metadata", id |-> id, key |-> keys[i]]]

add_drop_blob_metadata_all(id) == Calls("take_metadata", <<id>>)
add_share_blob(id)             == Calls("share", <<id>>)

add_fund_shared_blob(id, payment) ==
  (IF payment.merged = {} THEN <<>>
   ELSE <<[call |-> "merge_coins", id |-> payment.coin, merged |-> payment.merged]>>)
    \o <<[call |-> "fund", id |-> id, coin |-> payment.coin, split |-> payment.split,
           amount |-> payment.amount]>>

add_extend_shared_blob(id, epochs) ==
  <<[call |-> "extend_shared", id |-> id, epochs |-> epochs]>>
=============================================================================
