------------------------------- MODULE Tools -------------------------------
(***************************************************************************)
(* The parts that compute without interleaving, each over its own bounded  *)
(* inputs: an input is chosen at the start and the properties of its kind  *)
(* relate what the operators make of it.  The input "session" runs         *)
(* TuskConfig instead, the one part here that has a state.                 *)
(***************************************************************************)
EXTENDS BlobStatus, ChainCommittee, WalCoins, QuiltLayout

CONSTANTS
  MaxShards, MaxLength, BlobIds,              \* bounds of thresholds and geometry
  Weight, NShards, Orders,                    \* of a committee: the shards of each member,
                                              \* and in which order members are heard
  StakingObjects, PoolEntries, MaxListed,     \* what the chain says of a committee
  MaxAmount, MaxBalance, MaxCoins,            \* of wallets
  Custom, Groups, Profiles, Relays, Paths,    \* of TuskConfig
  Added, Overrides, RelayNetworks

ASSUME InputsAssumption ==
  /\ {MaxShards, MaxLength, MaxListed, MaxAmount, MaxBalance, MaxCoins} \subseteq Nat
  /\ \A id \in BlobIds : id \in Seq(Byte)

(* Every shard is held by one member, and a member answers at most once. *)
ASSUME CommitteeAssumption ==
  /\ IsFiniteSet(DOMAIN Weight) /\ \A member \in DOMAIN Weight : Weight[member] \in Nat
  /\ NShards = Cardinality(UNION {{m} \X (1 .. Weight[m]) : m \in DOMAIN Weight})
  /\ \A order \in Orders : order \in Seq(DOMAIN Weight) /\ IsInjective(order)

(* A node is listed once among the members. *)
ASSUME StakingAssumption ==
  \A inner \in StakingObjects :
    /\ inner = [epoch |-> inner.epoch, n_shards |-> inner.n_shards,
                pools_size |-> inner.pools_size, committee |-> inner.committee]
    /\ inner.n_shards \in Nat
    /\ inner.committee \in Seq(STRING \X Seq(Nat))
    /\ \A m, other \in DOMAIN inner.committee :
         inner.committee[m][1] = inner.committee[other][1] => m = other

(* An entry is an object of the chain: of one version there is one content, though an
   answer may leave it out. *)
ASSUME EntriesAssumption ==
  \A e \in PoolEntries :
    /\ e.version \in Nat
    /\ e.pool = NoPool \/ e.pool = [node |-> e.pool.node, address |-> e.pool.address]
    /\ \A d \in PoolEntries :
         d.field = e.field /\ d.version = e.version /\ NoPool \notin {d.pool, e.pool} => d = e

VARIABLES input, model, file, cached, override
vars == <<input, model, file, cached, override>>

Storage == INSTANCE StorageResource
Events  == INSTANCE BlobEvents
Session == INSTANCE TuskConfig

ASSUME SessionAssumption ==
  /\ Added \subseteq Session!CallersNetworks
  /\ Overrides \subseteq Session!CallersOverrides

Is(kind) == input.kind = kind

-----------------------------------------------------------------------------
(* Inputs.  Thresholds: two sets of shards of one committee. *)

Quorums ==
  UNION {[kind : {"quorums"}, n_shards : {n}, one : SUBSET (1 .. n), other : SUBSET (1 .. n)]
           : n \in 1 .. MaxShards}

(* Geometry: a blob on a committee. *)
Blobs ==
  [kind : {"blob"}, n_shards : 1 .. MaxShards, length : 0 .. MaxLength, blob_id : BlobIds]

(* Quilts: up to three patches, given out of order, on three, four and five columns. *)
Patches ==
  LET Patch(id, lengths) == [identifier |-> id, identifier_length |-> lengths[1],
                             tags_length |-> lengths[2], contents |-> lengths[3]]
      Lengths == {<<1, 0, 0>>, <<2, 3, 1>>, <<1, 0, 11>>, <<1, 2, 30>>, <<3, 0, 90>>}
  IN  {<<>>}
        \cup {<<Patch(1, a)>> : a \in Lengths}
        \cup {<<Patch(i, a), Patch(1, b)>> : i \in {1, 2}, a \in Lengths, b \in Lengths}
        \cup {<<Patch(2, a), Patch(3, b), Patch(1, <<1, 0, 4>>)>> :
                a \in Lengths, b \in Lengths}

Quilts == [kind : {"quilt"}, n_shards : {4, 5, 7}, patches : Patches]

(* Listings of three storages, and the end of a blob to extend. *)
Listings ==
  LET Some == [start : {1}, end : {2, 3}, size : {1, 2}]
                \cup [start : {2}, end : {3}, size : {1, 3}] \cup [start : {3}, end : {5}, size : {1}]
      Reserved(id, s) == [id |-> id, start |-> s.start, end |-> s.end, size |-> s.size]
  IN  [kind : {"listing"}, to : 0 .. 3,
       storages : {<<Reserved(1, a), Reserved(2, b), Reserved(3, c)>> :
                     a \in Some, b \in Some, c \in Some}]

(* Wallets, an amount, and a tip coin that may be a stranger's. *)
Wallets ==
  [kind : {"wallet"}, amount : 1 .. MaxAmount,
   coins : {[i \in DOMAIN b |-> <<i, b[i]>>] : b \in BoundedSeq(0 .. MaxBalance, MaxCoins)},
   tip : {<<>>} \cup {<<[owner |-> o, balance |-> b]>> :
                       o \in {"sender", "stranger"}, b \in {1, 2}}]

(* What the nodes of a committee answer of one blob, in the order heard.  The fan-out
   gives up the nodes still pending after a quorum, all of them, unless the deadline
   comes first; without one they are cut off by the deadline.  "forged" is a permanent
   status whose event names an object of another blob. *)
Committee == [weight |-> Weight, n_shards |-> NShards]
Members   == DOMAIN Weight

Answers == {"certified", "extended", "forged", "Deletable", "Nonexistent", "Invalid", "error"}

Answer(a) ==
  CASE a = "error" -> Failed
    [] a \in {"certified", "extended", "forged"} -> [type |-> "Permanent", detail |-> a]
    [] a \in {"Deletable", "Nonexistent", "Invalid"} -> [type |-> a, detail |-> "none"]

Heard(order, said) == [i \in DOMAIN order |-> <<order[i], Answer(said[i])>>]

(* The nodes given up: none, or when a quorum was reached all that were not heard. *)
GivenUp(order, heard) ==
  {{}} \cup {pending \in {Members \ ToSet(order)} : quorum_reached(Committee, heard)}

Queries ==
  UNION {UNION {[kind : {"query"}, heard : {Heard(order, said)},
                 given_up : GivenUp(order, Heard(order, said))]
                  : said \in [DOMAIN order -> Answers]} : order \in Orders}

(* Events as the chain writes them: possibly by a contract whose event has lost or
   gained a field, or in an envelope with a type parameter. *)
Written(layout) ==
  FlattenSeq([f \in DOMAIN layout |->
                [i \in 1 .. layout[f][2] |-> IF layout[f][1] = "object_id" THEN 7 ELSE 1]])

Envelope(name, parameters, payload) ==
  LET Run(n) == [i \in 1 .. n |-> 2]
      Prefix(n) == IF n < 128 THEN <<n>> ELSE <<128 + (n % 128), n \div 128>>
  IN  Run(32) \o Prefix(name) \o Run(name) \o Run(64) \o Prefix(6) \o Run(6)
        \o Prefix(name) \o Run(name) \o <<parameters>> \o Prefix(Len(payload)) \o payload

EventsSeen ==
  LET Shapes(layout) == {layout, Tail(layout), Front(layout), Append(layout, <<"new", 1>>)}
                          \cup {RemoveAt(layout, f) : f \in DOMAIN layout}
  IN  UNION {[kind : {"event"}, event_type : {type}, shape : Shapes(Events!EVENT_LAYOUTS[type]),
              name : {0, 13, 130}, parameters : {0, 1}] : type \in DOMAIN Events!EVENT_LAYOUTS}

(* What the chain says of a committee: the staking object, and the pools table as it
   was listed page by page. *)
Chains ==
  [kind : {"chain"},
   fields : {<<[type |-> "Other"], [type |-> "StakingInnerV1", value |-> inner]>>
               : inner \in StakingObjects} \cup {<<>>},
   entries : BoundedSeq(PoolEntries, MaxListed)]

Init ==
  \/ /\ \/ input \in Quorums \/ input \in Blobs \/ input \in Quilts \/ input \in Listings
        \/ input \in Wallets
        \/ input \in Queries \/ input \in EventsSeen \/ input \in Chains
     /\ model = Session!NoModel /\ file = Session!NoModel
     /\ cached = Session!Nothing /\ override = Session!NoOverrides
  \/ /\ input = [kind |-> "session"]
     /\ Session!Init

Next ==
  \/ Is("session") /\ Session!Next /\ UNCHANGED input
  \/ ~Is("session") /\ UNCHANGED vars

Spec == Init /\ [][Next]_vars

-----------------------------------------------------------------------------
(* Properties. *)

(* The two thresholds are enough for what they are used for: two quorums share a
   weight that only honest nodes can make up (certification.py), of the shards that
   confirmed a blob those that remain after f have failed can still decode it
   (redstuff.py), and the minimum weights are the least that the predicates accept. *)
ThresholdsSuffice ==
  Is("quorums") =>
    LET n      == input.n_shards
        weight == Cardinality(input.one)
        f      == max_n_faulty(n)
    IN  /\ is_quorum(weight, n) <=> weight >= min_weight_for_quorum(n)
        /\ is_above_validity(weight, n) <=> weight >= min_weight_for_validity(n)
        /\ is_above_validity(weight, n) => weight > f
        /\ is_quorum(weight, n) /\ is_quorum(Cardinality(input.other), n)
             => is_above_validity(Cardinality(input.one \cap input.other), n)
        /\ is_quorum(weight, n) => weight - f >= source_symbol_counts(n).primary
        /\ is_quorum(n - f, n)

(* The remainder of a big-endian number, one byte at a time. *)
RemainderByBytes(id, n) ==
  LET remainder[i \in 0 .. Len(id)] ==
        IF i = 0 THEN 0 ELSE (256 * remainder[i - 1] + id[i]) % n
  IN  remainder[Len(id)]

(* Writers place and readers look for every sliver on the same shard, the rotation
   being that of the big-endian blob ID; the symbol size they share is the least that
   is aligned and holds the blob, and no larger blob fits than the limit says. *)
GeometryAgrees ==
  Is("blob") =>
    LET n    == input.n_shards
        size == symbol_size(input.length, n)
        id   == input.blob_id
    IN  /\ \A pair \in 0 .. n - 1 :
             LET shard == pair_index_to_shard_index(pair, id, n)
             IN  /\ shard = (pair + RemainderByBytes(id, n)) % n
                 /\ shard_index_to_pair_index(shard, id, n) = pair
        /\ size % RS2_REQUIRED_ALIGNMENT = 0 /\ size > 0
        /\ input.length <= max_blob_size(n, size)
        /\ size > RS2_REQUIRED_ALIGNMENT
             => input.length > max_blob_size(n, size - RS2_REQUIRED_ALIGNMENT)

ReadColumns(result, start, end) ==
  LET g == result.geometry
      columns == g.row_size \div g.symbol_size
      column_size == g.n_rows * g.symbol_size
  IN  [i \in 1 .. (end - start) * column_size |->
         LET column == start + (i - 1) \div column_size
             row    == ((i - 1) % column_size) \div g.symbol_size
         IN  result.quilt[(row * columns + column) * g.symbol_size
                            + ((i - 1) % g.symbol_size)]]

Hold(columns, bytes) ==
  columns = bytes \o [i \in 1 .. Len(columns) - Len(bytes) |-> Padding]

SizeOf(patch) == blob_metadata_size(patch) + patch.contents

Usable(patches, counts) ==
  LET Columns(length, size) == CeilDiv(length, size * counts.primary)
      Fits(size) ==
        /\ Columns(index_size(patches), size) <= MAX_NUM_SLIVERS_FOR_QUILT_INDEX
        /\ FoldLeft(LAMBDA sum, patch : sum + Columns(SizeOf(patch), size),
                    Columns(index_size(patches), size), patches) <= counts.secondary
  IN  {size \in 1 .. RS2_MAX_SYMBOL_SIZE : size % 2 = 0 /\ Fits(size)}

EveryBlobIsFound(patches, index, result) ==
  LET listed == result.patches
      Given(p) == CHOOSE q \in ToSet(patches) : q.identifier = listed[p].identifier
  IN  /\ Hold(ReadColumns(result, 0, listed[1].start_index), Bytes(0, "index", index))
      /\ {listed[p].identifier : p \in DOMAIN listed} = {p.identifier : p \in ToSet(patches)}
      /\ \A p \in DOMAIN listed :
           /\ Hold(ReadColumns(result, listed[p].start_index, listed[p].end_index),
                   Bytes(p, "metadata", blob_metadata_size(Given(p)))
                     \o Bytes(p, "contents", Given(p).contents))
           /\ p > 1 => listed[p].start_index = listed[p - 1].end_index

QuiltIsSound(patches, usable, result) ==
  LET distinct == /\ patches /= <<>>
                  /\ Cardinality({p.identifier : p \in ToSet(patches)}) = Len(patches)
  IN  /\ result = NoQuilt <=> ~distinct \/ usable = {}
      /\ result /= NoQuilt => /\ result.symbol_size = Min(usable)
                              /\ EveryBlobIsFound(patches, index_size(patches), result)

(* A reader who knows only the index finds every blob: the columns it names, read
   downwards, hold the metadata, the contents and padding, and the index itself is
   in the columns before; a quilt is refused only when no size would do. *)
QuiltIsReadBack ==
  Is("quilt") =>
    QuiltIsSound(input.patches, Usable(input.patches, source_symbol_counts(input.n_shards)),
                 assemble_quilt(input.patches, input.n_shards))

ById(storages) == [id \in {s.id : s \in ToSet(storages)} |->
                     CHOOSE s \in ToSet(storages) : s.id = id]

(* The chain after the fuses, or none when Move rejects one of them. *)
AfterPairs(chain, pairs) ==
  FoldLeft(LAMBDA chains, pair :
             {Storage!move_fuse(c, pair[1], pair[2]) :
                c \in {d \in chains : Storage!move_fuse_allowed(d, pair[1], pair[2])}},
           {chain}, pairs)

(* What a listing offers is what Move takes: a fuse of two storages, a split, an
   extension.  A plan leaves out only storages that cannot be fused into what it makes,
   in whatever order, and predicts the survivor (tusky_cmds_storage.py). *)
PlansMatchMove ==
  Is("listing") =>
    LET listed == input.storages
        chain  == ById(listed)
        pairs  == {<<p[1].id, p[2].id>> : p \in Storage!fuse_periods_pairs(listed)}
        groups == {{s.id : s \in ToSet(g)} : g \in Storage!fuse_amount_groups(listed)}
        plans  == {Storage!plan_fuse_periods(listed, input.to),
                   Storage!plan_fuse_amount(listed, <<>>)} \ {Storage!Refused}
    IN  /\ \A i, j \in DOMAIN chain : i < j =>
             (Storage!move_fuse_allowed(chain, i, j)
                <=> <<i, j>> \in pairs \/ \E g \in groups : {i, j} \subseteq g)
        /\ \A i \in DOMAIN chain :
             /\ Storage!split_by_epoch_applicable(chain[i])
                  <=> \E e \in 0 .. 9 : chain[i].start < e /\ e < chain[i].end
             /\ Storage!split_by_size_applicable(chain[i])
                  <=> \E b \in 1 .. 9 : b < chain[i].size
             /\ \A j \in DOMAIN chain : i /= j =>
                  (Storage!extend_applicable(chain[i], {chain[j]})
                     <=> /\ chain[i].end > chain[j].end
                         /\ chain[i].size = chain[j].size /\ chain[i].start = chain[j].end)
        /\ \A plan \in plans :
             \E after \in AfterPairs(chain, plan.pairs) :
               /\ after[plan.survivor.id] = plan.survivor
               /\ \A s \in ToSet(plan.skipped) :
                    ~Storage!move_fuse_allowed(after, plan.survivor.id, s.id)

(* A payment is exact: it is refused only when the wallet is too poor, what it merges
   covers the amount and no fewer coins would, and a coin is left unsplit only when it
   is worth the amount.  The coin that pays for Tx1 is worth any other, and a tip coin
   that is too small or not the sender's is refused before anything is signed
   (core/ops/coins.py, preflight_payment). *)
PaymentIsExact ==
  Is("wallet") =>
    LET coins == input.coins
        plan  == prepare_wal_coin_for_amount(coins, input.amount)
        first == preflight_payment(coins, input.tip, {"sender"}, 2, <<>>)
    IN  /\ plan = NoPayment <=> balance_of(coins, DOMAIN coins) < input.amount
        /\ plan /= NoPayment =>
             LET used == plan.merged \cup {plan.coin}
             IN  /\ plan.coin \notin plan.merged
                 /\ balance_of(coins, used) >= input.amount
                 /\ ~plan.split => balance_of(coins, used) = input.amount
                 /\ \A ids \in SUBSET DOMAIN coins :
                      balance_of(coins, ids) >= input.amount
                        => Cardinality(ids) >= Cardinality(used)
        /\ first = NoPayment
             <=> coins = <<>> \/ (input.tip /= <<>> /\ input.tip[1] /= [owner |-> "sender", balance |-> 2])
        /\ first /= NoPayment =>
             \A i \in DOMAIN coins : coins[i][2] <= coins[first.coin][2]

Liars == {L \in SUBSET Members : weight_of(Committee, L) <= max_n_faulty(NShards)}

ObjectsAreOf(blob_id, report) ==
  \A known \in {[blob |-> blob_id], NoObject},
     owned \in SUBSET {blob_id, "another"}, read \in BOOLEAN :
    \A object \in resolve_blob_sui_objects(blob_id, report, known,
                    [read |-> read, objects |-> {[blob |-> b] : b \in owned}],
                    [certified |-> [blob |-> blob_id], extended |-> NoObject,
                     forged |-> [blob |-> "another"]]).objects :
      object.blob = blob_id

(* Every member confirms the verdict or is blamed, for one reason. *)
EveryoneIsAccounted(report) ==
  LET blamed == {d[1] : d \in report.dissenting}
  IN  /\ report.confirming \cup blamed = Members
      /\ report.confirming \cap blamed = {}
      /\ \A d, e \in report.dissenting : d[1] = e[1] => d = e

(* Liars are any nodes with up to f of the shards; the others answered honestly. *)
HonestyDecides(query, report) ==
  \A L \in Liars :
    LET Said(n) == {h[2] : h \in {g \in ToSet(query.heard) : g[1] = n}}
        answers == (UNION {Said(n) : n \in Members \ L}) \ {Failed}
    IN  /\ report.status \in answers \cup {Unresolved}
        /\ \A a \in answers : (\A n \in Members \ L : Said(n) = {a}) => report.status = a
        /\ Answer("forged") \notin answers => ObjectsAreOf("asked", report)

(* With up to f of the shards on nodes that lie, the verdict is one that an honest node
   gave, or none; it is the honest answer when all the honest nodes gave the same.
   Every member is accounted for exactly once, also those the deadline cut off, and no
   object of another blob is shown unless an honest node named it (blob_status.py). *)
VerdictIsEarned ==
  Is("query") =>
    LET report == fetch_blob_status(Committee, input)
    IN  EveryoneIsAccounted(report) /\ HonestyDecides(input, report)

(* An event written by another layout leads to no object, when the two differ in size:
   one field more or less, or a type parameter in the envelope, and nothing is read.
   Two fields of one width that changed places would be (events.py). *)
EventsAreReadByLayout ==
  Is("event") =>
    LET raw  == Envelope(input.name, input.parameters, Written(input.shape))
        read == Events!fetch_event_object_id(
                  <<<<[event_type |-> "Other", contents |-> raw],
                      [event_type |-> input.event_type, contents |-> raw]>>>>, 1)
    IN  read = IF /\ input.shape = Events!EVENT_LAYOUTS[input.event_type]
                  /\ input.parameters = 0 /\ input.event_type /= "InvalidBlobID"
                 THEN [i \in 1 .. 32 |-> 7] ELSE <<>>

(* The entries that no newer one of their field was listed with. *)
Newest(entries) ==
  {e \in ToSet(entries) : \A d \in ToSet(entries) : d.field = e.field => d.version <= e.version}

(* An answer in which nothing is missing. *)
ChainIsRegular(inner, entries) ==
  LET nodes == {e.pool.node : e \in Newest(entries)}
      places == UNION {{m} \X DOMAIN inner.committee[m][2] : m \in DOMAIN inner.committee}
      At(place) == inner.committee[place[1]][2][place[2]]
  IN  /\ \A e \in ToSet(entries) : e.version > 0 /\ e.pool /= NoPool
      /\ Cardinality(nodes) = inner.pools_size
      /\ {member[1] : member \in ToSet(inner.committee)} \subseteq nodes
      /\ {At(place) : place \in places} = 0 .. inner.n_shards - 1
      /\ \A place, other \in places : At(place) = At(other) => place = other

CommitteeIsSound(committee, entries) ==
  /\ \A shard \in 0 .. committee.n_shards - 1 :
       LET member == member_for_shard(committee, shard)
       IN  /\ shard \in ToSet(member.shard_indices)
           /\ \A other \in ToSet(committee.members) :
                shard \in ToSet(other.shard_indices) => other = member
           /\ position_for_shard(committee, shard) = position_of(committee, member.node_id)
  /\ \A m \in ToSet(committee.members) :
       /\ ToSet(m.shard_indices) \subseteq 0 .. committee.n_shards - 1
       /\ \E e \in Newest(entries) :
            e.pool = [node |-> m.node_id, address |-> m.network_address]

(* A committee is handed out only whole: every shard in range and on one member, every
   member at the newest address that was listed for it and the lookups agreeing with
   the members; and it is not refused for a table listed twice (committee.py). *)
CommitteeIsWhole ==
  Is("chain") =>
    LET result == fetch_committee(input.fields, input.entries)
    IN  /\ input.fields /= <<>> =>
             (ChainIsRegular(input.fields[2].value, input.entries) => result /= Refused)
        /\ result /= Refused =>
             /\ CommitteeIsSound(result, input.entries)
             /\ fetch_epoch(input.fields).epoch = result.epoch

(* Through any edits, saves, torn saves and restarts a built-in network's active relay
   is one it has, the cached pysui configuration is the one that the session's
   properties ask for, and what was saved loads again, with the exceptions that
   TuskConfig names; and a user-defined network whose active relay it does not have was
   added like that, no other operation makes one (tusk_config.py). *)
SessionIsConsistent ==
  /\ [](/\ Session!ActiveRelayIsThere
        /\ Session!CacheIsCurrent
        /\ Session!SavedFileLoads)
  /\ [][Session!StraysAreAdded]_<<model, file>>
=============================================================================
