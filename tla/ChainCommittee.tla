--------------------------- MODULE ChainCommittee ---------------------------
(***************************************************************************)
(* pytusk/core/chain/committee.py: the committee as it is put together     *)
(* from two reads of the chain: the inner staking object, which says which *)
(* node holds which shards, and the table of staking pools, which says     *)
(* where each node is.  The table is read page by page while the chain     *)
(* goes on, so that one entry may be listed twice, in two versions.        *)
(*                                                                         *)
(* The staking object is [epoch, n_shards, pools_size, committee], the     *)
(* committee a sequence of <<node, shards>> with shards a sequence.  A     *)
(* table entry is [field, version, pool]: version 0 and pool NoPool stand  *)
(* for what the node left out of its answer; a pool is [node, address].    *)
(* Every check that raises leaves Refused.                                 *)
(***************************************************************************)
EXTENDS Integers, SequencesExt, FiniteSetsExt

Refused == [refused |-> TRUE]
NoPool  == [node |-> "no pool"]

-----------------------------------------------------------------------------
(* The fields read out of the decoded objects. *)

staking_epoch(inner)            == inner.epoch
staking_n_shards(inner)         == inner.n_shards
staking_pools_size(inner)       == inner.pools_size
staking_committee_shards(inner) == inner.committee
pool_node_id(pool)              == pool.node
pool_network_address(pool)      == pool.address

(* The dynamic fields of the staking object; the inner one is told by its type. *)
fetch_staking_inner(dynamic_fields) ==
  LET matching == {f \in DOMAIN dynamic_fields : dynamic_fields[f].type = "StakingInnerV1"}
  IN  IF matching = {} THEN Refused ELSE dynamic_fields[Min(matching)].value

-----------------------------------------------------------------------------
(* The pools. *)

(* Broken: the entry listed last wins. *)
dedupe_last(entries) ==
  [field \in {e.field : e \in ToSet(entries)} |->
     LET at == {i \in DOMAIN entries : entries[i].field = field} IN entries[Max(at)]]

(* Of the entries of one field the first one with the highest version. *)
deduped_by_field_id(entries) ==
  [field \in {e.field : e \in ToSet(entries)} |->
     LET of(i) == entries[i].field = field
         best  == {i \in DOMAIN entries : of(i) /\ \A j \in DOMAIN entries :
                     of(j) => entries[j].version <= entries[i].version}
     IN  entries[Min(best)]]

fetch_pools(entries, expected_size) ==
  LET deduped == deduped_by_field_id(entries)
      found   == {deduped[f].pool : f \in DOMAIN deduped}
      nodes   == {pool_node_id(p) : p \in found \ {NoPool}}
  IN  IF \/ \E e \in ToSet(entries) : e.version = 0
         \/ NoPool \in found
         \/ Cardinality(nodes) /= expected_size
        THEN Refused
      ELSE [by_node_id |-> [node \in nodes |-> CHOOSE p \in found : pool_node_id(p) = node]]

-----------------------------------------------------------------------------
(* The committee. *)

(* Every shard in range and held exactly once: by one member, at one place of its list. *)
covers_each_shard_once(inner) ==
  LET listed == staking_committee_shards(inner)
      shards == 0 .. staking_n_shards(inner) - 1
      Claims(shard) == UNION {{m} \X {i \in DOMAIN listed[m][2] : listed[m][2][i] = shard}
                                : m \in DOMAIN listed}
  IN  /\ \A m \in DOMAIN listed : ToSet(listed[m][2]) \subseteq shards
      /\ \A shard \in shards : \E claim \in Claims(shard) : Claims(shard) = {claim}

build_committee(inner, pools) ==
  LET listed == staking_committee_shards(inner)
  IN  IF \/ \E m \in DOMAIN listed : listed[m][1] \notin DOMAIN pools
         \/ ~ covers_each_shard_once(inner)
        THEN Refused
      ELSE [epoch    |-> staking_epoch(inner),
            n_shards |-> staking_n_shards(inner),
            members  |-> [m \in DOMAIN listed |->
                            [node_id         |-> listed[m][1],
                             shard_indices   |-> listed[m][2],
                             network_address |-> pool_network_address(pools[listed[m][1]])]]]

fetch_epoch(dynamic_fields) ==
  LET inner == fetch_staking_inner(dynamic_fields)
  IN  IF inner = Refused THEN Refused ELSE [epoch |-> staking_epoch(inner)]

fetch_committee(dynamic_fields, entries) ==
  LET inner == fetch_staking_inner(dynamic_fields)
      pools == fetch_pools(entries, staking_pools_size(inner))
  IN  IF inner = Refused \/ pools = Refused THEN Refused
      ELSE build_committee(inner, pools.by_node_id)

-----------------------------------------------------------------------------
(* Lookups in the result. *)

(* The last position of a node ID wins, as in a dict built by enumeration. *)
position_by_node_id(committee, node) ==
  Max({p \in DOMAIN committee.members : committee.members[p].node_id = node}) - 1

position_by_shard(committee) ==
  [shard \in 0 .. committee.n_shards - 1 |->
     Max({p \in DOMAIN committee.members :
            shard \in ToSet(committee.members[p].shard_indices)}) - 1]

position_of(committee, node) ==
  IF \E m \in ToSet(committee.members) : m.node_id = node
    THEN <<position_by_node_id(committee, node)>> ELSE <<>>

position_for_shard(committee, shard) ==
  IF shard \in 0 .. committee.n_shards - 1
    THEN <<position_by_shard(committee)[shard]>> ELSE <<>>

member_for_shard(committee, shard) ==
  committee.members[position_for_shard(committee, shard)[1] + 1]
=============================================================================
