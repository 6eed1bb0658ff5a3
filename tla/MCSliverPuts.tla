---------------------------- MODULE MCSliverPuts ----------------------------
(* Two calls: two nodes with one shard each, so that six PUTs contend for the gates;
   and one node with one shard, two retries, and slivers larger than the whole byte
   budget. *)
EXTENDS SliverPuts

CONSTANTS a, b

MCArguments ==
  {[shards |-> [n \in {a, b} |-> 1], max_retries |-> 0, max_bytes_in_flight |-> 9],
   [shards |-> [n \in {a} |-> 1], max_retries |-> 2, max_bytes_in_flight |-> 1]}
=============================================================================
