------------------------------ MODULE MCTools ------------------------------
(* Blob IDs of three bytes keep the numbers small. *)
EXTENDS Tools

MCBlobIds == {<<0, 0, 1>>, <<1, 0, 0>>, <<255, 17, 2>>, <<3, 255, 255>>}

(* Four nodes of seven shards.  Those heard are heard in either direction. *)
MCWeight == [n \in {"a", "b", "c", "d"} |-> IF n = "d" THEN 1 ELSE 2]

MCOrders ==
  UNION {{SelectSeq(order, LAMBDA n : n \in some) : some \in SUBSET DOMAIN MCWeight}
           : order \in {<<"a", "b", "c", "d">>, <<"d", "c", "b", "a">>}}

(* Two nodes and three shards; a pool moved from one address to another while the table
   was listed, and answers left out a version or a pool. *)
MCStakingObjects ==
  LET Shards == {<<>>, <<0>>, <<1>>, <<0, 2>>, <<2, 1>>, <<1, 1>>, <<3, 2>>, <<0, 1, 2>>}
  IN  {[epoch |-> 5, n_shards |-> 3, pools_size |-> size,
        committee |-> <<<<"n", first>>, <<"m", second>>>>] :
         first \in Shards, second \in Shards, size \in {1, 2}}

MCPoolEntries ==
  [field : {"f"}, version : {1, 2}, pool : {[node |-> "n", address |-> "old"]}]
    \cup [field : {"f"}, version : {3}, pool : {[node |-> "n", address |-> "new"]}]
    \cup [field : {"g"}, version : {0, 2}, pool : {[node |-> "m", address |-> "old"]}]
    \cup {[field |-> "g", version |-> 2, pool |-> NoPool]}

(* A network is added with the relay that it makes active, and may be replaced by one of
   another profile that does not have it. *)
MCAdded ==
  {[group |-> "g", profile |-> "p", relays |-> [r \in {"mine"} |-> "https"],
    active_relay |-> "mine"],
   [group |-> "g", profile |-> "q", relays |-> <<>>, active_relay |-> "mine"]}

(* What constructors are given.  Sessions given nothing edit the relays of a built-in
   network. *)
MCNothing == [path |-> "nothing", group |-> "nothing", profile |-> "nothing"]

MCOverrides ==
  {MCNothing, [MCNothing EXCEPT !.profile = "p"], [MCNothing EXCEPT !.group = "g"],
   [path |-> "two", group |-> "g", profile |-> "q"]}

MCRelayNetworks ==
  [given \in MCOverrides |-> IF given = MCNothing THEN {"testnet"} ELSE {}]
=============================================================================
