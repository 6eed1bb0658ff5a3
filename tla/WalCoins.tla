------------------------------ MODULE WalCoins ------------------------------
(***************************************************************************)
(* pytusk/core/ops/coins.py: which coins of a wallet pay for an amount.    *)
(* Coins are <<id, balance>> in the order the node listed them; a missing  *)
(* balance is listed as 0.  A payment is the calls composed into the       *)
(* transaction - the coins merged into the first one and whether it is     *)
(* then split - or NoPayment before anything is signed.                      *)
(***************************************************************************)
EXTENDS Integers, Sequences, FiniteSets

NoPayment == [refused |-> TRUE]

(* The balance of some of the coins: one unit for each. *)
balance_of(coins, some) == Cardinality(UNION {{i} \X (1 .. coins[i][2]) : i \in some})

total_balance(coins) == balance_of(coins, DOMAIN coins)

(* Coins are sorted by balance, the largest first.  The sort is stable: coins of one
   balance keep their order. *)
sorted_before(coins, i) ==
  {j \in DOMAIN coins : coins[j][2] > coins[i][2] \/ (coins[j][2] = coins[i][2] /\ j < i)}

first_sorted(coins, some) ==
  CHOOSE i \in some : \A j \in some : j \notin sorted_before(coins, i)

primary(coins) == first_sorted(coins, DOMAIN coins)

select_wal_payment_coin(coins) ==
  IF coins = <<>> THEN NoPayment ELSE [coin |-> coins[primary(coins)][1]]

assert_coin_usable(coin, owners, minimum_balance) ==
  coin.owner \in owners /\ coin.balance >= minimum_balance

(* What pays for Tx1: the tip coin, if one was named (<<>>: none), must be usable; a
   payment coin that was named (<<>>: none) is not looked at. *)
preflight_payment(coins, tip, owners, tip_minimum_balance, payment) ==
  IF tip /= <<>> /\ ~assert_coin_usable(tip[1], owners, tip_minimum_balance) THEN NoPayment
  ELSE IF payment /= <<>> THEN [coin |-> payment[1]]
  ELSE select_wal_payment_coin(coins)

(* Broken: the balance of the coin itself is counted before it is merged. *)
short_merge(coins, amount) ==
  {i \in DOMAIN coins : /\ sorted_before(coins, i) /= {}
                        /\ balance_of(coins, sorted_before(coins, i) \cup {i}) < amount}

(* Coins after the first are merged until the balance covers the amount. *)
merge_from(coins, amount) ==
  {i \in DOMAIN coins : /\ sorted_before(coins, i) /= {}
                        /\ balance_of(coins, sorted_before(coins, i)) < amount}

prepare_wal_coin_for_amount(coins, amount) ==
  LET exact == {i \in DOMAIN coins : coins[i][2] = amount}
  IN  IF coins = <<>> \/ total_balance(coins) < amount THEN NoPayment
      ELSE IF exact /= {}
        THEN [coin |-> coins[first_sorted(coins, exact)][1], merged |-> {}, split |-> FALSE,
              amount |-> amount]
      ELSE [coin   |-> coins[primary(coins)][1],
            merged |-> {coins[i][1] : i \in merge_from(coins, amount)},
            split  |-> TRUE, amount |-> amount]
=============================================================================
