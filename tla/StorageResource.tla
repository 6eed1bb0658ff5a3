-------------------------- MODULE StorageResource --------------------------
(***************************************************************************)
(* Storage objects: a size reserved over a range of epochs.  The Move      *)
(* functions that split and fuse them are external; beside them stand the  *)
(* local checks of core/ops/storage_compose.py and the plans that          *)
(* tusky_cmds_storage.py makes from a listing, which must agree with Move  *)
(* because every disagreement is paid for in gas.                          *)
(*                                                                         *)
(* A storage is [id, start, end, size]; ids are numbers, since the code    *)
(* sorts them.  NoId is the storage embedded in a blob.  A plan is         *)
(* [pairs, skipped], the pairs to fuse in order, or Refused.               *)
(***************************************************************************)
EXTENDS Integers, Sequences, SequencesExt, FiniteSets, FiniteSetsExt

(* Numbers in ascending order, and of a sequence the elements that are in a set. *)
Ascending(numbers) ==
  [k \in 1 .. Cardinality(numbers) |->
     CHOOSE n \in numbers : Cardinality({m \in numbers : m < n}) = k - 1]

Only(s, set) ==
  LET at == Ascending({i \in DOMAIN s : s[i] \in set})
  IN  [k \in DOMAIN at |-> s[at[k]]]

NoId    == 0
Abort   == [abort |-> TRUE]
Refused == [refused |-> TRUE]

-----------------------------------------------------------------------------
(* The Move side (storage_resource.move), on a function from ids to storages. *)

move_fused(first, second) ==
  CASE first.start = second.start /\ first.end = second.end ->
         [first EXCEPT !.size = @ + second.size]
    [] first.start /= second.start /\ first.size = second.size
         /\ first.end = second.start ->
         [first EXCEPT !.end = second.end]
    [] first.start /= second.start /\ first.size = second.size
         /\ first.end /= second.start /\ first.start = second.end ->
         [first EXCEPT !.start = second.start]
    [] OTHER -> Abort

move_fuse_allowed(storages, first, second) ==
  /\ first /= second
  /\ {first, second} \subseteq DOMAIN storages
  /\ move_fused(storages[first], storages[second]) /= Abort

move_fuse(storages, first, second) ==
  [id \in DOMAIN storages \ {second} |->
     IF id = first THEN move_fused(storages[first], storages[second]) ELSE storages[id]]

-----------------------------------------------------------------------------
(* Local checks: the reason Move would give, or "none". *)

fuse_periods_incompatibility(first, second) ==
  CASE first.size /= second.size -> "EIncompatibleAmount"
    [] first.size = second.size /\ first.end /= second.start
         /\ first.start /= second.end -> "EIncompatibleEpochs"
    [] OTHER -> "none"

fuse_incompatibility(first, second) ==
  CASE first.id /= NoId /\ first.id = second.id -> "itself"
    [] (first.id = NoId \/ first.id /= second.id) /\ first.start = second.start ->
         (IF first.end /= second.end THEN "EIncompatibleEpochs" ELSE "none")
    [] OTHER -> fuse_periods_incompatibility(first, second)

split_by_epoch_applicable(storage) == storage.end - storage.start >= 2
split_by_size_applicable(storage)  == storage.size >= 2

-----------------------------------------------------------------------------
(* What a listing offers. *)

fuse_amount_groups(storages) ==
  LET Alike(t) == {s \in ToSet(storages) : s.start = t.start /\ s.end = t.end}
  IN  {group \in {Only(storages, Alike(t)) : t \in ToSet(storages)} : Len(group) >= 2}

fuse_periods_pairs(storages) ==
  {<<storages[q[1]], storages[q[2]]>> : q \in
     {p \in (DOMAIN storages) \X (DOMAIN storages) :
        /\ p[1] < p[2]
        /\ storages[p[1]].start /= storages[p[2]].start
        /\ fuse_incompatibility(storages[p[1]], storages[p[2]]) = "none"}}

(* Connected components of those pairs, each in the order of the ids. *)
periods_components(storages) ==
  LET pairs == fuse_periods_pairs(storages)
      closed(set) == \A p \in pairs : p[1] \in set <=> p[2] \in set
      cluster(s) == {t \in ToSet(storages) :
                       \A set \in SUBSET ToSet(storages) : s \in set /\ closed(set) => t \in set}
      in_order(c) == [k \in 1 .. Cardinality(c) |->
                        CHOOSE s \in c : Cardinality({t \in c : t.id < s.id}) = k - 1]
  IN  {in_order(cluster(p[1])) : p \in pairs}

extend_applicable(storage, candidate_blobs) ==
  \E blob \in candidate_blobs :
    /\ storage.end > blob.end
    /\ fuse_periods_incompatibility(blob, storage) = "none"

-----------------------------------------------------------------------------
(* The plans of fuse_storage. *)

(* Broken: the survivor is judged by the state it started in. *)
fuse_chain_unchanged(first, second) == first

fuse_chain_state(first, second) ==
  IF first.start = second.start
    THEN [first EXCEPT !.size = @ + second.size]
    ELSE [first EXCEPT !.start = Min({@, second.start}),
                       !.end   = Max({first.end, second.end})]

(* One pass over the spokes that are left; survivor, pairs and what remains. *)
fuse_one(c, spoke) ==
  IF /\ c.survivor.start /= spoke.start
     /\ fuse_periods_incompatibility(c.survivor, spoke) = "none"
    THEN [survivor |-> fuse_chain_state(c.survivor, spoke),
          pairs    |-> Append(c.pairs, <<c.survivor.id, spoke.id>>),
          skipped  |-> c.skipped]
    ELSE [c EXCEPT !.skipped = Append(@, spoke)]

fuse_pass(chain) ==
  LET after[n \in 0 .. Len(chain.skipped)] ==
        IF n = 0 THEN [chain EXCEPT !.skipped = <<>>]
        ELSE fuse_one(after[n - 1], chain.skipped[n])
  IN  after[Len(chain.skipped)]

(* Broken: the spokes are gone through once. *)
fuse_periods_once(hub, spokes) ==
  fuse_pass([survivor |-> hub, pairs |-> <<>>, skipped |-> spokes])

(* Passes are repeated while one folds anything: at most one for each spoke. *)
fuse_periods_chain(hub, spokes) ==
  LET after[n \in 0 .. Len(spokes)] ==
        IF n = 0 THEN [survivor |-> hub, pairs |-> <<>>, skipped |-> spokes]
        ELSE fuse_pass(after[n - 1])
  IN  after[Len(spokes)]

(* range is <<start, end>>, or <<>> when neither is given. *)
resolve_amount_targets(storages, range) ==
  LET groups == fuse_amount_groups(storages)
      named  == {g \in groups : range = <<>> \/ <<g[1].start, g[1].end>> = range}
  IN  IF Cardinality(named) = 1 THEN CHOOSE g \in named : TRUE ELSE <<>>

plan_fuse_amount(storages, range) ==
  LET group == resolve_amount_targets(storages, range)
  IN  IF group = <<>> THEN Refused
      ELSE [pairs   |-> [i \in 1 .. Len(group) - 1 |-> <<group[1].id, group[i + 1].id>>],
            skipped |-> <<>>,
            survivor |-> FoldLeft(fuse_chain_state, group[1], Tail(group))]

(* The cluster to fuse, hub first: the one fuse_to (NoId: not given) is in. *)
resolve_periods_targets(storages, fuse_to) ==
  LET components == periods_components(storages)
      named == {c \in components : fuse_to = NoId \/ \E s \in ToSet(c) : s.id = fuse_to}
      component == CHOOSE c \in named : TRUE
      hub == IF fuse_to = NoId THEN component[1].id ELSE fuse_to
  IN  IF Cardinality(named) /= 1 THEN <<>>
      ELSE Only(component, {s \in ToSet(component) : s.id = hub})
             \o Only(component, {s \in ToSet(component) : s.id /= hub})

plan_fuse_periods(storages, fuse_to) ==
  LET targets == resolve_periods_targets(storages, fuse_to)
      chain   == fuse_periods_chain(targets[1], Tail(targets))
  IN  IF targets = <<>> \/ chain.pairs = <<>> THEN Refused ELSE chain

(* Explicit ids: each spoke is checked against the survivor so far.  The same id
   given twice is not noticed; the model gives distinct ones. *)
plan_fuse_explicit(to, from) ==
  LET survivor[n \in 0 .. Len(from)] ==
        IF n = 0 THEN to ELSE fuse_chain_state(survivor[n - 1], from[n])
  IN  IF \E n \in DOMAIN from : fuse_incompatibility(survivor[n - 1], from[n]) /= "none"
        THEN Refused
      ELSE [survivor |-> survivor[Len(from)],
            pairs    |-> [n \in DOMAIN from |-> <<to.id, from[n].id>>],
            skipped  |-> <<>>]
=============================================================================
