-------------------------- MODULE NativeRead_proofs --------------------------
(***************************************************************************)
(* The native read, for every committee, every assignment of shards to its *)
(* members, every blob ID and any number of lying nodes.                   *)
(*                                                                         *)
(* A read that returns has what was asked for because the metadata it      *)
(* decodes with is of that blob (MetaInv).  That one bad node is survived  *)
(* is an argument about counting and blame: nodes that keep the protocol   *)
(* are never indicted, each indictment bars a liar, and what the others    *)
(* serve, rotated into pairs, is as many distinct slivers as the shards    *)
(* they hold (ServedInv, BlameInv).  A sliver of another size can end the  *)
(* read before anybody is indicted; afterwards there is none of the one    *)
(* liar's left that could (FailureInv).                                    *)
(*                                                                         *)
(* What it takes from the geometry that readers and writers share is in    *)
(* Certification_proofs.                                                   *)
(***************************************************************************)
EXTENDS NativeRead, Certification_proofs

Shards  == 0 .. n_shards - 1
Pair(s) == shard_index_to_pair_index(s, blob_id, n_shards)
Genuine == {x \in Slivers : x.of = "asked"}
Up      == {n \in Nodes : conduct[n] = "honest"}
UpShards == UNION {shard_indices[n] : n \in Up}

-----------------------------------------------------------------------------
(* The rotation. *)

(* Rotating shards into pairs loses none. *)
LEMMA RotationIsInjective ==
  \A s, t \in Shards : Pair(s) \in Shards /\ (Pair(s) = Pair(t) => s = t)
<1> DEFINE rot == BigEndian(blob_id) % n_shards
<1>1. rot \in Shards
  BY CommitteeAssumption, BlobIdAssumption, BigEndianIsNatural DEF Shards
<1>2. \A s \in Shards : Pair(s) = (n_shards + s - rot) % n_shards
  BY DEF Pair, shard_index_to_pair_index, rotation_offset
<1> HIDE DEF rot
<1>3. \A s \in Shards : Pair(s) = IF s >= rot THEN s - rot ELSE n_shards + s - rot
  <2> TAKE s \in Shards
  <2>1. CASE s >= rot
    <3>1. s - rot \in 0 .. n_shards - 1 /\ n_shards + s - rot = (s - rot) + n_shards
      BY <1>1, <2>1, CommitteeAssumption DEF Shards
    <3>2. ((s - rot) + n_shards) % n_shards = s - rot
      BY <3>1, CommitteeAssumption, ModuloTwice
    <3>3. QED
      BY <1>2, <2>1, <3>1, <3>2
  <2>2. CASE ~ (s >= rot)
    <3>1. n_shards + s - rot \in 0 .. n_shards - 1
      BY <1>1, <2>2, CommitteeAssumption DEF Shards
    <3>2. (n_shards + s - rot) % n_shards = n_shards + s - rot
      BY <3>1, CommitteeAssumption, ModuloTwice
    <3>3. QED
      BY <1>2, <2>2, <3>2
  <2>3. QED
    BY <2>1, <2>2
<1>4. QED
  BY <1>1, <1>3, CommitteeAssumption DEF Shards

-----------------------------------------------------------------------------
(* The shards of nodes. *)

LEMMA ShardsOfNode == \A n \in Nodes : shard_indices[n] \in SUBSET Shards
BY CommitteeAssumption DEF Shards

LEMMA OwnIsGenuine == \A n \in Nodes : Own(n) \in SUBSET Genuine
<1> TAKE n \in Nodes
<1>1. ASSUME NEW s \in shard_indices[n]
      PROVE  [pair |-> Pair(s), of |-> "asked"] \in Genuine
  <2>1. Pair(s) \in Shards
    BY ShardsOfNode, RotationIsInjective
  <2>2. QED
    BY <2>1 DEF Genuine, Slivers, Shards, Blobs
<1>2. QED
  BY <1>1 DEF Own, Pair

LEMMA Thresholds == axis \in {"primary", "secondary"} => threshold \in Nat \ {0}
<1>1. /\ source_symbol_counts(n_shards)["primary"] \in Nat \ {0}
      /\ source_symbol_counts(n_shards)["secondary"] \in Nat \ {0}
  BY CommitteeAssumption DEF source_symbol_counts, min_n_correct, max_n_faulty
<1>2. QED
  BY <1>1 DEF threshold

-----------------------------------------------------------------------------
(* Everything that is counted is finite. *)

LEMMA Finite ==
  /\ IsFiniteSet(Shards)
  /\ IsFiniteSet(Nodes)
  /\ IsFiniteSet(Attributed)
<1>1. IsFiniteSet(Shards)
  <2>1. 0 \in Int /\ n_shards - 1 \in Int
    BY CommitteeAssumption
  <2>2. QED
    BY <2>1, FS_Interval DEF Shards
<1>2. IsFiniteSet(Nodes)
  <2> DEFINE D == 1 .. Len(Members)
             f == [i \in D |-> Members[i]]
  <2>1. DOMAIN Members = D /\ 1 \in Int /\ Len(Members) \in Int
    BY CommitteeAssumption
  <2>2. f \in [D -> Nodes] /\ \A n \in Nodes : \E i \in D : f[i] = n
    BY <2>1 DEF Nodes
  <2>3. f \in Surjection(D, Nodes)
    BY <2>2 DEF Surjection
  <2>4. IsFiniteSet(D)
    BY <2>1, FS_Interval
  <2>5. QED
    BY <2>3, <2>4, FS_Surjection
<1>3. IsFiniteSet(Slivers)
  <2> DEFINE D == Shards \X Blobs
             f == [x \in D |-> [pair |-> x[1], of |-> x[2]]]
  <2>1. IsFiniteSet(Blobs)
    <3>1. IsFiniteSet({"asked"}) /\ IsFiniteSet({"other"})
      BY FS_Singleton
    <3>2. Blobs = {"asked"} \cup {"other"}
      BY DEF Blobs
    <3>3. QED
      BY <3>1, <3>2, FS_Union
  <2>2. f \in [D -> Slivers]
    BY DEF Slivers, Shards
  <2>3. \A s \in Slivers : <<s.pair, s.of>> \in D /\ f[<<s.pair, s.of>>] = s
    BY DEF Slivers, Shards
  <2> HIDE DEF f
  <2>4. f \in Surjection(D, Slivers)
    BY <2>2, <2>3 DEF Surjection
  <2>5. IsFiniteSet(D)
    BY <1>1, <2>1, FS_Product
  <2>6. QED
    BY <2>4, <2>5, FS_Surjection
<1>4. IsFiniteSet(Attributed)
  <2> DEFINE S == Answers
             D == S \X Nodes
             f == [x \in D |-> [sliver |-> x[1], node |-> x[2]]]
  <2>1. IsFiniteSet(S)
    <3>1. IsFiniteSet(Slivers \cup {Junk})
      BY <1>3, FS_AddElement
    <3>2. IsFiniteSet((Slivers \cup {Junk}) \cup {Misfit})
      BY <3>1, FS_AddElement
    <3>3. S = (Slivers \cup {Junk}) \cup {Misfit}
      BY DEF Answers
    <3>4. QED
      BY <3>2, <3>3
  <2> HIDE DEF S
  <2>2. f \in [D -> [sliver : S, node : Nodes]]
    OBVIOUS
  <2>3. \A a \in [sliver : S, node : Nodes] :
          <<a.sliver, a.node>> \in D /\ f[<<a.sliver, a.node>>] = a
    OBVIOUS
  <2>4. Attributed = [sliver : S, node : Nodes]
    BY DEF Attributed, S
  <2>5. IsFiniteSet(D)
    BY <1>2, <2>1, FS_Product
  <2> HIDE DEF f, D
  <2>6. f \in Surjection(D, Attributed)
    BY <2>2, <2>3, <2>4 DEF Surjection
  <2>7. QED
    BY <2>5, <2>6, FS_Surjection
<1>5. QED
  BY <1>1, <1>2, <1>4

(* A finite set has subsets of every size up to its own. *)
LEMMA SubsetOfSize ==
  ASSUME NEW S, IsFiniteSet(S), NEW k \in Nat, k <= Cardinality(S)
  PROVE  \E T \in SUBSET S : Cardinality(T) = k
<1> DEFINE size == Cardinality(S)
<1>1. size \in Nat /\ ExistsBijection(1 .. size, S)
  BY FS_CardinalityType
<1>2. PICK f : f \in Bijection(1 .. size, S)
  BY <1>1 DEF ExistsBijection
<1>3. /\ f \in [1 .. size -> S]
      /\ \A i, j \in 1 .. size : f[i] = f[j] => i = j
  BY <1>2 DEF Bijection, Injection, IsInjective
<1> HIDE DEF size
<1>4. 1 .. k \subseteq 1 .. size
  BY <1>1 DEF size
<1> DEFINE T == {f[i] : i \in 1 .. k}
           g == [i \in 1 .. k |-> f[i]]
<1>5. T \in SUBSET S
  BY <1>3, <1>4
<1>6. /\ g \in [1 .. k -> T]
      /\ \A t \in T : \E i \in 1 .. k : g[i] = t
      /\ \A i, j \in 1 .. k : g[i] = g[j] => i = j
  BY <1>3, <1>4
<1> HIDE DEF g, T
<1>7. g \in Bijection(1 .. k, T)
  BY <1>6 DEF Bijection, Injection, IsInjective, Surjection
<1>8. ExistsBijection(1 .. k, T)
  BY <1>7 DEF ExistsBijection
<1>9. 1 \in Int /\ k \in Int
  OBVIOUS
<1>10. IsFiniteSet(1 .. k) /\ Cardinality(1 .. k) = IF 1 > k THEN 0 ELSE k - 1 + 1
  BY <1>9, FS_Interval
<1>11. Cardinality(T) = k
  BY <1>8, <1>10, FS_Bijection
<1>12. QED
  BY <1>5, <1>11

-----------------------------------------------------------------------------
(* What is collected. *)

(* No sliver is counted twice, whoever serves it again. *)
Distinct(C) == \A a, b \in C : a.sliver = b.sliver => a = b

LEMMA ContentsCount ==
  ASSUME NEW C \in SUBSET Attributed, Distinct(C)
  PROVE  /\ IsFiniteSet(C) /\ IsFiniteSet(Contents(C))
         /\ Cardinality(C) \in Nat /\ Cardinality(Contents(C)) = Cardinality(C)
<1> DEFINE f == [a \in C |-> a.sliver]
           S == Contents(C)
<1>1. IsFiniteSet(C)
  BY Finite, FS_Subset
<1>2. /\ f \in [C -> S] /\ \A x \in S : \E a \in C : f[a] = x
      /\ \A a, b \in C : f[a] = f[b] => a = b
  BY DEF Contents, Distinct
<1> HIDE DEF f, S
<1>3. f \in Bijection(C, S)
  BY <1>2 DEF Bijection, Injection, IsInjective, Surjection
<1>4. ExistsBijection(C, S)
  BY <1>3 DEF ExistsBijection
<1>5. IsFiniteSet(S) /\ Cardinality(S) = Cardinality(C)
  BY <1>1, <1>4, FS_Bijection
<1>6. QED
  BY <1>1, <1>5, FS_CardinalityType DEF S

LEMMA MoreIsMore ==
  ASSUME NEW D \in SUBSET Attributed, NEW C \in SUBSET D
  PROVE  Cardinality(C) <= Cardinality(D) /\ Cardinality(C) \in Nat /\ Cardinality(D) \in Nat
<1>1. IsFiniteSet(D) /\ IsFiniteSet(C)
  BY Finite, FS_Subset
<1>2. QED
  BY <1>1, FS_Subset, FS_CardinalityType

(* Once all nodes that are up have served, there are as many slivers as they
   hold shards. *)
LEMMA UpHolds ==
  ASSUME NEW C \in SUBSET Attributed, Distinct(C),
         \A n \in Up : Own(n) \subseteq Contents(C)
  PROVE  Cardinality(UpShards) <= Cardinality(C)
<1> DEFINE f == [s \in UpShards |-> [pair |-> Pair(s), of |-> "asked"]]
           S == Contents(C)
<1>1. UpShards \subseteq Shards
  BY ShardsOfNode DEF UpShards, Up
<1>2. \A s \in UpShards : f[s] \in S
  <2> TAKE s \in UpShards
  <2> PICK n \in Up : s \in shard_indices[n]
    BY DEF UpShards
  <2>1. f[s] \in Own(n)
    BY DEF Own, Pair
  <2>2. QED
    BY <2>1
<1>3. \A s, t \in UpShards : f[s] = f[t] => s = t
  <2> TAKE s, t \in UpShards
  <2>1. f[s].pair = Pair(s) /\ f[t].pair = Pair(t)
    OBVIOUS
  <2>2. s \in Shards /\ t \in Shards
    BY <1>1
  <2> HIDE DEF f
  <2>3. QED
    BY <2>1, <2>2, RotationIsInjective
<1>4. f \in [UpShards -> S]
  BY <1>2
<1> HIDE DEF f
<1>5. f \in Injection(UpShards, S)
  BY <1>3, <1>4 DEF Injection, IsInjective
<1>6. IsFiniteSet(S) /\ Cardinality(S) = Cardinality(C)
  BY ContentsCount
<1> HIDE DEF S
<1>7. Cardinality(UpShards) <= Cardinality(S)
  BY <1>5, <1>6, FS_Injection
<1>8. QED
  BY <1>6, <1>7

(* Enough slivers of the blob decode to it, whichever the decoder takes. *)
LEMMA GenuineDecodes ==
  ASSUME metadata = "asked", threshold \in Nat,
         NEW S \in SUBSET Genuine, IsFiniteSet(S), threshold <= Cardinality(S)
  PROVE  \A result \in decode_blob(S) : result = "asked"
<1> DEFINE needed == {T \in kSubset(threshold, S \ {Misfit}) :
                        \A s, t \in T : s.pair = t.pair => s = t}
           Decoded(T) == IF \A s \in T : verify_sliver(s) THEN metadata
                         ELSE IF verify THEN "decode" ELSE "garbled"
<1>1. Junk \notin S /\ Misfit \notin S /\ S \ {Misfit} = S
  BY DEF Junk, Misfit, Genuine, Slivers, Blobs
<1>2. \A s, t \in S : s.pair = t.pair => s = t
  BY DEF Genuine, Slivers
<1>3. PICK T \in SUBSET S : Cardinality(T) = threshold
  BY SubsetOfSize
<1>4. T \in needed
  BY <1>1, <1>2, <1>3 DEF kSubset
<1>5. \A U \in needed : Decoded(U) = "asked"
  BY <1>1 DEF kSubset, verify_sliver, Genuine
<1>6. decode_blob(S) = {Decoded(U) : U \in needed}
  BY <1>1, <1>4 DEF decode_blob
<1> HIDE DEF needed, Decoded
<1>7. QED
  BY <1>5, <1>6

(* What comes out of a decoder that was given metadata of the blob asked for; only
   a sliver of another size makes it refuse. *)
LEMMA DecodeResults ==
  ASSUME metadata = "asked", NEW S, NEW result \in decode_blob(S)
  PROVE  \/ result \in {"asked", "decode"} \/ (result = "garbled" /\ ~ verify)
         \/ result = "sliver_size_mismatch" /\ Misfit \in S
BY DEF decode_blob

LEMMA RepliesAre ==
  ASSUME NEW n \in Nodes, conduct[n] \in {"honest", "flaky", "faulty"},
         NEW R \in Replies(n)
  PROVE  /\ R \in SUBSET Answers
         /\ conduct[n] = "honest" => R = Own(n)
         /\ conduct[n] # "faulty" => R \in SUBSET Genuine
<1>1. Own(n) \in SUBSET Genuine /\ Genuine \subseteq Answers
  BY OwnIsGenuine DEF Genuine, Answers
<1>2. CASE conduct[n] \in {"honest", "flaky"}
  BY <1>1, <1>2 DEF Replies
<1>3. CASE conduct[n] = "faulty"
  BY <1>3 DEF Replies, kSubset
<1>4. QED
  BY <1>2, <1>3

-----------------------------------------------------------------------------
(* The inductive invariant. *)

(* The metadata in hand is of the blob asked for. *)
MetaInv ==
  /\ pc \in {"fetch", "decode", "refetch", "redecode"} => metadata = "asked"
  /\ pc # "over" => outcome = "reading"
  /\ outcome # "other" /\ (outcome = "garbled" => ~ verify)

(* Members that were asked for the metadata in vain are not up. *)
AskInv ==
  /\ pc = "committee" => tried = 0
  /\ pc = "metadata" =>
       \A k \in 0 .. tried - 1 :
         conduct[Members[((start + k - 1) % Len(Members)) + 1]] # "honest"
  /\ outcome = "fetch_metadata" => Up = {}

(* Slivers are put down to nodes that served them, and only liars are barred. *)
BlameInv ==
  /\ Distinct(collected) /\ Distinct(verified)
  /\ \A a \in collected : conduct[a.node] # "faulty" => a.sliver \in Genuine
  /\ \A a \in verified : a.sliver \in Genuine
  /\ \A n \in indicted : conduct[n] = "faulty"
  /\ pc \in {"committee", "metadata", "fetch", "decode"} => indicted = {}
  /\ pc \in {"refetch", "redecode"} => indicted # {}
  /\ pc = "refetch" => pending \cap indicted = {}
  /\ pc \in {"refetch", "redecode"} => \A a \in collected : a.node \notin indicted

(* A fan-out has the slivers of every node that is up, or goes on for them, or
   has met its threshold. *)
ServedInv ==
  /\ pc \in {"fetch", "refetch"} =>
       \/ threshold <= Cardinality(collected)
       \/ \A n \in Up : n \in pending \/ Own(n) \subseteq Contents(collected)
  /\ pc = "decode" => threshold <= Cardinality(collected)
  /\ pc = "redecode" => \/ threshold <= Cardinality(collected)
                        \/ threshold <= Cardinality(verified)

(* Why a read failed. *)
FailureInv ==
  /\ outcome = "fetch_slivers" => ~ (threshold <= Cardinality(UpShards))
  /\ outcome = "decode" => ~ (Cardinality(Faulty) <= 1)
  /\ outcome = "sliver_size_mismatch" =>
       \/ Misfit \in Contents(collected) /\ indicted = {}
       \/ ~ (Cardinality(Faulty) <= 1)

NInv ==
  /\ TypeOK
  /\ MetaInv
  /\ AskInv
  /\ BlameInv
  /\ ServedInv
  /\ FailureInv

LEMMA InitInv == Init => NInv
<1> SUFFICES ASSUME Init PROVE NInv
  OBVIOUS
<1>1. Members # <<>>
  <2>1. SUFFICES ASSUME Members = <<>> PROVE FALSE
    OBVIOUS
  <2>2. Nodes = {}
    BY <2>1 DEF Nodes
  <2>3. UNION {shard_indices[n] : n \in Nodes} = {} /\ 0 \in 0 .. n_shards - 1
    BY <2>2, CommitteeAssumption
  <2>4. QED
    BY <2>3, CommitteeAssumption
<1>2. TypeOK
  <2>1. 1 \in DOMAIN Members /\ Len(Members) \in Nat
    BY <1>1, CommitteeAssumption
  <2>2. QED
    BY <2>1 DEF Init, TypeOK
<1>3. MetaInv /\ AskInv /\ BlameInv /\ ServedInv /\ FailureInv
  BY DEF Init, MetaInv, AskInv, BlameInv, ServedInv, FailureInv, Distinct
<1>4. QED
  BY <1>2, <1>3 DEF NInv

(* The nodes' conduct and the caller's arguments do not change. *)
LEMMA Fixed ==
  ASSUME UNCHANGED input
  PROVE  /\ conduct' = conduct /\ axis' = axis /\ verify' = verify
         /\ Up' = Up /\ UpShards' = UpShards /\ Faulty' = Faulty
         /\ threshold' = threshold
BY DEF input, Up, UpShards, Faulty, threshold

-----------------------------------------------------------------------------
(* The committee and the metadata. *)

LEMMA CommitteeInv == NInv /\ Committee => NInv'
<1> SUFFICES ASSUME NInv, Committee PROVE NInv'
  OBVIOUS
<1>0. /\ pc = "committee" /\ pc' \in {"over", "metadata"}
      /\ pc' = "over" => outcome' = "committee"
      /\ pc' = "metadata" => outcome' = outcome
      /\ start' \in DOMAIN Members
      /\ UNCHANGED <<tried, metadata, pending, collected, verified, indicted, suspects>>
      /\ UNCHANGED input
  BY DEF Committee, End, fan, blame, NInv, TypeOK
<1> USE <1>0, Fixed
<1>1. TypeOK'
  BY DEF NInv, TypeOK
<1>2. MetaInv' /\ FailureInv' /\ ServedInv'
  BY DEF NInv, MetaInv, FailureInv, ServedInv
<1>3. AskInv'
  BY DEF NInv, MetaInv, AskInv
<1>4. BlameInv'
  BY DEF NInv, BlameInv, Distinct
<1> QED
  BY <1>1, <1>2, <1>3, <1>4 DEF NInv

(* A fresh fan-out waits on every node that is up and has a shard. *)
LEMMA FanoutStarts ==
  ASSUME NEW barred, StartFanout(barred), UNCHANGED input, barred \cap Up = {}
  PROVE  /\ collected' = {} /\ pending' \in SUBSET Nodes /\ pending' \cap barred = {}
         /\ \A n \in Up' : n \in pending' \/ Own(n)' \subseteq Contents(collected')
<1>1. collected' = {} /\ pending' = {n \in Nodes \ barred : shard_indices[n] # {}}
  BY DEF StartFanout
<1>2. ASSUME NEW n \in Up, n \notin pending' PROVE Own(n) = {}
  <2>1. shard_indices[n] = {}
    BY <1>1, <1>2 DEF Up
  <2>2. QED
    BY <2>1 DEF Own
<1>3. Up' = Up /\ \A n : Own(n)' = Own(n)
  BY Fixed DEF Own
<1>4. QED
  BY <1>1, <1>2, <1>3

LEMMA MetadataAnswerInv == NInv /\ MetadataAnswer => NInv'
<1> SUFFICES ASSUME NInv, MetadataAnswer PROVE NInv'
  OBVIOUS
<1>0. /\ pc = "metadata" /\ tried < Len(Members) /\ outcome' = outcome
      /\ UNCHANGED input /\ UNCHANGED <<verified, indicted, suspects>>
  BY DEF MetadataAnswer, blame
<1>t. TypeOK /\ outcome = "reading"
  BY <1>0 DEF NInv, MetaInv
<1>1. PICK m \in MetadataReplies(Asked) : IF m = "asked" THEN Accept(m) ELSE AskNext
  BY DEF MetadataAnswer
<1>2. CASE m = "asked"
  <2>1. /\ metadata' = "asked" /\ start' = 1 /\ tried' = 0 /\ pc' = "fetch"
        /\ StartFanout({})
    BY <1>1, <1>2 DEF Accept
  <2>2. /\ collected' = {} /\ pending' \in SUBSET Nodes
        /\ \A n \in Up' : n \in pending' \/ Own(n)' \subseteq Contents(collected')
    BY <1>0, <2>1, FanoutStarts
  <2>3. TypeOK'
    <3>1. 1 \in DOMAIN Members /\ 0 \in 0 .. Len(Members)
      BY <1>0, <1>t, CommitteeAssumption DEF TypeOK
    <3>2. QED
      BY <1>0, <1>t, <2>1, <2>2, <3>1 DEF TypeOK, Blobs, input
  <2>4. MetaInv' /\ AskInv' /\ FailureInv' /\ ServedInv'
    BY <1>0, <1>t, <2>1, <2>2 DEF MetaInv, AskInv, FailureInv, ServedInv
  <2>5. BlameInv'
    BY <1>0, <2>1, <2>2 DEF NInv, BlameInv, Distinct, input
  <2> QED
    BY <2>3, <2>4, <2>5 DEF NInv
<1>3. CASE m # "asked"
  <2>1. tried' = tried + 1 /\ UNCHANGED <<start, metadata, pc, pending, collected>>
    BY <1>1, <1>3 DEF AskNext, fan
  <2>2. conduct[Asked] # "honest"
    BY <1>1, <1>3, Zenon DEF MetadataReplies
  <2>3. AskInv'
    <3>1. \A k \in 0 .. tried - 1 :
            conduct[Members[((start + k - 1) % Len(Members)) + 1]] # "honest"
      BY <1>0 DEF NInv, AskInv
    <3>2. conduct[Members[((start + tried - 1) % Len(Members)) + 1]] # "honest"
      BY <2>2 DEF Asked
    <3>3. \A k \in 0 .. tried' - 1 : k \in 0 .. tried - 1 \/ k = tried
      BY <1>t, <2>1 DEF TypeOK
    <3>4. \A k \in 0 .. tried' - 1 :
            conduct[Members[((start + k - 1) % Len(Members)) + 1]] # "honest"
      BY <3>1, <3>2, <3>3
    <3>5. QED
      BY <1>0, <1>t, <2>1, <3>4, Fixed DEF AskInv
  <2>4. TypeOK'
    BY <1>0, <1>t, <2>1, CommitteeAssumption DEF TypeOK, input
  <2>5. MetaInv' /\ FailureInv' /\ ServedInv'
    BY <1>0, <1>t, <2>1 DEF MetaInv, FailureInv, ServedInv
  <2>6. BlameInv'
    BY <1>0, <2>1 DEF NInv, BlameInv, Distinct, input
  <2> QED
    BY <2>3, <2>4, <2>5, <2>6 DEF NInv
<1> QED
  BY <1>2, <1>3

(* The walk over the members, from wherever it starts, meets every one of them. *)
LEMMA MetadataExhaustedInv == NInv /\ MetadataExhausted => NInv'
<1> SUFFICES ASSUME NInv, MetadataExhausted PROVE NInv'
  OBVIOUS
<1>0. /\ pc = "metadata" /\ tried = Len(Members) /\ pc' = "over"
      /\ outcome' = "fetch_metadata" /\ UNCHANGED input
      /\ UNCHANGED <<start, tried, metadata, pending, collected, verified, indicted, suspects>>
  BY DEF MetadataExhausted, End, meta, fan, blame
<1>1. Up = {}
  <2>1. SUFFICES ASSUME NEW n \in Up PROVE FALSE
    OBVIOUS
  <2> DEFINE N == Len(Members)
  <2>2. N \in Nat /\ start \in 1 .. N /\ DOMAIN Members = 1 .. N
    BY CommitteeAssumption DEF NInv, TypeOK
  <2>3. PICK i \in 1 .. N : Members[i] = n
    BY <2>2 DEF Up, Nodes
  <2> DEFINE k == IF i >= start THEN i - start ELSE i - start + N
  <2>4. tried = N
    BY <1>0
  <2> HIDE DEF N
  <2>5. k \in 0 .. N - 1 /\ i - 1 \in 0 .. N - 1
    BY <2>2, <2>3
  <2>6. (start + k - 1) % N = i - 1
    <3>1. start + k - 1 = i - 1 \/ start + k - 1 = (i - 1) + N
      BY <2>2, <2>3
    <3>2. (i - 1) % N = i - 1 /\ ((i - 1) + N) % N = i - 1
      BY <2>2, <2>5, ModuloTwice
    <3> HIDE DEF k
    <3>3. QED
      BY <3>1, <3>2
  <2> HIDE DEF k
  <2>7. (i - 1) + 1 = i
    BY <2>2
  <2>8. conduct[Members[((start + k - 1) % N) + 1]] # "honest"
    BY <1>0, <2>4, <2>5 DEF NInv, AskInv, N
  <2>9. QED
    BY <2>1, <2>3, <2>6, <2>7, <2>8 DEF Up
<1>2. TypeOK'
  BY <1>0 DEF NInv, TypeOK, input
<1>3. MetaInv' /\ AskInv' /\ FailureInv' /\ ServedInv'
  BY <1>0, <1>1, Fixed DEF MetaInv, AskInv, FailureInv, ServedInv
<1>4. BlameInv'
  BY <1>0 DEF NInv, BlameInv, Distinct, input
<1> QED
  BY <1>2, <1>3, <1>4 DEF NInv

-----------------------------------------------------------------------------
(* The fan-outs. *)

LEMMA ServedStep ==
  ASSUME NInv, NEW n \in Nodes, Served(n)
  PROVE  NInv'
<1>1. PICK R \in Replies(n) :
        /\ collected' = Fold(n, R)
        /\ suspects' \in {suspects, suspects \cup {n}}
  BY DEF Served
<1>2. /\ pc \in {"fetch", "refetch"} /\ n \in pending /\ pending' = pending \ {n}
      /\ UNCHANGED input
      /\ UNCHANGED <<pc, start, tried, metadata, verified, indicted, outcome>>
  BY DEF Served, meta
<1>t. TypeOK
  BY DEF NInv
<1>3. /\ R \in SUBSET Answers
      /\ conduct[n] = "honest" => R = Own(n)
      /\ conduct[n] # "faulty" => R \in SUBSET Genuine
  BY <1>t, RepliesAre DEF TypeOK
<1> DEFINE new == [sliver : R \ Contents(collected), node : {n}]
<1>4. collected' = collected \cup new
  BY <1>1 DEF Fold
<1>5. \A a \in new : a.sliver \in R /\ a.sliver \notin Contents(collected) /\ a.node = n
  OBVIOUS
<1>6. \A x \in R : x \in Contents(collected) \/ [sliver |-> x, node |-> n] \in new
  OBVIOUS
<1>7. new \in SUBSET Attributed
  BY <1>3 DEF Attributed
<1>8. \A a, b \in new : a.sliver = b.sliver => a = b
  OBVIOUS
<1> HIDE DEF new
<1>9. Contents(collected') = Contents(collected) \cup R
  <2>1. \A x \in R : [sliver |-> x, node |-> n].sliver = x
    OBVIOUS
  <2>2. R \subseteq Contents(collected')
    BY <1>4, <1>6, <2>1 DEF Contents
  <2>3. QED
    BY <1>4, <1>5, <2>2 DEF Contents
<1>10. TypeOK'
  BY <1>1, <1>2, <1>4, <1>7, <1>t DEF TypeOK, input
<1>11. MetaInv' /\ AskInv' /\ FailureInv'
  BY <1>2, Fixed DEF NInv, MetaInv, AskInv, FailureInv
<1>12. BlameInv'
  <2>1. Distinct(collected')
    BY <1>4, <1>5, <1>8 DEF NInv, BlameInv, Distinct, Contents
  <2>2. \A a \in collected' : conduct[a.node] # "faulty" => a.sliver \in Genuine
    BY <1>3, <1>4, <1>5 DEF NInv, BlameInv
  <2>3. /\ pc = "refetch" => pending' \cap indicted = {}
        /\ pc \in {"refetch", "redecode"} => \A a \in collected' : a.node \notin indicted
    BY <1>2, <1>4, <1>5 DEF NInv, BlameInv
  <2>4. QED
    BY <1>2, <2>1, <2>2, <2>3, Fixed DEF NInv, BlameInv, Distinct, Genuine
<1>13. ServedInv'
  <2>1. Cardinality(collected) <= Cardinality(collected')
        /\ Cardinality(collected) \in Nat /\ Cardinality(collected') \in Nat
    BY <1>4, <1>10, MoreIsMore DEF TypeOK
  <2>2. threshold \in Nat
    BY <1>t, Thresholds DEF TypeOK
  <2>3. threshold <= Cardinality(collected) => threshold <= Cardinality(collected')
    BY <2>1, <2>2
  <2>4. (\A m \in Up : m \in pending \/ Own(m) \subseteq Contents(collected))
          => \A m \in Up : m \in pending' \/ Own(m) \subseteq Contents(collected')
    BY <1>2, <1>3, <1>9 DEF Up
  <2>5. \A m : Own(m)' = Own(m)
    BY DEF Own
  <2>6. QED
    BY <1>2, <2>3, <2>4, <2>5, Fixed DEF NInv, ServedInv
<1> QED
  BY <1>10, <1>11, <1>12, <1>13 DEF NInv

LEMMA GiveUpInv == NInv /\ GiveUp => NInv'
<1> SUFFICES ASSUME NInv, GiveUp PROVE NInv'
  OBVIOUS
<1>0. /\ pc \in {"fetch", "refetch"} /\ pending' = {}
      /\ UNCHANGED input
      /\ UNCHANGED <<pc, start, tried, metadata, collected, verified, indicted,
                     suspects, outcome>>
  BY DEF GiveUp, meta, blame
<1>1. threshold <= Cardinality(collected)
  <2>1. TypeOK
    BY DEF NInv
  <2>2. threshold \in Nat /\ Cardinality(collected) \in Nat
    BY <2>1, Thresholds, MoreIsMore DEF TypeOK
  <2>3. QED
    BY <2>2 DEF GiveUp
<1>2. TypeOK'
  BY <1>0 DEF NInv, TypeOK, input
<1>3. MetaInv' /\ AskInv' /\ FailureInv'
  BY <1>0, Fixed DEF NInv, MetaInv, AskInv, FailureInv
<1>4. ServedInv'
  BY <1>0, <1>1, Fixed DEF ServedInv
<1>5. BlameInv'
  BY <1>0, Fixed DEF NInv, BlameInv, Distinct
<1> QED
  BY <1>2, <1>3, <1>4, <1>5 DEF NInv

(* A fan-out that ends short has heard every node that is up. *)
LEMMA FanoutEndsInv == NInv /\ FanoutEnds => NInv'
<1> SUFFICES ASSUME NInv, FanoutEnds PROVE NInv'
  OBVIOUS
<1>t. TypeOK /\ BlameInv
  BY DEF NInv
<1>n. threshold \in Nat /\ Cardinality(collected) \in Nat
  BY <1>t, Thresholds, MoreIsMore DEF TypeOK
<1>0. /\ pc \in {"fetch", "refetch"} /\ pending = {} /\ UNCHANGED input
      /\ UNCHANGED <<start, tried, metadata, pending, collected, verified, indicted,
                     suspects>>
      /\ \/ /\ ~ (threshold <= Cardinality(collected))
            /\ pc' = "over" /\ outcome' = "fetch_slivers"
         \/ /\ threshold <= Cardinality(collected)
            /\ pc' = (IF pc = "fetch" THEN "decode" ELSE "redecode")
            /\ outcome' = outcome
  BY <1>n DEF FanoutEnds, End, meta, fan, blame
<1>1. TypeOK'
  BY <1>0, <1>t DEF TypeOK, input
<1>2. MetaInv' /\ AskInv'
  BY <1>0, Fixed DEF NInv, MetaInv, AskInv
<1>3. BlameInv'
  BY <1>0, <1>t, Fixed DEF BlameInv, Distinct
<1>4. ServedInv'
  BY <1>0, Fixed DEF ServedInv
<1>5. FailureInv'
  <2>1. ASSUME ~ (threshold <= Cardinality(collected))
        PROVE  ~ (threshold <= Cardinality(UpShards))
    <3>1. \A m \in Up : Own(m) \subseteq Contents(collected)
      BY <1>0, <2>1 DEF NInv, ServedInv
    <3>2. Cardinality(UpShards) <= Cardinality(collected)
      BY <1>t, <3>1, UpHolds DEF TypeOK, BlameInv
    <3>3. Cardinality(UpShards) \in Nat
      BY <1>t, ShardsOfNode, Finite, FS_Subset, FS_CardinalityType,
         UpShards \in SUBSET Shards DEF UpShards, Up
    <3>4. QED
      BY <1>n, <2>1, <3>2, <3>3
  <2>2. outcome = "reading"
    BY <1>0 DEF NInv, MetaInv
  <2>3. QED
    BY <1>0, <2>1, <2>2, Fixed DEF FailureInv
<1> QED
  BY <1>1, <1>2, <1>3, <1>4, <1>5 DEF NInv

-----------------------------------------------------------------------------
(* Decoding. *)

(* A step that ends the read with what the decoder returned, or with its error
   when there is more than one liar. *)
LEMMA DecodedInv ==
  ASSUME NInv, pc \in {"decode", "redecode"}, NEW result, End(result),
         UNCHANGED <<input, meta, fan, blame>>,
         \/ result = "asked" \/ (result = "garbled" /\ ~ verify)
         \/ result = "decode" /\ ~ (Cardinality(Faulty) <= 1)
         \/ result = "sliver_size_mismatch" /\
              \/ Misfit \in Contents(collected) /\ indicted = {}
              \/ ~ (Cardinality(Faulty) <= 1)
  PROVE  NInv'
<1>0. /\ pc' = "over" /\ outcome' = result /\ UNCHANGED input
      /\ UNCHANGED <<start, tried, metadata, pending, collected, verified, indicted,
                     suspects>>
  BY DEF End, meta, fan, blame
<1>1. TypeOK'
  BY <1>0 DEF NInv, TypeOK, input, Blobs
<1>2. MetaInv' /\ AskInv' /\ FailureInv' /\ ServedInv'
  BY <1>0, Fixed DEF MetaInv, AskInv, FailureInv, ServedInv
<1>3. BlameInv'
  BY <1>0, Fixed DEF NInv, BlameInv, Distinct
<1> QED
  BY <1>1, <1>2, <1>3 DEF NInv

(* What verifies against metadata of the blob asked for is of that blob. *)
LEMMA VerifiedIsGenuine ==
  ASSUME metadata = "asked", NEW a \in Attributed
  PROVE  verify_sliver(a.sliver) <=> a.sliver \in Genuine
BY DEF verify_sliver, Genuine, Attributed, Answers, Junk, Misfit, Slivers

(* When the slivers do not decode, somebody is to blame, and only liars are. *)
LEMMA RecoverInv ==
  ASSUME NInv, pc = "decode", "decode" \in decode_blob(Contents(collected)), Recover,
         UNCHANGED <<input, meta>>
  PROVE  NInv'
<1>t. TypeOK /\ MetaInv /\ BlameInv /\ metadata = "asked" /\ outcome = "reading"
  BY DEF NInv, MetaInv
<1> DEFINE good == {a \in collected : verify_sliver(a.sliver)}
           bad  == {a.node : a \in collected \ good}
<1>1. \A a \in collected : a \in good <=> a.sliver \in Genuine
  BY <1>t, VerifiedIsGenuine DEF TypeOK
<1>2. bad # {}
  <2>1. SUFFICES ASSUME bad = {} PROVE FALSE
    OBVIOUS
  <2>2. \A a \in collected : a.sliver \in Genuine
    BY <1>1, <2>1
  <2>3. Contents(collected) \in SUBSET Genuine
    BY <2>2 DEF Contents
  <2>4. /\ IsFiniteSet(Contents(collected))
        /\ Cardinality(Contents(collected)) = Cardinality(collected)
    BY <1>t, ContentsCount DEF TypeOK, BlameInv
  <2>5. threshold \in Nat /\ threshold <= Cardinality(collected)
    BY <1>t, Thresholds DEF NInv, ServedInv, TypeOK
  <2>6. \A result \in decode_blob(Contents(collected)) : result = "asked"
    BY <1>t, <2>3, <2>4, <2>5, GenuineDecodes
  <2>7. QED
    BY <2>6
<1>3. \A n \in bad : conduct[n] = "faulty" /\ n \in Nodes
  BY <1>1, <1>t DEF BlameInv, TypeOK, Attributed
<1>4. good \in SUBSET collected /\ \A a \in good : a.sliver \in Genuine
  BY <1>1
<1>5. /\ verified' = good /\ indicted' = bad /\ suspects' = suspects /\ outcome' = outcome
      /\ \/ /\ Cardinality(good) >= threshold
            /\ pc' = "redecode" /\ collected' = {} /\ pending' = pending
         \/ pc' = "refetch" /\ StartFanout(bad)
  BY <1>2 DEF Recover, partition_by_verification
<1>6. UNCHANGED input /\ UNCHANGED <<start, tried, metadata>>
  BY DEF meta
<1> HIDE DEF good, bad
<1>7. bad \cap Up = {}
  BY <1>3 DEF Up
<1>8. /\ collected' = {} /\ pending' \in SUBSET Nodes
      /\ pc' = "refetch" =>
           /\ pending' \cap bad = {}
           /\ \A n \in Up' : n \in pending' \/ Own(n)' \subseteq Contents(collected')
  BY <1>5, <1>6, <1>7, <1>t, FanoutStarts DEF TypeOK
<1>9. TypeOK'
  BY <1>3, <1>4, <1>5, <1>6, <1>8, <1>t DEF TypeOK, input
<1>10. MetaInv' /\ AskInv' /\ FailureInv'
  BY <1>5, <1>6, <1>t DEF MetaInv, AskInv, FailureInv
<1>11. BlameInv'
  <2>1. Distinct(good) /\ Distinct({})
    BY <1>4, <1>t DEF BlameInv, Distinct
  <2>2. QED
    BY <1>2, <1>3, <1>4, <1>5, <1>6, <1>8, <2>1, Fixed DEF BlameInv, Distinct, Genuine
<1>12. ServedInv'
  <2>1. Cardinality(good) >= threshold => threshold <= Cardinality(good)
    BY <1>4, <1>t, Thresholds, MoreIsMore DEF TypeOK
  <2>2. QED
    BY <1>5, <1>6, <1>8, <2>1, Fixed DEF ServedInv
<1> QED
  BY <1>9, <1>10, <1>11, <1>12 DEF NInv

LEMMA DecodeInv == NInv /\ Decode => NInv'
<1> SUFFICES ASSUME NInv, Decode PROVE NInv'
  OBVIOUS
<1>1. PICK result \in decode_blob(Contents(collected)) :
        IF result = "decode" THEN Recover ELSE End(result) /\ UNCHANGED <<fan, blame>>
  BY DEF Decode
<1>2. pc = "decode" /\ UNCHANGED <<input, meta>> /\ metadata = "asked"
  BY DEF Decode, NInv, MetaInv
<1>3. CASE result = "decode"
  BY <1>1, <1>2, <1>3, RecoverInv
<1>4. CASE result # "decode"
  <2>1. \/ result = "asked" \/ (result = "garbled" /\ ~ verify)
        \/ result = "sliver_size_mismatch" /\ Misfit \in Contents(collected)
    BY <1>1, <1>2, <1>4, DecodeResults
  <2>2. indicted = {}
    BY <1>2 DEF NInv, BlameInv
  <2>3. QED
    BY <1>1, <1>2, <1>4, <2>1, <2>2, DecodedInv
<1> QED
  BY <1>3, <1>4

(* A second liar is needed to fail the last attempt, in either way: the first one is
   barred, and what everybody else serves is of the blob. *)
LEMMA LastAttempt ==
  ASSUME NInv, pc = "redecode", NEW result \in {"decode", "sliver_size_mismatch"},
         result \in decode_blob(Contents(verified \cup collected))
  PROVE  ~ (Cardinality(Faulty) <= 1)
<1> SUFFICES ASSUME Cardinality(Faulty) <= 1 PROVE FALSE
  OBVIOUS
<1>t. TypeOK /\ BlameInv /\ metadata = "asked" /\ threshold \in Nat
  BY Thresholds DEF NInv, MetaInv, TypeOK
<1>1. PICK f \in Nodes : f \in indicted /\ conduct[f] = "faulty"
  BY <1>t DEF BlameInv, TypeOK
<1>2. ASSUME NEW n \in Nodes, n # f PROVE conduct[n] # "faulty"
  <2>1. SUFFICES ASSUME conduct[n] = "faulty" PROVE FALSE
    OBVIOUS
  <2>2. IsFiniteSet(Faulty) /\ f \in Faulty /\ n \in Faulty \ {f}
    BY <1>1, <1>2, <2>1, Finite, FS_Subset, Faulty \in SUBSET Nodes DEF Faulty
  <2>3. /\ IsFiniteSet(Faulty \ {f}) /\ Cardinality(Faulty \ {f}) = Cardinality(Faulty) - 1
        /\ Cardinality(Faulty) \in Nat /\ Cardinality(Faulty \ {f}) \in Nat
    BY <2>2, FS_RemoveElement, FS_CardinalityType
  <2>4. Cardinality(Faulty \ {f}) # 0
    BY <2>2, <2>3, FS_EmptySet
  <2>5. QED
    BY <2>3, <2>4
<1>3. \A a \in verified \cup collected : a.sliver \in Genuine
  <2>1. \A a \in collected : a.node \in Nodes /\ a.node # f
    BY <1>t, <1>1 DEF BlameInv, TypeOK, Attributed
  <2>2. QED
    BY <1>t, <1>2, <2>1 DEF BlameInv
<1> DEFINE S == Contents(verified \cup collected)
<1>4. S \in SUBSET Genuine
  BY <1>3 DEF Contents
<1>5. /\ Contents(verified) \subseteq S /\ Contents(collected) \subseteq S
      /\ S = Contents(verified) \cup Contents(collected)
  BY DEF Contents
<1>6. /\ IsFiniteSet(Contents(verified)) /\ Cardinality(Contents(verified)) = Cardinality(verified)
      /\ IsFiniteSet(Contents(collected)) /\ Cardinality(Contents(collected)) = Cardinality(collected)
  BY <1>t, ContentsCount DEF TypeOK, BlameInv
<1> HIDE DEF S
<1>7. IsFiniteSet(S) /\ Cardinality(S) \in Nat
  BY <1>5, <1>6, FS_Union, FS_CardinalityType
<1>8. Cardinality(verified) <= Cardinality(S) /\ Cardinality(collected) <= Cardinality(S)
  BY <1>5, <1>6, <1>7, FS_Subset
<1>9. threshold <= Cardinality(S)
  <2>1. Cardinality(verified) \in Nat /\ Cardinality(collected) \in Nat
    BY <1>t, MoreIsMore DEF TypeOK
  <2>2. threshold <= Cardinality(collected) \/ threshold <= Cardinality(verified)
    BY DEF NInv, ServedInv
  <2>3. QED
    BY <1>t, <1>7, <1>8, <2>1, <2>2
<1>10. \A r \in decode_blob(S) : r = "asked"
  BY <1>t, <1>4, <1>7, <1>9, GenuineDecodes
<1>11. result \in decode_blob(S)
  BY DEF S
<1> QED
  BY <1>10, <1>11

LEMMA RedecodeInv == NInv /\ Redecode => NInv'
<1> SUFFICES ASSUME NInv, Redecode PROVE NInv'
  OBVIOUS
<1>1. PICK result \in decode_blob(Contents(verified \cup collected)) : End(result)
  BY DEF Redecode
<1>2. pc = "redecode" /\ UNCHANGED <<input, meta, fan, blame>> /\ metadata = "asked"
  BY DEF Redecode, NInv, MetaInv
<1>3. CASE result \in {"decode", "sliver_size_mismatch"}
  <2>1. ~ (Cardinality(Faulty) <= 1)
    BY <1>2, <1>3, LastAttempt
  <2>2. QED
    BY <1>1, <1>2, <1>3, <2>1, DecodedInv
<1>4. CASE result \notin {"decode", "sliver_size_mismatch"}
  <2>1. result = "asked" \/ (result = "garbled" /\ ~ verify)
    BY <1>2, <1>4, DecodeResults
  <2>2. QED
    BY <1>1, <1>2, <2>1, DecodedInv
<1> QED
  BY <1>3, <1>4

LEMMA NextInv == NInv /\ [Next]_vars => NInv'
<1> SUFFICES ASSUME NInv, [Next]_vars PROVE NInv'
  OBVIOUS
<1>1. CASE UNCHANGED vars
  <2>1. /\ UNCHANGED input
        /\ UNCHANGED <<pc, start, tried, metadata, pending, collected, verified, indicted,
                       suspects, outcome>>
    BY <1>1 DEF vars, meta, fan, blame
  <2>2. TypeOK'
    BY <2>1 DEF NInv, TypeOK, input
  <2>3. MetaInv' /\ AskInv' /\ FailureInv'
    BY <2>1, Fixed DEF NInv, MetaInv, AskInv, FailureInv
  <2>4. BlameInv'
    BY <2>1, Fixed DEF NInv, BlameInv, Distinct
  <2>5. ServedInv'
    <3>1. \A n : Own(n)' = Own(n)
      BY DEF Own
    <3>2. QED
      BY <2>1, <3>1, Fixed DEF NInv, ServedInv
  <2> QED
    BY <2>2, <2>3, <2>4, <2>5 DEF NInv
<1> QED
  BY <1>1, CommitteeInv, MetadataAnswerInv, MetadataExhaustedInv, ServedStep, GiveUpInv,
     FanoutEndsInv, DecodeInv, RedecodeInv DEF Next

LEMMA Inductive == Spec => []NInv
BY InitInv, NextInv, PTL DEF Spec

-----------------------------------------------------------------------------
(* The theorems. *)

(* The variables always hold values of their types. *)
THEOREM ReadTypeCorrect == Spec => []TypeOK
<1>1. NInv => TypeOK
  BY DEF NInv
<1> QED
  BY Inductive, <1>1, PTL

(* Any number of nodes may lie: a read that returns has the blob asked for, and
   never a mixture when it verifies what it decoded. *)
THEOREM ReadsWhatWasAsked == Spec => []ReadIsOfBlobAsked
<1>1. NInv => ReadIsOfBlobAsked
  BY DEF NInv, MetaInv, ReadIsOfBlobAsked
<1> QED
  BY Inductive, <1>1, PTL

(* One liar does not make the blob unreadable, in a committee of any size with
   any distribution of the shards, as long as the nodes that are up hold what
   the axis needs, unless the decoder refuses a sliver of another size that it
   served in the first fan-out; in the second it cannot. *)
THEOREM OneLiarIsSurvived == Spec => []OneBadNodeIsSurvived
<1>1. NInv => OneBadNodeIsSurvived
  <2> SUFFICES ASSUME NInv, Cardinality(Faulty) <= 1,
                      Cardinality(UNION {shard_indices[n] : n \in Up}) >= threshold
               PROVE  /\ outcome \notin {"fetch_metadata", "fetch_slivers", "decode"}
                      /\ outcome = "sliver_size_mismatch" =>
                           Misfit \in Contents(collected) /\ indicted = {}
    BY DEF OneBadNodeIsSurvived, OneBadNode, Up
  <2>t. TypeOK /\ threshold \in Nat \ {0}
    BY Thresholds DEF NInv, TypeOK
  <2>1. Cardinality(UpShards) \in Nat /\ threshold <= Cardinality(UpShards)
    <3>1. Cardinality(UpShards) \in Nat
      BY ShardsOfNode, Finite, FS_Subset, FS_CardinalityType,
         UpShards \in SUBSET Shards DEF UpShards, Up
    <3>2. Cardinality(UpShards) >= threshold
      BY DEF UpShards
    <3>3. QED
      BY <2>t, <3>1, <3>2
  <2>2. outcome # "fetch_metadata"
    <3>1. SUFFICES ASSUME Up = {} PROVE FALSE
      BY DEF NInv, AskInv
    <3>2. UpShards = {}
      BY <3>1 DEF UpShards
    <3>3. Cardinality(UpShards) = 0
      BY <3>2, FS_EmptySet
    <3>4. QED
      BY <2>t, <2>1, <3>3
  <2>3. QED
    BY <2>1, <2>2 DEF NInv, FailureInv
<1> QED
  BY Inductive, <1>1, PTL
=============================================================================
