------------------------- MODULE SliverUpload_proofs -------------------------
(***************************************************************************)
(* The fan-out of slivers at its two levels, for every set of nodes,       *)
(* assignment of shards, shard count, sliver sizes, byte budget and number *)
(* of retries.                                                             *)
(*                                                                         *)
(* The PUTs and their gates (SliverPuts): what is free and what is held    *)
(* always add up (GatesBalance), and no PUT that holds its permits ever    *)
(* waits for bytes (BytesNeverBlock).  Nothing is assumed of the sizes of  *)
(* these sets: that the holders of a gate are finitely many is a part of   *)
(* the invariant.                                                          *)
(*                                                                         *)
(* The nodes (SliverUpload): each step of the upload is a step of the      *)
(* committee fan-out or leaves its variables alone, so the upload          *)
(* implements the fan-out (all but its fairness) and inherits what         *)
(* CommitteeFanout_proofs proves of it.  With that, NodeInv relates each   *)
(* node's coroutine to its task and to its PUTs.                           *)
(***************************************************************************)
EXTENDS SliverUpload, SliverPuts, Certification_proofs

-----------------------------------------------------------------------------
(* The PUTs: the invariant. *)

HoldsGlobal == {"node", "bytes", "sent"}
HoldsNode   == {"bytes", "sent"}

(* Until a node's metadata is stored none of its sliver PUTs exists. *)
MetadataFirst ==
  \A n \in PutNodes :
    phase[MetadataPut(n)] # "stored"
      => \A q \in SliverPutsOf(node_shards, n) : phase[q] = "absent"

(* Metadata goes out without touching the throttle. *)
MetadataHasNoBytes == \A p \in Puts : phase[p] = "bytes" => p.kind # "metadata"

(* A cancellation is on its way only to a PUT that is suspended at an await. *)
CancelsLive == \A p \in cancelling : phase[p] \in Live

(* A PUT sleeps only before an attempt it still has. *)
RetriesLeft == \A p \in Puts : phase[p] = "backoff" => attempt[p] < max_retries

FiniteHolders == IsFiniteSet(In(HoldsGlobal))

PutsInv ==
  /\ arguments \in Arguments
  /\ PutsTypeOK
  /\ MetadataFirst
  /\ MetadataHasNoBytes
  /\ CancelsLive
  /\ RetriesLeft
  /\ FiniteHolders
  /\ GatesBalance

-----------------------------------------------------------------------------
(* Counting bytes. *)

(* The bytes of a set of PUTs, each with its own. *)
Bytes(S) == UNION {{p} \X (1 .. size(p)) : p \in S}

LEMMA SizeType ==
  ASSUME NEW p
  PROVE  size(p) \in Nat /\ sliver_size \in Nat /\ size(p) <= sliver_size
BY PutsAssumption DEF size, sliver_size, Greatest

LEMMA OwnBytes ==
  ASSUME NEW p
  PROVE  /\ IsFiniteSet({p} \X (1 .. size(p)))
         /\ Cardinality({p} \X (1 .. size(p))) = size(p)
<1>1. IsFiniteSet({p}) /\ Cardinality({p}) = 1
  BY FS_Singleton
<1>2. size(p) \in Nat
  BY SizeType
<1>3. IsFiniteSet(1 .. size(p)) /\ Cardinality(1 .. size(p)) = size(p)
  <2>1. 1 \in Int /\ size(p) \in Int
    BY <1>2
  <2>2. /\ IsFiniteSet(1 .. size(p))
        /\ Cardinality(1 .. size(p)) = IF 1 > size(p) THEN 0 ELSE size(p) - 1 + 1
    BY <2>1, FS_Interval
  <2>3. QED
    BY <2>2, <1>2
<1>4. /\ IsFiniteSet({p} \X (1 .. size(p)))
      /\ Cardinality({p} \X (1 .. size(p))) = Cardinality({p}) * Cardinality(1 .. size(p))
  BY <1>1, <1>3, FS_Product
<1>5. QED
  BY <1>1, <1>2, <1>3, <1>4

(* However many PUTs are sent, their bytes are at most a whole sliver each. *)
LEMMA BytesBound ==
  ASSUME NEW S, IsFiniteSet(S)
  PROVE  /\ IsFiniteSet(Bytes(S))
         /\ Cardinality(Bytes(S)) \in Nat
         /\ Cardinality(Bytes(S)) <= Cardinality(S) * sliver_size
<1>1. sliver_size \in Nat
  BY SizeType
<1>2. IsFiniteSet(1 .. sliver_size) /\ Cardinality(1 .. sliver_size) = sliver_size
  <2>1. 1 \in Int /\ sliver_size \in Int
    BY <1>1
  <2>2. /\ IsFiniteSet(1 .. sliver_size)
        /\ Cardinality(1 .. sliver_size)
             = IF 1 > sliver_size THEN 0 ELSE sliver_size - 1 + 1
    BY <2>1, FS_Interval
  <2>3. QED
    BY <2>2, <1>1
<1>3. /\ IsFiniteSet(S \X (1 .. sliver_size))
      /\ Cardinality(S \X (1 .. sliver_size)) = Cardinality(S) * sliver_size
  BY <1>2, FS_Product
<1>4. Bytes(S) \in SUBSET (S \X (1 .. sliver_size))
  <2>1. ASSUME NEW p \in S, NEW x \in {p} \X (1 .. size(p))
        PROVE  x \in S \X (1 .. sliver_size)
    <3>1. size(p) \in Nat /\ size(p) <= sliver_size
      BY SizeType
    <3>2. 1 .. size(p) \subseteq 1 .. sliver_size
      BY <3>1, <1>1
    <3>3. QED
      BY <2>1, <3>2
  <2>2. QED
    BY <2>1 DEF Bytes
<1>5. QED
  BY <1>3, <1>4, FS_Subset, FS_CardinalityType

LEMMA BytesAdd ==
  ASSUME NEW S, IsFiniteSet(S), NEW p, p \notin S
  PROVE  Cardinality(Bytes(S \cup {p})) = Cardinality(Bytes(S)) + size(p)
<1> DEFINE own == {p} \X (1 .. size(p))
<1>1. Bytes(S \cup {p}) = Bytes(S) \cup own
  BY DEF Bytes
<1>2. Bytes(S) \cap own = {}
  BY DEF Bytes
<1>3. IsFiniteSet(Bytes(S)) /\ Cardinality(Bytes(S)) \in Nat
  BY BytesBound
<1>4. IsFiniteSet(own) /\ Cardinality(own) = size(p) /\ size(p) \in Nat
  BY OwnBytes, SizeType
<1>5. Cardinality(Bytes(S) \cup own)
        = Cardinality(Bytes(S)) + Cardinality(own) - Cardinality(Bytes(S) \cap own)
  BY <1>3, <1>4, FS_Union
<1>6. Cardinality(Bytes(S) \cap own) = 0
  BY <1>2, FS_EmptySet
<1> HIDE DEF own
<1>7. Cardinality(Bytes(S \cup {p})) = Cardinality(Bytes(S) \cup own)
  BY <1>1, Zenon
<1>8. QED
  BY <1>3, <1>4, <1>5, <1>6, <1>7

LEMMA BytesRemove ==
  ASSUME NEW S, IsFiniteSet(S), NEW p \in S
  PROVE  Cardinality(Bytes(S \ {p})) = Cardinality(Bytes(S)) - size(p)
<1>1. IsFiniteSet(S \ {p}) /\ p \notin S \ {p} /\ S = (S \ {p}) \cup {p}
  BY FS_RemoveElement
<1>2. Cardinality(Bytes((S \ {p}) \cup {p})) = Cardinality(Bytes(S \ {p})) + size(p)
  BY <1>1, BytesAdd
<1>3. Cardinality(Bytes(S \ {p})) \in Nat /\ size(p) \in Nat
  BY <1>1, BytesBound, SizeType
<1>4. Bytes((S \ {p}) \cup {p}) = Bytes(S)
  BY <1>1
<1>5. QED
  BY <1>2, <1>3, <1>4

-----------------------------------------------------------------------------
(* What the steps do to the sets of PUTs at a gate. *)

LEMMA PutShape ==
  ASSUME NEW p \in Puts
  PROVE  /\ p.node \in PutNodes
         /\ p = MetadataPut(p.node) \/ p \in SliverPutsOf(node_shards, p.node)
         /\ p.kind = "metadata" <=> p = MetadataPut(p.node)
         /\ p.kind # "metadata" <=> p \in SliverPutsOf(node_shards, p.node)
         /\ p.kind = "metadata" => size(p) = 0
BY DEF Puts, AllPuts, MetadataPut, SliverPutsOf, PutNodes, node_shards, size

LEMMA NodePuts ==
  ASSUME NEW n \in PutNodes
  PROVE  /\ MetadataPut(n) \in Puts /\ MetadataPut(n).node = n
         /\ MetadataPut(n).kind = "metadata"
         /\ \A q \in SliverPutsOf(node_shards, n) :
              q \in Puts /\ q.node = n /\ q.kind # "metadata"
BY DEF Puts, AllPuts, MetadataPut, SliverPutsOf, PutNodes, node_shards

(* A step that moves one PUT to phase x takes it in or out of In(S). *)
LEMMA PhaseMoves ==
  ASSUME PutsTypeOK, arguments' = arguments, NEW p \in Puts, NEW x,
         phase' = [phase EXCEPT ![p] = x]
  PROVE  /\ Puts' = Puts
         /\ \A q \in Puts : phase'[q] = IF q = p THEN x ELSE phase[q]
         /\ \A S : In(S)' = IF x \in S THEN In(S) \cup {p} ELSE In(S) \ {p}
<1>1. Puts' = Puts
  BY DEF Puts, node_shards
<1>2. \A q \in Puts : phase'[q] = IF q = p THEN x ELSE phase[q]
  BY DEF PutsTypeOK
<1>3. ASSUME NEW S
      PROVE  In(S)' = IF x \in S THEN In(S) \cup {p} ELSE In(S) \ {p}
  <2>1. In(S)' = {q \in Puts : phase'[q] \in S}
    BY <1>1 DEF In
  <2>2. QED
    BY <1>2, <2>1 DEF In
<1>4. QED
  BY <1>1, <1>2, <1>3

-----------------------------------------------------------------------------
(* The gates. *)

NodeHolders(n) == {p \in In(HoldsNode) : p.node = n}
Started        == {p \in In({"sent"}) : p.kind # "metadata"}

(* The holders of the node's semaphore and the PUTs on the wire are among those
   of the global one, so they are finitely many too. *)
LEMMA HoldersFinite ==
  ASSUME FiniteHolders
  PROVE  /\ IsFiniteSet(In(HoldsGlobal)) /\ Cardinality(In(HoldsGlobal)) \in Nat
         /\ IsFiniteSet(In({"sent"})) /\ Cardinality(In({"sent"})) \in Nat
         /\ IsFiniteSet(Started) /\ Cardinality(Started) \in Nat
         /\ \A n : IsFiniteSet(NodeHolders(n)) /\ Cardinality(NodeHolders(n)) \in Nat
         /\ Cardinality(Bytes(In({"sent"}))) \in Nat
<1>1. /\ In({"sent"}) \in SUBSET In(HoldsGlobal) /\ Started \in SUBSET In(HoldsGlobal)
      /\ \A n : NodeHolders(n) \in SUBSET In(HoldsGlobal)
  BY DEF In, Started, NodeHolders, HoldsNode, HoldsGlobal
<1>2. \A T \in SUBSET In(HoldsGlobal) : IsFiniteSet(T) /\ Cardinality(T) \in Nat
  BY FS_Subset, FS_CardinalityType DEF FiniteHolders
<1>3. QED
  BY <1>1, <1>2, BytesBound DEF FiniteHolders

(* GatesBalance, with a name for each of the sets it counts. *)
LEMMA BalanceParts ==
  GatesBalance <=>
    /\ global_free + Cardinality(In(HoldsGlobal)) = effective_write_permits
    /\ \A n \in PutNodes :
         node_free[n] + Cardinality(NodeHolders(n)) = max_node_connections
    /\ in_flight = Cardinality(Bytes(In({"sent"})))
    /\ progress.puts_in_flight = Cardinality(Started)
BY DEF GatesBalance, NodeHolders, Started, Bytes, HoldsGlobal, HoldsNode

LEMMA PermitsType ==
  ASSUME arguments \in Arguments
  PROVE  effective_write_permits \in Nat /\ max_node_connections \in Nat
<1>1. max_bytes_in_flight \in Nat
  BY PutsAssumption DEF max_bytes_in_flight
<1>2. Greatest(sliver_size, 1) \in Nat \ {0}
  BY SizeType DEF Greatest
<1>3. max_bytes_in_flight \div Greatest(sliver_size, 1) \in Int
  BY <1>1, <1>2
<1>4. effective_write_permits \in Nat
  BY <1>3, PutsAssumption DEF effective_write_permits, Greatest, Least
<1>5. QED
  BY <1>4, PutsAssumption

(* Leaving the async with block with an answer, an exception or a cancellation
   gives back exactly what the PUT held. *)
LEMMA GiveBackBalance ==
  ASSUME PutsInv, arguments' = arguments,
         NEW p \in Puts, NEW succeeded \in BOOLEAN,
         GiveBack(p), put_finished(p, succeeded),
         \A S : S \subseteq HoldsGlobal => In(S)' = In(S) \ {p}
  PROVE  /\ FiniteHolders' /\ GatesBalance'
         /\ global_free' \in 0 .. effective_write_permits
         /\ node_free' \in [PutNodes -> 0 .. max_node_connections]
         /\ in_flight' \in Nat
         /\ progress' \in [puts_in_flight : Nat, puts_completed : Nat, puts_failed : Nat]
<1> USE DEF PutsInv
<1>0. /\ PutNodes' = PutNodes
      /\ effective_write_permits' = effective_write_permits
  BY DEF PutNodes, effective_write_permits, max_bytes_in_flight
<1>1. /\ In(HoldsGlobal)' = In(HoldsGlobal) \ {p}
      /\ In(HoldsNode)' = In(HoldsNode) \ {p}
      /\ In({"sent"})' = In({"sent"}) \ {p}
  BY DEF HoldsGlobal, HoldsNode
<1>2. /\ \A n : NodeHolders(n)' = NodeHolders(n) \ {p}
      /\ Started' = Started \ {p}
      /\ Bytes(In({"sent"}))' = Bytes(In({"sent"}) \ {p})
  BY <1>1 DEF NodeHolders, Started, Bytes
<1>3. /\ p \in In(HoldsGlobal) <=> phase[p] \in HoldsGlobal
      /\ \A n : p \in NodeHolders(n) <=> phase[p] \in HoldsNode /\ p.node = n
      /\ p \in In({"sent"}) <=> phase[p] = "sent"
      /\ p \in Started <=> phase[p] = "sent" /\ p.kind # "metadata"
  BY DEF In, NodeHolders, Started
<1>4. FiniteHolders'
  BY <1>1, FS_RemoveElement DEF FiniteHolders
<1>5. /\ Cardinality(In(HoldsGlobal)')
           = IF phase[p] \in HoldsGlobal THEN Cardinality(In(HoldsGlobal)) - 1
             ELSE Cardinality(In(HoldsGlobal))
      /\ Cardinality(In(HoldsGlobal)') \in Nat /\ Cardinality(In(HoldsGlobal)) \in Nat
  BY <1>1, <1>3, <1>4, HoldersFinite, FS_RemoveElement, FS_CardinalityType DEF FiniteHolders
<1>6. /\ global_free' + Cardinality(In(HoldsGlobal)') = effective_write_permits
      /\ global_free' \in 0 .. effective_write_permits
  <2>1. global_free' = IF phase[p] \in HoldsGlobal THEN global_free + 1 ELSE global_free
    BY DEF GiveBack, HoldsGlobal
  <2>2. global_free \in Nat /\ effective_write_permits \in Nat
    BY PermitsType DEF PutsTypeOK
  <2>3. global_free + Cardinality(In(HoldsGlobal)) = effective_write_permits
    BY BalanceParts
  <2>4. QED
    BY <1>5, <2>1, <2>2, <2>3
<1>7. ASSUME NEW n \in PutNodes
      PROVE  /\ node_free'[n] + Cardinality(NodeHolders(n)') = max_node_connections
             /\ node_free'[n] \in 0 .. max_node_connections
  <2>1. node_free'[n] = IF phase[p] \in HoldsNode /\ p.node = n
                        THEN node_free[n] + 1 ELSE node_free[n]
    BY PutShape DEF GiveBack, HoldsNode, PutsTypeOK
  <2>2. node_free[n] \in Nat /\ max_node_connections \in Nat
    BY PermitsType DEF PutsTypeOK
  <2>3. node_free[n] + Cardinality(NodeHolders(n)) = max_node_connections
    BY BalanceParts
  <2>4. /\ Cardinality(NodeHolders(n)')
             = IF phase[p] \in HoldsNode /\ p.node = n THEN Cardinality(NodeHolders(n)) - 1
               ELSE Cardinality(NodeHolders(n))
        /\ Cardinality(NodeHolders(n)') \in Nat /\ Cardinality(NodeHolders(n)) \in Nat
    BY <1>2, <1>3, HoldersFinite, FS_RemoveElement, FS_CardinalityType
  <2>5. QED
    BY <2>1, <2>2, <2>3, <2>4
<1>8. node_free' \in [PutNodes -> 0 .. max_node_connections]
  <2>1. node_free' = IF phase[p] \in {"bytes", "sent"}
                     THEN [node_free EXCEPT ![p.node] = @ + 1] ELSE node_free
    BY DEF GiveBack
  <2>2. DOMAIN node_free' = PutNodes /\ node_free' = [n \in PutNodes |-> node_free'[n]]
    BY <2>1 DEF PutsTypeOK
  <2>3. QED
    BY <1>7, <2>2
<1>9. in_flight' = Cardinality(Bytes(In({"sent"}))') /\ in_flight' \in Nat
  <2>1. in_flight = Cardinality(Bytes(In({"sent"}))) /\ IsFiniteSet(In({"sent"}))
    BY BalanceParts, HoldersFinite
  <2>2. IsFiniteSet(In({"sent"}) \ {p})
    BY <2>1, FS_RemoveElement
  <2>3. Cardinality(Bytes(In({"sent"}) \ {p})) \in Nat
    BY <2>2, BytesBound
  <2>4. CASE phase[p] = "sent"
    <3>1. Cardinality(Bytes(In({"sent"}) \ {p})) = Cardinality(Bytes(In({"sent"}))) - size(p)
      BY <1>3, <2>1, <2>4, BytesRemove
    <3>2. QED
      BY <1>2, <2>1, <2>3, <2>4, <3>1 DEF GiveBack
  <2>5. CASE phase[p] # "sent"
    <3>1. In({"sent"}) \ {p} = In({"sent"})
      BY <1>3, <2>5
    <3>2. QED
      BY <1>2, <2>1, <2>3, <2>5, <3>1 DEF GiveBack
  <2>6. QED
    BY <2>4, <2>5
<1>10. /\ progress'.puts_in_flight = Cardinality(Started')
       /\ progress' \in [puts_in_flight : Nat, puts_completed : Nat, puts_failed : Nat]
  <2>1. progress.puts_in_flight = Cardinality(Started)
    BY BalanceParts
  <2>2. /\ Cardinality(Started')
             = IF phase[p] = "sent" /\ p.kind # "metadata" THEN Cardinality(Started) - 1
               ELSE Cardinality(Started)
        /\ Cardinality(Started') \in Nat /\ Cardinality(Started) \in Nat
    BY <1>2, <1>3, HoldersFinite, FS_RemoveElement, FS_CardinalityType
  <2>3. progress'.puts_in_flight = IF phase[p] = "sent" /\ p.kind # "metadata"
                                   THEN progress.puts_in_flight - 1
                                   ELSE progress.puts_in_flight
    BY DEF put_finished
  <2>4. progress'.puts_in_flight = Cardinality(Started') /\ progress'.puts_in_flight \in Nat
    BY <2>1, <2>2, <2>3
  <2>5. QED
    BY <2>4 DEF put_finished, PutsTypeOK
<1>11. GatesBalance'
  BY <1>0, <1>6, <1>7, <1>9, <1>10 DEF GatesBalance, NodeHolders, Started, Bytes,
     HoldsGlobal, HoldsNode
<1>12. QED
  BY <1>4, <1>6, <1>8, <1>9, <1>10, <1>11

-----------------------------------------------------------------------------
(* One lemma per action. *)

LEMMA PutsInitInv == PutsInit => PutsInv
<1> SUFFICES ASSUME PutsInit PROVE PutsInv
  OBVIOUS
<1> USE DEF PutsInit
<1>1. PutsTypeOK
  BY PermitsType, PutsAssumption DEF PutsTypeOK, max_retries, Live, Waiting
<1>2. MetadataFirst
  <2>1. \A n \in PutNodes : \A q \in SliverPutsOf(node_shards, n) : phase[q] = "absent"
    BY NodePuts
  <2>2. QED
    BY <2>1 DEF MetadataFirst
<1>3. MetadataHasNoBytes /\ CancelsLive /\ RetriesLeft
  BY DEF MetadataHasNoBytes, CancelsLive, RetriesLeft
<1>4. In(HoldsGlobal) = {}
  BY DEF In, HoldsGlobal
<1>5. FiniteHolders
  BY <1>4, FS_EmptySet DEF FiniteHolders
<1>6. /\ In({"sent"}) = {} /\ Started = {} /\ Bytes(In({"sent"})) = {}
      /\ \A n : NodeHolders(n) = {}
  BY <1>4 DEF In, HoldsGlobal, HoldsNode, Started, Bytes, NodeHolders
<1>7. GatesBalance
  <2>1. \A n \in PutNodes : node_free[n] + Cardinality(NodeHolders(n)) = max_node_connections
    <3> TAKE n \in PutNodes
    <3>1. Cardinality(NodeHolders(n)) = 0 /\ node_free[n] = max_node_connections
      BY <1>6, FS_EmptySet
    <3>2. QED
      BY <3>1, PermitsType
  <2>2. /\ Cardinality(In(HoldsGlobal)) = 0 /\ Cardinality(Started) = 0
        /\ Cardinality(Bytes(In({"sent"}))) = 0
    BY <1>4, <1>6, FS_EmptySet
  <2>3. QED
    BY <2>1, <2>2, BalanceParts, PermitsType
<1>8. QED
  BY <1>1, <1>2, <1>3, <1>5, <1>7 DEF PutsInv

(* A step that moves one live PUT p from its await to another phase, with any
   cancellation of it delivered, keeps the order of a node's PUTs. *)
LEMMA MoveOrder ==
  ASSUME PutsInv, arguments' = arguments,
         NEW p \in Puts, cancelling' = cancelling \ {p}, phase[p] \in Live,
         NEW x, phase' = [phase EXCEPT ![p] = x], x # "bytes" \/ p.kind # "metadata",
         x # "stored",
         \A q \in Puts \ {p} : attempt'[q] = attempt[q],
         x = "backoff" => attempt'[p] < max_retries
  PROVE  MetadataFirst' /\ MetadataHasNoBytes' /\ CancelsLive' /\ RetriesLeft'
<1> USE DEF PutsInv
<1>1. /\ Puts' = Puts /\ PutNodes' = PutNodes /\ node_shards' = node_shards
      /\ \A q \in Puts : phase'[q] = IF q = p THEN x ELSE phase[q]
  <2>1. Puts' = Puts /\ PutNodes' = PutNodes /\ node_shards' = node_shards
    BY DEF Puts, PutNodes, node_shards
  <2>2. \A q \in Puts : phase'[q] = IF q = p THEN x ELSE phase[q]
    BY DEF PutsTypeOK
  <2>3. QED
    BY <2>1, <2>2
<1>2. MetadataFirst'
  <2> SUFFICES ASSUME NEW n \in PutNodes, phase'[MetadataPut(n)] # "stored",
                      NEW q \in SliverPutsOf(node_shards, n)
               PROVE  phase'[q] = "absent"
    BY <1>1 DEF MetadataFirst, MetadataPut, SliverPutsOf
  <2>1. MetadataPut(n) \in Puts /\ q \in Puts
    BY NodePuts
  <2>2. phase[MetadataPut(n)] # "stored"
    BY <1>1, <2>1 DEF Live, Waiting
  <2>3. phase[q] = "absent"
    BY <2>2 DEF MetadataFirst
  <2>4. QED
    BY <1>1, <2>1, <2>3 DEF Live, Waiting
<1>3. MetadataHasNoBytes'
  BY <1>1 DEF MetadataHasNoBytes
<1>4. CancelsLive'
  BY <1>1 DEF CancelsLive, PutsTypeOK
<1>5. RetriesLeft'
  BY <1>1 DEF RetriesLeft, max_retries
<1>6. QED
  BY <1>2, <1>3, <1>4, <1>5

LEMMA TakeGlobalInv ==
  ASSUME PutsInv, arguments' = arguments, NEW p \in Puts \ cancelling, TakeGlobal(p)
  PROVE  PutsInv'
<1> USE DEF PutsInv
<1>0. /\ PutNodes' = PutNodes /\ node_shards' = node_shards
      /\ effective_write_permits' = effective_write_permits
  BY DEF PutNodes, node_shards, effective_write_permits, max_bytes_in_flight
<1>1. phase[p] = "global" /\ phase' = [phase EXCEPT ![p] = "node"]
  BY DEF TakeGlobal
<1>2. /\ Puts' = Puts
      /\ \A S : In(S)' = IF "node" \in S THEN In(S) \cup {p} ELSE In(S) \ {p}
  BY <1>1, PhaseMoves
<1>3. MetadataFirst' /\ MetadataHasNoBytes' /\ CancelsLive' /\ RetriesLeft'
  BY <1>1, MoveOrder DEF TakeGlobal, cancelVars, Live, Waiting
<1>4. /\ In(HoldsGlobal)' = In(HoldsGlobal) \cup {p} /\ p \notin In(HoldsGlobal)
      /\ In(HoldsNode)' = In(HoldsNode) /\ In({"sent"})' = In({"sent"})
  <2>1. p \notin In(HoldsGlobal) /\ p \notin In(HoldsNode) /\ p \notin In({"sent"})
    BY <1>1 DEF HoldsGlobal, HoldsNode, In
  <2>2. "node" \in HoldsGlobal /\ "node" \notin HoldsNode /\ "node" \notin {"sent"}
    BY DEF HoldsGlobal, HoldsNode
  <2>3. In({"sent"}) \ {p} = In({"sent"}) /\ In(HoldsNode) \ {p} = In(HoldsNode)
    BY <2>1
  <2>4. QED
    BY <1>2, <2>1, <2>2, <2>3, Zenon
<1>5. /\ FiniteHolders'
      /\ Cardinality(In(HoldsGlobal)') = Cardinality(In(HoldsGlobal)) + 1
  BY <1>4, FS_AddElement DEF FiniteHolders
<1>6. /\ \A n : NodeHolders(n)' = NodeHolders(n)
      /\ Started' = Started /\ Bytes(In({"sent"}))' = Bytes(In({"sent"}))
  BY <1>4 DEF NodeHolders, Started, Bytes
<1>7. global_free' + Cardinality(In(HoldsGlobal)') = effective_write_permits
  BY <1>5, HoldersFinite, BalanceParts, PermitsType DEF TakeGlobal, PutsTypeOK
<1>8. GatesBalance'
  BY <1>0, <1>6, <1>7, BalanceParts DEF TakeGlobal, GatesBalance, NodeHolders, Started,
     Bytes, HoldsGlobal, HoldsNode
<1>9. PutsTypeOK'
  BY <1>0, <1>2, PermitsType
     DEF PutsTypeOK, TakeGlobal, cancelVars, Live, Waiting, Ended, max_retries
<1>10. QED
  BY <1>3, <1>5, <1>8, <1>9

LEMMA TakeNodeInv ==
  ASSUME PutsInv, arguments' = arguments, NEW p \in Puts \ cancelling, TakeNode(p)
  PROVE  PutsInv'
<1> USE DEF PutsInv
<1> DEFINE x == IF p.kind = "metadata" THEN "sent" ELSE "bytes"
<1>0. /\ PutNodes' = PutNodes /\ node_shards' = node_shards
      /\ effective_write_permits' = effective_write_permits
  BY DEF PutNodes, node_shards, effective_write_permits, max_bytes_in_flight
<1>1. phase[p] = "node" /\ phase' = [phase EXCEPT ![p] = x]
  BY DEF TakeNode
<1>2. /\ Puts' = Puts
      /\ \A S : In(S)' = IF x \in S THEN In(S) \cup {p} ELSE In(S) \ {p}
  BY <1>1, PhaseMoves
<1>3. MetadataFirst' /\ MetadataHasNoBytes' /\ CancelsLive' /\ RetriesLeft'
  BY <1>1, MoveOrder DEF TakeNode, cancelVars, Live, Waiting
<1>4. /\ In(HoldsGlobal)' = In(HoldsGlobal)
      /\ In(HoldsNode)' = In(HoldsNode) \cup {p}
      /\ p \notin In(HoldsNode)
      /\ In({"sent"})' = IF p.kind = "metadata" THEN In({"sent"}) \cup {p} ELSE In({"sent"})
  <2>1. p \in In(HoldsGlobal) /\ p \notin In(HoldsNode) /\ p \notin In({"sent"})
    BY <1>1 DEF HoldsGlobal, HoldsNode, In
  <2>2. /\ x \in HoldsGlobal /\ x \in HoldsNode
        /\ x \in {"sent"} <=> p.kind = "metadata"
    BY DEF HoldsGlobal, HoldsNode
  <2> HIDE DEF x
  <2>3. In({"sent"}) \ {p} = In({"sent"}) /\ In(HoldsGlobal) \cup {p} = In(HoldsGlobal)
    BY <2>1
  <2>4. QED
    BY <1>2, <2>1, <2>2, <2>3, Zenon
<1>5. FiniteHolders'
  BY <1>4 DEF FiniteHolders
<1>6. Started' = Started
  BY <1>4 DEF Started
<1>7. Cardinality(Bytes(In({"sent"}))') = Cardinality(Bytes(In({"sent"})))
  <2>1. Bytes(In({"sent"}))' = Bytes(In({"sent"})')
    BY DEF Bytes
  <2>2. CASE p.kind = "metadata"
    <3>1. size(p) = 0 /\ p \notin In({"sent"}) /\ IsFiniteSet(In({"sent"}))
      BY <1>1, <2>2, PutShape, HoldersFinite DEF In
    <3>2. Cardinality(Bytes(In({"sent"}) \cup {p})) = Cardinality(Bytes(In({"sent"}))) + 0
      BY <3>1, BytesAdd
    <3>3. Cardinality(Bytes(In({"sent"}) \cup {p})) = Cardinality(Bytes(In({"sent"})))
      BY <3>2, HoldersFinite
    <3>4. QED
      BY <1>4, <2>1, <2>2, <3>3, Zenon
  <2>3. CASE p.kind # "metadata"
    BY <1>4, <2>1, <2>3
  <2>4. QED
    BY <2>2, <2>3
<1>8. ASSUME NEW n \in PutNodes
      PROVE  /\ node_free'[n] + Cardinality(NodeHolders(n)') = max_node_connections
             /\ node_free'[n] \in 0 .. max_node_connections
  <2>1. NodeHolders(n)' = IF p.node = n THEN NodeHolders(n) \cup {p} ELSE NodeHolders(n)
    BY <1>4 DEF NodeHolders
  <2>2. p \notin NodeHolders(n)
    BY <1>4 DEF NodeHolders
  <2>3. /\ Cardinality(NodeHolders(n)') = IF p.node = n THEN Cardinality(NodeHolders(n)) + 1
                                          ELSE Cardinality(NodeHolders(n))
        /\ Cardinality(NodeHolders(n)) \in Nat
    BY <2>1, <2>2, HoldersFinite, FS_AddElement
  <2>4. node_free'[n] = IF p.node = n THEN node_free[n] - 1 ELSE node_free[n]
    BY DEF TakeNode, PutsTypeOK
  <2>5. node_free[n] \in Nat /\ max_node_connections \in Nat
    BY PermitsType DEF PutsTypeOK
  <2>6. node_free[n] + Cardinality(NodeHolders(n)) = max_node_connections
    BY BalanceParts
  <2>7. p.node = n => node_free[n] > 0
    BY DEF TakeNode
  <2>8. QED
    BY <2>3, <2>4, <2>5, <2>6, <2>7
<1>9. GatesBalance'
  BY <1>0, <1>4, <1>6, <1>7, <1>8, BalanceParts DEF TakeNode, GatesBalance, NodeHolders,
     Started, Bytes, HoldsGlobal, HoldsNode
<1>10. PutsTypeOK'
  <2>1. DOMAIN node_free' = PutNodes /\ node_free' = [n \in PutNodes |-> node_free'[n]]
    BY DEF PutsTypeOK, TakeNode
  <2>2. node_free' \in [PutNodes -> 0 .. max_node_connections]
    BY <1>8, <2>1
  <2>3. QED
    BY <1>0, <1>2, <2>2
       DEF PutsTypeOK, TakeNode, cancelVars, Live, Waiting, Ended, max_retries
<1>11. QED
  BY <1>3, <1>5, <1>9, <1>10

LEMMA TakeBytesInv ==
  ASSUME PutsInv, arguments' = arguments, NEW p \in Puts \ cancelling, TakeBytes(p)
  PROVE  PutsInv'
<1> USE DEF PutsInv
<1>0. /\ PutNodes' = PutNodes /\ node_shards' = node_shards
      /\ effective_write_permits' = effective_write_permits
  BY DEF PutNodes, node_shards, effective_write_permits, max_bytes_in_flight
<1>1. /\ phase[p] = "bytes" /\ phase' = [phase EXCEPT ![p] = "sent"]
      /\ p.kind # "metadata"
  BY DEF TakeBytes, MetadataHasNoBytes
<1>2. /\ Puts' = Puts
      /\ \A S : In(S)' = IF "sent" \in S THEN In(S) \cup {p} ELSE In(S) \ {p}
  BY <1>1, PhaseMoves
<1>3. MetadataFirst' /\ MetadataHasNoBytes' /\ CancelsLive' /\ RetriesLeft'
  BY <1>1, MoveOrder DEF TakeBytes, cancelVars, Live, Waiting
<1>4. /\ In(HoldsGlobal)' = In(HoldsGlobal) /\ In(HoldsNode)' = In(HoldsNode)
      /\ In({"sent"})' = In({"sent"}) \cup {p} /\ p \notin In({"sent"})
  <2>1. p \in In(HoldsGlobal) /\ p \in In(HoldsNode) /\ p \notin In({"sent"})
    BY <1>1 DEF HoldsGlobal, HoldsNode, In
  <2>2. "sent" \in HoldsGlobal /\ "sent" \in HoldsNode /\ "sent" \in {"sent"}
    BY DEF HoldsGlobal, HoldsNode
  <2>3. In(HoldsNode) \cup {p} = In(HoldsNode) /\ In(HoldsGlobal) \cup {p} = In(HoldsGlobal)
    BY <2>1
  <2>4. QED
    BY <1>2, <2>1, <2>2, <2>3, Zenon
<1>5. FiniteHolders'
  BY <1>4 DEF FiniteHolders
<1>6. /\ \A n : NodeHolders(n)' = NodeHolders(n)
      /\ Started' = Started \cup {p} /\ p \notin Started
      /\ Bytes(In({"sent"}))' = Bytes(In({"sent"}) \cup {p})
  BY <1>1, <1>4 DEF NodeHolders, Started, Bytes
<1>7. in_flight' = Cardinality(Bytes(In({"sent"}))') /\ in_flight' \in Nat
  <2>1. in_flight = Cardinality(Bytes(In({"sent"}))) /\ in_flight \in Nat
    BY BalanceParts DEF PutsTypeOK
  <2>2. Cardinality(Bytes(In({"sent"}) \cup {p})) = Cardinality(Bytes(In({"sent"}))) + size(p)
    BY <1>4, HoldersFinite, BytesAdd
  <2>3. QED
    BY <1>6, <2>1, <2>2, SizeType DEF TakeBytes
<1>8. /\ progress'.puts_in_flight = Cardinality(Started')
      /\ progress' \in [puts_in_flight : Nat, puts_completed : Nat, puts_failed : Nat]
  <2>1. Cardinality(Started') = Cardinality(Started) + 1
    BY <1>6, HoldersFinite, FS_AddElement
  <2>2. progress.puts_in_flight = Cardinality(Started)
    BY BalanceParts
  <2>3. QED
    BY <2>1, <2>2 DEF TakeBytes, PutsTypeOK
<1>9. GatesBalance'
  BY <1>0, <1>4, <1>6, <1>7, <1>8, BalanceParts DEF TakeBytes, GatesBalance, NodeHolders,
     Started, Bytes, HoldsGlobal, HoldsNode
<1>10. PutsTypeOK'
  BY <1>0, <1>2, <1>7, <1>8
     DEF PutsTypeOK, TakeBytes, cancelVars, Live, Waiting, Ended, max_retries
<1>11. QED
  BY <1>3, <1>5, <1>9, <1>10

(* With its metadata in place a node's sliver PUTs, none of which existed, start. *)
LEMMA StoredInv ==
  ASSUME PutsInv, arguments' = arguments, NEW p \in Puts \ cancelling, Stored(p)
  PROVE  PutsInv'
<1> USE DEF PutsInv
<1>0. /\ PutNodes' = PutNodes /\ node_shards' = node_shards /\ Puts' = Puts
      /\ effective_write_permits' = effective_write_permits
  BY DEF PutNodes, node_shards, Puts, effective_write_permits, max_bytes_in_flight
<1> DEFINE created(q) == p.kind = "metadata" /\ q \in SliverPutsOf(node_shards, p.node)
<1>1. /\ phase[p] = "sent" /\ ~ created(p)
      /\ \A q \in Puts : phase'[q] = IF q = p THEN "stored"
                                     ELSE IF created(q) THEN "global" ELSE phase[q]
      /\ DOMAIN phase' = Puts /\ phase' = [q \in Puts |-> phase'[q]]
  BY PutShape DEF Stored
<1>2. \A q \in Puts : created(q) => phase[q] = "absent" /\ q # p
  BY <1>1, PutShape DEF MetadataFirst
<1> HIDE DEF created
<1>3. ASSUME NEW S, S \subseteq HoldsGlobal
      PROVE  In(S)' = In(S) \ {p}
  <2>1. In(S)' = {q \in Puts : phase'[q] \in S}
    BY <1>0 DEF In
  <2>2. "stored" \notin S /\ "global" \notin S /\ "absent" \notin S
    BY <1>3 DEF HoldsGlobal
  <2>3. ASSUME NEW q \in Puts
        PROVE  phase'[q] \in S <=> phase[q] \in S /\ q # p
    BY <1>1, <1>2, <2>2
  <2>4. QED
    BY <2>1, <2>3 DEF In
<1>4. /\ FiniteHolders' /\ GatesBalance'
      /\ global_free' \in 0 .. effective_write_permits
      /\ node_free' \in [PutNodes -> 0 .. max_node_connections]
      /\ in_flight' \in Nat
      /\ progress' \in [puts_in_flight : Nat, puts_completed : Nat, puts_failed : Nat]
  BY <1>3, GiveBackBalance DEF Stored
<1>5. PutsTypeOK'
  BY <1>0, <1>1, <1>4 DEF PutsTypeOK, Stored, cancelVars, Live, Waiting, Ended, max_retries
<1>6. MetadataFirst'
  <2> SUFFICES ASSUME NEW n \in PutNodes, phase'[MetadataPut(n)] # "stored",
                      NEW q \in SliverPutsOf(node_shards, n)
               PROVE  phase'[q] = "absent"
    BY <1>0 DEF MetadataFirst, MetadataPut, SliverPutsOf
  <2>1. MetadataPut(n) \in Puts /\ q \in Puts /\ q.node = n /\ MetadataPut(n).node = n
    BY NodePuts
  <2>2. MetadataPut(n) # p
    BY <1>1, <2>1
  <2>3. ~ created(MetadataPut(n)) /\ ~ created(q)
    BY <2>1, <2>2, PutShape, NodePuts DEF created
  <2>4. phase[MetadataPut(n)] # "stored"
    BY <1>1, <2>1, <2>2, <2>3
  <2>5. phase[q] = "absent"
    BY <2>4 DEF MetadataFirst
  <2>6. QED
    BY <1>1, <2>1, <2>3, <2>5
<1>7. MetadataHasNoBytes'
  BY <1>0, <1>1 DEF MetadataHasNoBytes
<1>8. CancelsLive'
  BY <1>1, <1>2 DEF CancelsLive, Stored, cancelVars, PutsTypeOK, Live, Waiting
<1>9. RetriesLeft'
  BY <1>0, <1>1 DEF RetriesLeft, Stored, max_retries
<1>10. QED
  BY <1>4, <1>5, <1>6, <1>7, <1>8, <1>9

(* A PUT that leaves its await without having stored anything: it was refused,
   its transport raised, or it was cancelled. *)
LEMMA LeavesInv ==
  ASSUME PutsInv, arguments' = arguments, UNCHANGED <<attempt, stopped>>,
         NEW p \in Puts, phase[p] \in Live, cancelling' = cancelling \ {p},
         NEW x \in {"failed", "backoff", "cancelled"},
         x = "backoff" => attempt[p] < max_retries,
         phase' = [phase EXCEPT ![p] = x],
         GiveBack(p), put_finished(p, FALSE)
  PROVE  PutsInv'
<1> USE DEF PutsInv
<1>0. /\ PutNodes' = PutNodes
      /\ effective_write_permits' = effective_write_permits
  BY DEF PutNodes, effective_write_permits, max_bytes_in_flight
<1>1. Puts' = Puts /\ \A S : In(S)' = IF x \in S THEN In(S) \cup {p} ELSE In(S) \ {p}
  BY PhaseMoves
<1>2. MetadataFirst' /\ MetadataHasNoBytes' /\ CancelsLive' /\ RetriesLeft'
  <2>1. x # "bytes" /\ x # "stored"
    OBVIOUS
  <2>2. QED
    BY <2>1, MoveOrder
<1>3. ASSUME NEW S, S \subseteq HoldsGlobal
      PROVE  In(S)' = In(S) \ {p}
  <2>1. x \notin S
    BY <1>3 DEF HoldsGlobal
  <2>2. QED
    BY <1>1, <2>1
<1>4. /\ FiniteHolders' /\ GatesBalance'
      /\ global_free' \in 0 .. effective_write_permits
      /\ node_free' \in [PutNodes -> 0 .. max_node_connections]
      /\ in_flight' \in Nat
      /\ progress' \in [puts_in_flight : Nat, puts_completed : Nat, puts_failed : Nat]
  BY <1>3, GiveBackBalance
<1>5. PutsTypeOK'
  BY <1>0, <1>1, <1>4 DEF PutsTypeOK, Live, Waiting, Ended, max_retries
<1>6. QED
  BY <1>2, <1>4, <1>5

LEMMA RetryInv ==
  ASSUME PutsInv, arguments' = arguments, NEW p \in Puts \ cancelling, Retry(p)
  PROVE  PutsInv'
<1> USE DEF PutsInv
<1>0. /\ PutNodes' = PutNodes /\ max_retries' = max_retries /\ max_retries \in Nat
      /\ effective_write_permits' = effective_write_permits
  BY PutsAssumption DEF PutNodes, max_retries, effective_write_permits, max_bytes_in_flight
<1>1. /\ phase[p] = "backoff" /\ phase' = [phase EXCEPT ![p] = "global"]
      /\ attempt[p] < max_retries
  BY DEF Retry, RetriesLeft
<1>2. Puts' = Puts /\ \A S : In(S)' = IF "global" \in S THEN In(S) \cup {p} ELSE In(S) \ {p}
  BY <1>1, PhaseMoves
<1>3. MetadataFirst' /\ MetadataHasNoBytes' /\ CancelsLive' /\ RetriesLeft'
  <2>1. /\ phase[p] \in Live /\ cancelling' = cancelling \ {p}
        /\ \A q \in Puts \ {p} : attempt'[q] = attempt[q]
    BY <1>1 DEF Retry, PutsTypeOK, cancelVars, Live
  <2>2. QED
    BY <1>1, <2>1, MoveOrder
<1>4. /\ In(HoldsGlobal)' = In(HoldsGlobal) /\ In(HoldsNode)' = In(HoldsNode)
      /\ In({"sent"})' = In({"sent"})
  <2>1. p \notin In(HoldsGlobal) /\ p \notin In(HoldsNode) /\ p \notin In({"sent"})
    BY <1>1 DEF HoldsGlobal, HoldsNode, In
  <2>2. "global" \notin HoldsGlobal /\ "global" \notin HoldsNode /\ "global" \notin {"sent"}
    BY DEF HoldsGlobal, HoldsNode
  <2>3. /\ In({"sent"}) \ {p} = In({"sent"}) /\ In(HoldsNode) \ {p} = In(HoldsNode)
        /\ In(HoldsGlobal) \ {p} = In(HoldsGlobal)
    BY <2>1
  <2>4. QED
    BY <1>2, <2>2, <2>3, Zenon
<1>5. FiniteHolders' /\ GatesBalance'
  BY <1>0, <1>4 DEF FiniteHolders, GatesBalance, Retry, HoldsGlobal, HoldsNode
<1>6. PutsTypeOK'
  BY <1>0, <1>1, <1>2 DEF PutsTypeOK, Retry, cancelVars, Live, Waiting, Ended
<1>7. QED
  BY <1>3, <1>5, <1>6

LEMMA AdvanceInv ==
  ASSUME PutsInv, NEW p \in Puts, Advance(p)
  PROVE  PutsInv'
<1>0. p \in Puts \ cancelling /\ arguments' = arguments
  BY DEF Advance
<1>1. CASE TakeGlobal(p)
  BY <1>0, <1>1, TakeGlobalInv
<1>2. CASE TakeNode(p)
  BY <1>0, <1>2, TakeNodeInv
<1>3. CASE TakeBytes(p)
  BY <1>0, <1>3, TakeBytesInv
<1>4. CASE Stored(p)
  BY <1>0, <1>4, StoredInv
<1>5. CASE Refused(p)
  <2> DEFINE x == IF attempt[p] >= max_retries THEN "failed" ELSE "backoff"
  <2>1. /\ phase[p] \in Live /\ phase' = [phase EXCEPT ![p] = x]
        /\ GiveBack(p) /\ put_finished(p, FALSE)
        /\ UNCHANGED <<attempt, stopped>> /\ cancelling' = cancelling \ {p}
    BY <1>0, <1>5 DEF Refused, cancelVars, Live
  <2>2. attempt[p] \in Nat /\ max_retries \in Nat
    BY PutsAssumption DEF PutsInv, PutsTypeOK, max_retries
  <2>3. x \in {"failed", "backoff", "cancelled"} /\ (x = "backoff" => attempt[p] < max_retries)
    BY <2>2
  <2> HIDE DEF x
  <2>4. QED
    BY <1>0, <2>1, <2>3, LeavesInv
<1>6. CASE Raises(p)
  <2>1. /\ phase[p] \in Live /\ phase' = [phase EXCEPT ![p] = "failed"]
        /\ GiveBack(p) /\ put_finished(p, FALSE)
        /\ UNCHANGED <<attempt, stopped>> /\ cancelling' = cancelling \ {p}
    BY <1>0, <1>6 DEF Raises, cancelVars, Live
  <2>2. QED
    BY <1>0, <2>1, LeavesInv
<1>7. CASE Retry(p)
  BY <1>0, <1>7, RetryInv
<1>8. QED
  BY <1>1, <1>2, <1>3, <1>4, <1>5, <1>6, <1>7 DEF Advance

LEMMA CancelledInv ==
  ASSUME PutsInv, NEW p \in Puts, Cancelled(p)
  PROVE  PutsInv'
<1>1. /\ phase[p] \in Live /\ phase' = [phase EXCEPT ![p] = "cancelled"]
      /\ GiveBack(p) /\ put_finished(p, FALSE) /\ arguments' = arguments
      /\ UNCHANGED <<attempt, stopped>> /\ cancelling' = cancelling \ {p}
  BY DEF Cancelled, PutsInv, CancelsLive
<1>2. QED
  BY <1>1, LeavesInv

(* Stopping a node, or abandoning it, only sends cancellations to PUTs that live. *)
LEMMA CancelsInv ==
  ASSUME PutsInv, UNCHANGED <<arguments, phase, attempt, global_free, node_free, in_flight,
                           progress>>,
         stopped' \subseteq PutNodes, cancelling' \subseteq Puts,
         \A p \in cancelling' : phase[p] \in Live
  PROVE  PutsInv'
<1> USE DEF PutsInv
<1>1. /\ Puts' = Puts /\ PutNodes' = PutNodes /\ node_shards' = node_shards /\ max_retries' = max_retries
      /\ effective_write_permits' = effective_write_permits
      /\ \A S : In(S)' = In(S)
  BY DEF Puts, PutNodes, node_shards, max_retries, effective_write_permits, max_bytes_in_flight, In
<1>2. PutsTypeOK' /\ MetadataHasNoBytes' /\ CancelsLive' /\ RetriesLeft'
  BY <1>1 DEF PutsTypeOK, MetadataHasNoBytes, CancelsLive, RetriesLeft
<1>3. MetadataFirst'
  BY <1>1 DEF MetadataFirst, MetadataPut, SliverPutsOf
<1>4. FiniteHolders' /\ GatesBalance'
  BY <1>1 DEF FiniteHolders, GatesBalance
<1>5. QED
  BY <1>2, <1>3, <1>4

LEMMA PutsStepInv == PutsInv /\ [PutsNext]_putVars => PutsInv'
<1> SUFFICES ASSUME PutsInv, [PutsNext]_putVars PROVE PutsInv'
  OBVIOUS
<1>1. CASE \E p \in Puts : Advance(p)
  BY <1>1, AdvanceInv
<1>2. CASE \E p \in Puts : Cancelled(p)
  BY <1>2, CancelledInv
<1>3. ASSUME NEW n \in PutNodes, StopNode(n) PROVE PutsInv'
  <2>1. /\ stopped' \subseteq PutNodes /\ cancelling' \subseteq Puts
        /\ \A p \in cancelling' : phase[p] \in Live
    BY <1>3 DEF StopNode, PutsInv, PutsTypeOK, CancelsLive, LivePuts
  <2>2. QED
    BY <1>3, <2>1, CancelsInv DEF StopNode
<1>4. ASSUME NEW n \in PutNodes, AbandonNode(n) PROVE PutsInv'
  <2>1. /\ stopped' \subseteq PutNodes /\ cancelling' \subseteq Puts
        /\ \A p \in cancelling' : phase[p] \in Live
    BY <1>4 DEF AbandonNode, PutsInv, PutsTypeOK, CancelsLive, LivePuts
  <2>2. QED
    BY <1>4, <2>1, CancelsInv DEF AbandonNode
<1>5. CASE UNCHANGED putVars
  BY <1>5, CancelsInv DEF putVars, cancelVars, PutsInv, PutsTypeOK, CancelsLive
<1>6. QED
  BY <1>1, <1>2, <1>3, <1>4, <1>5 DEF PutsNext

-----------------------------------------------------------------------------
(* The PUTs that are sent share their permits with p, which is not among them,
   so their bytes and p's fit the budget that the permits were derived from. *)
LEMMA BytesAreCovered ==
  ASSUME PutsInv
  PROVE  BytesNeverBlock
<1> USE DEF PutsInv
<1> SUFFICES ASSUME NEW p \in In({"bytes"}) PROVE Admits(p)
  BY DEF BytesNeverBlock
<1> DEFINE sent == Cardinality(In({"sent"}))
           held == Cardinality(In(HoldsGlobal))
           e    == effective_write_permits
           m    == sliver_size
<1>1. /\ sent \in Nat /\ held \in Nat /\ e \in Nat /\ m \in Nat
      /\ max_bytes_in_flight \in Nat
  BY HoldersFinite, PermitsType, SizeType, PutsAssumption DEF max_bytes_in_flight
<1>2. sent + 1 <= held
  <2>1. In({"sent"}) \in SUBSET (In(HoldsGlobal) \ {p})
    BY DEF In, HoldsGlobal
  <2>2. p \in In(HoldsGlobal)
    BY DEF In, HoldsGlobal
  <2>3. /\ IsFiniteSet(In(HoldsGlobal) \ {p})
        /\ Cardinality(In(HoldsGlobal) \ {p}) = held - 1
    BY <2>2, HoldersFinite, FS_RemoveElement
  <2>4. sent <= Cardinality(In(HoldsGlobal) \ {p})
    BY <2>1, <2>3, FS_Subset
  <2>5. QED
    BY <1>1, <2>3, <2>4
<1>3. held <= e
  <2>1. global_free + held = e /\ global_free \in Nat
    BY BalanceParts DEF PutsTypeOK
  <2>2. QED
    BY <1>1, <2>1
<1>4. in_flight \in Nat /\ in_flight <= sent * m /\ size(p) \in Nat /\ size(p) <= m
  BY HoldersFinite, BytesBound, BalanceParts, SizeType DEF PutsTypeOK
<1>5. e = 1 \/ e * m <= max_bytes_in_flight
  <2> DEFINE g == Greatest(m, 1)
             d == max_bytes_in_flight \div g
  <2>1. g \in Nat \ {0} /\ m <= g
    BY <1>1 DEF Greatest
  <2>2. d \in Nat /\ d * g <= max_bytes_in_flight
    BY <1>1, <2>1
  <2>3. e = 1 \/ e <= d
    BY <1>1, <2>2, PutsAssumption DEF effective_write_permits, Greatest, Least
  <2>4. ASSUME e <= d PROVE e * m <= max_bytes_in_flight
    <3> HIDE DEF e, m, g, d
    <3>1. e * m <= d * g
      BY <1>1, <2>1, <2>2, <2>4
    <3>2. QED
      BY <1>1, <2>1, <2>2, <3>1
  <2>5. QED
    BY <2>3, <2>4
<1> HIDE DEF sent, held, e, m
<1>6. CASE e = 1
  <2>1. sent = 0
    BY <1>1, <1>2, <1>3, <1>6
  <2>2. in_flight = 0
    BY <1>1, <1>4, <2>1
  <2>3. QED
    BY <2>2 DEF Admits
<1>7. CASE e * m <= max_bytes_in_flight
  <2>1. sent + 1 <= e
    BY <1>1, <1>2, <1>3
  <2>2. (sent + 1) * m <= e * m
    BY <1>1, <2>1
  <2>3. in_flight + size(p) <= (sent + 1) * m
    BY <1>1, <1>4
  <2>4. in_flight + size(p) <= max_bytes_in_flight
    BY <1>1, <1>4, <1>7, <2>2, <2>3
  <2>5. QED
    BY <2>4 DEF Admits
<1>8. QED
  BY <1>5, <1>6, <1>7

-----------------------------------------------------------------------------
(* The invariant holds of every call: types, the metadata before the slivers,
   finitely many holders, and the gates in balance. *)
THEOREM PutsInvariant == PutsSpec => []PutsInv
BY PutsInitInv, PutsStepInv, PTL DEF PutsSpec

(* No permit is lost or given back twice and the byte budget is not eroded,
   whichever await a PUT was retried, refused or cancelled at: __aenter__ and
   __aexit__ of the gates of _put_sliver pair up. *)
THEOREM GatesBalanceTheorem == PutsSpec => []GatesBalance
<1>1. PutsInv => GatesBalance
  BY DEF PutsInv
<1>2. QED
  BY <1>1, PutsInvariant, PTL

(* A PUT that holds its permits is never kept waiting by the byte throttle, for
   every sliver size, budget and permit count: effective_write_permits is enough. *)
THEOREM BytesNeverBlockTheorem == PutsSpec => []BytesNeverBlock
<1>1. PutsInv => BytesNeverBlock
  BY BytesAreCovered
<1>2. QED
  BY <1>1, PutsInvariant, PTL

-----------------------------------------------------------------------------
(* The nodes. *)

FP == INSTANCE CommitteeFanout_proofs
        WITH Enough <- {S \in SUBSET Nodes : WeightOf(S) >= required_weight}


(* The proved fan-out is the one the upload is composed with. *)
LEMMA SameFanout ==
  /\ Fanout!Init = FP!Init
  /\ (Fanout!Next <=> FP!Next) /\ (UNCHANGED Fanout!vars <=> UNCHANGED FP!vars)
  /\ Fanout!Coordinator <=> FP!Coordinator
  /\ Fanout!OuterCancel <=> FP!OuterCancel
  /\ Fanout!TypeOK <=> FP!TypeOK
BY DEF Fanout!Init, FP!Init, Fanout!TypeOK, FP!TypeOK, Fanout!Over, FP!Over, Fanout!Next, FP!Next, Fanout!vars, FP!vars,
  Fanout!coordVars, FP!coordVars, Fanout!TaskEnds, FP!TaskEnds,
  Fanout!CancelDelivered, FP!CancelDelivered, Fanout!Coordinator, FP!Coordinator,
  Fanout!OuterCancel, FP!OuterCancel, Fanout!Wake, FP!Wake, Fanout!GraceEnds,
  FP!GraceEnds, Fanout!Reaped, FP!Reaped, Fanout!CleanedUp, FP!CleanedUp,
  Fanout!CancelledWaiting, FP!CancelledWaiting, Fanout!CancelledReaping,
  FP!CancelledReaping, Fanout!Answered, FP!Answered, Fanout!Alive, FP!Alive,
  Fanout!Cancel, FP!Cancel, Fanout!should_stop, FP!should_stop, Fanout!Good, FP!Good

(* More nodes never weigh less. *)
LEMMA WeightType ==
  /\ required_weight \in Int
  /\ \A T \in SUBSET Nodes : \A S \in SUBSET T :
       WeightOf(S) <= WeightOf(T) /\ WeightOf(S) \in Nat /\ WeightOf(T) \in Nat
<1>1. ASSUME NEW T \in SUBSET Nodes, NEW S \in SUBSET T
      PROVE  WeightOf(S) <= WeightOf(T) /\ WeightOf(S) \in Nat /\ WeightOf(T) \in Nat
  <2>1. IsFiniteSet(T) /\ \A m \in T : shards[m] \in Nat
    BY UploadAssumption, FS_Subset
  <2>2. \A R : WeightOf(R) = TotalWeight(shards, R)
    BY DEF WeightOf, TotalWeight
  <2>3. QED
    BY <2>1, <2>2, WeightMonotone
<1>2. required_weight \in Int
  BY UploadAssumption DEF required_weight, C!min_weight_for_quorum
<1>3. QED
  BY <1>1, <1>2

(* So the quorum of weight is a threshold as the fan-out takes it. *)
LEMMA WeightIsThreshold == FP!EnoughAssumption
BY WeightType DEF FP!EnoughAssumption

-----------------------------------------------------------------------------
(* Every step of the upload is the fan-out's step or leaves the fan-out alone. *)
LEMMA StepIsFanouts == [Next]_vars => [FP!Next]_(FP!vars)
<1> SUFFICES ASSUME [Next]_vars PROVE [FP!Next]_(FP!vars)
  OBVIOUS
<1>1. CASE \E n \in Nodes : NodeStep(n)
  <2> PICK n \in Nodes : NodeStep(n)
    BY <1>1
  <2>1. \/ UNCHANGED fanVars
        \/ \E r \in {"ok", "failed"} : Fanout!TaskEnds(n, r)
        \/ Fanout!CancelDelivered(n)
    BY DEF NodeStep, MetadataDone, PutEnds, GiveUpNode, NodeStored, CancelReachesPuts,
           CancelReachesMetadata, PutUnwinds, NodeClosed
  <2>2. QED
    BY <2>1 DEF fanVars, FP!Next, FP!vars, FP!coordVars, FP!Answered, FP!TaskEnds,
       FP!CancelDelivered, Fanout!TaskEnds, Fanout!CancelDelivered, Fanout!coordVars
<1>2. CASE Coordinate \/ CancelFanout
  BY <1>2, SameFanout DEF Coordinate, CancelFanout, Fanout!Next
<1>3. CASE HeartbeatReaped \/ UNCHANGED vars
  BY <1>3 DEF HeartbeatReaped, vars, fanVars, FP!vars, FP!coordVars
<1>4. QED
  BY <1>1, <1>2, <1>3 DEF Next

(* The sliver upload implements the committee fan-out, fairness aside: nodes'
   coroutines that await their own PUTs, and end late for it, break none of the
   assumptions the fan-out makes of a task. *)
THEOREM UploadIsFanout == Spec => Fanout!Spec
<1>1. Init => Fanout!Init
  BY DEF Init
<1>2. [Next]_vars => [Fanout!Next]_(Fanout!vars)
  <2> SUFFICES ASSUME [Next]_vars PROVE [Fanout!Next]_(Fanout!vars)
    OBVIOUS
  <2>1. [FP!Next]_(FP!vars)
    BY StepIsFanouts
  <2>2. QED
    BY <2>1, SameFanout
<1>3. QED
  BY <1>1, <1>2, PTL DEF Spec, Fanout!Spec

(* ... and with it everything that is proved of the fan-out. *)
LEMMA FanoutInvariance == Spec => []FP!IInv
<1>1. Init => FP!Init
  BY SameFanout DEF Init
<1>2. FP!Spec => []FP!IInv
  BY FP!Invariance, WeightIsThreshold
<1>3. QED
  BY <1>1, <1>2, StepIsFanouts, PTL DEF Spec, FP!Spec

-----------------------------------------------------------------------------
(* A node's coroutine, its task and its PUTs. *)

PutStates == {"running", "ok", "failed", "cancelling"}

Total(c) == c.running + c.ok + c.failed + c.cancelling

NodeInv(n) ==
  /\ puts[n] \in [PutStates -> Nat] /\ Total(puts[n]) <= PutsOf(n)
  /\ task[n] \in FP!Alive <=> stage[n] # "over"
  /\ stage[n] = "metadata" => puts[n] = NoPuts
  /\ stage[n] = "slivers" => Total(puts[n]) = PutsOf(n) /\ puts[n].cancelling = 0
  /\ stage[n] = "closing" => puts[n].running = 0
  /\ stage[n] = "closing" /\ task[n] = "running" => puts[n].failed > 0
  /\ stage[n] = "over" => puts[n].running = 0 /\ puts[n].cancelling = 0
  /\ task[n] = "ok" => puts[n].ok = PutsOf(n)
  /\ task[n] = "failed" => puts[n].failed > 0 \/ puts[n] = NoPuts

(* What the report says was read off a fan-out that is over. *)
ReportInv ==
  /\ step = "over" => pc \in FP!Over
  /\ Reported => /\ \A n \in outcome.succeeded : n \in Nodes /\ task[n] = "ok"
                 /\ WeightOf(outcome.succeeded) >= required_weight

UploadInv ==
  /\ TypeOK
  /\ DOMAIN puts = Nodes
  /\ \A n \in Nodes : NodeInv(n)
  /\ ReportInv

LEMMA InitUpload == Init => UploadInv
<1> SUFFICES ASSUME Init PROVE UploadInv
  OBVIOUS
<1>1. Fanout!TypeOK
  BY SameFanout, FP!InitInv, WeightIsThreshold DEF FP!IInv, Init
<1>2. \A n \in Nodes : shards[n] \in Nat /\ PutsOf(n) = 2 * shards[n]
  BY UploadAssumption DEF PutsOf
<1>3. /\ \A n \in Nodes : /\ task[n] = "running" /\ stage[n] = "metadata"
                          /\ puts[n] = NoPuts
      /\ DOMAIN puts = Nodes
  BY DEF Init, Fanout!Init
<1>4. ASSUME NEW n \in Nodes
      PROVE  NodeInv(n) /\ puts[n] \in [PutStates -> 0 .. PutsOf(n)]
  BY <1>2, <1>3 DEF NodeInv, NoPuts, Counts, PutStates, Total, FP!Alive
<1>5. TypeOK /\ DOMAIN puts = Nodes
  BY <1>1, <1>3, <1>4 DEF TypeOK, PutStates, Pending, Init
<1>6. ReportInv
  BY DEF ReportInv, Reported, Init
<1>7. QED
  BY <1>4, <1>5, <1>6 DEF UploadInv

(* What a step of one node's coroutine, or of one of its PUTs, may touch. *)
StepFrame(n) ==
  /\ UNCHANGED <<step, outcome>>
  /\ stage' \in [Nodes -> {"metadata", "slivers", "closing", "over"}]
  /\ DOMAIN puts' = Nodes
  /\ \A m \in Nodes \ {n} : /\ task'[m] = task[m] /\ stage'[m] = stage[m]
                            /\ puts'[m] = puts[m]
  /\ task[n] \notin FP!Alive => task'[n] = task[n]

(* The steps that move the coroutine and leave the PUTs alone. *)
LEMMA NodeMoves ==
  ASSUME UploadInv, FP!TypeOK, NEW n \in Nodes,
         CancelReachesMetadata(n) \/ NodeStored(n) \/ NodeClosed(n)
  PROVE  StepFrame(n) /\ NodeInv(n)'
<1> USE DEF FP!Alive, FP!TypeOK, FP!Answered
<1>1. NodeInv(n) /\ PutsOf(n) \in Nat /\ PutsOf(n) > 0
  BY UploadAssumption DEF UploadInv, PutsOf
<1>2. stage' = [stage EXCEPT ![n] = "over"] /\ UNCHANGED <<puts, step, outcome>>
  BY DEF CancelReachesMetadata, NodeStored, NodeClosed, Goto
<1>3. /\ task[n] \in FP!Alive /\ \A m \in Nodes \ {n} : task'[m] = task[m]
      /\ task'[n] \in {"ok", "failed", "cancelled"}
      /\ task'[n] = "ok" => stage[n] = "slivers" /\ puts[n].failed = 0 /\ puts[n].running = 0
      /\ task'[n] = "failed" => stage[n] = "closing" /\ task[n] = "running"
      /\ \/ stage[n] = "metadata"
         \/ stage[n] = "slivers" /\ task'[n] = "ok"
         \/ stage[n] = "closing" /\ puts[n].cancelling = 0
  <2>1. CASE CancelReachesMetadata(n)
    BY <2>1 DEF CancelReachesMetadata, Fanout!CancelDelivered
  <2>2. CASE NodeStored(n)
    BY <2>2 DEF NodeStored, Fanout!TaskEnds
  <2>3. CASE NodeClosed(n)
    BY <2>3 DEF NodeClosed, Fanout!TaskEnds, Fanout!CancelDelivered
  <2>4. QED
    BY <2>1, <2>2, <2>3
<1>4. StepFrame(n)
  BY <1>2, <1>3 DEF StepFrame, UploadInv, TypeOK
<1>5. PutsOf(n)' = PutsOf(n)
  BY DEF PutsOf
<1>6. stage'[n] = "over" /\ puts'[n] = puts[n]
  BY <1>2 DEF UploadInv, TypeOK
<1>7. NodeInv(n)'
  BY <1>1, <1>3, <1>5, <1>6 DEF NodeInv, Total, NoPuts, Counts, PutStates
<1>8. QED
  BY <1>4, <1>7

LEMMA MetadataMoves ==
  ASSUME UploadInv, FP!TypeOK, NEW n \in Nodes, MetadataDone(n)
  PROVE  StepFrame(n) /\ NodeInv(n)'
<1> USE DEF FP!Alive, FP!TypeOK, FP!Answered
<1>1. /\ NodeInv(n) /\ PutsOf(n) \in Nat /\ PutsOf(n) > 0 /\ PutsOf(n)' = PutsOf(n)
      /\ stage[n] = "metadata" /\ task[n] = "running" /\ puts[n] = NoPuts
  BY UploadAssumption DEF UploadInv, PutsOf, MetadataDone, NodeInv
<1>2. CASE /\ Goto(n, "slivers") /\ UNCHANGED fanVars
           /\ puts' = [puts EXCEPT ![n] = Counts(PutsOf(n), 0, 0, 0)]
  <2>1. StepFrame(n)
    BY <1>1, <1>2 DEF StepFrame, UploadInv, TypeOK, Goto, fanVars, MetadataDone
  <2>2. /\ puts'[n] = [running |-> PutsOf(n), ok |-> 0, failed |-> 0, cancelling |-> 0]
        /\ stage'[n] = "slivers" /\ task'[n] = "running"
    BY <1>1, <1>2 DEF UploadInv, TypeOK, Goto, fanVars, Counts
  <2>3. NodeInv(n)'
    BY <1>1, <2>2 DEF NodeInv, Total, PutStates, NoPuts, Counts
  <2>4. QED
    BY <2>1, <2>3
<1>3. CASE Goto(n, "over") /\ Fanout!TaskEnds(n, "failed") /\ UNCHANGED puts
  <2>1. StepFrame(n)
    BY <1>1, <1>3 DEF StepFrame, UploadInv, TypeOK, Goto, Fanout!TaskEnds, MetadataDone
  <2>2. puts'[n] = NoPuts /\ stage'[n] = "over" /\ task'[n] = "failed"
    BY <1>1, <1>3 DEF UploadInv, TypeOK, Goto, Fanout!TaskEnds
  <2>3. NodeInv(n)'
    BY <1>1, <2>2 DEF NodeInv, Total, PutStates, NoPuts, Counts
  <2>4. QED
    BY <2>1, <2>3
<1>4. QED
  BY <1>2, <1>3 DEF MetadataDone

(* The steps of the PUTs, and their cancellation: the task stays as it is. *)
LEMMA PutsMove ==
  ASSUME UploadInv, FP!TypeOK, NEW n \in Nodes,
         PutEnds(n) \/ PutUnwinds(n) \/ GiveUpNode(n) \/ CancelReachesPuts(n)
  PROVE  StepFrame(n) /\ NodeInv(n)'
<1> USE DEF FP!Alive, FP!TypeOK, FP!Answered
<1>1. /\ NodeInv(n) /\ PutsOf(n) \in Nat /\ PutsOf(n)' = PutsOf(n)
      /\ puts[n] \in [PutStates -> Nat] /\ task' = task
  BY UploadAssumption DEF UploadInv, PutsOf, NodeInv, PutEnds, PutUnwinds, GiveUpNode,
     CancelReachesPuts, fanVars
<1>2. ASSUME NEW c \in [PutStates -> Nat], puts' = [puts EXCEPT ![n] = c],
             NEW s \in {"metadata", "slivers", "closing", "over"},
             stage' = [stage EXCEPT ![n] = s], UNCHANGED <<step, outcome>>
      PROVE  StepFrame(n) /\ puts'[n] = c /\ stage'[n] = s /\ task'[n] = task[n]
  BY <1>1, <1>2 DEF StepFrame, UploadInv, TypeOK
<1>3. CASE PutEnds(n)
  <2>1. PICK r \in {"ok", "failed"} :
          puts' = [puts EXCEPT ![n].running = @ - 1, ![n][r] = @ + 1]
    BY <1>3 DEF PutEnds
  <2> DEFINE c == [k \in PutStates |-> IF k = "running" THEN puts[n].running - 1
                                       ELSE IF k = r THEN puts[n][r] + 1 ELSE puts[n][k]]
  <2>2. puts[n].running > 0 /\ c \in [PutStates -> Nat]
    BY <1>1, <1>3 DEF PutEnds, PutStates
  <2>3. puts' = [puts EXCEPT ![n] = c]
    BY <1>1, <2>1 DEF UploadInv, PutStates
  <2>4. stage' = [stage EXCEPT ![n] = stage[n]] /\ UNCHANGED <<step, outcome>>
        /\ stage[n] \in {"metadata", "slivers", "closing", "over"}
    BY <1>3 DEF PutEnds, UploadInv, TypeOK
  <2>5. /\ c.running = puts[n].running - 1 /\ c.cancelling = puts[n].cancelling
        /\ c.ok = IF r = "ok" THEN puts[n].ok + 1 ELSE puts[n].ok
        /\ c.failed = IF r = "failed" THEN puts[n].failed + 1 ELSE puts[n].failed
    BY DEF PutStates
  <2> HIDE DEF c
  <2>6. StepFrame(n) /\ puts'[n] = c /\ stage'[n] = stage[n] /\ task'[n] = task[n]
    BY <1>2, <2>2, <2>3, <2>4
  <2>7. stage[n] = "slivers"
    BY <1>1, <2>2, <2>4 DEF NodeInv, NoPuts, Counts
  <2>8. Total(c) = Total(puts[n])
    BY <1>1, <2>1, <2>5 DEF Total, PutStates
  <2>9. NodeInv(n)'
    BY <1>1, <2>2, <2>5, <2>6, <2>7, <2>8 DEF NodeInv
  <2>10. QED
    BY <2>6, <2>9
<1>4. CASE PutUnwinds(n)
  <2> DEFINE c == [puts[n] EXCEPT !.cancelling = @ - 1]
  <2>1. puts[n].cancelling > 0 /\ c \in [PutStates -> Nat] /\ puts' = [puts EXCEPT ![n] = c]
    BY <1>1, <1>4 DEF PutUnwinds, UploadInv, PutStates
  <2>2. stage' = [stage EXCEPT ![n] = stage[n]] /\ UNCHANGED <<step, outcome>>
        /\ stage[n] \in {"metadata", "slivers", "closing", "over"}
    BY <1>4 DEF PutUnwinds, UploadInv, TypeOK
  <2>3. /\ c.running = puts[n].running /\ c.cancelling = puts[n].cancelling - 1
        /\ c.ok = puts[n].ok /\ c.failed = puts[n].failed
    BY <1>1 DEF PutStates
  <2> HIDE DEF c
  <2>4. StepFrame(n) /\ puts'[n] = c /\ stage'[n] = stage[n] /\ task'[n] = task[n]
    BY <1>2, <2>1, <2>2
  <2>5. stage[n] = "closing"
    BY <1>1, <2>1, <2>2 DEF NodeInv, NoPuts, Counts
  <2>6. Total(c) <= PutsOf(n)
    BY <1>1, <2>3 DEF Total, PutStates, NodeInv
  <2>7. NodeInv(n)'
    BY <1>1, <2>1, <2>3, <2>4, <2>5, <2>6 DEF NodeInv
  <2>8. QED
    BY <2>4, <2>7
<1>5. CASE GiveUpNode(n) \/ CancelReachesPuts(n)
  <2> DEFINE c == [puts[n] EXCEPT !.cancelling = puts[n].running, !.running = 0]
  <2>1. c \in [PutStates -> Nat] /\ puts' = [puts EXCEPT ![n] = c]
    BY <1>1, <1>5 DEF GiveUpNode, CancelReachesPuts, CancelPuts, UploadInv, PutStates
  <2>2. /\ stage' = [stage EXCEPT ![n] = "closing"] /\ UNCHANGED <<step, outcome>>
        /\ stage[n] = "slivers" /\ task[n] \in FP!Alive
        /\ task[n] = "running" => puts[n].failed > 0
    BY <1>5 DEF GiveUpNode, CancelReachesPuts, Goto
  <2>3. /\ c.running = 0 /\ c.cancelling = puts[n].running
        /\ c.ok = puts[n].ok /\ c.failed = puts[n].failed
    BY <1>1 DEF PutStates
  <2> HIDE DEF c
  <2>4. StepFrame(n) /\ puts'[n] = c /\ stage'[n] = "closing" /\ task'[n] = task[n]
    BY <1>2, <2>1, <2>2
  <2>5. Total(c) <= PutsOf(n)
    BY <1>1, <2>2, <2>3 DEF Total, PutStates, NodeInv
  <2>6. NodeInv(n)'
    BY <1>1, <2>1, <2>2, <2>3, <2>4, <2>5 DEF NodeInv
  <2>7. QED
    BY <2>4, <2>6
<1>6. QED
  BY <1>3, <1>4, <1>5

-----------------------------------------------------------------------------
LEMMA NodeStepInv ==
  ASSUME UploadInv, FP!IInv, FP!IInv', NEW n \in Nodes, NodeStep(n)
  PROVE  UploadInv'
<1>1. FP!TypeOK /\ FP!TypeOK' /\ Fanout!TypeOK'
  <2>1. FP!TypeOK /\ FP!TypeOK'
    BY DEF FP!IInv
  <2>2. QED
    BY <2>1, SameFanout, PTL
<1>2. StepFrame(n) /\ NodeInv(n)'
  BY <1>1, NodeMoves, MetadataMoves, PutsMove DEF NodeStep
<1>3. ASSUME NEW m \in Nodes PROVE NodeInv(m)'
  <2>1. CASE m = n
    BY <1>2, <2>1
  <2>2. CASE m # n
    BY <1>2, <2>2 DEF StepFrame, UploadInv, NodeInv, PutsOf
  <2>3. QED
    BY <2>1, <2>2
<1>4. ReportInv'
  <2>1. pc' = pc
    BY DEF NodeStep, MetadataDone, PutEnds, GiveUpNode, NodeStored, CancelReachesPuts,
       CancelReachesMetadata, PutUnwinds, NodeClosed, fanVars, Fanout!TaskEnds,
       Fanout!CancelDelivered, Fanout!coordVars
  <2>2. step' = step /\ outcome' = outcome
    BY <1>2 DEF StepFrame
  <2>3. ASSUME NEW m \in Nodes, task[m] = "ok" PROVE task'[m] = "ok"
    BY <1>2, <2>3 DEF StepFrame, FP!Alive
  <2>4. QED
    BY <2>1, <2>2, <2>3 DEF UploadInv, ReportInv, Reported
<1>5. TypeOK' /\ (DOMAIN puts = Nodes)'
  <2>1. ASSUME NEW m \in Nodes
        PROVE  puts'[m] \in [{"running", "ok", "failed", "cancelling"} -> 0 .. PutsOf(m)]
    <3>1. /\ puts'[m] \in [PutStates -> Nat] /\ Total(puts'[m]) <= PutsOf(m)
          /\ PutsOf(m) \in Nat
      BY <1>3, UploadAssumption DEF NodeInv, PutsOf
    <3>2. QED
      BY <3>1 DEF PutStates, Total
  <2>2. QED
    BY <1>1, <1>2, <2>1 DEF TypeOK, StepFrame, PutsOf, UploadInv
<1>6. QED
  BY <1>3, <1>4, <1>5 DEF UploadInv

(* The coordinator only turns tasks that live into ones being cancelled. *)
LEMMA CoordinatorInv ==
  ASSUME UploadInv, FP!IInv, FP!IInv', Coordinate \/ CancelFanout \/ UNCHANGED vars
  PROVE  UploadInv'
<1> USE DEF FP!Alive
<1>1. FP!Coordinator \/ FP!OuterCancel \/ UNCHANGED fanVars
  BY SameFanout DEF Coordinate, CancelFanout, vars
<1>2. UNCHANGED ownVars
  BY DEF Coordinate, CancelFanout, vars
<1>3. FP!TypeOK /\ FP!TypeOK'
  BY DEF FP!IInv
<1>4. ASSUME NEW n \in Nodes
      PROVE  \/ task'[n] = task[n]
             \/ task[n] \in FP!Alive /\ task'[n] = "cancelling"
  <2>1. CASE FP!Coordinator
    <3>1. task' = task \/ \E S : FP!Cancel(S)
      BY <2>1 DEF FP!Coordinator, FP!Wake, FP!GraceEnds, FP!Reaped, FP!CleanedUp
    <3>2. QED
      BY <3>1 DEF FP!Cancel
  <2>2. CASE FP!OuterCancel
    <3>1. task' = task \/ \E S : FP!Cancel(S)
      BY <2>2 DEF FP!OuterCancel, FP!CancelledWaiting, FP!CancelledReaping
    <3>2. QED
      BY <3>1 DEF FP!Cancel
  <2>3. CASE UNCHANGED fanVars
    BY <2>3 DEF fanVars
  <2>4. QED
    BY <1>1, <2>1, <2>2, <2>3
<1>5. pc \in FP!Over => pc' = pc
  BY <1>1 DEF FP!Coordinator, FP!OuterCancel, FP!Wake, FP!GraceEnds, FP!Reaped,
     FP!CleanedUp, FP!CancelledWaiting, FP!CancelledReaping, fanVars, FP!Over
<1>6. ASSUME NEW n \in Nodes PROVE NodeInv(n)'
  <2>1. NodeInv(n) /\ puts'[n] = puts[n] /\ stage'[n] = stage[n] /\ PutsOf(n)' = PutsOf(n)
    BY <1>2 DEF UploadInv, ownVars, PutsOf
  <2>2. QED
    BY <1>4, <2>1 DEF NodeInv
<1>7. ReportInv'
  BY <1>2, <1>4, <1>5 DEF UploadInv, ReportInv, Reported, ownVars
<1>8. TypeOK' /\ (DOMAIN puts = Nodes)'
  <2>1. Fanout!TypeOK'
    BY <1>3, SameFanout, PTL
  <2>2. QED
    BY <1>2, <2>1 DEF UploadInv, TypeOK, ownVars, PutsOf
<1>9. QED
  BY <1>6, <1>7, <1>8 DEF UploadInv

(* The report is read off the fan-out's accumulators. *)
LEMMA ReapedInv ==
  ASSUME UploadInv, FP!IInv, HeartbeatReaped
  PROVE  UploadInv'
<1>1. /\ UNCHANGED <<fanVars, stage, puts>> /\ step' = "over" /\ pc \in FP!Over
  BY DEF HeartbeatReaped, Fanout!Over, FP!Over
<1>2. counted \subseteq Nodes /\ dropped \subseteq Nodes
  BY DEF FP!IInv, FP!TypeOK
<1> DEFINE good == Fanout!Good(counted)
<1>3. good \in SUBSET Nodes /\ (\A n \in good : task[n] = "ok") /\ dropped \in SUBSET Nodes
  BY <1>2 DEF Fanout!Good
<1>4. WeightOf(good) \in Int /\ required_weight \in Int
  BY <1>3, WeightType
<1>5. \/ outcome' \in [error : {"pending", "SliverUploadError", "CancelledError"}]
      \/ /\ outcome' = [succeeded |-> good, given_up |-> dropped]
         /\ WeightOf(good) >= required_weight
  <2> HIDE DEF good
  <2>1. /\ outcome' = IF pc = "raised" THEN [error |-> "CancelledError"]
                      ELSE IF WeightOf(good) < required_weight
                           THEN [error |-> "SliverUploadError"]
                           ELSE [succeeded |-> good, given_up |-> dropped]
    BY DEF HeartbeatReaped, good
  <2>2. CASE pc = "raised" \/ WeightOf(good) < required_weight
    BY <2>1, <2>2
  <2>3. CASE pc # "raised" /\ ~ (WeightOf(good) < required_weight)
    BY <1>4, <2>1, <2>3
  <2>4. QED
    BY <2>2, <2>3
<1>6. ReportInv'
  <2> HIDE DEF good
  <2>1. CASE outcome' \in [error : {"pending", "SliverUploadError", "CancelledError"}]
    BY <1>1, <2>1 DEF ReportInv, Reported, fanVars
  <2>2. CASE /\ outcome' = [succeeded |-> good, given_up |-> dropped]
             /\ WeightOf(good) >= required_weight
    <3>1. outcome'.succeeded = good
      BY <2>2
    <3>2. WeightOf(outcome.succeeded)' = WeightOf(outcome'.succeeded)
      BY DEF WeightOf
    <3>3. required_weight' = required_weight
      BY DEF required_weight
    <3>4. WeightOf(outcome.succeeded)' >= required_weight'
      BY <2>2, <3>1, <3>2, <3>3
    <3>5. QED
      BY <1>1, <1>3, <3>1, <3>4 DEF ReportInv, fanVars
  <2>3. QED
    BY <1>5, <2>1, <2>2
<1>7. \A n \in Nodes : NodeInv(n)'
  BY <1>1 DEF UploadInv, NodeInv, fanVars, PutsOf
<1>8. TypeOK' /\ (DOMAIN puts = Nodes)'
  <2> HIDE DEF good
  <2>1. \/ outcome' \in [error : {"pending", "SliverUploadError", "CancelledError"}]
        \/ outcome' \in [succeeded : SUBSET Nodes, given_up : SUBSET Nodes]
    BY <1>3, <1>5
  <2>2. Fanout!TypeOK'
    BY <1>1 DEF UploadInv, TypeOK, Fanout!TypeOK, fanVars
  <2>3. QED
    BY <1>1, <2>1, <2>2 DEF UploadInv, TypeOK, PutsOf
<1>9. QED
  BY <1>6, <1>7, <1>8 DEF UploadInv

LEMMA StepInv == UploadInv /\ FP!IInv /\ FP!IInv' /\ [Next]_vars => UploadInv'
<1> SUFFICES ASSUME UploadInv, FP!IInv, FP!IInv', [Next]_vars PROVE UploadInv'
  OBVIOUS
<1>1. CASE \E n \in Nodes : NodeStep(n)
  BY <1>1, NodeStepInv
<1>2. CASE Coordinate \/ CancelFanout \/ UNCHANGED vars
  BY <1>2, CoordinatorInv
<1>3. CASE HeartbeatReaped
  BY <1>3, ReapedInv
<1>4. QED
  BY <1>1, <1>2, <1>3 DEF Next

LEMMA Invariance == Spec => [](UploadInv /\ FP!IInv)
BY InitUpload, StepInv, FanoutInvariance, PTL DEF Spec

-----------------------------------------------------------------------------
(* The variables of the upload always hold values of their types; among them, no
   node ever has more PUTs than two for each of its shards. *)
THEOREM UploadTypeCorrect == Spec => []TypeOK
<1>1. UploadInv => TypeOK
  BY DEF UploadInv
<1>2. QED
  BY <1>1, Invariance, PTL

(* A node credited by a successful report has stored every sliver it owns, and
   the weight credited is a quorum: upload_slivers never reports more than
   _upload_node has seen stored. *)
THEOREM CreditIsEarnedTheorem == Spec => []CreditIsEarned
<1>1. UploadInv => CreditIsEarned
  <2> SUFFICES ASSUME UploadInv, Reported
               PROVE  /\ \A n \in outcome.succeeded : puts[n].ok = PutsOf(n)
                      /\ C!is_quorum(WeightOf(outcome.succeeded), n_shards)
    BY DEF CreditIsEarned
  <2>1. /\ \A n \in outcome.succeeded : n \in Nodes /\ task[n] = "ok"
        /\ WeightOf(outcome.succeeded) >= required_weight
    BY DEF UploadInv, ReportInv
  <2>2. \A n \in outcome.succeeded : puts[n].ok = PutsOf(n)
    BY <2>1 DEF UploadInv, NodeInv
  <2>3. outcome.succeeded \in SUBSET Nodes
    BY <2>1
  <2>4. WeightOf(outcome.succeeded) \in Int /\ n_shards \in Nat
    BY <2>3, WeightType, UploadAssumption
  <2> HIDE DEF WeightOf
  <2>5. C!is_quorum(WeightOf(outcome.succeeded), n_shards)
    BY <2>1, <2>4 DEF C!is_quorum, C!min_weight_for_quorum, required_weight
  <2>6. QED
    BY <2>2, <2>5
<1>2. QED
  BY <1>1, Invariance, PTL

(* No PUT of a node goes on after the node's task, and no node's task after the
   call, on return, shortfall and cancellation alike: the finally block of
   _upload_node and that of the fan-out nest. *)
THEOREM NoOrphanPuts == Spec => []NoPutOutlivesItsNode
<1>1. UploadInv /\ FP!IInv => NoPutOutlivesItsNode
  <2> SUFFICES ASSUME UploadInv, FP!IInv PROVE NoPutOutlivesItsNode
    OBVIOUS
  <2>1. \A n \in Nodes : stage[n] = "over" => puts[n].running + puts[n].cancelling = 0
    BY DEF UploadInv, NodeInv
  <2>2. step = "over" => \A n \in Nodes : stage[n] = "over"
    BY DEF UploadInv, ReportInv, NodeInv, FP!IInv, FP!OverInv
  <2>3. QED
    BY <2>1, <2>2 DEF NoPutOutlivesItsNode
<1>2. QED
  BY <1>1, Invariance, PTL

(* A node is reported as failed only when its metadata or one of its PUTs failed,
   never because its other PUTs were cancelled with it. *)
THEOREM FailuresAreOwn == Spec => []FailureHasACause
<1>1. UploadInv => FailureHasACause
  BY DEF UploadInv, NodeInv, FailureHasACause
<1>2. QED
  BY <1>1, Invariance, PTL
=============================================================================
