------------------------ MODULE Certification_proofs ------------------------
(***************************************************************************)
(* Proofs about what every part computes alike: the thresholds, the signers*)
(* bitmap and certificates, and the geometry of blobs, for every committee *)
(* size, shard count, blob length and blob ID.                             *)
(***************************************************************************)
EXTENDS Certification, RedStuff, FiniteSetTheorems, WellFoundedInduction, TLAPS

-----------------------------------------------------------------------------
(* Thresholds. *)

(* min_weight_for_quorum and min_weight_for_validity are exactly the least
   weights their predicates accept: the ceilings written with floor division
   are off by nothing, so a threshold met in one form is met in the other. *)
THEOREM QuorumWeightIsLeast ==
  ASSUME NEW n \in Nat, NEW w \in Int
  PROVE  is_quorum(w, n) <=> w >= min_weight_for_quorum(n)
BY DEF is_quorum, min_weight_for_quorum

(* The same of the validity threshold. *)
THEOREM ValidityWeightIsLeast ==
  ASSUME NEW n \in Nat, NEW w \in Int
  PROVE  is_above_validity(w, n) <=> w >= min_weight_for_validity(n)
BY DEF is_above_validity, min_weight_for_validity

(* Two quorums of one committee share enough shards for an honest node to be
   among their owners: a blob certified by one is not certifiable against the
   answers of the other. *)
THEOREM QuorumsIntersectAboveValidity ==
  ASSUME NEW n \in Nat, NEW Q \in SUBSET (1 .. n), NEW R \in SUBSET (1 .. n),
         is_quorum(Cardinality(Q), n), is_quorum(Cardinality(R), n)
  PROVE  is_above_validity(Cardinality(Q \cap R), n)
<1>1. IsFiniteSet(1 .. n) /\ Cardinality(1 .. n) = n
  BY FS_Interval
<1>2. IsFiniteSet(Q) /\ IsFiniteSet(R)
  BY <1>1, FS_Subset
<1>3. Cardinality(Q \cup R) <= n
  BY <1>1, FS_Subset, Q \cup R \in SUBSET (1 .. n)
<1>4. Cardinality(Q \cup R) = Cardinality(Q) + Cardinality(R) - Cardinality(Q \cap R)
  BY <1>2, FS_Union
<1>5. /\ Cardinality(Q) \in Nat /\ Cardinality(R) \in Nat
      /\ Cardinality(Q \cap R) \in Nat /\ Cardinality(Q \cup R) \in Nat
  BY <1>2, FS_CardinalityType, FS_Intersection, FS_Union
<1> QED
  BY <1>3, <1>4, <1>5 DEF is_quorum, is_above_validity

(* The weight of a set of members, as the models sum it: each member with as
   many shards as w gives it. *)
TotalWeight(w, S) == Cardinality(UNION {{m} \X (1 .. w[m]) : m \in S})

Shares(w, S) == UNION {{m} \X (1 .. w[m]) : m \in S}

LEMMA SharesFinite ==
  ASSUME NEW S, IsFiniteSet(S), NEW w, \A m \in S : w[m] \in Nat
  PROVE  IsFiniteSet(Shares(w, S))
<1> DEFINE shares(m) == {m} \X (1 .. w[m])
           Image     == {shares(m) : m \in S}
           f         == [m \in S |-> shares(m)]
<1>1. \A m \in S : IsFiniteSet(shares(m))
  <2> TAKE m \in S
  <2>1. IsFiniteSet({m})
    BY FS_Singleton
  <2>2. 1 \in Int /\ w[m] \in Int
    OBVIOUS
  <2>3. IsFiniteSet(1 .. w[m])
    BY <2>2, FS_Interval
  <2>4. QED
    BY <2>1, <2>3, FS_Product
<1>2. IsFiniteSet(Image)
  <2>1. f \in Surjection(S, Image)
    <3> HIDE DEF shares
    <3>1. f \in [S -> Image] /\ \A y \in Image : \E m \in S : f[m] = y
      OBVIOUS
    <3>2. QED
      BY <3>1 DEF Surjection
  <2>2. QED
    BY <2>1, FS_Surjection
<1>3. IsFiniteSet(UNION Image)
  BY <1>1, <1>2, FS_UNION
<1>4. QED
  BY <1>3 DEF Shares

(* A total weight never shrinks as members are added. *)
LEMMA WeightMonotone ==
  ASSUME NEW T, IsFiniteSet(T), NEW w, \A m \in T : w[m] \in Nat,
         NEW S \in SUBSET T
  PROVE  /\ TotalWeight(w, S) \in Nat /\ TotalWeight(w, T) \in Nat
         /\ TotalWeight(w, S) <= TotalWeight(w, T)
<1>1. Shares(w, S) \in SUBSET Shares(w, T)
  BY DEF Shares
<1>2. TotalWeight(w, S) = Cardinality(Shares(w, S))
      /\ TotalWeight(w, T) = Cardinality(Shares(w, T))
  BY DEF TotalWeight, Shares
<1>3. QED
  BY <1>1, <1>2, SharesFinite, FS_Subset, FS_CardinalityType

(* It does not depend on what the members are called. *)
LEMMA WeightRenamed ==
  ASSUME NEW S, IsFiniteSet(S), NEW T, NEW f \in Bijection(S, T), NEW v, NEW w,
         \A m \in S : v[m] \in Nat /\ w[f[m]] = v[m]
  PROVE  TotalWeight(v, S) = TotalWeight(w, T)
<1>1. /\ f \in [S -> T] /\ \A t \in T : \E m \in S : f[m] = t
      /\ \A m, n \in S : f[m] = f[n] => m = n
  BY DEF Bijection, Injection, IsInjective, Surjection
<1>2. \A x : x \in Shares(v, S) <=>
             \E m \in S : \E i \in 1 .. v[m] : x = <<m, i>>
  BY DEF Shares
<1>3. \A x : x \in Shares(w, T) <=>
             \E t \in T : \E i \in 1 .. w[t] : x = <<t, i>>
  BY DEF Shares
<1> DEFINE A == Shares(v, S)
           B == Shares(w, T)
           g == [x \in A |-> <<f[x[1]], x[2]>>]
<1> HIDE DEF A, B
<1>4. g \in [A -> B]
  <2>1. ASSUME NEW x \in A PROVE <<f[x[1]], x[2]>> \in B
    <3> PICK m \in S : \E i \in 1 .. v[m] : x = <<m, i>>
      BY <1>2 DEF A
    <3> PICK i \in 1 .. v[m] : x = <<m, i>>
      OBVIOUS
    <3>1. f[m] \in T /\ i \in 1 .. w[f[m]]
      BY <1>1
    <3>2. QED
      BY <1>3, <3>1 DEF B
  <2>2. QED
    BY <2>1
<1>5. \A y \in B : \E x \in A : g[x] = y
  <2> TAKE y \in B
  <2> PICK t \in T : \E i \in 1 .. w[t] : y = <<t, i>>
    BY <1>3 DEF B
  <2> PICK i \in 1 .. w[t] : y = <<t, i>>
    OBVIOUS
  <2> PICK m \in S : f[m] = t
    BY <1>1
  <2>1. i \in 1 .. v[m]
    OBVIOUS
  <2>2. <<m, i>> \in A
    BY <1>2, <2>1 DEF A
  <2>3. g[<<m, i>>] = y
    BY <2>2
  <2>4. QED
    BY <2>2, <2>3
<1>6. \A x, y \in A : g[x] = g[y] => x = y
  <2> TAKE x, y \in A
  <2> PICK m \in S : \E i \in 1 .. v[m] : x = <<m, i>>
    BY <1>2 DEF A
  <2> PICK i \in 1 .. v[m] : x = <<m, i>>
    OBVIOUS
  <2> PICK n \in S : \E j \in 1 .. v[n] : y = <<n, j>>
    BY <1>2 DEF A
  <2> PICK j \in 1 .. v[n] : y = <<n, j>>
    OBVIOUS
  <2>1. g[x] = <<f[m], i>> /\ g[y] = <<f[n], j>>
    OBVIOUS
  <2>2. QED
    BY <1>1, <2>1
<1> HIDE DEF g
<1>7. g \in Bijection(A, B)
  BY <1>4, <1>5, <1>6 DEF Bijection, Injection, IsInjective, Surjection
<1>8. ExistsBijection(A, B)
  BY <1>7 DEF ExistsBijection
<1>9. IsFiniteSet(A)
  BY SharesFinite DEF A
<1>10. Cardinality(B) = Cardinality(A)
  BY <1>8, <1>9, FS_Bijection
<1>11. TotalWeight(v, S) = Cardinality(A) /\ TotalWeight(w, T) = Cardinality(B)
  BY DEF TotalWeight, A, B, Shares
<1>12. QED
  BY <1>10, <1>11

-----------------------------------------------------------------------------
(* A position is its byte and its bit. *)
LEMMA ByteAndBit ==
  ASSUME NEW p \in Nat
  PROVE  /\ p \div 8 \in Nat /\ p % 8 \in 0 .. 7
         /\ p = 8 * (p \div 8) + (p % 8)
OBVIOUS

(* The byte of a position of the committee lies within the bitmap. *)
LEMMA ByteInBitmap ==
  ASSUME NEW size \in Nat, NEW p \in Positions(size)
  PROVE  p \div 8 \in 0 .. bitmap_length(size) - 1
BY DEF Positions, bitmap_length

(* What Tx2 unpacks on chain is what was packed: no signer is lost in the last,
   partly filled byte, none appears that did not sign. *)
THEOREM BitmapRoundTrip ==
  ASSUME NEW size \in Nat, NEW signers, can_pack(signers, size)
  PROVE  unpack_signers_bitmap(pack_signers_bitmap(signers, size), size) = signers
<1> DEFINE bitmap == pack_signers_bitmap(signers, size)
<1>1. signers \subseteq Positions(size)
  BY DEF can_pack
<1>2. ASSUME NEW p \in Positions(size)
      PROVE  bitmap[p \div 8] = {q % 8 : q \in {r \in signers : r \div 8 = p \div 8}}
  BY <1>2, ByteInBitmap DEF pack_signers_bitmap
<1>3. ASSUME NEW p \in Positions(size)
      PROVE  p % 8 \in bitmap[p \div 8] <=> p \in signers
  <2>1. ASSUME NEW q \in signers, q \div 8 = p \div 8, q % 8 = p % 8
        PROVE  q = p
    <3>1. p \in Nat /\ q \in Nat
      BY <1>1 DEF Positions
    <3> QED
      BY <2>1, <3>1, ByteAndBit
  <2> QED
    BY <1>2, <2>1
<1> QED
  BY <1>1, <1>3 DEF unpack_signers_bitmap

-----------------------------------------------------------------------------
(* Whatever confirmations build_certificate is given, mixed with answers whose
   signature is bad, a certificate that comes out of it carries the expected
   message and a quorum, and its aggregate verifies against the keys of exactly
   the members that are read back from its bitmap: the local check before Tx2
   never fails on a certificate built here. *)
THEOREM BuiltCertificateVerifies ==
  ASSUME NEW confirmations, NEW size \in Nat, NEW n \in Nat, NEW message,
         NEW cert, cert = build_certificate(confirmations, size, n, message),
         IsCertificate(cert)
  PROVE  /\ cert.message = message
         /\ is_quorum(cert.weight, n)
         /\ verify_certificate(cert, unpack_signers_bitmap(cert.bitmap, size))
<1> DEFINE kept    == Kept(confirmations)
           usable  == [c \in kept |-> confirmations[c]]
           signers == {usable[c].position : c \in kept}
<1> HIDE DEF kept, usable, signers
<1>1. /\ is_quorum(SumOfWeights(usable), n)
      /\ can_pack(signers, size)
      /\ cert = [message   |-> message,
                 aggregate |-> signers,
                 sound     |-> \A c \in kept : bls_verify(usable[c]),
                 bitmap    |-> pack_signers_bitmap(signers, size),
                 weight    |-> SumOfWeights(usable)]
  BY DEF build_certificate, IsCertificate, kept, usable, signers
<1>2. \A c \in kept : bls_verify(usable[c])
  BY DEF kept, usable, Kept
<1>3. cert.sound = TRUE
  BY <1>1, <1>2
<1>4. unpack_signers_bitmap(cert.bitmap, size) = signers
  BY <1>1, BitmapRoundTrip
<1> QED
  BY <1>1, <1>3, <1>4 DEF verify_certificate

(* What a certificate says of the confirmations it was built from. *)
ComesFrom(cert, confirmations, size, n, message) ==
  /\ \A c \in DOMAIN confirmations : confirmations[c].message = message
  /\ unpack_signers_bitmap(cert.bitmap, size)
       = {confirmations[c].position : c \in Kept(confirmations)}
  /\ Cardinality({confirmations[c].position : c \in Kept(confirmations)})
       = Cardinality(Kept(confirmations))
  /\ is_quorum(SumOfWeights([c \in Kept(confirmations) |-> confirmations[c]]), n)

LEMMA CertificateComesFrom ==
  ASSUME NEW confirmations, NEW size \in Nat, NEW n \in Nat, NEW message,
         NEW cert, cert = build_certificate(confirmations, size, n, message),
         IsCertificate(cert)
  PROVE  ComesFrom(cert, confirmations, size, n, message)
<1> DEFINE kept    == Kept(confirmations)
           usable  == [c \in kept |-> confirmations[c]]
           signers == {usable[c].position : c \in kept}
<1>0. signers = {confirmations[c].position : c \in kept}
  OBVIOUS
<1> HIDE DEF kept, usable, signers
<1>1. /\ \A c \in DOMAIN confirmations : confirmations[c].message = message
      /\ Cardinality(signers) = Cardinality(kept)
      /\ is_quorum(SumOfWeights(usable), n)
      /\ can_pack(signers, size)
      /\ cert = [message   |-> message,
                 aggregate |-> signers,
                 sound     |-> \A c \in kept : bls_verify(usable[c]),
                 bitmap    |-> pack_signers_bitmap(signers, size),
                 weight    |-> SumOfWeights(usable)]
  BY DEF build_certificate, IsCertificate, kept, usable, signers
<1>2. unpack_signers_bitmap(cert.bitmap, size) = signers
  BY <1>1, BitmapRoundTrip
<1> QED
  BY <1>0, <1>1, <1>2 DEF ComesFrom, kept, usable

(* ... and what is enough of them to come out with one. *)
LEMMA CertificateIsBuilt ==
  ASSUME NEW confirmations, NEW size \in Nat, NEW n \in Nat, NEW message,
         DOMAIN confirmations # {}, Kept(confirmations) # {},
         \A c \in DOMAIN confirmations : confirmations[c].message = message,
         Cardinality({confirmations[c].position : c \in Kept(confirmations)})
           = Cardinality(Kept(confirmations)),
         is_quorum(SumOfWeights([c \in Kept(confirmations) |-> confirmations[c]]), n),
         can_pack({confirmations[c].position : c \in Kept(confirmations)}, size)
  PROVE  IsCertificate(build_certificate(confirmations, size, n, message))
<1> DEFINE kept    == Kept(confirmations)
           usable  == [c \in kept |-> confirmations[c]]
           signers == {usable[c].position : c \in kept}
<1>0. signers = {confirmations[c].position : c \in kept}
  OBVIOUS
<1> HIDE DEF signers
<1>1. /\ Cardinality(signers) = Cardinality(kept)
      /\ is_quorum(SumOfWeights(usable), n)
      /\ can_pack(signers, size)
  BY <1>0
<1> HIDE DEF kept, usable
<1>2. build_certificate(confirmations, size, n, message)
        = [message   |-> message,
           aggregate |-> signers,
           sound     |-> \A c \in kept : bls_verify(usable[c]),
           bitmap    |-> pack_signers_bitmap(signers, size),
           weight    |-> SumOfWeights(usable)]
  BY <1>1 DEF build_certificate, kept, usable, signers
<1> QED
  BY <1>2 DEF IsCertificate

-----------------------------------------------------------------------------
(* Induction over the natural numbers, with a set in place of a predicate. *)

LEMMA SetInduction ==
  ASSUME NEW S, 0 \in S, \A n \in Nat : n \in S => n + 1 \in S
  PROVE  Nat \subseteq S
<1> SUFFICES ASSUME Nat \ S # {} PROVE FALSE
  OBVIOUS
<1> DEFINE less == OpToRel(<, Nat)
<1>1. \A m, n \in Nat : <<m, n>> \in less <=> m < n
  BY DEF OpToRel
<1>2. IsWellFoundedOn(less, Nat)
  BY NatLessThanWellFounded DEF OpToRel
<1> HIDE DEF less
<1>3. PICK n \in Nat \ S : \A m \in Nat \ S : <<m, n>> \notin less
  BY <1>2, WFMin
<1>4. n # 0 /\ n - 1 \in Nat /\ n - 1 < n
  BY <1>3
<1>5. n - 1 \in S
  BY <1>1, <1>3, <1>4
<1> QED
  BY <1>3, <1>4, <1>5

(* A recursion along 0 .. N, each value computed from the one before it and the
   index, has a solution. *)
Steps(N, A) == [1 .. N -> [A -> A]]

Solves(f, N, A, base, step) ==
  /\ f \in [0 .. N -> A]
  /\ f[0] = base /\ \A i \in 1 .. N : f[i] = step[i][f[i - 1]]

LEMMA RecursionExists ==
  ASSUME NEW N \in Nat, NEW A, NEW base \in A, NEW step \in Steps(N, A)
  PROVE  \E f : Solves(f, N, A, base, step)
<1> SUFFICES \E f \in [0 .. N -> A] :
              f[0] = base /\ \A i \in 1 .. N : f[i] = step[i][f[i - 1]]
  BY DEF Solves
<1> USE DEF Steps
<1> DEFINE Solved(f, n) == f[0] = base /\ \A i \in 1 .. n : f[i] = step[i][f[i - 1]]
           S == {n \in Nat : n <= N => \E f \in [0 .. n -> A] : Solved(f, n)}
<1>1. 0 \in S
  <2>1. [i \in 0 .. 0 |-> base] \in [0 .. 0 -> A] /\ Solved([i \in 0 .. 0 |-> base], 0)
    OBVIOUS
  <2> QED
    BY <2>1
<1>2. ASSUME NEW n \in Nat, n \in S PROVE n + 1 \in S
  <2> SUFFICES ASSUME n + 1 <= N PROVE \E f \in [0 .. n + 1 -> A] : Solved(f, n + 1)
    OBVIOUS
  <2>1. PICK g \in [0 .. n -> A] : Solved(g, n)
    BY <1>2
  <2> DEFINE f == [i \in 0 .. n + 1 |-> IF i = n + 1 THEN step[i][g[n]] ELSE g[i]]
  <2>2. step[n + 1][g[n]] \in A
    OBVIOUS
  <2>3. f \in [0 .. n + 1 -> A]
    BY <2>2
  <2>4. Solved(f, n + 1)
    <3>1. f[0] = base
      BY <2>1
    <3>2. ASSUME NEW i \in 1 .. n + 1 PROVE f[i] = step[i][f[i - 1]]
      <4>1. i - 1 \in 0 .. n /\ f[i - 1] = g[i - 1]
        OBVIOUS
      <4> QED
        BY <2>1, <4>1
    <3> QED
      BY <3>1, <3>2
  <2> QED
    BY <2>3, <2>4
<1> HIDE DEF S
<1>3. N \in S
  BY <1>1, <1>2, SetInduction
<1> QED
  BY <1>3 DEF S

-----------------------------------------------------------------------------
(* Blob IDs.  The value of an ID is the limit of its prefixes; its remainder can
   be taken byte by byte, without the large number ever being formed. *)

LEMMA BytesAreNatural ==
  ASSUME NEW bytes \in Seq(Byte)
  PROVE  Len(bytes) \in Nat /\ \A i \in 1 .. Len(bytes) : bytes[i] \in Nat
<1>1. Len(bytes) \in Nat
  OBVIOUS
<1>2. \A i \in 1 .. Len(bytes) : bytes[i] \in Byte
  OBVIOUS
<1>3. \A byte \in Byte : byte \in Nat
  BY DEF Byte
<1> QED
  BY <1>1, <1>2, <1>3

LEMMA DivisionWithRest ==
  ASSUME NEW n \in Nat \ {0}, NEW x \in Nat
  PROVE  x \div n \in Nat /\ x % n \in Nat /\ x = n * (x \div n) + (x % n)
OBVIOUS

LEMMA BigEndianPrefixes ==
  ASSUME NEW bytes \in Seq(Byte)
  PROVE  \E value \in [0 .. Len(bytes) -> Nat] :
           /\ value[0] = 0
           /\ \A i \in 1 .. Len(bytes) : value[i] = 256 * value[i - 1] + bytes[i]
           /\ BigEndian(bytes) = value[Len(bytes)]
<1> DEFINE N == Len(bytes)
           step == [i \in 1 .. N |-> [v \in Nat |-> 256 * v + bytes[i]]]
           Whole(f) == [i \in 0 .. N |-> IF i = 0 THEN 0 ELSE 256 * f[i - 1] + bytes[i]]
           value == CHOOSE f : f = Whole(f)
<1>1. N \in Nat /\ \A i \in 1 .. N : bytes[i] \in Nat
  BY BytesAreNatural
<1>2. step \in [1 .. N -> [Nat -> Nat]]
  BY <1>1
<1>3. \A i \in 1 .. N : \A v \in Nat : step[i][v] = 256 * v + bytes[i]
  OBVIOUS
<1>4. BigEndian(bytes) = value[N]
  BY DEF BigEndian
<1> HIDE DEF step, N
<1>5. PICK f \in [0 .. N -> Nat] :
        f[0] = 0 /\ \A i \in 1 .. N : f[i] = step[i][f[i - 1]]
  <2>1. N \in Nat /\ 0 \in Nat /\ step \in Steps(N, Nat)
    BY <1>1, <1>2 DEF Steps
  <2>2. \E f : Solves(f, N, Nat, 0, step)
    BY <2>1, RecursionExists, Zenon
  <2> QED
    BY <2>2 DEF Solves
<1>6. \A i \in 1 .. N : f[i - 1] \in Nat /\ f[i] = 256 * f[i - 1] + bytes[i]
  <2> TAKE i \in 1 .. N
  <2>1. i - 1 \in 0 .. N
    BY <1>1
  <2>2. f[i - 1] \in Nat
    BY <2>1
  <2> QED
    BY <1>3, <1>5, <2>2
<1>7. \A i \in 0 .. N : f[i] = Whole(f)[i]
  BY <1>1, <1>5, <1>6
<1>8. f = Whole(f)
  BY <1>7
<1>9. value = Whole(value)
  BY <1>8
<1>10. value \in [0 .. N -> Nat] /\ value[0] = 0
       /\ \A i \in 1 .. N : value[i] = 256 * value[i - 1] + bytes[i]
  <2>1. /\ DOMAIN value = 0 .. N /\ value = [i \in 0 .. N |-> value[i]]
        /\ value[0] = 0
        /\ \A i \in 1 .. N : value[i] = 256 * value[i - 1] + bytes[i]
    <3> HIDE DEF value
    <3>1. DOMAIN value = 0 .. N /\ value = [i \in 0 .. N |-> value[i]]
          /\ \A i \in 0 .. N : value[i] = IF i = 0 THEN 0 ELSE 256 * value[i - 1] + bytes[i]
      BY <1>9
    <3>2. 0 \in 0 .. N /\ \A i \in 1 .. N : i \in 0 .. N /\ i # 0
      BY <1>1
    <3>3. value[0] = 0
      BY <3>1, <3>2
    <3>4. \A i \in 1 .. N : value[i] = 256 * value[i - 1] + bytes[i]
      BY <3>1, <3>2
    <3> QED
      BY <3>1, <3>3, <3>4
  <2> DEFINE S == {i \in Nat : i <= N => value[i] \in Nat}
  <2> HIDE DEF value
  <2>2. 0 \in S
    BY <2>1
  <2>3. ASSUME NEW i \in Nat, i \in S PROVE i + 1 \in S
    <3> SUFFICES ASSUME i + 1 <= N PROVE value[i + 1] \in Nat
      OBVIOUS
    <3>1. i + 1 \in 1 .. N /\ (i + 1) - 1 = i /\ value[i] \in Nat
      BY <1>1, <2>3
    <3>2. value[i + 1] = 256 * value[i] + bytes[i + 1] /\ bytes[i + 1] \in Nat
      BY <1>1, <2>1, <3>1
    <3> QED
      BY <3>1, <3>2
  <2> HIDE DEF S
  <2>4. Nat \subseteq S
    BY <2>2, <2>3, SetInduction
  <2>5. \A i \in 0 .. N : value[i] \in Nat
    BY <1>1, <2>4 DEF S
  <2> QED
    BY <2>1, <2>5
<1> QED
  BY <1>4, <1>10 DEF N

LEMMA BigEndianIsNatural ==
  ASSUME NEW bytes \in Seq(Byte)
  PROVE  BigEndian(bytes) \in Nat
<1>1. Len(bytes) \in 0 .. Len(bytes)
  OBVIOUS
<1> QED
  BY <1>1, BigEndianPrefixes

(* A multiple of n in front of a number does not change its remainder. *)
LEMMA RemainderOfSum ==
  ASSUME NEW n \in Nat \ {0}, NEW k \in Nat, NEW x \in Nat
  PROVE  (n * k + x) % n = x % n
<1> DEFINE q == x \div n
           r == x % n
<1>1. q \in Int /\ r \in 0 .. n - 1 /\ x = n * q + r
  OBVIOUS
<1> DEFINE y == n * k + x
           p == y \div n
           s == y % n
<1>2. y \in Nat
  OBVIOUS
<1>3. p \in Int /\ s \in 0 .. n - 1 /\ y = n * p + s
  BY <1>2
<1>4. n * (p - k - q) = r - s
  BY <1>1, <1>3
<1> HIDE DEF p, s, q, r, y
<1>5. ASSUME NEW d \in Int, n * d = r - s PROVE d = 0
  <2>1. d >= 1 => n * d >= n
    OBVIOUS
  <2>2. d <= -1 => n * d <= -n
    OBVIOUS
  <2> QED
    BY <1>1, <1>3, <1>5, <2>1, <2>2
<1>6. p - k - q = 0
  BY <1>1, <1>3, <1>4, <1>5
<1>7. r - s = 0
  BY <1>1, <1>3, <1>4, <1>6
<1> QED
  BY <1>1, <1>3, <1>7 DEF r, s, y

(* The remainder of a blob ID, taken byte by byte. *)
LEMMA RemainderOfPrefixes ==
  ASSUME NEW n \in Nat \ {0}, NEW bytes \in Seq(Byte),
         NEW remainder, remainder[0] = 0,
         \A i \in 1 .. Len(bytes) : remainder[i] = (256 * remainder[i - 1] + bytes[i]) % n
  PROVE  remainder[Len(bytes)] = BigEndian(bytes) % n
<1> DEFINE N == Len(bytes)
<1>1. N \in Nat /\ \A i \in 1 .. N : bytes[i] \in Nat
  BY BytesAreNatural
<1>2. PICK value \in [0 .. N -> Nat] :
        /\ value[0] = 0
        /\ \A i \in 1 .. N : value[i] = 256 * value[i - 1] + bytes[i]
        /\ BigEndian(bytes) = value[N]
  BY BigEndianPrefixes
<1>3. remainder[0] = 0
      /\ \A i \in 1 .. N : remainder[i] = (256 * remainder[i - 1] + bytes[i]) % n
  OBVIOUS
<1> HIDE DEF N
<1> DEFINE S == {i \in Nat : i <= N => remainder[i] = value[i] % n}
<1>4. 0 \in S
  BY <1>2, <1>3
<1>5. ASSUME NEW i \in Nat, i \in S PROVE i + 1 \in S
  <2> SUFFICES ASSUME i + 1 <= N PROVE remainder[i + 1] = value[i + 1] % n
    OBVIOUS
  <2>1. i \in 0 .. N /\ i + 1 \in 1 .. N /\ (i + 1) - 1 = i /\ i <= N
    BY <1>1
  <2>2. value[i] \in Nat /\ bytes[i + 1] \in Nat
    BY <1>1, <1>2, <2>1
  <2>8. remainder[i] = value[i] % n
    BY <1>5, <2>1
  <2>3. value[i + 1] = 256 * value[i] + bytes[i + 1]
    BY <1>2, <2>1
  <2>9. remainder[i + 1] = (256 * remainder[i] + bytes[i + 1]) % n
    BY <1>3, <2>1
  <2>4. remainder[i + 1] = (256 * (value[i] % n) + bytes[i + 1]) % n
    BY <2>8, <2>9
  <2> DEFINE v == value[i]
             b == bytes[i + 1]
             q == v \div n
             r == v % n
  <2>5. q \in Nat /\ r \in Nat /\ v = n * q + r
    BY <2>2, DivisionWithRest
  <2>10. v \in Nat /\ b \in Nat
    BY <2>2
  <2> HIDE DEF v, b, q, r
  <2>6. 256 * v + b = n * (256 * q) + (256 * r + b)
    BY <2>5, <2>10
  <2>11. 256 * q \in Nat /\ 256 * r + b \in Nat
    BY <2>5, <2>10
  <2> DEFINE k == 256 * q
             x == 256 * r + b
  <2> HIDE DEF k, x
  <2>12. k \in Nat /\ x \in Nat
    BY <2>11 DEF k, x
  <2>13. (n * k + x) % n = x % n
    BY <2>12, RemainderOfSum
  <2>7. (n * (256 * q) + (256 * r + b)) % n = (256 * r + b) % n
    BY <2>13 DEF k, x
  <2> QED
    BY <2>3, <2>4, <2>6, <2>7 DEF v, b, r
<1> HIDE DEF S
<1>6. N \in S
  BY <1>1, <1>4, <1>5, SetInduction
<1> QED
  BY <1>1, <1>2, <1>6 DEF S, N

-----------------------------------------------------------------------------
(* The rotation. *)

LEMMA ModuloTwice ==
  ASSUME NEW N \in Nat \ {0}, NEW j \in 0 .. N - 1
  PROVE  j % N = j /\ (j + N) % N = j
OBVIOUS

(* Writers place a sliver on the shard where readers look for it. *)
THEOREM RotationsAreInverse ==
  ASSUME NEW n \in Nat \ {0}, NEW id \in Seq(Byte), NEW pair \in 0 .. n - 1
  PROVE  shard_index_to_pair_index(pair_index_to_shard_index(pair, id, n), id, n) = pair
<1> DEFINE rot == BigEndian(id) % n
           shard == (pair + rot) % n
<1>1. rot \in 0 .. n - 1
  BY BigEndianIsNatural
<1>2. shard_index_to_pair_index(pair_index_to_shard_index(pair, id, n), id, n)
        = (n + shard - rot) % n
  BY DEF shard_index_to_pair_index, pair_index_to_shard_index, rotation_offset
<1> HIDE DEF rot
<1>3. CASE pair + rot < n
  <2>1. shard = pair + rot
    BY <1>1, <1>3, ModuloTwice
  <2>2. n + shard - rot = pair + n
    BY <1>1, <2>1
  <2> QED
    BY <1>2, <2>2, ModuloTwice
<1>4. CASE pair + rot >= n
  <2>1. pair + rot - n \in 0 .. n - 1 /\ (pair + rot - n) + n = pair + rot
    BY <1>1, <1>4
  <2>2. shard = pair + rot - n
    BY <2>1, ModuloTwice
  <2>3. n + shard - rot = pair
    BY <1>1, <2>2
  <2> QED
    BY <1>2, <2>3, ModuloTwice
<1> QED
  BY <1>1, <1>3, <1>4

-----------------------------------------------------------------------------
(* The geometry that a reader shares with the writer. *)

(* Of the shards that confirmed a blob enough to decode it are left after f
   have failed, for every committee size; a third of the shards is more than f,
   and the honest ones alone are a quorum. *)
THEOREM QuorumOutlivesFaults ==
  ASSUME NEW n \in Nat \ {0}, NEW w \in Nat
  PROVE  LET f == max_n_faulty(n)
         IN  /\ is_quorum(w, n) => w - f >= source_symbol_counts(n).primary
             /\ is_quorum(w, n) => w >= source_symbol_counts(n).secondary
             /\ is_above_validity(w, n) => w > f
             /\ is_quorum(n - f, n)
BY DEF max_n_faulty, source_symbol_counts, min_n_correct, is_quorum,
       is_above_validity

(* What the negated floor divisions of symbol_size and AlignUp compute. *)
LEMMA CeilDivIsLeast ==
  ASSUME NEW a \in Nat, NEW b \in Nat \ {0}
  PROVE  /\ CeilDiv(a, b) \in Int
         /\ CeilDiv(a, b) * b >= a
         /\ (CeilDiv(a, b) - 1) * b < a
<1> DEFINE q == (-a) \div b
<1>1. q \in Int /\ -a = b * q + ((-a) % b) /\ (-a) % b \in 0 .. b - 1
  OBVIOUS
<1>2. CeilDiv(a, b) = -q
  BY DEF CeilDiv
<1> HIDE DEF q
<1>3. /\ -q \in Int
      /\ (-q) * b = -(b * q)
      /\ (-q - 1) * b = -(b * q) - b
  BY <1>1
<1> QED
  BY <1>1, <1>2, <1>3

LEMMA ProductMonotone ==
  ASSUME NEW a \in Int, NEW b \in Int, NEW k \in Nat, a <= b
  PROVE  a * k \in Int /\ b * k \in Int /\ a * k <= b * k
<1>1. (b - a) * k >= 0 /\ b * k = a * k + (b - a) * k
  OBVIOUS
<1> QED
  BY <1>1

(* The symbol size that readers and writers compute alike is the least aligned
   one with which the blob fits. *)
THEOREM SymbolSizeIsLeast ==
  ASSUME NEW n \in Nat \ {0}, NEW length \in Nat
  PROVE  LET size == symbol_size(length, n)
         IN  /\ size \in Nat \ {0} /\ size % RS2_REQUIRED_ALIGNMENT = 0
             /\ length <= max_blob_size(n, size)
             /\ \A other \in Nat \ {0} :
                  other % RS2_REQUIRED_ALIGNMENT = 0 /\ length <= max_blob_size(n, other)
                    => size <= other
<1> DEFINE symbols == Symbols(n)
           content == IF length = 0 THEN 1 ELSE length
           least   == CeilDiv(content, symbols)
           size    == symbol_size(length, n)
<1>1. symbols \in Nat \ {0}
  <2>1. /\ source_symbol_counts(n).primary \in Nat \ {0}
        /\ source_symbol_counts(n).secondary \in Nat \ {0}
    BY DEF source_symbol_counts, min_n_correct, max_n_faulty
  <2>2. \A a, b \in Nat \ {0} : a * b \in Nat \ {0}
    OBVIOUS
  <2> QED
    BY <2>1, <2>2 DEF Symbols
<1>2. content \in Nat \ {0} /\ length <= content
  OBVIOUS
<1>3. size = CeilDiv(least, 2) * 2
  BY DEF symbol_size, AlignUp, RS2_REQUIRED_ALIGNMENT
<1>4. \A x \in Int : max_blob_size(n, x) = x * symbols
  <2>1. \A x \in Int : symbols * x = x * symbols
    BY <1>1
  <2> QED
    BY <2>1 DEF max_blob_size
<1> HIDE DEF symbols, size, content
<1>5. least \in Int /\ least * symbols >= content /\ (least - 1) * symbols < content
  BY <1>1, <1>2, CeilDivIsLeast
<1> HIDE DEF least
<1>6. least >= 1
  <2> SUFFICES ASSUME least <= 0 PROVE FALSE
    BY <1>5
  <2>1. least * symbols <= 0 * symbols
    BY <1>1, <1>5, ProductMonotone
  <2> QED
    BY <1>1, <1>2, <1>5, <2>1
<1>7. size \in Nat \ {0} /\ size % 2 = 0 /\ least <= size /\ size <= least + 1
  BY <1>3, <1>5, <1>6 DEF CeilDiv
<1>8. length <= max_blob_size(n, size)
  <2>1. /\ least * symbols \in Int /\ size * symbols \in Int
        /\ least * symbols <= size * symbols
    BY <1>1, <1>5, <1>7, ProductMonotone
  <2>2. max_blob_size(n, size) = size * symbols
    BY <1>4, <1>7
  <2> QED
    BY <1>2, <1>5, <2>1, <2>2
<1>9. ASSUME NEW other \in Nat \ {0}, other % 2 = 0, length <= max_blob_size(n, other)
      PROVE  size <= other
  <2> SUFFICES ASSUME other < size PROVE FALSE
    BY <1>7
  <2>1. other <= least - 1
    BY <1>5, <1>7, <1>9
  <2>2. other * symbols <= (least - 1) * symbols
    BY <1>1, <1>5, <2>1, ProductMonotone
  <2>3. 1 * symbols <= other * symbols
    BY <1>1, ProductMonotone
  <2>4. max_blob_size(n, other) = other * symbols
    BY <1>4
  <2>5. /\ other * symbols \in Int /\ (least - 1) * symbols \in Int
        /\ 1 * symbols = symbols
    BY <1>1, <1>5
  <2>6. content <= other * symbols
    BY <1>1, <1>9, <2>3, <2>4, <2>5 DEF content
  <2> QED
    BY <1>2, <1>5, <2>2, <2>5, <2>6
<1> QED
  BY <1>7, <1>8, <1>9 DEF RS2_REQUIRED_ALIGNMENT, size
=============================================================================
