--------------------------- MODULE Certification ---------------------------
(***************************************************************************)
(* pytusk/core/certification.py: the shard arithmetic of the Walrus        *)
(* thresholds, the signers bitmap, and the assembly of a certificate from  *)
(* per-node confirmations.                                                 *)
(*                                                                         *)
(* BLS is abstracted to what the code can observe of it: a signature is    *)
(* "valid" (it verifies under the node's key over the message the node     *)
(* returned), "wrong" (it parses and does not verify) or "malformed"       *)
(* (bls_verify and bls_aggregate raise ValueError on it).  An aggregate is *)
(* the set of signatures put into it, and verifies when all of them do.    *)
(***************************************************************************)
EXTENDS Integers, FiniteSets

-----------------------------------------------------------------------------
(* Thresholds.  Weights are shard counts. *)

(* Broken: exactly two thirds are taken for a quorum. *)
is_two_thirds(weight, n_shards) == 3 * weight >= 2 * n_shards

is_quorum(weight, n_shards) == 3 * weight >= 2 * n_shards + 1

min_weight_for_quorum(n_shards) == -((-(2 * n_shards + 1)) \div 3)

is_above_validity(weight, n_shards) == 3 * weight >= n_shards + 1

min_weight_for_validity(n_shards) == -((-(n_shards + 1)) \div 3)

-----------------------------------------------------------------------------
(* Bitmaps: one byte is the set of its bits that are set, LSB first. *)

Positions(committee_size) == 0 .. committee_size - 1

bitmap_length(committee_size) == (committee_size + 7) \div 8

(* pack raises ValueError on a position outside the committee. *)
can_pack(signers, committee_size) == signers \subseteq Positions(committee_size)

pack_signers_bitmap(signers, committee_size) ==
  [byte \in 0 .. bitmap_length(committee_size) - 1 |->
     {position % 8 : position \in {p \in signers : p \div 8 = byte}}]

unpack_signers_bitmap(bitmap, committee_size) ==
  {p \in Positions(committee_size) : p % 8 \in bitmap[p \div 8]}

-----------------------------------------------------------------------------
(* Confirmations and certificates. *)

Signatures == {"valid", "wrong", "malformed"}

bls_verify(confirmation) == confirmation.signature = "valid"

(* verify_certificate: the aggregate checked against the public keys of the
   claimed signers; a malformed input is not an exception but FALSE. *)
verify_certificate(certificate, signers) ==
  /\ certificate.aggregate = signers
  /\ certificate.sound

SumOfWeights(confirmations) ==
  Cardinality(UNION {{c} \X (1 .. confirmations[c].weight)
                       : c \in DOMAIN confirmations})

(* Broken: nothing is left out; or everything is as soon as one is bad. *)
KeptAll(confirmations) == DOMAIN confirmations
KeptAllOrNothing(confirmations) ==
  {c \in DOMAIN confirmations :
     \A d \in DOMAIN confirmations : bls_verify(confirmations[d])}

(* confirmations maps each answered request to the confirmation it brought.
   Every one must carry the expected message; those whose signature does not
   verify are left out (the aggregate-first path is the case where there are
   none); two requests to one member are an error of the caller. *)
Kept(confirmations) == {c \in DOMAIN confirmations : bls_verify(confirmations[c])}

build_certificate(confirmations, committee_size, n_shards, expected_message) ==
  LET kept    == Kept(confirmations)
      usable  == [c \in kept |-> confirmations[c]]
      signers == {usable[c].position : c \in kept}
  IN  IF DOMAIN confirmations = {} THEN [error |-> "ValueError"]
      ELSE IF \E c \in DOMAIN confirmations :
                confirmations[c].message # expected_message
           THEN [error |-> "ConfirmationMismatchError"]
      ELSE IF kept = {} THEN [error |-> "InvalidConfirmationError"]
      ELSE IF Cardinality(signers) # Cardinality(kept)
           THEN [error |-> "ValueError"]
      ELSE IF ~ is_quorum(SumOfWeights(usable), n_shards)
           THEN [error |-> "QuorumNotReachedError"]
      ELSE IF ~ can_pack(signers, committee_size) THEN [error |-> "ValueError"]
      ELSE [message   |-> expected_message,
            aggregate |-> signers,
            sound     |-> \A c \in kept : bls_verify(usable[c]),
            bitmap    |-> pack_signers_bitmap(signers, committee_size),
            weight    |-> SumOfWeights(usable)]

IsCertificate(result) == "error" \notin DOMAIN result
=============================================================================
