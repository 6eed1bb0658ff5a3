------------------------------ MODULE RedStuff ------------------------------
(***************************************************************************)
(* pytusk/core/encoding/redstuff.py: the geometry of the Red Stuff code,   *)
(* which every reader and writer of a blob has to compute alike: how many  *)
(* symbols an axis needs, how large a symbol and the encoded blob are, and *)
(* which sliver pair a shard holds.  The code itself is a native library,  *)
(* modelled where slivers are decoded (NativeRead).                        *)
(*                                                                         *)
(* A blob ID is a sequence of bytes.                                       *)
(***************************************************************************)
EXTENDS Integers, Sequences, SequencesExt

RS2_REQUIRED_ALIGNMENT == 2
DIGEST_LEN  == 32
BLOB_ID_LEN == 32

-----------------------------------------------------------------------------
(* Source symbols.  f is the number of shards that may be faulty. *)

max_n_faulty(n_shards) == (n_shards - 1) \div 3

min_n_correct(n_shards) == n_shards - max_n_faulty(n_shards)

source_symbol_counts(n_shards) ==
  [primary   |-> min_n_correct(n_shards) - max_n_faulty(n_shards),
   secondary |-> min_n_correct(n_shards)]

-----------------------------------------------------------------------------
(* Sizes in bytes. *)

CeilDiv(a, b) == -((-a) \div b)

AlignUp(size) == CeilDiv(size, RS2_REQUIRED_ALIGNMENT) * RS2_REQUIRED_ALIGNMENT

Symbols(n_shards) ==
  source_symbol_counts(n_shards).primary * source_symbol_counts(n_shards).secondary

max_blob_size(n_shards, max_symbol_size) == Symbols(n_shards) * max_symbol_size

(* An empty blob is encoded as a blob of length one. *)
symbol_size(blob_length, n_shards) ==
  AlignUp(CeilDiv(IF blob_length = 0 THEN 1 ELSE blob_length, Symbols(n_shards)))

metadata_length(n_shards) == n_shards * DIGEST_LEN * 2 + BLOB_ID_LEN

encoded_blob_length(unencoded_length, n_shards) ==
  LET counts == source_symbol_counts(n_shards)
  IN  n_shards * ((counts.primary + counts.secondary)
                      * symbol_size(unencoded_length, n_shards)
                    + metadata_length(n_shards))

-----------------------------------------------------------------------------
(* Shards and sliver pairs. *)

Byte == 0 .. 255

(* The value of the first i bytes, for every i. *)
BigEndian(bytes) ==
  LET value[i \in 0 .. Len(bytes)] ==
        IF i = 0 THEN 0 ELSE 256 * value[i - 1] + bytes[i]
  IN  value[Len(bytes)]

blob_id_to_u256(blob_id) == BigEndian(Reverse(blob_id))

rotation_offset(blob_id, n_shards) == BigEndian(blob_id) % n_shards

(* Broken: the rotation is taken from the Move value of the blob ID. *)
pair_by_move_value(shard_index, blob_id, n_shards) ==
  (n_shards + shard_index - (blob_id_to_u256(blob_id) % n_shards)) % n_shards

shard_index_to_pair_index(shard_index, blob_id, n_shards) ==
  (n_shards + shard_index - rotation_offset(blob_id, n_shards)) % n_shards

pair_index_to_shard_index(pair_index, blob_id, n_shards) ==
  (pair_index + rotation_offset(blob_id, n_shards)) % n_shards
=============================================================================
