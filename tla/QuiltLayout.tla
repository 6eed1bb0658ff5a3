---------------------------- MODULE QuiltLayout ----------------------------
(***************************************************************************)
(* pytusk/core/encoding/quilt.py: how several small blobs are packed into  *)
(* one quilt.  The quilt is a matrix of symbols, one row per primary and   *)
(* one column per secondary source symbol; every blob takes whole columns, *)
(* the index the first ones, and is written down its columns.  The index   *)
(* names for each blob the columns it ends at, which is all a reader has   *)
(* to find it again.                                                       *)
(*                                                                         *)
(* A patch is [identifier, identifier_length, tags_length, contents]: its  *)
(* name as a number (names are sorted), the serialized lengths of its name *)
(* and its tags (0 when it has none), and the length of its contents.  A   *)
(* byte is <<blob, section, position>>; the index is blob 0.               *)
(***************************************************************************)
EXTENDS RedStuff, FiniteSets, FiniteSetsExt

CONSTANTS MAX_NUM_SLIVERS_FOR_QUILT_INDEX, RS2_MAX_SYMBOL_SIZE

ASSUME LimitsAssumption ==
  /\ MAX_NUM_SLIVERS_FOR_QUILT_INDEX \in Nat \ {0}
  /\ RS2_MAX_SYMBOL_SIZE \in Nat

QUILT_INDEX_PREFIX_SIZE           == 5
QUILT_PATCH_BLOB_HEADER_SIZE      == 6
BLOB_IDENTIFIER_SIZE_BYTES_LENGTH == 2
TAGS_SIZE_BYTES_LENGTH            == 2
END_INDEX_LENGTH                  == 2

Padding == <<>>

LOCAL Sum(s) == FoldLeft(LAMBDA a, b : a + b, 0, s)

-----------------------------------------------------------------------------
(* The smallest symbol size at which every blob fits in whole columns. *)

can_blobs_fit(blob_sizes, n_columns, column_size) ==
  /\ column_size > 0
  /\ Sum([b \in DOMAIN blob_sizes |-> CeilDiv(blob_sizes[b], column_size)]) <= n_columns

bisect(blob_sizes, n_columns, n_rows, min_val, max_val) ==
  LET search[low \in Nat, high \in Nat] ==
        LET mid == (low + high) \div 2
        IN  IF low >= high THEN low
            ELSE IF can_blobs_fit(blob_sizes, n_columns, mid * n_rows)
                   THEN search[low, mid] ELSE search[mid + 1, high]
  IN  search[min_val, max_val]

(* 0 stands for QuiltAssemblyError. *)
compute_symbol_size(blob_sizes, n_columns, n_rows) ==
  LET blobs   == Len(blob_sizes)
      min_val == Max({CeilDiv(Sum(blob_sizes), n_columns * n_rows),
                      CeilDiv(blob_sizes[1], n_rows * MAX_NUM_SLIVERS_FOR_QUILT_INDEX),
                      CeilDiv(QUILT_INDEX_PREFIX_SIZE, n_rows)})
      max_val == CeilDiv(Max(ToSet(blob_sizes)), (n_columns \div blobs) * n_rows)
      size    == AlignUp(bisect(blob_sizes, n_columns, n_rows, min_val, max_val))
  IN  IF blobs > n_columns THEN 0
      ELSE IF /\ can_blobs_fit(blob_sizes, n_columns, size * n_rows)
              /\ size <= RS2_MAX_SYMBOL_SIZE
             THEN size ELSE 0

-----------------------------------------------------------------------------
(* Writing a blob down the columns from start_column on. *)

Offset(geometry, i, start_column) ==
  LET symbol == i \div geometry.symbol_size
  IN  (symbol % geometry.n_rows) * geometry.row_size
        + (start_column + symbol \div geometry.n_rows) * geometry.symbol_size
        + (i % geometry.symbol_size)

(* A write past the end of the matrix raises; here it leaves no quilt. *)
write_bytes(geometry, quilt, data, bytes_written, start_column) ==
  LET at == [k \in DOMAIN data |-> Offset(geometry, bytes_written + k - 1, start_column)]
  IN  IF quilt = <<>> \/ \E k \in DOMAIN data : at[k] \notin DOMAIN quilt THEN <<>>
      ELSE FoldLeft(LAMBDA written, k : [written EXCEPT ![at[k]] = data[k]],
                    quilt, [k \in DOMAIN data |-> k])

(* Broken: the contents start at a symbol of their own after the metadata. *)
write_blob_aligned(geometry, quilt, prefix, blob, start_column) ==
  write_bytes(geometry, write_bytes(geometry, quilt, prefix, 0, start_column), blob,
              AlignUp(Len(prefix)), start_column)

write_blob_to_quilt(geometry, quilt, prefix, blob, start_column) ==
  write_bytes(geometry, write_bytes(geometry, quilt, prefix, 0, start_column), blob,
              Len(prefix), start_column)

-----------------------------------------------------------------------------
(* The quilt. *)

blob_metadata_size(patch) ==
  QUILT_PATCH_BLOB_HEADER_SIZE + BLOB_IDENTIFIER_SIZE_BYTES_LENGTH + patch.identifier_length
    + (IF patch.tags_length = 0 THEN 0 ELSE TAGS_SIZE_BYTES_LENGTH + patch.tags_length)

(* end_index has a fixed width, so the size is known before the ranges are: a
   vector of [end_index, identifier, tags], whose tags are counted even if none. *)
index_size(patches) ==
  QUILT_INDEX_PREFIX_SIZE + 1
    + Sum([p \in DOMAIN patches |-> END_INDEX_LENGTH + patches[p].identifier_length
                                      + Max({1, patches[p].tags_length})])

Bytes(blob, section, length) == [i \in 1 .. length |-> <<blob, section, i>>]

(* NoQuilt stands for QuiltAssemblyError. *)
NoQuilt == [symbol_size |-> 0]

(* The blobs in their columns and then the index, with ends as the column after each
   blob, the index being the first. *)
written(ordered, geometry, ends, index) ==
  LET empty  == [o \in 0 .. geometry.row_size * geometry.n_rows - 1 |-> Padding]
      filled == FoldLeft(LAMBDA quilt, p :
                           write_blob_to_quilt(geometry, quilt,
                             Bytes(p, "metadata", blob_metadata_size(ordered[p])),
                             Bytes(p, "contents", ordered[p].contents), ends[p]),
                         empty, [p \in DOMAIN ordered |-> p])
  IN  write_blob_to_quilt(geometry, filled, <<>>, Bytes(0, "index", index), 0)

end_columns(sizes, column_size) ==
  LET ends[b \in 1 .. Len(sizes)] ==
        CeilDiv(sizes[b], column_size) + (IF b = 1 THEN 0 ELSE ends[b - 1])
  IN  ends

quilt_in_columns(ordered, sizes, geometry, ends) ==
  IF ends[1] > MAX_NUM_SLIVERS_FOR_QUILT_INDEX THEN NoQuilt
  ELSE [symbol_size |-> geometry.symbol_size, geometry |-> geometry,
        patches |-> [p \in DOMAIN ordered |->
                       [identifier |-> ordered[p].identifier,
                        start_index |-> ends[p], end_index |-> ends[p + 1]]],
        quilt |-> written(ordered, geometry, ends, sizes[1])]

quilt_of_size(ordered, sizes, counts, size) ==
  IF size = 0 THEN NoQuilt
  ELSE quilt_in_columns(ordered, sizes,
         [symbol_size |-> size, n_rows |-> counts.primary, row_size |-> size * counts.secondary],
         end_columns(sizes, size * counts.primary))

sizes_of(ordered) ==
  <<index_size(ordered)>>
    \o [p \in DOMAIN ordered |-> blob_metadata_size(ordered[p]) + ordered[p].contents]

assemble_quilt(patches, n_shards) ==
  LET ordered == SortSeq(patches, LAMBDA p, q : p.identifier < q.identifier)
      sizes   == sizes_of(ordered)
      counts  == source_symbol_counts(n_shards)
  IN  IF patches = <<>> \/ Cardinality({p.identifier : p \in ToSet(patches)}) < Len(patches)
        THEN NoQuilt
      ELSE quilt_of_size(ordered, sizes, counts,
                         compute_symbol_size(sizes, counts.secondary, counts.primary))
=============================================================================
