---------------------------- MODULE MCRelayWrite ----------------------------
(***************************************************************************)
(* A committee of three holding 2, 1 and 1 of four shards, quorum 3.  The  *)
(* relay quotes no tip, a flat one, or one that depends on the length: a   *)
(* blob of nine bytes is encoded in 1192 (RedStuff), two started KiB, so   *)
(* the linear kinds ask 3, which is the ceiling, and 4.  Its certificates  *)
(* are sound or not, for this blob or another, of a quorum, of the heavy   *)
(* member named twice (whose weight would be a quorum if it counted twice),*)
(* of a stranger, of nobody, or no certificate at all.                     *)
(***************************************************************************)
EXTENDS RelayWrite

Code == INSTANCE RedStuff

MCEncodedLength == Code!encoded_blob_length(9, n_shards)

MCKinds ==
  {None, [amount |-> 1]}
    \cup [base : {1, 2}, encoded_size_mul_per_kib : {1}]

MCWeight == [p \in 0 .. 2 |-> IF p = 0 THEN 2 ELSE 1]

MCPayloads ==
  [form : {"certificate"}, confirms : {"this blob"}, epoch : {0}, sound : BOOLEAN,
   signers : {<<0, 2>>, <<0, 0>>, <<0, 3>>, <<>>}]
    \cup [form : {"certificate", "garbage"}, confirms : {"another blob"}, epoch : {0},
          sound : {TRUE}, signers : {<<0, 1>>}]
=============================================================================
