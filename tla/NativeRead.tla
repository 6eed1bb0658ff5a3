----------------------------- MODULE NativeRead -----------------------------
(***************************************************************************)
(* read_blob_native (pytusk/core/pipelines/read.py): a blob is rebuilt     *)
(* from the slivers of storage nodes that may be down or lying.  Metadata  *)
(* comes from the first node that has some that verifies and is of the     *)
(* blob asked for; slivers come from one fan-out; when they do not decode, *)
(* each is verified, the nodes that served the bad ones are barred, and    *)
(* one more fan-out replaces them.                                         *)
(*                                                                         *)
(* The read is one coroutine: pc is the await it is suspended at, or the   *)
(* synchronous step between two of them.  The fan-out is modelled by its   *)
(* contract, CommitteeTally, which CommitteeFanout implements: each node   *)
(* is told of once, and nodes are given up only past the threshold.        *)
(*                                                                         *)
(* Bytes are abstracted to what verification tells apart.  A sliver says   *)
(* which pair it is of, and is of the blob whose metadata its Merkle check *)
(* passes; one of another blob stands for every well-formed forgery.  Junk *)
(* does not parse.  Misfit parses, and is of another size than the blob's  *)
(* slivers of the axis are; a sliver of the other axis is one.  The native *)
(* decoder is the operator decode_blob.                                    *)
(***************************************************************************)
EXTENDS Integers, Sequences, FiniteSets, FiniteSetsExt, RedStuff

CONSTANTS
  Members,        \* the committee, as a sequence of nodes
  shard_indices,  \* node |-> the shards it holds
  n_shards,
  blob_id,        \* the blob asked for
  MaxFaulty       \* bound: at most this many nodes lie

Nodes == {Members[i] : i \in DOMAIN Members}

ASSUME CommitteeAssumption ==
  /\ Members \in Seq(Nodes)
  /\ Cardinality(Nodes) = Len(Members)
  /\ n_shards \in Nat \ {0}
  /\ UNION {shard_indices[n] : n \in Nodes} = 0 .. n_shards - 1
  /\ \A m, n \in Nodes : m # n => shard_indices[m] \cap shard_indices[n] = {}

(* A blob ID is bytes, and reads as a number. *)
ASSUME BlobIdAssumption == blob_id \in Seq(Byte)

VARIABLES
  conduct,    \* what kind of node each one is
  axis, verify, \* the caller's arguments
  pc,
  start, tried, \* fetch_verified_metadata: first member asked, members asked
  metadata,   \* the blob that the verified metadata is of
  pending,    \* nodes whose sliver task the fan-out still waits on
  collected,  \* the distinct slivers folded, each with the node it is put down to
  verified,   \* slivers of the first fan-out that passed verify_sliver
  indicted,   \* nodes barred from the second fan-out
  suspects,   \* history: nodes that answered the first one with a bad sliver
  outcome     \* how the read ended

input == <<conduct, axis, verify>>
meta  == <<start, tried, metadata>>
fan   == <<pending, collected>>
blame == <<verified, indicted, suspects>>
vars  == <<input, pc, meta, fan, blame, outcome>>

Blobs   == {"asked", "other"}
Junk    == [pair |-> n_shards, of |-> "junk"]
Misfit  == [pair |-> n_shards, of |-> "misfit"]
Slivers == [pair : 0 .. n_shards - 1, of : Blobs]

Answers    == Slivers \cup {Junk, Misfit}
Attributed == [sliver : Answers, node : Nodes]

threshold == source_symbol_counts(n_shards)[axis]

(* The slivers a node that follows the protocol holds: one GET for each of its
   shards, rotated into a pair. *)
Own(n) == {[pair |-> shard_index_to_pair_index(s, blob_id, n_shards), of |-> "asked"] :
             s \in shard_indices[n]}

(* What _fetch_node_slivers may return: failed GETs are dropped, so a flaky node
   returns some of its slivers; a faulty one answers each GET as it likes. *)
Replies(n) ==
  CASE conduct[n] = "honest" -> {Own(n)}
    [] conduct[n] = "flaky"  -> SUBSET Own(n)
    [] conduct[n] = "faulty" -> UNION {kSubset(k, Answers) : k \in 0 .. Cardinality(shard_indices[n])}

TypeOK ==
  /\ conduct \in [Nodes -> {"honest", "flaky", "faulty"}]
  /\ axis \in {"primary", "secondary"} /\ verify \in BOOLEAN
  /\ pc \in {"committee", "metadata", "fetch", "decode", "refetch", "redecode", "over"}
  /\ start \in DOMAIN Members /\ tried \in 0 .. Len(Members)
  /\ metadata \in Blobs \cup {"none"}
  /\ pending \subseteq Nodes
  /\ collected \subseteq Attributed
  /\ verified \subseteq Attributed
  /\ indicted \subseteq Nodes /\ suspects \subseteq Nodes
  /\ outcome \in Blobs \cup {"reading", "garbled", "committee", "fetch_metadata",
                             "fetch_slivers", "decode", "sliver_size_mismatch"}

Faulty == {n \in Nodes : conduct[n] = "faulty"}

Init ==
  /\ conduct \in [Nodes -> {"honest", "flaky", "faulty"}]
  /\ Cardinality(Faulty) <= MaxFaulty
  /\ axis \in {"primary", "secondary"}
  /\ verify \in BOOLEAN
  /\ pc = "committee"
  /\ start = 1 /\ tried = 0 /\ metadata = "none"
  /\ pending = {} /\ collected = {}
  /\ verified = {} /\ indicted = {} /\ suspects = {}
  /\ outcome = "reading"

End(how) == pc' = "over" /\ outcome' = how

-----------------------------------------------------------------------------
(* The committee and the metadata. *)

(* A failed chain read is a NativeReadError; otherwise the first member to ask
   for the metadata is drawn. *)
Committee ==
  /\ pc = "committee"
  /\ \/ End("committee") /\ UNCHANGED start
     \/ pc' = "metadata" /\ start' \in DOMAIN Members /\ UNCHANGED outcome
  /\ UNCHANGED <<input, tried, metadata, fan, blame>>

(* What a metadata GET leaves of a node's answer after verify_blob_metadata: the
   blob it is of, or "none" for no answer or for metadata that does not verify. *)
MetadataReplies(n) ==
  CASE conduct[n] = "honest" -> {"asked"}
    [] conduct[n] = "flaky"  -> {"asked", "none"}
    [] conduct[n] = "faulty" -> Blobs \cup {"none"}

Asked == Members[((start + tried - 1) % Len(Members)) + 1]

StartFanout(excluded) ==
  /\ pending' = {n \in Nodes \ excluded : shard_indices[n] # {}}
  /\ collected' = {}

(* The metadata is in hand; the loop's variables are gone with its frame. *)
Accept(m) ==
  /\ metadata' = m /\ start' = 1 /\ tried' = 0
  /\ pc' = "fetch" /\ StartFanout({})

AskNext == tried' = tried + 1 /\ UNCHANGED <<start, metadata, pc, fan>>

(* Broken: metadata that verifies is taken whatever blob it is of. *)
MetadataUnmatched ==
  /\ pc = "metadata" /\ tried < Len(Members)
  /\ \E m \in MetadataReplies(Asked) :
       IF m # "none" THEN Accept(m) ELSE AskNext
  /\ UNCHANGED <<input, blame, outcome>>

(* One turn of the loop over the members. *)
MetadataAnswer ==
  /\ pc = "metadata" /\ tried < Len(Members)
  /\ \E m \in MetadataReplies(Asked) :
       IF m = "asked" THEN Accept(m) ELSE AskNext
  /\ UNCHANGED <<input, blame, outcome>>

MetadataExhausted ==
  /\ pc = "metadata" /\ tried = Len(Members)
  /\ End("fetch_metadata")
  /\ UNCHANGED <<input, meta, fan, blame>>

-----------------------------------------------------------------------------
(* The fan-out for slivers, in either round. *)

verify_sliver(sliver) == sliver.of = metadata

Contents(attributed) == {a.sliver : a \in attributed}

(* Broken: slivers are counted as often as they are served. *)
FoldRepeats(n, slivers) == collected \cup [sliver : slivers, node : {n}]

(* _fold: a sliver whose bytes have been seen is dropped, and with it the fact
   that this node served it too. *)
Fold(n, slivers) ==
  collected \cup [sliver : slivers \ Contents(collected), node : {n}]

Served(n) ==
  /\ pc \in {"fetch", "refetch"} /\ n \in pending
  /\ pending' = pending \ {n}
  /\ \E slivers \in Replies(n) :
       /\ collected' = Fold(n, slivers)
       /\ suspects' = IF pc = "fetch" /\ \E s \in slivers : ~ verify_sliver(s)
                        THEN suspects \cup {n} ELSE suspects
  /\ UNCHANGED <<input, pc, meta, verified, indicted, outcome>>

(* The grace window closes on the rest. *)
GiveUp ==
  /\ pc \in {"fetch", "refetch"} /\ pending # {}
  /\ Cardinality(collected) >= threshold
  /\ pending' = {}
  /\ UNCHANGED <<input, pc, meta, collected, blame, outcome>>

FanoutEnds ==
  /\ pc \in {"fetch", "refetch"} /\ pending = {}
  /\ IF Cardinality(collected) < threshold
       THEN End("fetch_slivers")
       ELSE pc' = (IF pc = "fetch" THEN "decode" ELSE "redecode") /\ UNCHANGED outcome
  /\ UNCHANGED <<input, meta, fan, blame>>

-----------------------------------------------------------------------------
(* Decoding. *)

(* The native decoder takes as many slivers of distinct pairs as it needs, in an
   order of its own, and leaves the rest; one that does not parse fails them all.
   With verify it re-derives the blob ID from what it decoded; without, slivers
   that do not belong together decode to other bytes.  A sliver of another size is
   passed over or refused, at its choice; the refusal is none of
   _DECODE_FAILURE_CODES and leaves as a bare ValueError. *)
decode_blob(slivers) ==
  LET needed == {T \in kSubset(threshold, slivers \ {Misfit}) :
                   \A s, t \in T : s.pair = t.pair => s = t}
      Decoded(T) == IF \A s \in T : verify_sliver(s) THEN metadata
                    ELSE IF verify THEN "decode" ELSE "garbled"
      refusal == IF Misfit \in slivers THEN {"sliver_size_mismatch"} ELSE {}
  IN  IF Junk \in slivers THEN {"decode"}
      ELSE refusal \cup IF needed = {} THEN {"decode"} ELSE {Decoded(T) : T \in needed}

partition_by_verification(attributed) ==
  LET good == {a \in attributed : verify_sliver(a.sliver)}
  IN  [verified |-> good, indicted |-> {a.node : a \in attributed \ good}]

(* A BlobDecodeError: blame nobody and fail, or decode those that verify,
   or fetch once more without the nodes that served the others. *)
Recover ==
  LET parts == partition_by_verification(collected)
  IN  IF parts.indicted = {}
        THEN End("decode") /\ UNCHANGED <<fan, blame>>
        ELSE /\ verified' = parts.verified /\ indicted' = parts.indicted
             /\ UNCHANGED <<suspects, outcome>>
             /\ IF Cardinality(parts.verified) >= threshold
                  THEN pc' = "redecode" /\ collected' = {} /\ UNCHANGED pending
                  ELSE pc' = "refetch" /\ StartFanout(parts.indicted)

(* Any other exception than BlobDecodeError ends the read, as a result does. *)
Decode ==
  /\ pc = "decode"
  /\ \E result \in decode_blob(Contents(collected)) :
       IF result = "decode" THEN Recover
                            ELSE End(result) /\ UNCHANGED <<fan, blame>>
  /\ UNCHANGED <<input, meta>>

(* Broken: every decode that fails is followed by another fan-out. *)
RedecodeForever ==
  /\ pc = "redecode"
  /\ \E result \in decode_blob(Contents(verified \cup collected)) :
       IF result = "decode"
         THEN pc' = "refetch" /\ StartFanout(indicted) /\ UNCHANGED outcome
         ELSE End(result) /\ UNCHANGED fan
  /\ UNCHANGED <<input, meta, blame>>

(* The last attempt, over the merge of the two rounds. *)
Redecode ==
  /\ pc = "redecode"
  /\ \E result \in decode_blob(Contents(verified \cup collected)) : End(result)
  /\ UNCHANGED <<input, meta, fan, blame>>

Next ==
  \/ Committee \/ MetadataAnswer \/ MetadataExhausted
  \/ \E n \in Nodes : Served(n)
  \/ GiveUp \/ FanoutEnds \/ Decode \/ Redecode

Spec == Init /\ [][Next]_vars

(* Every GET ends, with an answer or by the HTTP timeout, and the rest is the
   event loop resuming the read. *)
FairSpec == Spec /\ WF_vars(Next)

-----------------------------------------------------------------------------
(* Properties. *)

(* A verified read that returns, returns the blob that was asked for, even when
   every node lies: neither metadata nor slivers of another blob, and no mixture
   of two, get through. *)
ReadIsOfBlobAsked ==
  pc = "over" =>
    /\ outcome # "other"
    /\ verify => outcome # "garbled"

(* One lying node, the others that are up holding as many shards as the axis needs. *)
OneBadNode ==
  LET up == {n \in Nodes : conduct[n] = "honest"}
  IN  /\ Cardinality(Faulty) <= 1
      /\ Cardinality(UNION {shard_indices[n] : n \in up}) >= threshold

(* Such a node cannot make the blob unreadable, whatever mixture of good, forged,
   repeated and unparseable slivers it serves: the one recovery round suffices.
   Except by a sliver of another size in the first fan-out, when the decoder refuses
   it: reconstruct_blob catches BlobDecodeError only, so nobody is indicted and no
   round follows.  Once a round has been spent on the node, it cannot do that either. *)
OneBadNodeIsSurvived ==
  OneBadNode =>
    /\ outcome \notin {"fetch_metadata", "fetch_slivers", "decode"}
    /\ outcome = "sliver_size_mismatch" => Misfit \in Contents(collected) /\ indicted = {}

(* CHANGELOG.md: "Native blob reads now recover from a storage node serving unusable
   slivers, instead of one bad sliver failing the whole read." *)
OneBadSliverIsSurvived == OneBadNode => outcome # "sliver_size_mismatch"

(* The docstring of _partition_by_verification: it indicts "every node that served
   one that did not" verify, because "a second bad node left unconvicted would
   simply be re-queried by the retry". *)
BadNodesAreNotAskedAgain == pc = "refetch" => pending \cap suspects = {}

(* A read ends: there is one pass over the members and at most two fan-outs. *)
ReadEnds == <>(pc = "over")
=============================================================================
