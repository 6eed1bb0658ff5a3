----------------------------- MODULE BlobStatus -----------------------------
(***************************************************************************)
(* pytusk/core/ops/blob_status.py: what the storage committee says of a    *)
(* blob, as one vote of the nodes weighted by their shards, and the Sui    *)
(* objects that stand for the blob.                                        *)
(*                                                                         *)
(* A committee is [weight, n_shards]: member |-> shards held.  A query is  *)
(* [heard, given_up]: the members whose tasks the fan-out folded, in that  *)
(* order, each with what the task ended in, and the members it told of as  *)
(* cancelled when the grace window closed.  The others were neither: the   *)
(* deadline came first.  A task ends in a status, or in Failed (the call   *)
(* failed or raised, or its answer was unusable).                          *)
(*                                                                         *)
(* A status is [type, detail]: equal answers are one candidate.  For a     *)
(* permanent blob detail is the object its status event names.             *)
(***************************************************************************)
EXTENDS Certification, Sequences, SequencesExt

Unresolved == [type |-> "Unresolved", detail |-> "none"]
Failed     == [type |-> "Failed", detail |-> "none"]

certainty_rank(status) ==
  CASE status.type = "Invalid" -> 0
    [] status.type = "Permanent" -> 1
    [] status.type = "Deletable" -> 2
    [] status.type = "Nonexistent" -> 3

-----------------------------------------------------------------------------
(* The vote. *)

Statuses(heard) == {h[2] : h \in ToSet(heard)} \ {Failed}

nodes_by_status(heard, status) == {h[1] : h \in {g \in ToSet(heard) : g[2] = status}}

(* One share for each shard of each of the nodes. *)
weight_of(committee, nodes) ==
  Cardinality(UNION {{node} \X (1 .. committee.weight[node]) : node \in nodes})

weight_by_status(committee, heard, status) ==
  weight_of(committee, nodes_by_status(heard, status))

quorum_reached(committee, heard) ==
  \E status \in Statuses(heard) :
    weight_by_status(committee, heard, status) >= min_weight_for_quorum(committee.n_shards)

(* The candidates are kept, and sorted stably, in the order in which they were first
   heard. *)
first_heard(heard, candidates) ==
  LET at == CHOOSE i \in DOMAIN heard :
              /\ heard[i][2] \in candidates
              /\ \A j \in DOMAIN heard : heard[j][2] \in candidates => i <= j
  IN  heard[at][2]

(* A quorum decides; without one the most certain claim that an honest node must
   have made, the first heard of equally certain ones. *)
resolve(committee, heard) ==
  LET Above(weight) == {status \in Statuses(heard) :
                          weight_by_status(committee, heard, status) >= weight}
      quorum == Above(min_weight_for_quorum(committee.n_shards))
      valid  == Above(min_weight_for_validity(committee.n_shards))
      best   == {status \in valid : \A other \in valid :
                   certainty_rank(status) <= certainty_rank(other)}
  IN  IF quorum /= {} THEN [status |-> first_heard(heard, quorum), resolution |-> "quorum"]
      ELSE IF valid /= {}
        THEN [status |-> first_heard(heard, best), resolution |-> "validity"]
      ELSE [status |-> Unresolved, resolution |-> "unresolved"]

-----------------------------------------------------------------------------
(* The report: the members that back the verdict, and <<member, reason>> for the
   others. *)

report_of_verdict(query, verdict) ==
  LET errors  == {h[1] : h \in {g \in ToSet(query.heard) : g[2] = Failed}}
      Others(type_is) == UNION {nodes_by_status(query.heard, status) : status \in
                           {s \in Statuses(query.heard) :
                              s /= verdict.status /\ (s.type = "Nonexistent") = type_is}}
  IN  [status     |-> verdict.status,
       resolution |-> verdict.resolution,
       confirming |-> nodes_by_status(query.heard, verdict.status),
       dissenting |-> (errors \X {"error"}) \cup (query.given_up \X {"timeout"})
                        \cup (Others(TRUE) \X {"not-stored"})
                        \cup (Others(FALSE) \X {"disagreed"})]

(* Broken: members that the deadline cut off are left out. *)
report_of_answers(committee, query) ==
  report_of_verdict(query, resolve(committee, query.heard))

fetch_blob_status(committee, query) ==
  LET report   == report_of_verdict(query, resolve(committee, query.heard))
      answered == {h[1] : h \in ToSet(query.heard)} \cup query.given_up
  IN  [report EXCEPT !.dissenting =
         @ \cup ((DOMAIN committee.weight \ answered) \X {"not-checked"})]

-----------------------------------------------------------------------------
(* The blob objects of a report: one already known, else those the owner holds,
   else the one a permanent status names.  owned is [read, objects]: the listing
   could be read, and the objects in it, each with the blob it is of; named is the
   object that the event leads to, or NoObject. *)

NoObject == [blob |-> "no object"]

resolve_blob_sui_objects(blob_id, report, known, owned, named) ==
  LET mine  == IF owned.read THEN {o \in owned.objects : o.blob = blob_id} ELSE {}
      event == IF report.status.type = "Permanent"
                 THEN named[report.status.detail] ELSE NoObject
  IN  IF known /= NoObject THEN [objects |-> {known}, tier |-> 2]
      ELSE IF mine /= {} THEN [objects |-> mine, tier |-> 2]
      ELSE IF event /= NoObject THEN [objects |-> {event}, tier |-> 3]
      ELSE [objects |-> {}, tier |-> 4]
=============================================================================
