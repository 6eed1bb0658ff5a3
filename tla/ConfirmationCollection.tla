----------------------- MODULE ConfirmationCollection -----------------------
(***************************************************************************)
(* collect_confirmations (pytusk/core/native_upload/confirm.py): one       *)
(* request per candidate, dispatched up front behind a semaphore, driven by*)
(* the committee fan-out until the weight that has answered reaches quorum,*)
(* then assembled into a certificate.                                      *)
(*                                                                         *)
(* The fan-out's threshold counts a confirmation as soon as it arrives;    *)
(* build_certificate looks at messages and signatures only afterwards.     *)
(***************************************************************************)
EXTENDS Certification

CONSTANTS
  Requests,                   \* the tasks, one per candidate
  position,                   \* the committee position each one addresses
  weight,                     \* the shard count of each position
  committee_size,
  n_shards,
  max_confirmation_requests,  \* permits of the semaphore
  Messages,                   \* messages a node may have signed
  expected_message            \* the one built here from epoch, blob and object

ASSUME CollectionAssumption ==
  /\ IsFiniteSet(Requests)
  /\ committee_size \in Nat /\ n_shards \in Nat
  /\ max_confirmation_requests \in Nat \ {0}
  /\ position \in [Requests -> Positions(committee_size)]
  /\ weight \in [Positions(committee_size) -> Nat]
  /\ expected_message \in Messages

VARIABLES task, pending, counted, dropped, pc, cancelled   \* the fan-out's
VARIABLES
  stage,      \* where each request's coroutine is
  reply,      \* what the node answered
  permits,    \* free permits of the semaphore
  step,       \* where collect_confirmations itself is
  outcome     \* what it returns or raises

fanVars == <<task, pending, counted, dropped, pc, cancelled>>
ownVars == <<stage, reply, permits, step, outcome>>
vars    == <<fanVars, ownVars>>

WeightOf(S) == Cardinality(UNION {{r} \X (1 .. weight[position[r]]) : r \in S})
required_weight == min_weight_for_quorum(n_shards)

Fanout == INSTANCE CommitteeFanout
            WITH Nodes <- Requests,
                 Enough <- {S \in SUBSET Requests : WeightOf(S) >= required_weight}

(* A usable answer; an error result or an exception out of the request. *)
Confirmed == [message : Messages, signature : Signatures]
Refusal   == [error : {"refusal"}]
NoReply   == [error |-> "none"]
Pending   == [error |-> "pending"]
Raised(e) == [error |-> e]

TypeOK ==
  /\ Fanout!TypeOK
  /\ stage \in [Requests -> {"queued", "sent", "over"}]
  /\ reply \in [Requests -> Confirmed \cup Refusal \cup {NoReply}]
  /\ permits \in 0 .. max_confirmation_requests
  /\ step \in {"fanning out", "assembling", "over"}
  /\ "error" \in DOMAIN outcome \/ outcome.message = expected_message

Init ==
  /\ Fanout!Init
  /\ stage = [r \in Requests |-> "queued"]
  /\ reply = [r \in Requests |-> NoReply]
  /\ permits = max_confirmation_requests
  /\ step = "fanning out"
  /\ outcome = Pending

-----------------------------------------------------------------------------
(* _confirm_node *)

Send(r) ==
  /\ task[r] = "running" /\ stage[r] = "queued"
  /\ permits > 0
  /\ permits' = permits - 1
  /\ stage' = [stage EXCEPT ![r] = "sent"]
  /\ UNCHANGED <<fanVars, reply, step, outcome>>

(* Broken: the permit is kept. *)
ReleaseNothing(s) == permits' = permits

(* Leaving the async with block frees the permit. *)
Release(s) == permits' = IF s = "sent" THEN permits + 1 ELSE permits

Answer(r) ==
  /\ stage[r] = "sent"
  /\ \E a \in Confirmed \cup Refusal :
       /\ Fanout!TaskEnds(r, IF a \in Confirmed THEN "ok" ELSE "failed")
       /\ reply' = [reply EXCEPT ![r] = a]
  /\ stage' = [stage EXCEPT ![r] = "over"]
  /\ Release(stage[r])
  /\ UNCHANGED <<step, outcome>>

(* CancelledError leaves the async with block, or the queue in front of it. *)
Unwind(r) ==
  /\ Fanout!CancelDelivered(r)
  /\ stage' = [stage EXCEPT ![r] = "over"]
  /\ Release(stage[r])
  /\ UNCHANGED <<reply, step, outcome>>

-----------------------------------------------------------------------------
(* collect_confirmations *)

Coordinate == Fanout!Coordinator /\ UNCHANGED ownVars

CancelFanout == Fanout!OuterCancel /\ UNCHANGED ownVars

(* The confirmations kept by _fold, in the shape build_certificate takes. *)
Usable == {r \in counted : reply[r] \in Confirmed}

confirmations ==
  [r \in Usable |-> [position  |-> position[r],
                     weight    |-> weight[position[r]],
                     message   |-> reply[r].message,
                     signature |-> reply[r].signature]]

Finish(result) == step' = "over" /\ outcome' = result

(* The fan-out is over and the heartbeat task, cancelled in the finally block,
   has been awaited.  A cancellation of this task during that await is swallowed
   by the suppress around it, so it leaves no trace here. *)
HeartbeatReaped ==
  /\ step = "fanning out" /\ pc \in Fanout!Over
  /\ \/ pc = "raised" /\ Finish(Raised("CancelledError"))
     \/ /\ pc = "returned" /\ Usable = {}
        /\ Finish(Raised("ConfirmationCollectionError"))
     \/ /\ pc = "returned" /\ Usable # {}
        /\ step' = "assembling"
        /\ UNCHANGED outcome
  /\ UNCHANGED <<fanVars, stage, reply, permits>>

(* The three certification errors are wrapped; ValueError is not. *)
Wrapped(result) ==
  IF ~ IsCertificate(result) /\ result.error # "ValueError"
  THEN [error |-> "ConfirmationCollectionError", cause |-> result.error]
  ELSE result

(* build_certificate comes back from its worker thread. *)
Assemble ==
  /\ step = "assembling"
  /\ Finish(Wrapped(build_certificate(confirmations, committee_size, n_shards,
                                      expected_message)))
  /\ UNCHANGED <<fanVars, stage, reply, permits>>

CancelAssemble ==
  /\ step = "assembling"
  /\ Finish(Raised("CancelledError"))
  /\ UNCHANGED <<fanVars, stage, reply, permits>>

Next ==
  \/ \E r \in Requests : Send(r) \/ Answer(r) \/ Unwind(r)
  \/ Coordinate \/ CancelFanout
  \/ HeartbeatReaped \/ Assemble \/ CancelAssemble

(* The semaphore wakes its waiters in order and every request is bounded by the
   client's timeout; the event loop and the worker thread run what is ready. *)
Fairness ==
  /\ \A r \in Requests : /\ WF_vars(Send(r))
                         /\ WF_vars(Answer(r))
                         /\ WF_vars(Unwind(r))
  /\ WF_vars(Coordinate)
  /\ WF_vars(HeartbeatReaped \/ Assemble)

Spec     == Init /\ [][Next]_vars
FairSpec == Spec /\ Fairness

-----------------------------------------------------------------------------
(* Properties. *)

Certified == step = "over" /\ IsCertificate(outcome)

(* Nothing but answered, verified confirmations of the expected message stands
   behind a certificate: its aggregate verifies against the keys of exactly the
   members its bitmap names, and their shards make a quorum. *)
CertificateIsBacked ==
  Certified =>
    LET signers == unpack_signers_bitmap(outcome.bitmap, committee_size)
    IN  /\ verify_certificate(outcome, signers)
        /\ \A p \in signers :
             \E r \in counted : /\ position[r] = p
                                /\ reply[r] = [message |-> expected_message,
                                               signature |-> "valid"]
        /\ is_quorum(Cardinality(UNION {{p} \X (1 .. weight[p]) : p \in signers}),
                     n_shards)

(* "One corrupted signature out of a large committee should not abort an
   otherwise-valid certificate": if the verified answers alone reach quorum and
   nobody signed another message, the result is a certificate. *)
BadSignaturesAreTolerated ==
  LET verified == {r \in Usable : reply[r].signature = "valid"}
  IN  /\ step = "over"
      /\ outcome # Raised("CancelledError")
      /\ \A r \in Usable : reply[r].message = expected_message
      /\ \A r, s \in Requests : position[r] = position[s] => r = s
      /\ is_quorum(WeightOf(verified), n_shards)
      => IsCertificate(outcome)

(* Every permit is either free or held by a request in flight, so none is left
   behind by a request that was cancelled while queued or in flight. *)
PermitsBalance ==
  permits + Cardinality({r \in Requests : stage[r] = "sent"})
    = max_confirmation_requests

(* The requests' coroutines give the fan-out the fairness it assumes: each one
   ends, and unwinds when cancelled, although it may first wait for a permit. *)
ImplementsFanout == Fanout!FairSpec

(* confirm.py: "Only a genuine quorum shortfall across the whole queried set
   raises".  A shortfall is found here only when no candidate was given up. *)
ShortfallOverWholeSet ==
  (step = "over" /\ outcome = [error |-> "ConfirmationCollectionError",
                               cause |-> "QuorumNotReachedError"])
    => dropped = {}
=============================================================================
