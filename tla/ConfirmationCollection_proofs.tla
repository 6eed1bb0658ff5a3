-------------------- MODULE ConfirmationCollection_proofs --------------------
(***************************************************************************)
(* The collection of confirmations, for every finite set of requests, every*)
(* committee and every weight of its members.                              *)
(*                                                                         *)
(* The collection implements the committee fan-out and inherits its        *)
(* invariant: once the fan-out is over nothing it accumulated changes any  *)
(* more.  So the outcome, which is computed steps later and in a worker    *)
(* thread, is a function of what is still there to be looked at (OutcomeInv*)
(* below), and both halves of the contract, that a certificate is backed   *)
(* and that bad signatures do not prevent one, are read off that function. *)
(***************************************************************************)
EXTENDS ConfirmationCollection, Certification_proofs

FP == INSTANCE CommitteeFanout_proofs
        WITH Nodes <- Requests,
             Enough <- {S \in SUBSET Requests : WeightOf(S) >= required_weight}

(* The proved fan-out is the one the collection is composed with. *)
LEMMA SameFanout ==
  /\ Fanout!Init = FP!Init
  /\ (Fanout!Next <=> FP!Next) /\ (UNCHANGED Fanout!vars <=> UNCHANGED FP!vars)
  /\ Fanout!Coordinator <=> FP!Coordinator
  /\ Fanout!OuterCancel <=> FP!OuterCancel
  /\ Fanout!TypeOK <=> FP!TypeOK
BY DEF Fanout!Init, FP!Init, Fanout!TypeOK, FP!TypeOK, Fanout!Over, FP!Over,
  Fanout!Next, FP!Next, Fanout!vars, FP!vars,
  Fanout!coordVars, FP!coordVars, Fanout!TaskEnds, FP!TaskEnds,
  Fanout!CancelDelivered, FP!CancelDelivered, Fanout!Coordinator, FP!Coordinator,
  Fanout!OuterCancel, FP!OuterCancel, Fanout!Wake, FP!Wake, Fanout!GraceEnds,
  FP!GraceEnds, Fanout!Reaped, FP!Reaped, Fanout!CleanedUp, FP!CleanedUp,
  Fanout!CancelledWaiting, FP!CancelledWaiting, Fanout!CancelledReaping,
  FP!CancelledReaping, Fanout!Answered, FP!Answered, Fanout!Alive, FP!Alive,
  Fanout!Cancel, FP!Cancel, Fanout!should_stop, FP!should_stop, Fanout!Good, FP!Good

-----------------------------------------------------------------------------
(* Weights. *)

Weights == [r \in Requests |-> weight[position[r]]]

LEMMA WeightType ==
  /\ required_weight \in Int
  /\ \A T \in SUBSET Requests : \A S \in SUBSET T :
       WeightOf(S) <= WeightOf(T) /\ WeightOf(S) \in Nat /\ WeightOf(T) \in Nat
<1>1. ASSUME NEW T \in SUBSET Requests, NEW S \in SUBSET T
      PROVE  WeightOf(S) <= WeightOf(T) /\ WeightOf(S) \in Nat /\ WeightOf(T) \in Nat
  <2>1. IsFiniteSet(T) /\ \A m \in T : Weights[m] \in Nat
    BY CollectionAssumption, FS_Subset DEF Weights
  <2>2. \A R \in SUBSET Requests : WeightOf(R) = TotalWeight(Weights, R)
    BY DEF WeightOf, TotalWeight, Weights
  <2>3. S \in SUBSET Requests
    OBVIOUS
  <2>4. /\ TotalWeight(Weights, S) \in Nat /\ TotalWeight(Weights, T) \in Nat
        /\ TotalWeight(Weights, S) <= TotalWeight(Weights, T)
    BY <2>1, WeightMonotone
  <2>5. QED
    BY <2>2, <2>3, <2>4
<1>2. required_weight \in Int
  BY CollectionAssumption DEF required_weight, min_weight_for_quorum
<1>3. QED
  BY <1>1, <1>2

(* The quorum of weight is a threshold as the fan-out takes it. *)
LEMMA WeightIsThreshold == FP!EnoughAssumption
BY WeightType DEF FP!EnoughAssumption

-----------------------------------------------------------------------------
(* Every step of the collection is the fan-out's or leaves the fan-out alone. *)
LEMMA StepIsFanouts == [Next]_vars => [FP!Next]_(FP!vars)
<1> SUFFICES ASSUME [Next]_vars PROVE [FP!Next]_(FP!vars)
  OBVIOUS
<1>1. CASE \E r \in Requests : Send(r) \/ Answer(r) \/ Unwind(r)
  <2> PICK r \in Requests : Send(r) \/ Answer(r) \/ Unwind(r)
    BY <1>1
  <2>1. \/ UNCHANGED fanVars
        \/ \E x \in {"ok", "failed"} : Fanout!TaskEnds(r, x)
        \/ Fanout!CancelDelivered(r)
    BY DEF Send, Answer, Unwind
  <2>2. QED
    BY <2>1 DEF fanVars, FP!Next, FP!vars, FP!coordVars, FP!Answered, FP!TaskEnds,
       FP!CancelDelivered, Fanout!TaskEnds, Fanout!CancelDelivered, Fanout!coordVars
<1>2. CASE Coordinate \/ CancelFanout
  BY <1>2, SameFanout DEF Coordinate, CancelFanout, Fanout!Next
<1>3. CASE HeartbeatReaped \/ Assemble \/ CancelAssemble \/ UNCHANGED vars
  BY <1>3 DEF HeartbeatReaped, Assemble, CancelAssemble, vars, fanVars, FP!vars, FP!coordVars
<1>4. QED
  BY <1>1, <1>2, <1>3 DEF Next

(* The collection implements the committee fan-out, fairness aside: a request
   that queues for a permit is to the fan-out just a task that runs. *)
THEOREM CollectionIsFanout == Spec => Fanout!Spec
<1>1. Init => Fanout!Init
  BY DEF Init
<1>2. [Next]_vars => [Fanout!Next]_(Fanout!vars)
  <2> SUFFICES ASSUME [Next]_vars PROVE [Fanout!Next]_(Fanout!vars)
    OBVIOUS
  <2>1. [FP!Next]_(FP!vars)
    BY StepIsFanouts
  <2>2. QED
    BY <2>1, SameFanout
<1>3. QED
  BY <1>1, <1>2, PTL DEF Spec, Fanout!Spec

(* ... and with it everything that is proved of the fan-out. *)
LEMMA FanoutInvariance == Spec => []FP!IInv
<1>1. Init => FP!Init
  BY SameFanout DEF Init
<1>2. FP!Spec => []FP!IInv
  BY FP!Invariance, WeightIsThreshold
<1>3. QED
  BY <1>1, <1>2, StepIsFanouts, PTL DEF Spec, FP!Spec

-----------------------------------------------------------------------------
(* The inductive invariant. *)

(* A request's coroutine is over exactly when its task has ended. *)
StageInv ==
  /\ stage \in [Requests -> {"queued", "sent", "over"}]
  /\ reply \in [Requests -> Confirmed \cup Refusal \cup {NoReply}]
  /\ permits \in Nat
  /\ \A r \in Requests : stage[r] = "over" <=> task[r] \notin FP!Alive

certified ==
  Wrapped(build_certificate(confirmations, committee_size, n_shards, expected_message))

(* The outcome is pending until it is what the kept confirmations make it. *)
OutcomeInv ==
  /\ step \in {"fanning out", "assembling", "over"}
  /\ step # "fanning out" => pc \in FP!Over
  /\ step # "over" => outcome = Pending
  /\ step = "assembling" => Usable # {}
  /\ step = "over" => \/ outcome = Raised("CancelledError")
                      \/ outcome = Raised("ConfirmationCollectionError") /\ Usable = {}
                      \/ outcome = certified /\ Usable # {}

CInv ==
  /\ FP!IInv
  /\ StageInv
  /\ OutcomeInv
  /\ PermitsBalance

LEMMA InitC == Init => StageInv /\ OutcomeInv /\ PermitsBalance
<1> SUFFICES ASSUME Init PROVE StageInv /\ OutcomeInv /\ PermitsBalance
  OBVIOUS
<1>1. task = [r \in Requests |-> "running"]
  BY SameFanout DEF Init, FP!Init
<1>2. StageInv
  BY <1>1, CollectionAssumption DEF Init, StageInv, FP!Alive
<1>3. OutcomeInv
  BY DEF Init, OutcomeInv
<1>4. PermitsBalance
  <2>1. {r \in Requests : stage[r] = "sent"} = {}
    BY DEF Init
  <2>2. max_confirmation_requests + 0 = max_confirmation_requests
    BY CollectionAssumption
  <2>3. QED
    BY <2>1, <2>2, FS_EmptySet DEF Init, PermitsBalance
<1>5. QED
  BY <1>2, <1>3, <1>4

(* The requests in flight, as one leaves or joins them. *)
InFlight == {r \in Requests : stage[r] = "sent"}

LEMMA InFlightMoves ==
  ASSUME StageInv, NEW r \in Requests, NEW s \in {"sent", "over"},
         stage' = [stage EXCEPT ![r] = s]
  PROVE  /\ IsFiniteSet(InFlight) /\ Cardinality(InFlight) \in Nat
         /\ s = "sent" /\ stage[r] # "sent"
              => Cardinality(InFlight') = Cardinality(InFlight) + 1
         /\ s = "over" /\ stage[r] = "sent"
              => Cardinality(InFlight') = Cardinality(InFlight) - 1
         /\ s = "over" /\ stage[r] # "sent"
              => Cardinality(InFlight') = Cardinality(InFlight)
<1>1. IsFiniteSet(InFlight)
  BY CollectionAssumption, FS_Subset, InFlight \in SUBSET Requests DEF InFlight
<1>2. InFlight' = IF s = "sent" THEN InFlight \cup {r} ELSE InFlight \ {r}
  BY DEF InFlight, StageInv
<1>3. r \in InFlight <=> stage[r] = "sent"
  BY DEF InFlight
<1>4. /\ Cardinality(InFlight \cup {r})
           = IF r \in InFlight THEN Cardinality(InFlight) ELSE Cardinality(InFlight) + 1
      /\ Cardinality(InFlight \ {r})
           = IF r \in InFlight THEN Cardinality(InFlight) - 1 ELSE Cardinality(InFlight)
  BY <1>1, FS_AddElement, FS_RemoveElement
<1>5. QED
  BY <1>1, <1>2, <1>3, <1>4, FS_CardinalityType

LEMMA StageStep ==
  ASSUME FP!IInv, StageInv, PermitsBalance, [Next]_vars
  PROVE  StageInv' /\ PermitsBalance'
<1> USE DEF FP!Alive, FP!Answered
<1>0. task \in [Requests -> {"ok", "failed", "running", "cancelling", "cancelled"}]
  BY DEF FP!IInv, FP!TypeOK
<1>1. ASSUME NEW r \in Requests, Send(r) PROVE StageInv' /\ PermitsBalance'
  <2>1. StageInv'
    BY <1>1 DEF StageInv, Send, fanVars
  <2>2. Cardinality(InFlight') = Cardinality(InFlight) + 1 /\ Cardinality(InFlight) \in Nat
    BY <1>1, InFlightMoves DEF Send
  <2>3. QED
    BY <1>1, <2>1, <2>2, CollectionAssumption DEF PermitsBalance, InFlight, Send, StageInv
<1>2. ASSUME NEW r \in Requests, Answer(r) \/ Unwind(r) PROVE StageInv' /\ PermitsBalance'
  <2>1. /\ stage' = [stage EXCEPT ![r] = "over"]
        /\ permits' = IF stage[r] = "sent" THEN permits + 1 ELSE permits
    BY <1>2 DEF Answer, Unwind, Release
  <2>2. \E x \in {"ok", "failed", "cancelled"} : task' = [task EXCEPT ![r] = x]
    BY <1>2 DEF Answer, Unwind, Fanout!TaskEnds, Fanout!CancelDelivered
  <2>3. reply' \in [Requests -> Confirmed \cup Refusal \cup {NoReply}]
    BY <1>2 DEF Answer, Unwind, StageInv
  <2>4. StageInv'
    <3>1. stage' \in [Requests -> {"queued", "sent", "over"}] /\ permits' \in Nat
      BY <2>1 DEF StageInv
    <3>2. \A q \in Requests : stage'[q] = "over" <=> task'[q] \notin FP!Alive
      BY <1>0, <2>1, <2>2 DEF StageInv
    <3>3. QED
      BY <2>3, <3>1, <3>2 DEF StageInv, Confirmed, Refusal, NoReply
  <2>5. PermitsBalance'
    <3>1. permits + Cardinality(InFlight) = max_confirmation_requests
      BY DEF PermitsBalance, InFlight
    <3>2. /\ Cardinality(InFlight) \in Nat
          /\ stage[r] = "sent" => Cardinality(InFlight') = Cardinality(InFlight) - 1
          /\ stage[r] # "sent" => Cardinality(InFlight') = Cardinality(InFlight)
      BY <2>1, InFlightMoves
    <3>3. permits' + Cardinality(InFlight') = max_confirmation_requests
      BY <2>1, <3>1, <3>2 DEF StageInv
    <3>4. QED
      BY <3>3 DEF PermitsBalance, InFlight
  <2>6. QED
    BY <2>4, <2>5
<1>3. CASE Coordinate \/ CancelFanout
  <2>1. \A r \in Requests : task'[r] \in FP!Alive <=> task[r] \in FP!Alive
    BY <1>0, <1>3, SameFanout DEF Coordinate, CancelFanout, FP!Coordinator, FP!OuterCancel,
       FP!Wake, FP!GraceEnds, FP!Reaped, FP!CleanedUp, FP!CancelledWaiting,
       FP!CancelledReaping, FP!Cancel
  <2>2. UNCHANGED <<stage, reply, permits>>
    BY <1>3 DEF Coordinate, CancelFanout, ownVars
  <2>3. QED
    BY <2>1, <2>2 DEF StageInv, PermitsBalance
<1>4. CASE HeartbeatReaped \/ Assemble \/ CancelAssemble \/ UNCHANGED vars
  BY <1>4 DEF HeartbeatReaped, Assemble, CancelAssemble, vars, ownVars, fanVars, StageInv,
     PermitsBalance
<1>5. QED
  BY <1>1, <1>2, <1>3, <1>4 DEF Next

(* Once the fan-out is over its requests and its coordinator are at rest. *)
LEMMA AtRest ==
  ASSUME FP!IInv, StageInv, pc \in FP!Over, [Next]_vars
  PROVE  UNCHANGED <<fanVars, stage, reply>>
<1>1. \A r \in Requests : task[r] \notin {"running", "cancelling"} /\ stage[r] = "over"
  BY DEF FP!IInv, FP!OverInv, FP!Alive, StageInv
<1>2. ~ \E r \in Requests : Send(r) \/ Answer(r) \/ Unwind(r)
  BY <1>1 DEF Send, Answer, Unwind, Fanout!CancelDelivered
<1>3. ~ (Coordinate \/ CancelFanout)
  BY SameFanout DEF Coordinate, CancelFanout, FP!Coordinator, FP!OuterCancel, FP!Wake,
     FP!GraceEnds, FP!Reaped, FP!CleanedUp, FP!CancelledWaiting, FP!CancelledReaping, FP!Over
<1>4. QED
  BY <1>2, <1>3 DEF Next, HeartbeatReaped, Assemble, CancelAssemble, vars, ownVars

LEMMA OutcomeStep ==
  ASSUME FP!IInv, StageInv, OutcomeInv, [Next]_vars
  PROVE  OutcomeInv'
<1>1. CASE pc \notin FP!Over
  <2>1. step = "fanning out" /\ outcome = Pending
    BY <1>1 DEF OutcomeInv
  <2>2. UNCHANGED <<step, outcome>>
    <3>1. Fanout!Over = FP!Over
      BY DEF Fanout!Over, FP!Over
    <3>2. QED
      BY <1>1, <2>1, <3>1 DEF Next, vars, ownVars, Send, Answer, Unwind, Coordinate,
         CancelFanout, HeartbeatReaped, Assemble, CancelAssemble
  <2>3. QED
    BY <2>1, <2>2 DEF OutcomeInv
<1>2. CASE pc \in FP!Over
  <2>1. UNCHANGED <<fanVars, stage, reply>>
    BY <1>2, AtRest
  <2>2. Usable' = Usable /\ confirmations' = confirmations
    BY <2>1 DEF Usable, confirmations, fanVars
  <2>3. certified' = certified
    BY <2>2 DEF certified
  <2>4. pc' = pc
    BY <2>1 DEF fanVars
  <2>5. CASE HeartbeatReaped
    BY <1>2, <2>2, <2>3, <2>4, <2>5 DEF OutcomeInv, HeartbeatReaped, Finish
  <2>6. CASE Assemble
    BY <1>2, <2>2, <2>3, <2>4, <2>6 DEF OutcomeInv, Assemble, Finish, certified
  <2>7. CASE CancelAssemble
    BY <1>2, <2>2, <2>3, <2>4, <2>7 DEF OutcomeInv, CancelAssemble, Finish
  <2>8. CASE UNCHANGED <<step, outcome>>
    BY <1>2, <2>2, <2>3, <2>4, <2>8 DEF OutcomeInv
  <2>9. QED
    BY <2>5, <2>6, <2>7, <2>8 DEF Next, vars, ownVars, Send, Answer, Unwind, Coordinate,
       CancelFanout
<1>3. QED
  BY <1>1, <1>2

(* The invariant holds of every collection: the fan-out's own, the requests' stages
   agree with their tasks, permits balance, and the outcome is the one that the
   kept confirmations make. *)
THEOREM Invariance == Spec => []CInv
<1>1. StageInv /\ OutcomeInv /\ PermitsBalance /\ FP!IInv /\ [Next]_vars
        => StageInv' /\ OutcomeInv' /\ PermitsBalance'
  BY StageStep, OutcomeStep
<1>2. CInv <=> FP!IInv /\ StageInv /\ OutcomeInv /\ PermitsBalance
  BY DEF CInv
<1>3. QED
  BY InitC, <1>1, <1>2, FanoutInvariance, PTL DEF Spec

(* A permit is free or held by a request in flight, through every cancellation. *)
THEOREM PermitsBalanceTheorem == Spec => []PermitsBalance
<1>1. CInv => PermitsBalance
  BY DEF CInv
<1>2. QED
  BY Invariance, <1>1, PTL

-----------------------------------------------------------------------------
(* The outcome. *)

(* The confirmations that build_certificate keeps. *)
verified == {r \in Usable : reply[r].signature = "valid"}

LEMMA KeptAreVerified ==
  /\ DOMAIN confirmations = Usable
  /\ Kept(confirmations) = verified
  /\ {confirmations[c].position : c \in Kept(confirmations)}
       = {position[r] : r \in verified}
BY DEF confirmations, Kept, verified, bls_verify

LEMMA SumIsWeight ==
  SumOfWeights([c \in Kept(confirmations) |-> confirmations[c]]) = WeightOf(verified)
<1> DEFINE usable == [c \in verified |-> confirmations[c]]
<1>1. \A c \in verified : usable[c].weight = weight[position[c]]
  BY DEF confirmations, verified
<1>2. DOMAIN usable = verified
  OBVIOUS
<1> HIDE DEF usable
<1>3. {{c} \X (1 .. usable[c].weight) : c \in DOMAIN usable}
        = {{r} \X (1 .. weight[position[r]]) : r \in verified}
  BY <1>1, <1>2
<1>4. SumOfWeights(usable) = WeightOf(verified)
  BY <1>3 DEF SumOfWeights, WeightOf
<1>5. QED
  BY <1>4, KeptAreVerified DEF usable

(* One request to a member: then weights are the members'. *)
LEMMA WeightOfSigners ==
  ASSUME FP!TypeOK,
         Cardinality({position[r] : r \in verified}) = Cardinality(verified)
  PROVE  WeightOf(verified)
           = Cardinality(UNION {{p} \X (1 .. weight[p])
                                  : p \in {position[r] : r \in verified}})
<1> DEFINE Signers == {position[r] : r \in verified}
           f       == [r \in verified |-> position[r]]
<1>1. verified \in SUBSET Requests
  BY DEF FP!TypeOK, Usable, verified
<1>2. IsFiniteSet(verified)
  BY <1>1, CollectionAssumption, FS_Subset
<1>3. f \in [verified -> Signers] /\ \A p \in Signers : \E r \in verified : f[r] = p
  OBVIOUS
<1>4. \A r \in verified : f[r] = position[r]
  OBVIOUS
<1> HIDE DEF f, Signers
<1>5. f \in Surjection(verified, Signers)
  BY <1>3 DEF Surjection
<1>6. Cardinality(Signers) = Cardinality(verified)
  BY DEF Signers
<1>7. f \in Bijection(verified, Signers)
  BY <1>2, <1>5, <1>6, FS_Surjection DEF Bijection
<1>8. \A r \in verified : Weights[r] \in Nat /\ weight[f[r]] = Weights[r]
  BY <1>1, <1>4, CollectionAssumption DEF Weights
<1>9. TotalWeight(Weights, verified) = TotalWeight(weight, Signers)
  BY <1>2, <1>7, <1>8, WeightRenamed
<1>10. WeightOf(verified) = TotalWeight(Weights, verified)
  BY <1>1 DEF WeightOf, TotalWeight, Weights
<1>11. QED
  BY <1>9, <1>10 DEF TotalWeight, Signers

LEMMA CertificateIsBuildCertificates ==
  ASSUME OutcomeInv, Certified
  PROVE  /\ outcome = build_certificate(confirmations, committee_size, n_shards,
                                        expected_message)
         /\ IsCertificate(outcome)
BY DEF OutcomeInv, Certified, IsCertificate, Raised, certified, Wrapped

(* Nothing but answered, verified confirmations of the expected message stands
   behind a certificate, although the threshold that ended the collection
   looked at none of them: the aggregate verifies for the members its bitmap
   names, each of them signed, and their shards are a quorum. *)
THEOREM CertificateIsBackedTheorem == Spec => []CertificateIsBacked
<1>1. ASSUME CInv, Certified PROVE CertificateIsBacked
  <2> DEFINE signers == unpack_signers_bitmap(outcome.bitmap, committee_size)
  <2>0. /\ OutcomeInv /\ FP!TypeOK /\ committee_size \in Nat /\ n_shards \in Nat
        /\ reply \in [Requests -> Confirmed \cup Refusal \cup {NoReply}]
    BY <1>1, CollectionAssumption DEF CInv, FP!IInv, StageInv
  <2>1. /\ outcome = build_certificate(confirmations, committee_size, n_shards,
                                       expected_message)
        /\ IsCertificate(outcome)
    BY <1>1, <2>0, CertificateIsBuildCertificates
  <2>2. verify_certificate(outcome, signers)
    BY <2>0, <2>1, BuiltCertificateVerifies
  <2>3. /\ \A c \in DOMAIN confirmations : confirmations[c].message = expected_message
        /\ signers = {confirmations[c].position : c \in Kept(confirmations)}
        /\ Cardinality({confirmations[c].position : c \in Kept(confirmations)})
             = Cardinality(Kept(confirmations))
        /\ is_quorum(SumOfWeights([c \in Kept(confirmations) |-> confirmations[c]]),
                     n_shards)
    <3>1. ComesFrom(outcome, confirmations, committee_size, n_shards, expected_message)
      BY <2>0, <2>1, CertificateComesFrom
    <3>2. QED
      BY <3>1 DEF ComesFrom
  <2>4. /\ signers = {position[r] : r \in verified}
        /\ Cardinality({position[r] : r \in verified}) = Cardinality(verified)
        /\ is_quorum(WeightOf(verified), n_shards)
    BY <2>3, KeptAreVerified, SumIsWeight
  <2>5. ASSUME NEW p \in signers
        PROVE  \E r \in counted : /\ position[r] = p
                                  /\ reply[r] = [message |-> expected_message,
                                                 signature |-> "valid"]
    <3>1. PICK r \in verified : position[r] = p
      BY <2>4
    <3>2. r \in counted /\ reply[r] \in Confirmed /\ reply[r].signature = "valid"
      BY DEF verified, Usable
    <3>3. reply[r].message = expected_message
      BY <2>3, KeptAreVerified DEF confirmations, verified
    <3>4. reply[r] = [message |-> expected_message, signature |-> "valid"]
      BY <3>2, <3>3 DEF Confirmed
    <3>5. QED
      BY <3>1, <3>2, <3>4
  <2>6. is_quorum(Cardinality(UNION {{p} \X (1 .. weight[p]) : p \in signers}), n_shards)
    BY <2>0, <2>4, WeightOfSigners
  <2>7. QED
    BY <2>2, <2>5, <2>6 DEF CertificateIsBacked
<1>2. CInv => CertificateIsBacked
  BY <1>1 DEF CertificateIsBacked
<1>3. QED
  BY Invariance, <1>2, PTL

(* "One corrupted signature out of a large committee should not abort an
   otherwise-valid certificate": whatever bad signatures the answers hold, a
   quorum of verified ones of the expected message makes a certificate. *)
THEOREM BadSignaturesAreToleratedTheorem == Spec => []BadSignaturesAreTolerated
<1>1. ASSUME CInv, step = "over", outcome # Raised("CancelledError"),
             \A r \in Usable : reply[r].message = expected_message,
             \A r, s \in Requests : position[r] = position[s] => r = s,
             is_quorum(WeightOf(verified), n_shards)
      PROVE  IsCertificate(outcome)
  <2>0. /\ OutcomeInv /\ FP!TypeOK /\ committee_size \in Nat /\ n_shards \in Nat
    BY <1>1, CollectionAssumption DEF CInv, FP!IInv
  <2>1. verified # {}
    <3>1. SUFFICES ASSUME verified = {} PROVE FALSE
      OBVIOUS
    <3>2. UNION {{r} \X (1 .. weight[position[r]]) : r \in verified} = {}
      BY <3>1
    <3>3. WeightOf(verified) = 0
      BY <3>2, FS_EmptySet DEF WeightOf
    <3>4. QED
      BY <1>1, <2>0, <3>3 DEF is_quorum
  <2>2. Usable # {} /\ verified \in SUBSET Requests
    BY <2>0, <2>1 DEF verified, Usable, FP!TypeOK
  <2>3. outcome = certified
    BY <1>1, <2>0, <2>2 DEF OutcomeInv
  <2>4. Cardinality({position[r] : r \in verified}) = Cardinality(verified)
    <3> DEFINE Signers == {position[r] : r \in verified}
               f       == [r \in verified |-> position[r]]
    <3>1. /\ f \in [verified -> Signers]
          /\ \A p \in Signers : \E r \in verified : f[r] = p
          /\ \A r, s \in verified : f[r] = f[s] => r = s
      BY <1>1, <2>2
    <3> HIDE DEF f, Signers
    <3>2. f \in Bijection(verified, Signers)
      BY <3>1 DEF Bijection, Injection, IsInjective, Surjection
    <3>3. ExistsBijection(verified, Signers) /\ IsFiniteSet(verified)
      BY <2>2, <3>2, CollectionAssumption, FS_Subset DEF ExistsBijection
    <3>4. Cardinality(Signers) = Cardinality(verified)
      BY <3>3, FS_Bijection
    <3>5. QED
      BY <3>4 DEF Signers
  <2>5. can_pack({position[r] : r \in verified}, committee_size)
    BY <2>2, CollectionAssumption DEF can_pack
  <2>6. \A c \in DOMAIN confirmations : confirmations[c].message = expected_message
    BY <1>1 DEF confirmations
  <2>7. IsCertificate(build_certificate(confirmations, committee_size, n_shards,
                                        expected_message))
    <3>1. DOMAIN confirmations # {} /\ Kept(confirmations) # {}
      BY <2>1, <2>2, KeptAreVerified
    <3>2. /\ Cardinality({confirmations[c].position : c \in Kept(confirmations)})
               = Cardinality(Kept(confirmations))
          /\ can_pack({confirmations[c].position : c \in Kept(confirmations)},
                      committee_size)
      BY <2>4, <2>5, KeptAreVerified
    <3>3. is_quorum(SumOfWeights([c \in Kept(confirmations) |-> confirmations[c]]),
                    n_shards)
      BY <1>1, SumIsWeight
    <3>4. QED
      BY <2>0, <2>6, <3>1, <3>2, <3>3, CertificateIsBuilt
  <2>8. QED
    BY <2>3, <2>7 DEF certified, Wrapped
<1>2. CInv => BadSignaturesAreTolerated
  BY <1>1 DEF BadSignaturesAreTolerated, verified
<1>3. QED
  BY Invariance, <1>2, PTL

-----------------------------------------------------------------------------
(* The variables always hold values of their types: never more permits than the
   semaphore was made with, and whatever is returned carries the message asked for
   unless it is an error. *)
THEOREM CollectionTypeCorrect == Spec => []TypeOK
<1>1. ASSUME CInv PROVE TypeOK
  <2>1. Fanout!TypeOK
    BY <1>1, SameFanout DEF CInv, FP!IInv
  <2>2. permits \in 0 .. max_confirmation_requests
    <3>1. InFlight \in SUBSET Requests
      BY DEF InFlight
    <3>2. Cardinality(InFlight) \in Nat
      BY <3>1, CollectionAssumption, FS_Subset, FS_CardinalityType
    <3>3. permits + Cardinality(InFlight) = max_confirmation_requests /\ permits \in Nat
      BY <1>1 DEF CInv, PermitsBalance, InFlight, StageInv
    <3>4. QED
      BY <3>2, <3>3, CollectionAssumption
  <2>3. "error" \in DOMAIN outcome \/ outcome.message = expected_message
    <3> DEFINE cert == build_certificate(confirmations, committee_size, n_shards,
                                         expected_message)
    <3>1. "error" \in DOMAIN cert \/ cert.message = expected_message
      BY BuiltCertificateVerifies, CollectionAssumption DEF IsCertificate
    <3> HIDE DEF cert
    <3>2. certified = cert \/ "error" \in DOMAIN certified
      BY DEF certified, Wrapped, cert
    <3>3. \/ outcome \in {Pending, Raised("CancelledError"),
                          Raised("ConfirmationCollectionError")}
          \/ outcome = certified
      BY <1>1 DEF CInv, OutcomeInv
    <3>4. "error" \in DOMAIN Pending /\ \A e : "error" \in DOMAIN Raised(e)
      BY DEF Pending, Raised
    <3>5. QED
      BY <3>1, <3>2, <3>3, <3>4, Zenon
  <2>4. QED
    BY <1>1, <2>1, <2>2, <2>3 DEF CInv, StageInv, OutcomeInv, TypeOK
<1>2. CInv => TypeOK
  BY <1>1
<1>3. QED
  BY Invariance, <1>2, PTL
=============================================================================
