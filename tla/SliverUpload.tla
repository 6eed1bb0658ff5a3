---------------------------- MODULE SliverUpload ----------------------------
(***************************************************************************)
(* upload_slivers and _upload_node                                         *)
(* (pytusk/core/native_upload/fanout.py): one task per node, which sends   *)
(* the metadata, then runs one task per sliver PUT and wants all of them,  *)
(* under the committee fan-out that stops at a quorum of shard weight.     *)
(*                                                                         *)
(* Cancellation is nested: the fan-out cancels a node's task, and that task*)
(* cancels its own PUT tasks and waits for them before it ends.            *)
(*                                                                         *)
(* Which of a node's PUTs is in which state tells nothing apart, so they   *)
(* are counted.  SliverPuts has the inside of a PUT; here it ends with the *)
(* payload stored or not.                                                  *)
(***************************************************************************)
EXTENDS Integers, FiniteSets

CONSTANTS
  Nodes,      \* the members that own a shard
  shards,     \* how many each one owns: its weight
  n_shards

ASSUME UploadAssumption ==
  /\ IsFiniteSet(Nodes)
  /\ n_shards \in Nat
  /\ shards \in [Nodes -> Nat \ {0}]

VARIABLES task, pending, counted, dropped, pc, cancelled   \* the fan-out's
VARIABLES
  stage,      \* where each node's coroutine is
  puts,       \* its sliver PUTs, counted by state
  step,       \* whether upload_slivers is over
  outcome     \* what it returned or raised

fanVars == <<task, pending, counted, dropped, pc, cancelled>>
ownVars == <<stage, puts, step, outcome>>
vars    == <<fanVars, ownVars>>

C == INSTANCE Certification

WeightOf(S) == Cardinality(UNION {{n} \X (1 .. shards[n]) : n \in S})
required_weight == C!min_weight_for_quorum(n_shards)

Fanout == INSTANCE CommitteeFanout
            WITH Enough <- {S \in SUBSET Nodes : WeightOf(S) >= required_weight}

(* A primary and a secondary sliver for each shard. *)
PutsOf(n) == 2 * shards[n]

Counts(running, ok, failed, cancelling) ==
  [running |-> running, ok |-> ok, failed |-> failed, cancelling |-> cancelling]

NoPuts  == Counts(0, 0, 0, 0)
Pending == [error |-> "pending"]

TypeOK ==
  /\ Fanout!TypeOK
  /\ stage \in [Nodes -> {"metadata", "slivers", "closing", "over"}]
  /\ \A n \in Nodes :
       puts[n] \in [{"running", "ok", "failed", "cancelling"} -> 0 .. PutsOf(n)]
  /\ step \in {"fanning out", "over"}
  /\ \/ outcome \in [error : {"pending", "SliverUploadError", "CancelledError"}]
     \/ outcome \in [succeeded : SUBSET Nodes, given_up : SUBSET Nodes]

Init ==
  /\ Fanout!Init
  /\ stage = [n \in Nodes |-> "metadata"]
  /\ puts = [n \in Nodes |-> NoPuts]
  /\ step = "fanning out"
  /\ outcome = Pending

-----------------------------------------------------------------------------
(* _upload_node *)

Goto(n, s) == stage' = [stage EXCEPT ![n] = s]

(* With the metadata in place the PUT tasks are created; without it, after the
   retries or an exception, the node is abandoned. *)
MetadataDone(n) ==
  /\ task[n] = "running" /\ stage[n] = "metadata"
  /\ \/ /\ Goto(n, "slivers")
        /\ puts' = [puts EXCEPT ![n] = Counts(PutsOf(n), 0, 0, 0)]
        /\ UNCHANGED fanVars
     \/ /\ Goto(n, "over")
        /\ Fanout!TaskEnds(n, "failed")
        /\ UNCHANGED puts
  /\ UNCHANGED <<step, outcome>>

(* A PUT task ends by itself. *)
PutEnds(n) ==
  /\ puts[n].running > 0
  /\ \E r \in {"ok", "failed"} :
       puts' = [puts EXCEPT ![n].running = @ - 1, ![n][r] = @ + 1]
  /\ UNCHANGED <<fanVars, stage, step, outcome>>

CancelPuts(n) ==
  puts' = [puts EXCEPT ![n].cancelling = puts[n].running, ![n].running = 0]

(* Broken: a node is given up at its first PUT, whatever became of it; or not
   when the PUT that failed was its last. *)
GiveUpAtFirst(n) ==
  /\ task[n] = "running" /\ stage[n] = "slivers"
  /\ puts[n].failed + puts[n].ok > 0
  /\ CancelPuts(n)
  /\ Goto(n, "closing")
  /\ UNCHANGED <<fanVars, step, outcome>>

GiveUpBeforeLast(n) ==
  /\ task[n] = "running" /\ stage[n] = "slivers"
  /\ puts[n].failed > 0 /\ puts[n].running > 0
  /\ CancelPuts(n)
  /\ Goto(n, "closing")
  /\ UNCHANGED <<fanVars, step, outcome>>

(* The wait loop has folded a PUT that failed: the finally block cancels the
   others. *)
GiveUpNode(n) ==
  /\ task[n] = "running" /\ stage[n] = "slivers"
  /\ puts[n].failed > 0
  /\ CancelPuts(n)
  /\ Goto(n, "closing")
  /\ UNCHANGED <<fanVars, step, outcome>>

(* Broken: the node is credited before its last PUT. *)
NodeStoredEarly(n) ==
  /\ task[n] = "running" /\ stage[n] = "slivers"
  /\ puts[n].failed = 0
  /\ Goto(n, "over")
  /\ Fanout!TaskEnds(n, "ok")
  /\ UNCHANGED <<puts, step, outcome>>

(* The wait loop has folded the last PUT and all of them were stored. *)
NodeStored(n) ==
  /\ task[n] = "running" /\ stage[n] = "slivers"
  /\ puts[n].failed = 0 /\ puts[n].running = 0
  /\ Goto(n, "over")
  /\ Fanout!TaskEnds(n, "ok")
  /\ UNCHANGED <<puts, step, outcome>>

(* The fan-out's cancellation reaches the node's task in its wait loop and
   enters the same finally block. *)
CancelReachesPuts(n) ==
  /\ task[n] = "cancelling" /\ stage[n] = "slivers"
  /\ CancelPuts(n)
  /\ Goto(n, "closing")
  /\ UNCHANGED <<fanVars, step, outcome>>

(* ... or while it awaits the metadata PUT, which unwinds with it. *)
CancelReachesMetadata(n) ==
  /\ task[n] = "cancelling" /\ stage[n] = "metadata"
  /\ Fanout!CancelDelivered(n)
  /\ Goto(n, "over")
  /\ UNCHANGED <<puts, step, outcome>>

PutUnwinds(n) ==
  /\ puts[n].cancelling > 0
  /\ puts' = [puts EXCEPT ![n].cancelling = @ - 1]
  /\ UNCHANGED <<fanVars, stage, step, outcome>>

(* Broken: the cancelled PUTs are not awaited. *)
NodeClosedAtOnce(n) ==
  /\ stage[n] = "closing"
  /\ Fanout!TaskEnds(n, "failed") \/ Fanout!CancelDelivered(n)
  /\ Goto(n, "over")
  /\ UNCHANGED <<puts, step, outcome>>

(* The gather in the finally block is over: the node ends as failed, or, when
   its task has been cancelled before or during the gather, as cancelled. *)
NodeClosed(n) ==
  /\ stage[n] = "closing" /\ puts[n].cancelling = 0
  /\ Fanout!TaskEnds(n, "failed") \/ Fanout!CancelDelivered(n)
  /\ Goto(n, "over")
  /\ UNCHANGED <<puts, step, outcome>>

-----------------------------------------------------------------------------
(* upload_slivers *)

Coordinate   == Fanout!Coordinator /\ UNCHANGED ownVars
CancelFanout == Fanout!OuterCancel /\ UNCHANGED ownVars

(* The fan-out is over, and so is the heartbeat task, whose await swallows a
   cancellation of this one. *)
HeartbeatReaped ==
  /\ step = "fanning out" /\ pc \in Fanout!Over
  /\ step' = "over"
  /\ outcome' =
       IF pc = "raised" THEN [error |-> "CancelledError"]
       ELSE IF WeightOf(Fanout!Good(counted)) < required_weight
            THEN [error |-> "SliverUploadError"]
            ELSE [succeeded |-> Fanout!Good(counted), given_up |-> dropped]
  /\ UNCHANGED <<fanVars, stage, puts>>

NodeStep(n) ==
  \/ MetadataDone(n) \/ PutEnds(n) \/ GiveUpNode(n) \/ NodeStored(n)
  \/ CancelReachesPuts(n) \/ CancelReachesMetadata(n)
  \/ PutUnwinds(n) \/ NodeClosed(n)

Next ==
  \/ \E n \in Nodes : NodeStep(n)
  \/ Coordinate \/ CancelFanout \/ HeartbeatReaped

(* Each PUT ends (SliverPuts!EveryPutEnds) and the loop runs what is ready. *)
Fairness ==
  /\ \A n \in Nodes : WF_vars(NodeStep(n))
  /\ WF_vars(Coordinate)
  /\ WF_vars(HeartbeatReaped)

Spec     == Init /\ [][Next]_vars
FairSpec == Spec /\ Fairness

-----------------------------------------------------------------------------
(* Properties. *)

Reported == step = "over" /\ "succeeded" \in DOMAIN outcome

(* Weight is credited only for what is stored: the nodes of a successful report
   have both slivers of every shard they own, and their shards make a quorum. *)
CreditIsEarned ==
  Reported =>
    /\ \A n \in outcome.succeeded : puts[n].ok = PutsOf(n)
    /\ C!is_quorum(WeightOf(outcome.succeeded), n_shards)

(* No sliver PUT runs detached from its node's task, nor from the call. *)
NoPutOutlivesItsNode ==
  /\ \A n \in Nodes : stage[n] = "over" => puts[n].running + puts[n].cancelling = 0
  /\ step = "over" => \A n \in Nodes : stage[n] = "over"

(* A node fails only for a failure of its own: the cancellation of its other
   PUTs, or of its task, is never taken for one. *)
FailureHasACause ==
  \A n \in Nodes :
    task[n] = "failed" => puts[n].failed > 0 \/ puts[n] = NoPuts

(* The nodes' coroutines give the fan-out the fairness it assumes, although a
   cancelled one first waits for its own PUTs. *)
ImplementsFanout == Fanout!FairSpec
=============================================================================
