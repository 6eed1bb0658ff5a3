----------------------- MODULE CommitteeFanout_proofs -----------------------
(***************************************************************************)
(* Safety of the committee fan-out for every set of nodes and every        *)
(* upward-closed threshold, by one inductive invariant, IInv.              *)
(***************************************************************************)
EXTENDS CommitteeFanout, TLAPS

(* While the coordinator waits, what is pending is exactly what was not folded
   and nothing has been cancelled. *)
WaitInv ==
  pc \in {"waiting", "grace"} =>
    /\ pending = Nodes \ counted
    /\ dropped = {}
    /\ ~ cancelled
    /\ \A n \in Nodes : task[n] \notin {"cancelling", "cancelled"}

(* After it stopped waiting nothing runs on: tasks have answered, or unwind, or
   have unwound. *)
StoppedInv ==
  pc \notin {"waiting", "grace"} => \A n \in Nodes : task[n] # "running"

ReapInv ==
  /\ pc = "reaping" => pending = dropped
  /\ pc \in {"reaping", "returned"} => counted \cup dropped = Nodes

OverInv ==
  /\ pc \in Over => \A n \in Nodes : task[n] \notin Alive
  /\ pc \in {"cleanup", "raised"} => cancelled
  /\ pc = "returned" => ~ cancelled

(* A fold is final: a counted task has answered, a dropped one has not. *)
FoldInv ==
  /\ \A n \in counted : task[n] \in Answered
  /\ \A n \in dropped : task[n] \in {"cancelling", "cancelled"}

ThresholdInv ==
  /\ pc = "grace" \/ dropped # {} => should_stop(counted)
  /\ (\E n \in Nodes : task[n] \in {"cancelling", "cancelled"})
       => cancelled \/ dropped # {}

IInv ==
  /\ TypeOK
  /\ WaitInv
  /\ StoppedInv
  /\ ReapInv
  /\ OverInv
  /\ FoldInv
  /\ ThresholdInv


-----------------------------------------------------------------------------
(* Folded tasks have answered and answers do not change, so whatever the steps
   of other tasks, the good nodes among them stay the same. *)
LEMMA GoodStable ==
  ASSUME NEW S \in SUBSET Nodes,
         \A n \in S : task'[n] = task[n]
  PROVE  Good(S)' = Good(S)
BY DEF Good

(* Folding more tasks never takes the threshold back. *)
LEMMA ThresholdMonotone ==
  ASSUME NEW S \in SUBSET Nodes, NEW T \in SUBSET Nodes, S \subseteq T,
         should_stop(S)
  PROVE  should_stop(T)
<1>1. Good(S) \subseteq Good(T) /\ Good(T) \in SUBSET Nodes
  BY DEF Good
<1>2. QED
  BY <1>1, EnoughAssumption DEF should_stop

LEMMA InitInv == Init => IInv
BY DEF Init, IInv, TypeOK, WaitInv, StoppedInv, ReapInv, OverInv, FoldInv,
       ThresholdInv, Answered, Alive, Over

LEMMA TaskEndsInv ==
  ASSUME NEW n \in Nodes, NEW r \in Answered, IInv, TaskEnds(n, r)
  PROVE  IInv'
<1> USE DEF IInv, Answered, Alive, Over
<1>1. TypeOK'
  BY DEF TypeOK, TaskEnds, coordVars
<1>2. pc \in {"waiting", "grace"}
  BY DEF StoppedInv, TaskEnds
<1>3. \A m \in counted : task'[m] = task[m]
  BY DEF TypeOK, TaskEnds, FoldInv
<1>4. WaitInv' /\ StoppedInv' /\ ReapInv' /\ OverInv' /\ FoldInv'
  BY <1>2, <1>3 DEF TypeOK, TaskEnds, coordVars, WaitInv, StoppedInv, ReapInv,
                    OverInv, FoldInv
<1>5. should_stop(counted)' = should_stop(counted)
  BY <1>3, GoodStable DEF should_stop, TaskEnds, coordVars, TypeOK
<1>6. ThresholdInv'
  BY <1>2, <1>5 DEF TypeOK, TaskEnds, coordVars, WaitInv, ThresholdInv
<1>7. QED
  BY <1>1, <1>4, <1>6

LEMMA CancelDeliveredInv ==
  ASSUME NEW n \in Nodes, IInv, CancelDelivered(n)
  PROVE  IInv'
<1> USE DEF IInv, Answered, Alive, Over
<1>1. TypeOK'
  BY DEF TypeOK, CancelDelivered, coordVars
<1>2. pc \notin {"waiting", "grace"} /\ pc \notin Over
  BY DEF WaitInv, OverInv, CancelDelivered
<1>3. \A m \in counted : task'[m] = task[m]
  BY DEF TypeOK, CancelDelivered, FoldInv
<1>4. WaitInv' /\ StoppedInv' /\ ReapInv' /\ OverInv' /\ FoldInv'
  BY <1>2, <1>3 DEF TypeOK, CancelDelivered, coordVars, WaitInv, StoppedInv,
                    ReapInv, OverInv, FoldInv
<1>5. should_stop(counted)' = should_stop(counted)
  BY <1>3, GoodStable DEF should_stop, CancelDelivered, coordVars, TypeOK
<1>6. ThresholdInv'
  BY <1>2, <1>5 DEF TypeOK, CancelDelivered, coordVars, ThresholdInv
<1>7. QED
  BY <1>1, <1>4, <1>6

LEMMA WakeInv ==
  ASSUME IInv, Wake
  PROVE  IInv'
<1> USE DEF IInv, Answered, Alive, Over
<1> DEFINE done == {n \in pending : task[n] \notin Alive}
           rest == pending \ done
<1>0. /\ pc = "waiting" /\ task' = task /\ dropped' = dropped
      /\ cancelled' = cancelled
      /\ counted' = counted \cup done /\ pending' = rest
      /\ pc' = IF rest = {} THEN "returned"
               ELSE IF should_stop(counted \cup done) THEN "grace" ELSE "waiting"
  BY DEF Wake
<1>1. TypeOK'
  BY <1>0 DEF TypeOK
<1>2. /\ pending = Nodes \ counted /\ dropped = {} /\ ~ cancelled
      /\ \A n \in Nodes : task[n] \notin {"cancelling", "cancelled"}
  BY <1>0 DEF WaitInv
<1>3. \A n \in done : task[n] \in {"ok", "failed"}
  BY <1>2 DEF TypeOK
<1>4. WaitInv' /\ FoldInv'
  BY <1>0, <1>2, <1>3 DEF WaitInv, FoldInv, TypeOK
<1>5. rest = {} => counted' = Nodes /\ \A n \in Nodes : task[n] \in {"ok", "failed"}
  BY <1>0, <1>2, <1>3 DEF FoldInv, TypeOK
<1>6. StoppedInv' /\ ReapInv' /\ OverInv'
  BY <1>0, <1>2, <1>5 DEF StoppedInv, ReapInv, OverInv
<1>7. ThresholdInv'
  BY <1>0, <1>2 DEF ThresholdInv, should_stop, Good
<1>8. QED
  BY <1>1, <1>4, <1>6, <1>7

LEMMA GraceEndsInv ==
  ASSUME IInv, GraceEnds
  PROVE  IInv'
<1> USE DEF IInv, Answered, Alive, Over
<1> DEFINE done == {n \in pending : task[n] \notin Alive}
           rest == pending \ done
<1>0. /\ pc = "grace" /\ counted' = counted \cup done
      /\ dropped' = dropped \cup rest /\ pending' = rest
      /\ cancelled' = cancelled
      /\ task' = [n \in Nodes |-> IF n \in rest /\ task[n] \in Alive
                                   THEN "cancelling" ELSE task[n]]
      /\ pc' = IF rest = {} THEN "returned" ELSE "reaping"
  BY DEF GraceEnds, Cancel
<1>1. TypeOK'
  BY <1>0 DEF TypeOK
<1>2. /\ pending = Nodes \ counted /\ dropped = {} /\ ~ cancelled
      /\ \A n \in Nodes : task[n] \notin {"cancelling", "cancelled"}
  BY <1>0 DEF WaitInv
<1>3. \A n \in done : task[n] \in {"ok", "failed"}
  BY <1>2 DEF TypeOK
<1>4. \A n \in rest : task[n] = "running" /\ task'[n] = "cancelling"
  BY <1>0, <1>2 DEF TypeOK
<1>5. \A n \in counted \cup done : task'[n] = task[n] /\ task[n] \in {"ok", "failed"}
  BY <1>0, <1>2, <1>3 DEF FoldInv, TypeOK
<1>6. WaitInv' /\ FoldInv' /\ ReapInv'
  BY <1>0, <1>2, <1>4, <1>5 DEF WaitInv, FoldInv, ReapInv, TypeOK
<1>7. counted \cup done \cup rest = Nodes
  BY <1>2 DEF TypeOK
<1>8. StoppedInv' /\ OverInv'
  BY <1>0, <1>2, <1>4, <1>5, <1>7 DEF StoppedInv, OverInv
<1>9. should_stop(counted \cup done)
  BY <1>0, <1>1, ThresholdMonotone DEF ThresholdInv, TypeOK
<1>10. should_stop(counted)'
  <2>1. Good(counted)' = Good(counted \cup done)
    BY <1>0, <1>5 DEF Good
  <2>2. QED
    BY <2>1, <1>9 DEF should_stop
<1>11. ThresholdInv'
  BY <1>0, <1>4, <1>5, <1>7, <1>10 DEF ThresholdInv
<1>12. QED
  BY <1>1, <1>6, <1>8, <1>11

LEMMA CancelledWaitingInv ==
  ASSUME IInv, CancelledWaiting
  PROVE  IInv'
<1> USE DEF IInv, Answered, Alive, Over
<1> DEFINE leftover == {n \in Nodes : task[n] \in Alive}
<1>0. /\ pc \in {"waiting", "grace"} /\ cancelled' = TRUE
      /\ pending' = pending /\ counted' = counted /\ dropped' = dropped
      /\ task' = [n \in Nodes |-> IF n \in leftover /\ task[n] \in Alive
                                   THEN "cancelling" ELSE task[n]]
      /\ pc' = IF leftover = {} THEN "raised" ELSE "cleanup"
  BY DEF CancelledWaiting, Cancel
<1>1. TypeOK'
  BY <1>0 DEF TypeOK
<1>2. \A n \in counted : task'[n] = task[n]
  BY <1>0 DEF FoldInv, TypeOK
<1>3. dropped = {}
  BY <1>0 DEF WaitInv
<1>4. WaitInv' /\ StoppedInv' /\ ReapInv' /\ OverInv' /\ FoldInv'
  BY <1>0, <1>2, <1>3 DEF WaitInv, StoppedInv, ReapInv, OverInv, FoldInv, TypeOK
<1>5. ThresholdInv'
  BY <1>0, <1>3 DEF ThresholdInv
<1>6. QED
  BY <1>1, <1>4, <1>5

(* The steps that only move pc or the cancellation flag. *)
LEMMA UnwindInv ==
  ASSUME IInv, Reaped \/ CleanedUp \/ CancelledReaping
  PROVE  IInv'
<1> USE DEF IInv, Answered, Alive, Over
<1>1. /\ task' = task /\ pending' = pending
      /\ counted' = counted /\ dropped' = dropped
  BY DEF Reaped, CleanedUp, CancelledReaping
<1>2. TypeOK'
  BY <1>1 DEF TypeOK, Reaped, CleanedUp, CancelledReaping
<1>3. WaitInv' /\ StoppedInv' /\ ReapInv' /\ FoldInv'
  BY <1>1 DEF WaitInv, StoppedInv, ReapInv, FoldInv, Reaped, CleanedUp,
              CancelledReaping
<1>4. CASE Reaped
  <2>1. \A n \in Nodes : task[n] \notin Alive
    BY <1>4 DEF Reaped, ReapInv, FoldInv, TypeOK
  <2>2. QED
    BY <1>1, <1>2, <1>3, <1>4, <2>1 DEF Reaped, OverInv, ThresholdInv, should_stop,
                                     Good, TypeOK
<1>5. CASE CleanedUp \/ CancelledReaping
  BY <1>1, <1>2, <1>3, <1>5 DEF CleanedUp, CancelledReaping, OverInv, ThresholdInv,
                            should_stop, Good
<1>6. QED
  BY <1>4, <1>5

LEMMA StutterInv == IInv /\ UNCHANGED vars => IInv'
BY DEF IInv, TypeOK, WaitInv, StoppedInv, ReapInv, OverInv, FoldInv, ThresholdInv,
       should_stop, Good, vars, coordVars

LEMMA NextInv == IInv /\ [Next]_vars => IInv'
<1> SUFFICES ASSUME IInv, [Next]_vars PROVE IInv'
  OBVIOUS
<1>1. CASE \E n \in Nodes : \E r \in Answered : TaskEnds(n, r)
  BY <1>1, TaskEndsInv
<1>2. CASE \E n \in Nodes : CancelDelivered(n)
  BY <1>2, CancelDeliveredInv
<1>3. CASE Coordinator
  BY <1>3, WakeInv, GraceEndsInv, UnwindInv DEF Coordinator
<1>4. CASE OuterCancel
  BY <1>4, CancelledWaitingInv, UnwindInv DEF OuterCancel
<1>5. QED
  BY <1>1, <1>2, <1>3, <1>4, StutterInv DEF Next

LEMMA Invariance == Spec => []IInv
BY InitInv, NextInv, PTL DEF Spec

-----------------------------------------------------------------------------
(* The variables of the model always hold values of their types. *)
THEOREM TypeCorrect == Spec => []TypeOK
BY Invariance, PTL DEF IInv

(* No node's coroutine outlives the call, however the call ends: for every
   committee, in every interleaving of answers, timers and cancellations. *)
THEOREM NoOrphans == Spec => []NoTaskOutlivesCall
<1>1. IInv => NoTaskOutlivesCall
  BY DEF IInv, OverInv, NoTaskOutlivesCall
<1>2. QED
  BY Invariance, <1>1, PTL

(* Each node is folded through exactly one of the two callbacks, those that answered
   before a normal return as answers. *)
THEOREM ExactlyOnce == Spec => []FoldedExactlyOnce
<1>1. IInv => FoldedExactlyOnce
  BY DEF IInv, FoldInv, WaitInv, ReapInv, TypeOK, FoldedExactlyOnce, Answered
<1>2. QED
  BY Invariance, <1>1, PTL

(* Nothing is cancelled without the threshold or an outer cancellation. *)
THEOREM CancelJustified == Spec => []CancelNeedsReason
<1>1. IInv => CancelNeedsReason
  BY DEF IInv, ThresholdInv, CancelNeedsReason
<1>2. QED
  BY Invariance, <1>1, PTL

(* A shortfall is reported only after every node has been heard. *)
THEOREM ShortfallIsFinal == Spec => []ShortfallHeardEveryone
<1>1. IInv => ShortfallHeardEveryone
  BY DEF IInv, ThresholdInv, ReapInv, TypeOK, ShortfallHeardEveryone
<1>2. QED
  BY Invariance, <1>1, PTL

(* A cancelled call folds nothing any more. *)
THEOREM CancelledFoldsNothing == Spec => NoFoldAfterCancel
<1>1. IInv /\ [Next]_vars
        => [cancelled' => counted' = counted /\ dropped' = dropped]_vars
  BY DEF IInv, WaitInv, Next, TaskEnds, CancelDelivered, Coordinator, Wake,
         GraceEnds, Reaped, CleanedUp, OuterCancel, CancelledWaiting,
         CancelledReaping, vars, coordVars
<1>2. QED
  BY Invariance, <1>1, PTL DEF Spec, NoFoldAfterCancel

-----------------------------------------------------------------------------
(* Refinement. *)

LEMMA InitTally == Init => Tally!Init
BY DEF Init, Tally!Init, verdictBar, callBar, Over

(* An accepted verdict set is the accumulator's good set. *)
LEMMA AcceptedIsGood ==
  ASSUME FoldInv, TypeOK
  PROVE  Tally!Having("accepted") = Good(counted)
BY DEF FoldInv, TypeOK, Tally!Having, verdictBar, Good, Answered

LEMMA StepTally ==
  ASSUME IInv, IInv', [Next]_vars
  PROVE  [Tally!Next]_(Tally!vars)
<1> USE DEF Over, Answered, Alive
<1>1. verdictBar' \in [Nodes -> Tally!Verdicts]
  BY DEF verdictBar, Tally!Verdicts
<1>2. CASE Wake \/ GraceEnds
  <2>1. callBar = "running"
    BY <1>2 DEF Wake, GraceEnds, callBar
  <2>2. Tally!MayTell
    BY <1>2 DEF IInv, FoldInv, WaitInv, TypeOK, Tally!MayTell, verdictBar, Wake,
                GraceEnds, Cancel
  <2>3. Tally!MayGiveUp
    <3>1. Tally!Satisfied' <=> should_stop(counted)'
      <4>1. Tally!Having("accepted")' = Good(counted)'
        BY DEF IInv, FoldInv, TypeOK, Tally!Having, verdictBar, Good
      <4>2. QED
        BY <4>1 DEF Tally!Satisfied, should_stop
    <3>2. (\E n \in Nodes : verdictBar'[n] = "givenUp") => dropped' # {}
      BY DEF verdictBar
    <3>3. QED
      BY <3>1, <3>2 DEF IInv, ThresholdInv, Tally!MayGiveUp
  <2>4. /\ callBar' \in {"running", "returned"}
        /\ callBar' = "returned" => \A n \in Nodes : verdictBar'[n] # "open"
    BY <1>2 DEF IInv, ReapInv, TypeOK, callBar, verdictBar, Wake, GraceEnds
  <2>5. QED
    BY <1>1, <2>1, <2>2, <2>3, <2>4 DEF Tally!Next, Tally!Step
<1>3. CASE Reaped \/ CleanedUp \/ CancelledWaiting
  <2>1. verdictBar' = verdictBar
    BY <1>3 DEF IInv, FoldInv, TypeOK, verdictBar, Reaped, CleanedUp,
                CancelledWaiting, Cancel
  <2>2. dropped # {} => should_stop(counted)
    BY DEF IInv, ThresholdInv
  <2>3. Tally!MayTell
    BY <2>1 DEF Tally!MayTell
  <2>4. Tally!MayGiveUp
    <3>1. Tally!Satisfied' <=> should_stop(counted)
      BY <2>1, AcceptedIsGood DEF IInv, Tally!Satisfied, Tally!Having, should_stop
    <3>2. (\E n \in Nodes : verdictBar'[n] = "givenUp") => dropped # {}
      BY <2>1 DEF verdictBar
    <3>3. QED
      BY <3>1, <3>2, <2>2 DEF Tally!MayGiveUp
  <2>5. callBar = "running" /\ callBar' \in {"running", "returned", "raised"}
    BY <1>3 DEF callBar, Reaped, CleanedUp, CancelledWaiting
  <2>6. callBar' = "returned" => \A n \in Nodes : verdictBar'[n] # "open"
    BY <1>3, <2>1 DEF IInv, ReapInv, TypeOK, callBar, verdictBar, Reaped, CleanedUp,
                CancelledWaiting
  <2>7. QED
    BY <1>1, <2>1, <2>3, <2>4, <2>5, <2>6 DEF Tally!Next, Tally!Step
<1>4. CASE \/ \E n \in Nodes : \E r \in Answered : TaskEnds(n, r)
           \/ \E n \in Nodes : CancelDelivered(n)
           \/ CancelledReaping \/ UNCHANGED vars
  <2>1. callBar' = callBar
    BY <1>4 DEF callBar, TaskEnds, CancelDelivered, CancelledReaping, vars, coordVars
  <2>2. counted' = counted /\ dropped' = dropped
    BY <1>4 DEF TaskEnds, CancelDelivered, CancelledReaping, vars, coordVars
  <2>3. \A n \in counted : task'[n] = task[n]
    BY <1>4 DEF IInv, FoldInv, TypeOK, TaskEnds, CancelDelivered, CancelledReaping,
                vars
  <2>4. verdictBar' = verdictBar
    BY <2>2, <2>3 DEF verdictBar
  <2>5. QED
    BY <2>1, <2>4 DEF Tally!vars
<1>5. QED
  BY <1>2, <1>3, <1>4 DEF Next, Coordinator, OuterCancel

(* The fan-out implements the contract: whatever the interleaving, the caller is
   told one verdict per node, gives up on nodes only with a satisfied threshold,
   and gets a normal return only with no node open. *)
THEOREM FanoutImplementsTally == Spec => ImplementsTally
<1>1. IInv /\ IInv' /\ [Next]_vars => [Tally!Next]_(Tally!vars)
  BY StepTally
<1>2. QED
  BY InitTally, Invariance, <1>1, PTL DEF Spec, Tally!Spec, ImplementsTally
=============================================================================
