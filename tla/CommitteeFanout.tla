--------------------------- MODULE CommitteeFanout ---------------------------
(***************************************************************************)
(* fan_out_to_committee (pytusk/core/committee_fanout.py): the one         *)
(* dispatch-wait-threshold-grace-cancel-clean-up sequence under every      *)
(* committee-wide operation.                                               *)
(*                                                                         *)
(* One asyncio task per node is already running.  The coordinator is one   *)
(* coroutine on the same event loop, so everything it does between two     *)
(* awaits is one step, and its awaits are the values of pc:                *)
(*   waiting   asyncio.wait(pending, FIRST_COMPLETED)                      *)
(*   grace     asyncio.wait(pending, timeout=extra_time)                   *)
(*   reaping   gather(still_pending) after the stragglers were cancelled   *)
(*   cleanup   gather(leftover) in the finally block                       *)
(*   returned, raised   the call is over                                   *)
(* Tasks end between those steps, in any number, so a wake-up folds the    *)
(* batch of all pending tasks that have ended by then.                     *)
(*                                                                         *)
(* The caller's threshold predicate, over what it has accumulated, is the  *)
(* family Enough of node sets.  The length of the grace window is          *)
(* abstracted: its timer may fire at any moment.                           *)
(***************************************************************************)
CONSTANTS
  Nodes,      \* the members addressed, one task each
  Enough      \* the sets of successful nodes for which should_stop() holds

(* Accumulated weight or distinct slivers only grow, so should_stop, once true,
   stays true.  *)
ASSUME EnoughAssumption ==
  /\ Enough \subseteq SUBSET Nodes
  /\ \A S \in Enough, T \in SUBSET Nodes : S \subseteq T => T \in Enough

VARIABLES
  task,       \* the state of each node's asyncio task
  pending,    \* the coordinator's local set of tasks it still waits on
  counted,    \* nodes folded through on_completed
  dropped,    \* nodes folded through on_cancelled
  pc,         \* the await the coordinator is suspended at
  cancelled   \* the coordinator's own task has been cancelled from outside

coordVars == <<pending, counted, dropped, pc, cancelled>>
vars == <<task, coordVars>>

Answered == {"ok", "failed"}                  \* ended with a result
Alive    == {"running", "cancelling"}         \* not task.done()
Over     == {"returned", "raised"}

TypeOK ==
  /\ task \in [Nodes -> Answered \cup Alive \cup {"cancelled"}]
  /\ pending \subseteq Nodes
  /\ counted \subseteq Nodes
  /\ dropped \subseteq Nodes
  /\ pc \in {"waiting", "grace", "reaping", "cleanup"} \cup Over
  /\ cancelled \in BOOLEAN

(* The caller's accumulator after folding the tasks of S. *)
Good(S)    == {n \in S : task[n] = "ok"}
should_stop(S) == Good(S) \in Enough

Init ==
  /\ task = [n \in Nodes |-> "running"]
  /\ pending = Nodes
  /\ counted = {}
  /\ dropped = {}
  /\ pc = IF Nodes = {} THEN "returned" ELSE "waiting"
  /\ cancelled = FALSE

-----------------------------------------------------------------------------
(* The node's own coroutine. *)

(* The coroutine of node n ends by itself, with a usable result or not. *)
TaskEnds(n, result) ==
  /\ task[n] = "running"
  /\ task' = [task EXCEPT ![n] = result]
  /\ UNCHANGED coordVars

(* CancelledError has travelled through the coroutine and its own clean-up. *)
CancelDelivered(n) ==
  /\ task[n] = "cancelling"
  /\ task' = [task EXCEPT ![n] = "cancelled"]
  /\ UNCHANGED coordVars

-----------------------------------------------------------------------------
(* The coordinator. *)

Cancel(S) == task' = [n \in Nodes |-> IF n \in S /\ task[n] \in Alive
                                        THEN "cancelling" ELSE task[n]]

(* Broken: the grace window opens at the first answer, without the threshold. *)
WakeWithoutThreshold ==
  LET done == {n \in pending : task[n] \notin Alive}
  IN  /\ pc = "waiting" /\ done # {}
      /\ counted' = counted \cup done
      /\ pending' = pending \ done
      /\ pc' = IF pending' = {} THEN "returned" ELSE "grace"
      /\ UNCHANGED <<task, dropped, cancelled>>

(* One turn of the wait loop: fold the batch, then test the threshold. *)
Wake ==
  LET done == {n \in pending : task[n] \notin Alive}
      rest == pending \ done
  IN  /\ pc = "waiting"
      /\ done # {}
      /\ counted' = counted \cup done
      /\ pending' = rest
      /\ pc' = IF rest = {} THEN "returned"
               ELSE IF should_stop(counted \cup done) THEN "grace" ELSE "waiting"
      /\ UNCHANGED <<task, dropped, cancelled>>

(* Broken: what ended within the window is not folded. *)
GraceFoldsNothing ==
  /\ pc = "grace"
  /\ dropped' = dropped \cup pending
  /\ Cancel(pending)
  /\ pc' = "reaping"
  /\ UNCHANGED <<pending, counted, cancelled>>

(* The grace wait ends, by its timer or because nothing is pending any more:
   fold what ended, cancel and report the rest. *)
GraceEnds ==
  LET done == {n \in pending : task[n] \notin Alive}
      rest == pending \ done
  IN  /\ pc = "grace"
      /\ counted' = counted \cup done
      /\ dropped' = dropped \cup rest
      /\ Cancel(rest)
      /\ pending' = rest
      /\ pc' = IF rest = {} THEN "returned" ELSE "reaping"
      /\ UNCHANGED cancelled

(* Broken: the stragglers are cancelled and not awaited. *)
ReapedAtOnce ==
  /\ pc = "reaping"
  /\ pc' = IF cancelled THEN "raised" ELSE "returned"
  /\ UNCHANGED <<task, pending, counted, dropped, cancelled>>

(* gather(still_pending) is over when the last straggler is.  A cancellation
   that arrived meanwhile is raised only now: gather with return_exceptions
   waits for its children even when it is itself cancelled. *)
Reaped ==
  /\ pc = "reaping"
  /\ \A n \in pending : task[n] \notin Alive
  /\ pc' = IF cancelled THEN "raised" ELSE "returned"
  /\ UNCHANGED <<task, pending, counted, dropped, cancelled>>

(* Broken: the finally block awaits the leftovers without cancelling them. *)
CancelledWithoutCancel ==
  /\ pc \in {"waiting", "grace"}
  /\ cancelled' = TRUE
  /\ pc' = "cleanup"
  /\ UNCHANGED <<task, pending, counted, dropped>>

(* The coordinator's own task is cancelled while suspended in a wait: the wait
   raises at once, folds nothing, and the finally block takes over. *)
CancelledWaiting ==
  LET leftover == {n \in Nodes : task[n] \in Alive}
  IN  /\ pc \in {"waiting", "grace"}
      /\ cancelled' = TRUE
      /\ Cancel(leftover)
      /\ pc' = IF leftover = {} THEN "raised" ELSE "cleanup"
      /\ UNCHANGED <<pending, counted, dropped>>

(* ... or while suspended in the gather over the stragglers it already
   cancelled. *)
CancelledReaping ==
  /\ pc = "reaping"
  /\ cancelled' = TRUE
  /\ UNCHANGED <<task, pending, counted, dropped, pc>>

(* gather(leftover) in the finally block is over; a second cancellation during
   it is suppressed, and the first one goes on propagating. *)
CleanedUp ==
  /\ pc = "cleanup"
  /\ \A n \in Nodes : task[n] \notin Alive
  /\ pc' = "raised"
  /\ UNCHANGED <<task, pending, counted, dropped, cancelled>>

Coordinator == Wake \/ GraceEnds \/ Reaped \/ CleanedUp
OuterCancel == CancelledWaiting \/ CancelledReaping

Next ==
  \/ \E n \in Nodes : \E r \in Answered : TaskEnds(n, r)
  \/ \E n \in Nodes : CancelDelivered(n)
  \/ Coordinator
  \/ OuterCancel

(* The event loop runs a coroutine whose await is over, fires due timers and
   delivers cancellations; it does not make a storage node answer. *)
LoopFairness ==
  /\ WF_vars(Coordinator)
  /\ \A n \in Nodes : WF_vars(CancelDelivered(n))

(* Every request a node's coroutine makes is bounded by the HTTP timeout and by
   a retry count, so the coroutine ends. *)
TaskFairness == \A n \in Nodes : WF_vars(\E r \in Answered : TaskEnds(n, r))

Spec         == Init /\ [][Next]_vars
LoopSpec     == Spec /\ LoopFairness
FairSpec     == LoopSpec /\ TaskFairness

-----------------------------------------------------------------------------
(* Properties. *)

(* "No task in tasks outlives this call, on ANY exit path": when the call is
   over, by return or by cancellation from outside in any of its waits, no
   node's coroutine is still running or still unwinding. *)
NoTaskOutlivesCall ==
  pc \in Over => \A n \in Nodes : task[n] \notin Alive

(* Each node reaches its caller's accumulator through one callback, once: no
   weight is counted twice or counted and then reported cancelled.  A normal return
   leaves no node out, and an answer given before it is never thrown away as a
   cancellation. *)
FoldedExactlyOnce ==
  /\ counted \cap dropped = {}
  /\ pc \in {"waiting", "grace"} => pending = Nodes \ (counted \cup dropped)
  /\ pc = "returned" => /\ counted \cup dropped = Nodes
                        /\ \A n \in Nodes : task[n] \in Answered <=> n \in counted

(* Work in flight is abandoned only for one of two reasons: the threshold has
   been met by the nodes folded so far, or the caller itself was cancelled. *)
CancelNeedsReason ==
  (\E n \in Nodes : task[n] \in {"cancelling", "cancelled"})
     => cancelled \/ should_stop(counted)

(* The comment at the grace block: without the threshold nothing is pending
   there, so a caller that sees a shortfall has heard from every node. *)
ShortfallHeardEveryone ==
  pc = "returned" /\ ~ should_stop(counted) => counted = Nodes

(* Nothing is folded into the caller's accumulators once the call was cancelled:
   the caller's frame is being unwound. *)
NoFoldAfterCancel ==
  [][cancelled' => counted' = counted /\ dropped' = dropped]_vars

(* Once the threshold is met, or the call is cancelled, the call ends without
   any further answer from a node: the grace window is bounded, and cancelled
   tasks are awaited only while they unwind. *)
EndsWithoutNodes == (pc = "grace" \/ cancelled) ~> (pc \in Over)

(* The contract of CommitteeTally, with each callback as a verdict. *)
verdictBar ==
  [n \in Nodes |-> IF n \in dropped THEN "givenUp"
                   ELSE IF n \notin counted THEN "open"
                   ELSE IF task[n] = "ok" THEN "accepted" ELSE "rejected"]

(* The verdicts are all in once the stragglers are cancelled; the call is over
   for the contract when the coordinator is. *)
callBar == IF pc \in Over THEN pc ELSE "running"

Tally == INSTANCE CommitteeTally WITH verdict <- verdictBar, call <- callBar
ImplementsTally == Tally!Spec
=============================================================================
