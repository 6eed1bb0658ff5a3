----------------------------- MODULE SliverPuts -----------------------------
(***************************************************************************)
(* The PUT coroutines of a sliver fan-out and the three gates they share   *)
(* (_put_metadata, _put_sliver and _BytesInFlightThrottle in               *)
(* pytusk/core/native_upload/fanout.py): the global write semaphore, the   *)
(* node's own semaphore and the byte throttle, taken in that order around  *)
(* every attempt and given back before the next one.                       *)
(*                                                                         *)
(* A PUT's phase is the await its coroutine is suspended at.  The code     *)
(* between two awaits is one step; in particular giving back all three     *)
(* gates never suspends, on an answer, an exception or a cancellation.     *)
(* SliverUpload has the node level, which this module reduces to its two   *)
(* effects: a node's task is cancelled, and a node whose PUT failed cancels*)
(* its other PUTs.  The names of the specification differ from those of    *)
(* SliverUpload, so that one module can speak of both.                     *)
(***************************************************************************)
EXTENDS Integers, FiniteSets

CONSTANTS
  Arguments,              \* what upload_slivers may be called with: shards, the
                          \* shards each node holds; max_retries; and
                          \* max_bytes_in_flight
  primary_size,           \* bytes of a primary sliver, the same for every pair
  secondary_size,
  max_node_connections,
  max_concurrent_writes

ASSUME PutsAssumption ==
  /\ \A a \in Arguments : /\ \A n \in DOMAIN a.shards : a.shards[n] \in Nat
                          /\ a.max_retries \in Nat /\ a.max_bytes_in_flight \in Nat
  /\ primary_size \in Nat /\ secondary_size \in Nat
  /\ max_node_connections \in Nat \ {0}
  /\ max_concurrent_writes \in Nat

VARIABLES
  arguments,     \* the ones of this call
  phase,         \* where each PUT's coroutine is
  attempt,       \* retries made so far
  global_free,   \* global_write_semaphore
  node_free,     \* each node's node_semaphore
  in_flight,     \* _BytesInFlightThrottle._in_flight
  progress,      \* the counters of _FanoutProgress
  stopped,       \* nodes whose task has been cancelled
  cancelling     \* PUTs that have been cancelled and have not unwound

cancelVars == <<stopped, cancelling>>
putVars == <<arguments, phase, attempt, global_free, node_free, in_flight, progress,
             cancelVars>>

PutNodes            == DOMAIN arguments.shards
node_shards         == arguments.shards
max_retries         == arguments.max_retries
max_bytes_in_flight == arguments.max_bytes_in_flight

Least(a, b)    == IF a < b THEN a ELSE b
Greatest(a, b) == IF a > b THEN a ELSE b

sliver_size == Greatest(primary_size, secondary_size)
(* Broken: the permits are not bounded by the byte budget. *)
permits_without_byte_budget == Greatest(1, max_concurrent_writes)

effective_write_permits ==
  Greatest(1, Least(max_concurrent_writes,
                    max_bytes_in_flight \div Greatest(sliver_size, 1)))

(* The metadata PUT of a node, and two sliver PUTs for each of its shards. *)
MetadataPut(n) == [node |-> n, kind |-> "metadata", pair |-> 0]
SliverPutsOf(held, n) ==
  {[node |-> n, kind |-> k, pair |-> i] : k \in {"primary", "secondary"}, i \in 1 .. held[n]}
AllPuts(held) ==
  UNION {{MetadataPut(n)} \cup SliverPutsOf(held, n) : n \in DOMAIN held}

Puts    == AllPuts(node_shards)
AnyPut  == UNION {AllPuts(a.shards) : a \in Arguments}
AnyNode == UNION {DOMAIN a.shards : a \in Arguments}

size(p) == IF p.kind = "primary" THEN primary_size
           ELSE IF p.kind = "secondary" THEN secondary_size ELSE 0

Waiting == {"global", "node", "bytes"}
Live    == Waiting \cup {"sent", "backoff"}
Ended   == {"stored", "failed", "cancelled"}

PutsTypeOK ==
  /\ phase \in [Puts -> {"absent"} \cup Live \cup Ended]
  /\ attempt \in [Puts -> 0 .. max_retries]
  /\ global_free \in 0 .. effective_write_permits
  /\ node_free \in [PutNodes -> 0 .. max_node_connections]
  /\ in_flight \in Nat
  /\ progress \in [puts_in_flight : Nat, puts_completed : Nat, puts_failed : Nat]
  /\ stopped \subseteq PutNodes
  /\ cancelling \subseteq Puts

PutsInit ==
  /\ arguments \in Arguments
  /\ phase = [p \in Puts |-> IF p.kind = "metadata" THEN "global" ELSE "absent"]
  /\ attempt = [p \in Puts |-> 0]
  /\ global_free = effective_write_permits
  /\ node_free = [n \in PutNodes |-> max_node_connections]
  /\ in_flight = 0
  /\ progress = [puts_in_flight |-> 0, puts_completed |-> 0, puts_failed |-> 0]
  /\ stopped = {}
  /\ cancelling = {}

-----------------------------------------------------------------------------
(* Taking the gates, in the order of the async with statement. *)

TakeGlobal(p) ==
  /\ phase[p] = "global" /\ global_free > 0
  /\ global_free' = global_free - 1
  /\ phase' = [phase EXCEPT ![p] = "node"]
  /\ UNCHANGED <<attempt, node_free, in_flight, progress, cancelVars>>

(* Metadata goes out without touching the byte throttle. *)
TakeNode(p) ==
  /\ phase[p] = "node" /\ node_free[p.node] > 0
  /\ node_free' = [node_free EXCEPT ![p.node] = @ - 1]
  /\ phase' = [phase EXCEPT ![p] = IF p.kind = "metadata" THEN "sent" ELSE "bytes"]
  /\ UNCHANGED <<attempt, global_free, in_flight, progress, cancelVars>>

(* Broken: the throttle never lets an oversized sliver through. *)
AdmitsWithinBudget(p) == in_flight + size(p) <= max_bytes_in_flight

(* The throttle blocks only while something is in flight, so that a sliver
   larger than the whole budget is let through alone. *)
Admits(p) == in_flight = 0 \/ in_flight + size(p) <= max_bytes_in_flight

TakeBytes(p) ==
  /\ phase[p] = "bytes" /\ Admits(p)
  /\ in_flight' = in_flight + size(p)
  /\ progress' = [progress EXCEPT !.puts_in_flight = @ + 1]
  /\ phase' = [phase EXCEPT ![p] = "sent"]
  /\ UNCHANGED <<attempt, global_free, node_free, cancelVars>>

-----------------------------------------------------------------------------
(* Leaving the async with block. *)

(* Broken: a PUT loses its permits when it leaves while waiting for bytes. *)
GiveBackWhenSent(p) ==
  /\ global_free' = IF phase[p] = "sent" THEN global_free + 1 ELSE global_free
  /\ node_free' = IF phase[p] = "sent"
                    THEN [node_free EXCEPT ![p.node] = @ + 1] ELSE node_free
  /\ in_flight' = IF phase[p] = "sent" THEN in_flight - size(p) ELSE in_flight

GiveBack(p) ==
  /\ global_free' = IF phase[p] \in {"node", "bytes", "sent"}
                      THEN global_free + 1 ELSE global_free
  /\ node_free' = IF phase[p] \in {"bytes", "sent"}
                    THEN [node_free EXCEPT ![p.node] = @ + 1] ELSE node_free
  /\ in_flight' = IF phase[p] = "sent" THEN in_flight - size(p) ELSE in_flight

(* put_finished, in the finally block of the attempt. *)
put_finished(p, succeeded) ==
  progress' =
    IF phase[p] = "sent" /\ p.kind # "metadata"
    THEN [puts_in_flight |-> progress.puts_in_flight - 1,
          puts_completed |-> progress.puts_completed + (IF succeeded THEN 1 ELSE 0),
          puts_failed    |-> progress.puts_failed + (IF succeeded THEN 0 ELSE 1)]
    ELSE progress

(* The node stored the payload; with the metadata in place its slivers' PUTs
   are created. *)
Stored(p) ==
  /\ phase[p] = "sent"
  /\ GiveBack(p) /\ put_finished(p, TRUE)
  /\ phase' = [q \in Puts |->
                 IF q = p THEN "stored"
                 ELSE IF p.kind = "metadata" /\ q \in SliverPutsOf(node_shards, p.node)
                      THEN "global" ELSE phase[q]]
  /\ UNCHANGED <<attempt, cancelVars>>

(* An error result: back off, or give up when the retries are used. *)
Refused(p) ==
  /\ phase[p] = "sent"
  /\ GiveBack(p) /\ put_finished(p, FALSE)
  /\ phase' = [phase EXCEPT ![p] = IF attempt[p] >= max_retries THEN "failed"
                                   ELSE "backoff"]
  /\ UNCHANGED <<attempt, cancelVars>>

(* The transport raised: the exception leaves the coroutine, with no retry. *)
Raises(p) ==
  /\ phase[p] = "sent"
  /\ GiveBack(p) /\ put_finished(p, FALSE)
  /\ phase' = [phase EXCEPT ![p] = "failed"]
  /\ UNCHANGED <<attempt, cancelVars>>

Retry(p) ==
  /\ phase[p] = "backoff"
  /\ attempt' = [attempt EXCEPT ![p] = @ + 1]
  /\ phase' = [phase EXCEPT ![p] = "global"]
  /\ UNCHANGED <<global_free, node_free, in_flight, progress, cancelVars>>

-----------------------------------------------------------------------------
(* Cancellation.  A PUT that has been cancelled does nothing more than unwind. *)

LivePuts(n) == {p \in Puts : p.node = n /\ phase[p] \in Live}

(* The grace window closes, or the upload is cancelled, and with it the task of
   node n: the metadata PUT is awaited in that task and goes down with it. *)
StopNode(n) ==
  /\ n \notin stopped /\ LivePuts(n) # {}
  /\ stopped' = stopped \cup {n}
  /\ cancelling' = cancelling \cup (LivePuts(n) \cap {MetadataPut(n)})
  /\ UNCHANGED <<arguments, phase, attempt, global_free, node_free, in_flight, progress>>

(* The finally block of _upload_node, entered by that cancellation or by the
   first sliver PUT that failed, cancels the node's other PUTs. *)
AbandonNode(n) ==
  /\ n \in stopped \/ \E p \in SliverPutsOf(node_shards, n) : phase[p] = "failed"
  /\ ~ LivePuts(n) \subseteq cancelling
  /\ cancelling' = cancelling \cup LivePuts(n)
  /\ UNCHANGED <<arguments, phase, attempt, global_free, node_free, in_flight, progress,
                 stopped>>

(* CancelledError reaches p wherever it is suspended. *)
Cancelled(p) ==
  /\ p \in cancelling
  /\ GiveBack(p) /\ put_finished(p, FALSE)
  /\ phase' = [phase EXCEPT ![p] = "cancelled"]
  /\ cancelling' = cancelling \ {p}
  /\ UNCHANGED <<arguments, attempt, stopped>>

Advance(p) ==
  /\ p \in Puts \ cancelling /\ UNCHANGED arguments
  /\ \/ TakeGlobal(p) \/ TakeNode(p) \/ TakeBytes(p)
     \/ Stored(p) \/ Refused(p) \/ Raises(p) \/ Retry(p)

PutsNext ==
  \/ \E p \in Puts : Advance(p) \/ Cancelled(p)
  \/ \E n \in PutNodes : StopNode(n) \/ AbandonNode(n)

(* Semaphore and throttle waiters are woken when there is room, requests end by
   an answer or the HTTP timeout, sleeps end, and the loop runs what is ready. *)
PutsFairness ==
  /\ \A p \in AnyPut : WF_putVars(Advance(p)) /\ WF_putVars(Cancelled(p))
  /\ \A n \in AnyNode : WF_putVars(n \in PutNodes /\ AbandonNode(n))

PutsSpec == PutsInit /\ [][PutsNext]_putVars
FairPuts == PutsSpec /\ PutsFairness

-----------------------------------------------------------------------------
(* Properties. *)

In(S) == {p \in Puts : phase[p] \in S}

(* What is free at each gate and what its holders took add up, so no permit is
   lost or given back twice, and the byte budget is not eroded, by a PUT that
   was retried, failed, raised or was cancelled at any of its awaits; and the
   counters of started and finished attempts "never drift apart". *)
GatesBalance ==
  /\ global_free + Cardinality(In({"node", "bytes", "sent"}))
       = effective_write_permits
  /\ \A n \in PutNodes :
       node_free[n] + Cardinality({p \in In({"bytes", "sent"}) : p.node = n})
         = max_node_connections
  /\ in_flight = Cardinality(UNION {{p} \X (1 .. size(p)) : p \in In({"sent"})})
  /\ progress.puts_in_flight
       = Cardinality({p \in In({"sent"}) : p.kind # "metadata"})

(* The permit count is derived from the byte budget, so a PUT that holds its
   permits never waits for bytes: the coupling _put_sliver documents as a known
   trade-off does not arise under upload_slivers. *)
BytesNeverBlock == \A p \in In({"bytes"}) : Admits(p)

(* Every PUT that is started ends, whatever the contention for the gates and
   even when a sliver exceeds the byte budget. *)
EveryPutEnds ==
  \A p \in AnyPut : p \in Puts /\ phase[p] \in Live ~> p \in Puts /\ phase[p] \in Ended
=============================================================================
