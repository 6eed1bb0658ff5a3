--------------------------- MODULE CommitteeTally ---------------------------
(***************************************************************************)
(* What a committee-wide operation promises its caller, said without tasks,*)
(* waits or timers.  Every node of the committee is open until the caller  *)
(* is told one final verdict about it: its answer was taken (accepted or   *)
(* rejected) or it was given up.  Nodes are given up only once the accepted*)
(* ones are enough, and the call returns only when no node is open.  A call*)
(* that is cancelled from outside stops telling the caller anything.       *)
(*                                                                         *)
(* This is the contract stated in the docstring of fan_out_to_committee    *)
(* (pytusk/core/committee_fanout.py); CommitteeFanout implements it.       *)
(***************************************************************************)
CONSTANTS
  Nodes,      \* the members addressed, one task each
  Enough      \* the sets of accepted nodes that satisfy the caller's threshold

VARIABLES
  verdict,    \* what the caller has been told of each node
  call        \* the call itself

vars == <<verdict, call>>

Verdicts == {"open", "accepted", "rejected", "givenUp"}

Having(v)  == {n \in Nodes : verdict[n] = v}
Satisfied  == Having("accepted") \in Enough

TypeOK ==
  /\ verdict \in [Nodes -> Verdicts]
  /\ call \in {"running", "returned", "raised"}

Init ==
  /\ verdict = [n \in Nodes |-> "open"]
  /\ call \in {"running", "returned"}
  /\ call = "returned" => Nodes = {}

(* The caller is told about some open nodes, at most once each. *)
MayTell ==
  \A n \in Nodes : verdict'[n] # verdict[n] => verdict[n] = "open"

(* Giving up on a node needs a satisfied threshold. *)
MayGiveUp ==
  (\E n \in Nodes : verdict'[n] = "givenUp") => Satisfied'

Step ==
  /\ call = "running"
  /\ verdict' \in [Nodes -> Verdicts]
  /\ MayTell
  /\ MayGiveUp
  /\ call' \in {"running", "returned", "raised"}
  /\ call' = "returned" => \A n \in Nodes : verdict'[n] # "open"
  /\ call' = "raised" => verdict' = verdict

Next == Step

Spec == Init /\ [][Next]_vars
=============================================================================
