------------------------- MODULE MCCommitteeFanout -------------------------
(***************************************************************************)
(* Four nodes of unequal weight (2, 1, 1, 1: five shards) and the quorum   *)
(* of that committee, 4.  The heavy node cannot be missing and any one of  *)
(* the light ones can, so there are stragglers to cancel, shortfalls, and  *)
(* thresholds met by the last answer.                                      *)
(***************************************************************************)
EXTENDS CommitteeFanout, Integers, FiniteSetsExt

CONSTANTS n1, n2, n3, n4

MCNodes == {n1, n2, n3, n4}
Weight(n) == IF n = n1 THEN 2 ELSE 1
MCEnough == {S \in SUBSET MCNodes : MapThenSumSet(Weight, S) >= 4}
=============================================================================
