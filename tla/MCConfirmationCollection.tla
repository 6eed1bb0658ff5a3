---------------------- MODULE MCConfirmationCollection ----------------------
(***************************************************************************)
(* Three members holding 2, 1 and 1 of four shards: the quorum is 3, so the*)
(* heavy member and either light one suffice and the other may be given up.*)
(* Two permits make the third request queue.                               *)
(***************************************************************************)
EXTENDS ConfirmationCollection, TLC

CONSTANTS r1, r2, r3

MCRequests == {r1, r2, r3}
MCPosition == r1 :> 0 @@ r2 :> 1 @@ r3 :> 2
MCWeight   == 0 :> 2 @@ 1 :> 1 @@ 2 :> 1
=============================================================================
