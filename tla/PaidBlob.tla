------------------------------ MODULE PaidBlob ------------------------------
(***************************************************************************)
(* What a write pipeline promises about the blob it pays for: the caller is*)
(* told once, and what a receipt says of the chain is true.  An exception  *)
(* says nothing about the chain.                                           *)
(***************************************************************************)
VARIABLES
  blob,     \* the Blob object on chain
  told      \* what the caller knows

vars == <<blob, told>>

Init == blob = "none" /\ told = "nothing"

Register == blob = "none" /\ blob' = "registered" /\ UNCHANGED told
Certify  == blob = "registered" /\ blob' = "certified" /\ UNCHANGED told

(* A raised exception, an uncertified receipt or a certified one. *)
Tell(answer) ==
  /\ told = "nothing"
  /\ \/ answer = "exception"
     \/ answer = "uncertified" /\ blob # "none"
     \/ answer = "certified" /\ blob = "certified"
  /\ told' = answer
  /\ UNCHANGED blob

Next ==
  \/ Register \/ Certify
  \/ \E a \in {"exception", "uncertified", "certified"} : Tell(a)

Spec == Init /\ [][Next]_vars
=============================================================================
