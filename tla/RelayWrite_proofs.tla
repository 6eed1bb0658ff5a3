-------------------------- MODULE RelayWrite_proofs --------------------------
(***************************************************************************)
(* The relay write keeps its hands on the money, for every tip policy,     *)
(* every ceiling, every number of attempts, any number of epoch changes and*)
(* whatever the relay answers.                                             *)
(*                                                                         *)
(* What the coroutine pays is fixed when Tx1 is sent and paid behind its   *)
(* back, so the invariant ties the tip on chain to the quote and the nonce *)
(* in hand (TipInv) and the place of the coroutine to the fate of its      *)
(* transactions (LedgerInv).                                               *)
(***************************************************************************)
EXTENDS RelayWrite, Certification_proofs

Unregistered == {"committee", "encode", "quote", "preflight", "compose"}
Posting      == {"post", "backoff", "submit", "tx2"}
Registered   == {"finality", "readback"} \cup Posting

LedgerInv ==
  /\ tx1 \in {"idle", "in flight", "landed", "aborted"}
  /\ tx2 \in {"idle", "in flight", "landed", "aborted"}
  /\ blob \in {"none", "registered", "certified"}
  /\ pc \in Unregistered \cup Registered \cup {"tx1", "over"}
  /\ blob = "none" <=> tx1 # "landed"
  /\ blob = "certified" <=> tx2 = "landed"
  /\ pc \in Unregistered => tx1 = "idle"
  /\ pc \in Registered => tx1 = "landed"
  /\ tx2 # "idle" => tx1 = "landed" /\ pc \in {"tx2", "over"}

(* Past the quote the caller has agreed to it; what is paid is what it says. *)
TipInv ==
  /\ pc \in {"preflight", "compose"} \/ tx1 # "idle"
       => /\ shown = quote /\ quote.amount <= max_tip
          /\ ~ quote.requires_payment => nonce = 0
  /\ paid = IF tx1 = "landed" THEN TipOf(quote, nonce) ELSE NoTip

(* Nothing is posted before the blob is registered and read back. *)
PostInv ==
  /\ attempts \in 0 .. max_upload_attempts
  /\ pc = "backoff" => attempts < max_upload_attempts
  /\ pc \notin Posting \cup {"over"} => attempts = 0

(* Tx2 is composed only for a payload that parsed and may verify. *)
Worthwhile(p) == parses(p) /\ p.sound

SubmitInv == pc \in {"submit", "tx2"} \/ tx2 # "idle" => Worthwhile(payload)

(* The outcome is set by the last step, and is true then and from then on. *)
OutcomeInv ==
  /\ tells(outcome) = "nothing" <=> pc # "over"
  /\ tells(outcome) \in {"nothing", "exception", "uncertified", "certified"}
  /\ tells(outcome) = "uncertified" => blob # "none"
  /\ tells(outcome) = "certified" => blob = "certified"
  /\ outcome.kind = "receipt" => blob # "none" /\ outcome.nonce = nonce
  /\ PaidIsReceipted
  /\ outcome.kind \in {"open", "raised", "receipt"}

RInv ==
  /\ LedgerInv
  /\ TipInv
  /\ PostInv
  /\ SubmitInv
  /\ OutcomeInv

-----------------------------------------------------------------------------
(* What each ending tells. *)
LEMMA Told ==
  ASSUME NEW e, NEW r, NEW s
  PROVE  /\ tells(Open) = "nothing" /\ Open.kind = "open"
         /\ tells(Raise(e)) = "exception" /\ Raise(e).kind = "raised"
         /\ Raise(e).error = e
         /\ r # "certified" => tells(Receipt(r, s)) = "uncertified"
         /\ r = "certified" => tells(Receipt(r, s)) = "certified"
         /\ Receipt(r, s).kind = "receipt" /\ Receipt(r, s).nonce = nonce
BY DEF tells, Open, Raise, Receipt

LEMMA InitInv == Init => RInv
<1> SUFFICES ASSUME Init PROVE RInv
  OBVIOUS
<1> USE DEF Init
<1>1. LedgerInv /\ TipInv /\ SubmitInv
  BY DEF LedgerInv, TipInv, SubmitInv, Unregistered, Registered, Posting
<1>2. PostInv
  BY RelayAssumption DEF PostInv
<1>3. tells(outcome) = "nothing" /\ outcome.kind = "open"
  BY Told
<1>4. OutcomeInv
  BY <1>3 DEF OutcomeInv, PaidIsReceipted
<1> QED
  BY <1>1, <1>2, <1>4 DEF RInv

(* The step is one of the promise's, or changes nothing there. *)
KeepsPromise == [Promise!Next]_(Promise!vars)

(* An ending leaves the chain alone and closes the outcome, so it preserves
   everything when what it tells is true. *)
LEMMA EndInv ==
  ASSUME RInv, pc # "over", pc' = "over",
         UNCHANGED <<blob, paid, tx1, tx2, attempts>>,
         tx2 # "idle" => payload' = payload,
         tx1 # "idle" => UNCHANGED tipVars,
         \/ \E e : outcome' = Raise(e) /\ (attempts = 0 \/ e = "CancelledError")
         \/ /\ blob # "none"
            /\ \E r, s : outcome' = Receipt(r, s) /\ r # "certified"
         \/ blob = "certified" /\ \E s : outcome' = Receipt("certified", s)
  PROVE  RInv' /\ KeepsPromise
<1>0. blob # "none" => tx1 # "idle" /\ nonce' = nonce
  BY DEF RInv, LedgerInv, tipVars
<1>1. LedgerInv'
  BY DEF RInv, LedgerInv, Unregistered, Registered, Posting
<1>2. TipInv'
  <2>1. CASE tx1 = "idle"
    BY <2>1 DEF RInv, TipInv
  <2>2. CASE tx1 # "idle"
    BY <2>2 DEF RInv, TipInv, tipVars, TipOf
  <2>3. QED
    BY <2>1, <2>2
<1>3. PostInv' /\ SubmitInv'
  BY DEF RInv, PostInv, SubmitInv, Worthwhile, parses, signers, WeightOf
<1>4. /\ tells(outcome') \in {"exception", "uncertified", "certified"}
      /\ tells(outcome') = "uncertified" => blob # "none"
      /\ tells(outcome') = "certified" => blob = "certified"
      /\ outcome'.kind = "receipt" => blob # "none" /\ outcome'.nonce = nonce
      /\ outcome'.kind = "raised" => attempts = 0 \/ outcome'.error = "CancelledError"
      /\ outcome'.kind \in {"raised", "receipt"}
  BY <1>0, Told
<1>5. OutcomeInv'
  BY <1>0, <1>4 DEF OutcomeInv, PaidIsReceipted, RInv, PostInv
<1>6. KeepsPromise
  BY <1>4 DEF RInv, OutcomeInv, KeepsPromise, Promise!Next, Promise!Tell
<1> QED
  BY <1>1, <1>2, <1>3, <1>5, <1>6 DEF RInv

(* A step that moves on without touching the chain or a transaction. *)
LEMMA GotoInv ==
  ASSUME RInv, NEW next, Goto(next), pc # "over",
         UNCHANGED <<blob, paid, tx1, tx2>>,
         TipInv', PostInv', SubmitInv',
         \/ pc \in Unregistered /\ next \in Unregistered
         \/ pc \in Registered \cup {"tx1"} /\ next \in Registered
            /\ tx1 = "landed" /\ tx2 = "idle"
  PROVE  RInv' /\ KeepsPromise
<1>1. LedgerInv'
  BY DEF RInv, LedgerInv, Unregistered, Registered, Posting, Goto
<1>2. tells(outcome) = "nothing" /\ outcome' = outcome
  BY DEF RInv, OutcomeInv, Goto
<1>3. outcome.kind = "open"
  BY <1>2 DEF RInv, OutcomeInv, tells
<1>4. OutcomeInv'
  BY <1>2, <1>3 DEF RInv, OutcomeInv, Unregistered, Registered, Posting, Goto,
                    PaidIsReceipted
<1>5. KeepsPromise
  BY DEF KeepsPromise, Promise!vars, Goto
<1> QED
  BY <1>1, <1>4, <1>5 DEF RInv

-----------------------------------------------------------------------------
(* The chain's own steps. *)

LEMMA EpochChangeInv == RInv /\ EpochChange => RInv' /\ KeepsPromise
<1> SUFFICES ASSUME RInv, EpochChange PROVE RInv' /\ KeepsPromise
  OBVIOUS
<1> USE DEF EpochChange, txVars, tipVars, postVars
<1>1. LedgerInv' /\ TipInv' /\ PostInv'
  BY DEF RInv, LedgerInv, TipInv, PostInv, TipOf
<1>2. SubmitInv'
  BY DEF RInv, SubmitInv, Worthwhile, parses, signers, WeightOf
<1>3. OutcomeInv' /\ KeepsPromise
  BY DEF RInv, OutcomeInv, PaidIsReceipted, KeepsPromise, Promise!vars
<1> QED
  BY <1>1, <1>2, <1>3 DEF RInv

(* Tx1 pays what was fixed before it was sent. *)
LEMMA Tx1ExecutesInv == RInv /\ Tx1Executes => RInv' /\ KeepsPromise
<1> SUFFICES ASSUME RInv, Tx1Executes PROVE RInv' /\ KeepsPromise
  OBVIOUS
<1> USE DEF Tx1Executes, tipVars, postVars
<1>1. blob = "none" /\ tx2 = "idle" /\ pc \notin Unregistered /\ pc \notin Registered
  BY DEF RInv, LedgerInv
<1>2. LedgerInv'
  BY <1>1 DEF RInv, LedgerInv
<1>3. TipInv'
  BY <1>1 DEF RInv, TipInv, TipOf, Unregistered
<1>4. PostInv' /\ SubmitInv'
  BY <1>1 DEF RInv, PostInv, SubmitInv, Worthwhile, parses, signers, WeightOf
<1>5. OutcomeInv'
  BY <1>1 DEF RInv, OutcomeInv, PaidIsReceipted
<1>6. KeepsPromise
  BY <1>1 DEF KeepsPromise, Promise!Next, Promise!Register, Promise!vars
<1> QED
  BY <1>2, <1>3, <1>4, <1>5, <1>6 DEF RInv

LEMMA Tx2ExecutesInv == RInv /\ Tx2Executes => RInv' /\ KeepsPromise
<1> SUFFICES ASSUME RInv, Tx2Executes PROVE RInv' /\ KeepsPromise
  OBVIOUS
<1> USE DEF Tx2Executes, Tx2Accepted, tipVars, postVars
<1>1. blob # "certified" /\ tx1 = "landed" /\ pc \in {"tx2", "over"}
  BY DEF RInv, LedgerInv
<1>2. LedgerInv'
  BY <1>1 DEF RInv, LedgerInv, Unregistered, Registered, Posting
<1>3. TipInv' /\ PostInv'
  BY <1>1 DEF RInv, TipInv, TipOf, PostInv
<1>4. SubmitInv'
  BY DEF RInv, SubmitInv, Worthwhile, parses, signers, WeightOf
<1>5. OutcomeInv'
  BY <1>1 DEF RInv, OutcomeInv, PaidIsReceipted
<1>6. KeepsPromise
  BY DEF KeepsPromise, Promise!Next, Promise!Certify, Promise!vars
<1> QED
  BY <1>2, <1>3, <1>4, <1>5, <1>6 DEF RInv

-----------------------------------------------------------------------------
(* The pipeline's. *)

LEMMA BeforeTx1Inv ==
  RInv /\ (FetchCommittee \/ Encode \/ Preflight) => RInv' /\ KeepsPromise
<1> SUFFICES ASSUME RInv, FetchCommittee \/ Encode \/ Preflight PROVE RInv' /\ KeepsPromise
  OBVIOUS
<1> USE DEF FetchCommittee, Encode, Preflight
<1>0. /\ pc \in {"committee", "encode", "preflight"}
      /\ UNCHANGED <<blob, paid, tx1, tx2, quote, shown, nonce, attempts, payload>>
      /\ \/ \E next \in {"encode", "quote", "compose"} :
              /\ Goto(next) /\ (next = "compose" => pc = "preflight")
         \/ \E e : End(Raise(e))
  BY DEF chainVars, txVars, tipVars, postVars
<1>1. tx1 = "idle" /\ tx2 = "idle" /\ attempts = 0
  BY <1>0 DEF RInv, LedgerInv, PostInv, Unregistered, Posting
<1>2. CASE \E next \in {"encode", "quote", "compose"} :
             /\ Goto(next) /\ (next = "compose" => pc = "preflight")
  <2> PICK next \in {"encode", "quote", "compose"} :
             /\ Goto(next) /\ (next = "compose" => pc = "preflight")
    BY <1>2
  <2>1. TipInv' /\ PostInv' /\ SubmitInv'
    BY <1>0, <1>1 DEF RInv, TipInv, TipOf, PostInv, SubmitInv, Goto
  <2>2. QED
    BY <1>0, <2>1, GotoInv DEF Unregistered
<1>3. CASE \E e : End(Raise(e))
  BY <1>0, <1>1, <1>3, EndInv DEF End
<1> QED
  BY <1>0, <1>2, <1>3

(* The one step that fixes the tip. *)
LEMMA QuoteInv == RInv /\ Quote => RInv' /\ KeepsPromise
<1> SUFFICES ASSUME RInv, Quote PROVE RInv' /\ KeepsPromise
  OBVIOUS
<1>0. /\ pc = "quote"
      /\ UNCHANGED <<blob, paid, tx1, tx2, attempts, payload>>
      /\ \/ /\ within_ceiling(quote') /\ shown' = quote'
            /\ nonce' = IF quote'.requires_payment THEN 1 ELSE 0
            /\ Goto("preflight")
         \/ \E e : End(Raise(e))
  BY DEF Quote, chainVars, txVars, postVars
<1>1. tx1 = "idle" /\ tx2 = "idle" /\ attempts = 0
  BY <1>0 DEF RInv, LedgerInv, PostInv, Unregistered, Posting
<1>2. CASE /\ within_ceiling(quote') /\ shown' = quote'
           /\ nonce' = IF quote'.requires_payment THEN 1 ELSE 0
           /\ Goto("preflight")
  <2>1. TipInv'
    BY <1>0, <1>1, <1>2 DEF RInv, TipInv, within_ceiling
  <2>2. PostInv' /\ SubmitInv'
    BY <1>0, <1>1, <1>2 DEF RInv, PostInv, SubmitInv, Goto
  <2>3. QED
    BY <1>0, <1>2, <2>1, <2>2, GotoInv DEF Unregistered
<1>3. CASE \E e : End(Raise(e))
  BY <1>0, <1>1, <1>3, EndInv DEF End
<1> QED
  BY <1>0, <1>2, <1>3

LEMMA SubmitTx1Inv == RInv /\ SubmitTx1 => RInv' /\ KeepsPromise
<1> SUFFICES ASSUME RInv, SubmitTx1 PROVE RInv' /\ KeepsPromise
  OBVIOUS
<1> USE DEF SubmitTx1, chainVars, tipVars, postVars
<1>1. tx1 = "idle" /\ tx2 = "idle" /\ attempts = 0 /\ pc = "compose"
  BY DEF RInv, LedgerInv, PostInv, Unregistered, Posting
<1>2. CASE Goto("tx1") /\ tx1' = "in flight"
  <2> USE <1>1, <1>2 DEF Goto
  <2>1. LedgerInv'
    BY DEF RInv, LedgerInv, Unregistered, Registered, Posting
  <2>2. TipInv' /\ PostInv' /\ SubmitInv'
    BY DEF RInv, TipInv, PostInv, SubmitInv
  <2>3. OutcomeInv' /\ KeepsPromise
    BY DEF RInv, OutcomeInv, PaidIsReceipted, KeepsPromise, Promise!vars
  <2> QED
    BY <2>1, <2>2, <2>3 DEF RInv
<1>3. CASE End(Raise("RelayUploadError")) /\ UNCHANGED tx1
  BY <1>1, <1>3, EndInv DEF End
<1> QED
  BY <1>2, <1>3

(* From the answer to Tx1 to the last POST: the tip is paid, nothing about it
   changes, and every ending is a receipt. *)
LEMMA RegisteredInv ==
  RInv /\ (Tx1Answered \/ Pending \/ Settled) => RInv' /\ KeepsPromise
<1> SUFFICES ASSUME RInv, Tx1Answered \/ Pending \/ Settled PROVE RInv' /\ KeepsPromise
  OBVIOUS
<1>0. /\ pc \in {"tx1", "finality", "readback"}
      /\ UNCHANGED <<blob, paid, tx1, tx2, quote, shown, nonce, payload>>
  BY DEF Tx1Answered, Pending, Settled, chainVars, txVars, tipVars, postVars
<1>1. attempts = 0 /\ tx2 = "idle" /\ (pc # "tx1" => tx1 = "landed" /\ blob # "none")
  BY <1>0 DEF RInv, LedgerInv, PostInv, Registered, Posting
<1>2. CASE /\ attempts' = attempts
           /\ \/ pc = "tx1" /\ End(Raise("RelayUploadError"))
              \/ pc # "tx1" /\ \E s : End(Receipt("resumable", s))
  BY <1>0, <1>1, <1>2, EndInv DEF End, tipVars
<1>3. CASE /\ tx1 = "landed"
           /\ \E next \in {"finality", "readback", "post"} :
                /\ Goto(next)
                /\ attempts' = IF next = "post" THEN 1 ELSE 0
  <2> PICK next \in {"finality", "readback", "post"} :
        Goto(next) /\ attempts' = IF next = "post" THEN 1 ELSE 0
    BY <1>3
  <2>1. TipInv'
    BY <1>0, <1>3 DEF RInv, TipInv, TipOf, Goto
  <2>2. PostInv' /\ SubmitInv'
    BY <1>0, <1>1, RelayAssumption DEF PostInv, SubmitInv, Goto, Posting
  <2>3. QED
    BY <1>0, <1>1, <1>3, <2>1, <2>2, GotoInv DEF Registered, Posting
<1>4. \/ /\ attempts' = attempts
         /\ \/ pc = "tx1" /\ End(Raise("RelayUploadError"))
            \/ pc # "tx1" /\ \E s : End(Receipt("resumable", s))
      \/ /\ tx1 = "landed"
         /\ \E next \in {"finality", "readback", "post"} :
              /\ Goto(next)
              /\ attempts' = IF next = "post" THEN 1 ELSE 0
  BY <1>1 DEF Tx1Answered, Pending, Settled, postVars
<1> QED
  BY <1>2, <1>3, <1>4

LEMMA PostStepInv ==
  RInv /\ (PostUnanswered \/ Retry \/ PostRefused \/ PostAnsweredEmpty) => RInv' /\ KeepsPromise
<1> SUFFICES ASSUME RInv, PostUnanswered \/ Retry \/ PostRefused \/ PostAnsweredEmpty
             PROVE  RInv' /\ KeepsPromise
  OBVIOUS
<1>0. /\ pc \in {"post", "backoff"}
      /\ UNCHANGED <<blob, paid, tx1, tx2, quote, shown, nonce, payload>>
  BY DEF PostUnanswered, Retry, PostRefused, PostAnsweredEmpty, chainVars, txVars,
         tipVars, postVars
<1>1. tx2 = "idle" /\ tx1 = "landed" /\ blob # "none"
  BY <1>0 DEF RInv, LedgerInv, Registered, Posting
<1>2. CASE /\ attempts' = attempts
           /\ \E r \in {"resumable", "rejected"} : \E s : End(Receipt(r, s))
  BY <1>0, <1>1, <1>2, EndInv DEF End, tipVars
<1>3. CASE \E next \in {"post", "backoff"} :
             /\ Goto(next) /\ attempts' \in 0 .. max_upload_attempts
             /\ next = "backoff" => attempts' < max_upload_attempts
  <2> PICK next \in {"post", "backoff"} :
             /\ Goto(next) /\ attempts' \in 0 .. max_upload_attempts
             /\ next = "backoff" => attempts' < max_upload_attempts
    BY <1>3
  <2>1. TipInv'
    BY <1>0, <1>1 DEF RInv, TipInv, TipOf
  <2>2. PostInv' /\ SubmitInv'
    BY <1>0, <1>1 DEF PostInv, SubmitInv, Goto, Posting
  <2>3. QED
    BY <1>0, <1>1, <2>1, <2>2, GotoInv DEF Registered, Posting
<1>4. attempts \in 0 .. max_upload_attempts
  BY DEF RInv, PostInv
<1>5. CASE Retry
  <2>1. attempts < max_upload_attempts
    BY <1>5 DEF Retry, RInv, PostInv
  <2>2. attempts' \in 0 .. max_upload_attempts
    BY <1>4, <1>5, <2>1, RelayAssumption DEF Retry
  <2>3. QED
    BY <1>3, <1>5, <2>2 DEF Retry
<1>6. CASE PostUnanswered \/ PostRefused \/ PostAnsweredEmpty
  BY <1>2, <1>3, <1>4, <1>6 DEF PostUnanswered, PostRefused, PostAnsweredEmpty, postVars
<1> QED
  BY <1>5, <1>6

(* A certificate is taken on only when it parses and may verify; any other
   ends the call, and the payload is not looked at again. *)
LEMMA PostAnsweredInv == RInv /\ PostAnswered => RInv' /\ KeepsPromise
<1> SUFFICES ASSUME RInv, PostAnswered PROVE RInv' /\ KeepsPromise
  OBVIOUS
<1>0. /\ pc = "post"
      /\ UNCHANGED <<blob, paid, tx1, tx2, quote, shown, nonce, attempts>>
      /\ \/ parses(payload') /\ TRUE \in Verdicts(payload') /\ Goto("submit")
         \/ End(Receipt("resumable", "certify"))
  BY DEF PostAnswered, chainVars, txVars, tipVars
<1>1. tx2 = "idle" /\ tx1 = "landed" /\ blob # "none"
  BY <1>0 DEF RInv, LedgerInv, Registered, Posting
<1>2. CASE parses(payload') /\ TRUE \in Verdicts(payload') /\ Goto("submit")
  <2>1. Worthwhile(payload')
    BY <1>2, Zenon DEF Worthwhile, Verdicts
  <2>2. SubmitInv'
    BY <2>1 DEF SubmitInv, Worthwhile, parses, signers, WeightOf
  <2>3. TipInv' /\ PostInv'
    BY <1>0, <1>1, <1>2 DEF RInv, TipInv, TipOf, PostInv, Goto, Posting
  <2>4. QED
    BY <1>0, <1>1, <1>2, <2>2, <2>3, GotoInv DEF Registered, Posting
<1>3. CASE End(Receipt("resumable", "certify"))
  BY <1>0, <1>1, <1>3, EndInv DEF End, tipVars
<1> QED
  BY <1>0, <1>2, <1>3

LEMMA Tx2Inv == RInv /\ (SubmitTx2 \/ Tx2Answered) => RInv' /\ KeepsPromise
<1> SUFFICES ASSUME RInv, SubmitTx2 \/ Tx2Answered PROVE RInv' /\ KeepsPromise
  OBVIOUS
<1> USE DEF chainVars, txVars, tipVars, postVars
<1>1. CASE SubmitTx2
  <2>1. tx1 = "landed" /\ tx2 = "idle" /\ blob # "none" /\ pc = "submit"
    BY <1>1 DEF SubmitTx2, RInv, LedgerInv, Registered, Posting
  <2>2. CASE Goto("tx2") /\ tx2' = "in flight"
    <3> USE <1>1, <2>1, <2>2 DEF SubmitTx2, Goto
    <3>1. LedgerInv'
      BY DEF RInv, LedgerInv, Unregistered, Registered, Posting
    <3>2. TipInv' /\ PostInv'
      BY DEF RInv, TipInv, TipOf, PostInv, Posting
    <3>3. SubmitInv'
      BY DEF RInv, SubmitInv, Worthwhile, parses, signers, WeightOf
    <3>4. OutcomeInv' /\ KeepsPromise
      BY DEF RInv, OutcomeInv, PaidIsReceipted, KeepsPromise, Promise!vars
    <3> QED
      BY <3>1, <3>2, <3>3, <3>4 DEF RInv
  <2>3. CASE End(Receipt("resumable", "certify")) /\ UNCHANGED tx2
    BY <1>1, <2>1, <2>3, EndInv DEF SubmitTx2, End
  <2> QED
    BY <1>1, <2>2, <2>3 DEF SubmitTx2
<1>2. CASE Tx2Answered
  <2>1. pc = "tx2" /\ blob # "none" /\ (tx2 = "landed" => blob = "certified")
    BY <1>2 DEF Tx2Answered, RInv, LedgerInv, Registered, Posting
  <2>2. CASE tx2 = "landed" /\ End(Receipt("certified", "none"))
    BY <1>2, <2>1, <2>2, EndInv DEF Tx2Answered, End
  <2>3. CASE End(Receipt("resumable", "certify"))
    BY <1>2, <2>1, <2>3, EndInv DEF Tx2Answered, End
  <2> QED
    BY <1>2, <2>2, <2>3 DEF Tx2Answered
<1> QED
  BY <1>1, <1>2

LEMMA CancelInv == RInv /\ Cancel => RInv' /\ KeepsPromise
BY EndInv DEF Cancel, End, chainVars, txVars, postVars

LEMMA NextInv == RInv /\ [Next]_vars => RInv' /\ KeepsPromise
<1> SUFFICES ASSUME RInv, [Next]_vars PROVE RInv' /\ KeepsPromise
  OBVIOUS
<1>1. CASE EpochChange \/ Tx1Executes \/ Tx2Executes
  BY <1>1, EpochChangeInv, Tx1ExecutesInv, Tx2ExecutesInv
<1>2. CASE Pipeline
  BY <1>2, BeforeTx1Inv, QuoteInv, SubmitTx1Inv, RegisteredInv, PostStepInv,
     PostAnsweredInv, Tx2Inv DEF Pipeline
<1>3. CASE Cancel
  BY <1>3, CancelInv
<1>4. CASE UNCHANGED vars
  <2> USE <1>4 DEF vars, chainVars, txVars, tipVars, postVars
  <2>1. LedgerInv' /\ TipInv' /\ PostInv'
    BY DEF RInv, LedgerInv, TipInv, TipOf, PostInv
  <2>2. SubmitInv'
    BY DEF RInv, SubmitInv, Worthwhile, parses, signers, WeightOf
  <2>3. OutcomeInv' /\ KeepsPromise
    BY DEF RInv, OutcomeInv, PaidIsReceipted, KeepsPromise, Promise!vars
  <2> QED
    BY <2>1, <2>2, <2>3 DEF RInv
<1> QED
  BY <1>1, <1>2, <1>3, <1>4 DEF Next

LEMMA Inductive == Spec => []RInv
<1>1. RInv /\ [Next]_vars => RInv'
  BY NextInv
<1> QED
  BY InitInv, <1>1, PTL DEF Spec

-----------------------------------------------------------------------------
(* Types. *)

Quotes == [requires_payment : BOOLEAN, amount : Nat]

(* What the invariant leaves open. *)
ValueInv ==
  /\ epoch \in 1 .. MaxEpoch /\ committee \in 0 .. MaxEpoch
  /\ quote \in Quotes /\ shown \in Quotes /\ nonce \in Nat

(* The tip of every policy that can be quoted is an amount. *)
LEMMA QuoteType == \A kind \in Kinds : QuoteOf(kind) \in Quotes
<1> TAKE kind \in Kinds
<1>1. CASE kind = None
  BY <1>1 DEF QuoteOf, Nothing, Quotes
<1>2. CASE kind # None
  <2>1. compute_tip(kind) \in Nat
    <3>1. CASE kind \in [amount : Nat]
      BY <3>1 DEF compute_tip
    <3>2. CASE kind \in [base : Nat, encoded_size_mul_per_kib : Nat]
      <4>1. compute_tip(kind)
              = kind.base + ((encoded_length + 1023) \div 1024) * kind.encoded_size_mul_per_kib
        BY <3>2 DEF compute_tip
      <4>2. /\ kind.base \in Nat /\ kind.encoded_size_mul_per_kib \in Nat
            /\ (encoded_length + 1023) \div 1024 \in Nat
        BY <3>2, RelayAssumption
      <4> DEFINE kibs == (encoded_length + 1023) \div 1024
                 mul  == kind.encoded_size_mul_per_kib
                 base == kind.base
      <4> HIDE DEF kibs, mul, base
      <4>3. base \in Nat /\ mul \in Nat /\ kibs \in Nat
        BY <4>2 DEF base, mul, kibs
      <4>4. base + kibs * mul \in Nat
        BY <4>3
      <4>5. QED
        BY <4>1, <4>4 DEF base, mul, kibs
    <3>3. QED
      BY <1>2, <3>1, <3>2, KindsAssumption
  <2>2. QED
    BY <1>2, <2>1 DEF QuoteOf, Quotes
<1> QED
  BY <1>1, <1>2

LEMMA ValueStep == ValueInv /\ [Next]_vars => ValueInv'
<1> SUFFICES ASSUME ValueInv, [Next]_vars PROVE ValueInv'
  OBVIOUS
<1> USE DEF chainVars, txVars, tipVars, postVars
<1>1. CASE Quote
  <2>1. /\ UNCHANGED <<epoch, committee>>
        /\ quote' = quote \/ \E kind \in Kinds : quote' = QuoteOf(kind)
        /\ shown' = shown \/ shown' = quote'
        /\ nonce' \in {nonce, 0, 1}
    BY <1>1 DEF Quote
  <2>2. QED
    BY <2>1, QuoteType DEF ValueInv
<1>2. CASE EpochChange
  BY <1>2, RelayAssumption DEF EpochChange, ValueInv
<1>3. CASE FetchCommittee
  BY <1>3, RelayAssumption DEF FetchCommittee, ValueInv
<1>4. CASE UNCHANGED <<epoch, committee, quote, shown, nonce>>
  BY <1>4 DEF ValueInv
<1> QED
  BY <1>1, <1>2, <1>3, <1>4 DEF Next, Pipeline, vars, Tx1Executes, Tx2Executes, Encode,
     Preflight, SubmitTx1, Tx1Answered, Pending, Settled, PostUnanswered, Retry,
     PostRefused, PostAnswered, PostAnsweredEmpty, SubmitTx2, Tx2Answered, Cancel

-----------------------------------------------------------------------------
(* The theorems. *)

(* The variables always hold values of their types; in particular no sum of
   attempts passes the budget. *)
THEOREM RelayTypeCorrect == Spec => []TypeOK
<1>1. Init => ValueInv
  BY RelayAssumption DEF Init, ValueInv, Quotes, Nothing
<1>2. RInv /\ ValueInv => TypeOK
  <2> SUFFICES ASSUME RInv, ValueInv PROVE TypeOK
    OBVIOUS
  <2>1. paid \in [amount : Nat, nonce : Nat]
    BY DEF RInv, TipInv, TipOf, NoTip, ValueInv, Quotes
  <2>2. QED
    BY <2>1 DEF RInv, LedgerInv, PostInv, OutcomeInv, ValueInv, Quotes, TypeOK,
       Unregistered, Registered, Posting
<1> QED
  BY Inductive, ValueStep, <1>1, <1>2, PTL DEF Spec

(* No tip leaves that the caller was not shown, or above the ceiling. *)
THEOREM TipIsAgreed == Spec => []PaysWhatWasShown
<1>1. RInv => PaysWhatWasShown
  BY DEF RInv, TipInv, TipOf, PaysWhatWasShown
<1> QED
  BY Inductive, <1>1, PTL

(* Every POST, and every receipt, carries the nonce the tip was paid under. *)
THEOREM TokensAreThePaidOnes == Spec => []TokensMatchPayment
<1>1. RInv => TokensMatchPayment
  <2> SUFFICES ASSUME RInv PROVE TokensMatchPayment
    OBVIOUS
  <2>1. pc = "post" => tx1 = "landed"
    BY DEF RInv, LedgerInv, Registered, Posting
  <2>2. outcome.kind = "receipt" => tx1 = "landed" /\ outcome.nonce = nonce
    BY DEF RInv, OutcomeInv, LedgerInv
  <2>3. tx1 = "landed" => blob # "none" /\ paid.nonce = nonce
    BY DEF RInv, LedgerInv, TipInv, TipOf, NoTip
  <2> QED
    BY <2>1, <2>2, <2>3 DEF TokensMatchPayment
<1> QED
  BY Inductive, <1>1, PTL

(* Once a POST has gone out, nothing but a cancellation is raised. *)
THEOREM NothingPaidIsLost == Spec => []PaidIsReceipted
<1>1. RInv => PaidIsReceipted
  BY DEF RInv, OutcomeInv
<1> QED
  BY Inductive, <1>1, PTL

(* Whatever the relay answers, Tx2 goes out only with a certificate for this blob
   whose signers are members that hold a quorum of the shards. *)
THEOREM Tx2IsJustified == Spec => []Tx2IsWorthItsGas
<1>1. ASSUME Worthwhile(payload)
      PROVE  /\ payload.confirms = "this blob" /\ payload.sound
             /\ signers(payload) \subseteq Positions(committee_size)
             /\ 3 * WeightOf(signers(payload)) > 2 * n_shards
  <2>1. /\ payload.confirms = "this blob" /\ payload.sound
        /\ signers(payload) \in SUBSET Positions(committee_size)
        /\ is_quorum(WeightOf(signers(payload)), n_shards)
    BY <1>1 DEF Worthwhile, parses, can_pack
  <2>2. WeightOf(signers(payload)) \in Nat
    <3>1. 0 \in Int /\ committee_size - 1 \in Int
      BY RelayAssumption
    <3>2. IsFiniteSet(Positions(committee_size))
      BY <3>1, FS_Interval DEF Positions
    <3>3. \A p \in Positions(committee_size) : weight[p] \in Nat
      BY RelayAssumption
    <3>4. TotalWeight(weight, signers(payload)) \in Nat
      BY <2>1, <3>2, <3>3, WeightMonotone
    <3>5. QED
      BY <3>4 DEF TotalWeight, WeightOf
  <2>3. 3 * WeightOf(signers(payload)) > 2 * n_shards
    <3> DEFINE W == WeightOf(signers(payload))
    <3> HIDE DEF W
    <3>1. W \in Nat /\ n_shards \in Nat /\ is_quorum(W, n_shards)
      BY <2>1, <2>2, RelayAssumption DEF W
    <3>2. 3 * W > 2 * n_shards
      BY <3>1 DEF is_quorum
    <3>3. QED
      BY <3>2 DEF W
  <2>4. QED
    BY <2>1, <2>3
<1>2. RInv => Tx2IsWorthItsGas
  BY <1>1 DEF RInv, SubmitInv, Tx2IsWorthItsGas
<1> QED
  BY Inductive, <1>2, PTL

(* Whatever store_blob_relay returns or raises, the chain is as it says. *)
THEOREM RelayImplementsPaidBlob == Spec => ImplementsPaidBlob
<1>1. Init => Promise!Init
  BY Told DEF Init, Promise!Init
<1>2. RInv /\ [Next]_vars => [Promise!Next]_(Promise!vars)
  BY NextInv DEF KeepsPromise
<1> QED
  BY Inductive, <1>1, <1>2, PTL DEF Spec, ImplementsPaidBlob, Promise!Spec
=============================================================================
