----------------------------- MODULE RelayWrite -----------------------------
(***************************************************************************)
(* store_blob_relay (pytusk/core/pipelines/write.py): quote the relay's    *)
(* tip, pay it and register the blob in one transaction (Tx1), POST the    *)
(* blob to the relay until it answers, check the certificate it returns,   *)
(* certify (Tx2).                                                          *)
(*                                                                         *)
(* As in NativeWrite, pc is the await the coroutine is suspended at and the*)
(* chain goes on by itself.  The relay is not trusted: it may answer any   *)
(* POST with anything of Payloads, signed for any epoch so far.            *)
(***************************************************************************)
EXTENDS Certification, Sequences

CONSTANTS
  Kinds,                 \* the tip policies the relay may quote
  encoded_length,        \* bytes of the encoded blob
  max_tip,               \* the caller's ceiling; none is one above every quote
  max_upload_attempts,
  weight,                \* the shard count of each committee position
  committee_size,
  n_shards,
  Payloads,              \* what the relay may return as a certificate
  MaxEpoch               \* bound of the run on epoch changes

ASSUME RelayAssumption ==
  /\ encoded_length \in Nat /\ max_tip \in Nat
  /\ max_upload_attempts \in Nat \ {0}
  /\ committee_size \in Nat /\ n_shards \in Nat
  /\ weight \in [Positions(committee_size) -> Nat]
  /\ MaxEpoch \in Nat \ {0}

VARIABLES
  epoch, blob,     \* the chain: the live epoch and the Blob object
  paid,            \* the tip that Tx1 has paid
  tx1, tx2,        \* the fate of the two transactions
  pc,
  committee,       \* the epoch of the committee in hand, 0 before it is read
  quote,           \* what the relay asks
  shown,           \* what on_quote was called with
  nonce,           \* the nonce of the authentication package, 0 if none
  attempts,        \* POSTs made
  payload,         \* the last certificate the relay returned
  outcome          \* what the caller gets

chainVars == <<epoch, blob, paid>>
txVars    == <<tx1, tx2>>
tipVars   == <<quote, shown, nonce>>
postVars  == <<attempts, payload>>
vars == <<chainVars, txVars, pc, committee, tipVars, postVars, outcome>>

Nothing == [requires_payment |-> FALSE, amount |-> 0]
NoTip   == [amount |-> 0, nonce |-> 0]
None    == [form |-> "none"]

(* _parse_tip_kind lets no other policy through: amounts are not negative. *)
ASSUME KindsAssumption ==
  Kinds \subseteq {None} \cup [amount : Nat]
                    \cup [base : Nat, encoded_size_mul_per_kib : Nat]

Open == [kind |-> "open"]
Raise(error) == [kind |-> "raised", error |-> error]
Receipt(result, stage) ==
  [kind |-> "receipt", outcome |-> result, failed_stage |-> stage, nonce |-> nonce]

TypeOK ==
  /\ epoch \in 1 .. MaxEpoch /\ committee \in 0 .. MaxEpoch
  /\ blob \in {"none", "registered", "certified"}
  /\ paid \in [amount : Nat, nonce : Nat]
  /\ {tx1, tx2} \subseteq {"idle", "in flight", "landed", "aborted"}
  /\ pc \in {"committee", "encode", "quote", "preflight", "compose", "tx1",
             "finality", "readback", "post", "backoff", "submit", "tx2", "over"}
  /\ quote \in [requires_payment : BOOLEAN, amount : Nat]
  /\ shown \in [requires_payment : BOOLEAN, amount : Nat]
  /\ nonce \in Nat
  /\ attempts \in 0 .. max_upload_attempts
  /\ outcome.kind \in {"open", "raised", "receipt"}

(* The arguments have passed the checks that need no network: a signable sponsor,
   at least one attempt, a relay that is configured. *)
Init ==
  /\ epoch = 1 /\ blob = "none" /\ paid = NoTip
  /\ tx1 = "idle" /\ tx2 = "idle"
  /\ pc = "committee" /\ committee = 0
  /\ quote = Nothing /\ shown = Nothing /\ nonce = 0
  /\ attempts = 0 /\ payload = None
  /\ outcome = Open

Goto(next) == pc' = next /\ UNCHANGED outcome
End(what)  == pc' = "over" /\ outcome' = what

-----------------------------------------------------------------------------
(* Before anything is spent: every failure is raised. *)

FetchCommittee ==
  /\ pc = "committee"
  /\ \/ committee' = epoch /\ Goto("encode")
     \/ End(Raise("RelayUploadError")) /\ UNCHANGED committee
  /\ UNCHANGED <<chainVars, txVars, tipVars, postVars>>

Encode ==
  /\ pc = "encode"
  /\ Goto("quote") \/ End(Raise("RelayUploadError"))
  /\ UNCHANGED <<chainVars, txVars, committee, tipVars, postVars>>

(* A flat amount, or one that grows with each started KiB of encoded length. *)
compute_tip(kind) ==
  IF "amount" \in DOMAIN kind THEN kind.amount
  ELSE kind.base + ((encoded_length + 1023) \div 1024) * kind.encoded_size_mul_per_kib

QuoteOf(kind) ==
  IF kind = None THEN Nothing
  ELSE [requires_payment |-> TRUE, amount |-> compute_tip(kind)]

(* Broken: a tip one above the ceiling is accepted. *)
ceiling_off_by_one(q) == q.amount <= max_tip + 1

(* A tip equal to the ceiling is accepted. *)
within_ceiling(q) == q.amount <= max_tip

(* The quote passes the ceiling and the caller's on_quote, which may raise, and
   the authentication package is built with a fresh nonce. *)
Quote ==
  /\ pc = "quote"
  /\ \/ \E kind \in Kinds :
          /\ quote' = QuoteOf(kind)
          /\ \/ /\ within_ceiling(quote')
                /\ shown' = quote'
                /\ \/ /\ nonce' = IF quote'.requires_payment THEN 1 ELSE 0
                      /\ Goto("preflight")
                   \/ End(Raise("declined")) /\ UNCHANGED nonce
             \/ /\ ~ within_ceiling(quote')
                /\ End(Raise("TipCeilingExceededError"))
                /\ UNCHANGED <<shown, nonce>>
     \/ End(Raise("TipConfigError")) /\ UNCHANGED tipVars
  /\ UNCHANGED <<chainVars, txVars, committee, postVars>>

(* The tip coin is usable and a WAL coin is found. *)
Preflight ==
  /\ pc = "preflight"
  /\ Goto("compose") \/ End(Raise("RuntimeError"))
  /\ UNCHANGED <<chainVars, txVars, committee, tipVars, postVars>>

(* The tip first, then the registration, in one transaction. *)
SubmitTx1 ==
  /\ pc = "compose"
  /\ \/ Goto("tx1") /\ tx1' = "in flight"
     \/ End(Raise("RelayUploadError")) /\ UNCHANGED tx1
  /\ UNCHANGED <<chainVars, tx2, committee, tipVars, postVars>>

-----------------------------------------------------------------------------
(* The chain. *)

EpochChange ==
  /\ epoch < MaxEpoch
  /\ epoch' = epoch + 1
  /\ UNCHANGED <<blob, paid, txVars, pc, committee, tipVars, postVars, outcome>>

TipOf(q, n) == IF q.requires_payment THEN [amount |-> q.amount, nonce |-> n]
                                      ELSE NoTip

Tx1Executes ==
  /\ tx1 = "in flight"
  /\ \/ /\ tx1' = "landed"
        /\ blob' = "registered" /\ paid' = TipOf(quote, nonce)
     \/ /\ tx1' = "aborted"
        /\ UNCHANGED <<blob, paid>>
  /\ UNCHANGED <<epoch, tx2, pc, committee, tipVars, postVars, outcome>>

(* certify_blob checks the aggregate against the committee of the live epoch. *)
Tx2Accepted == blob = "registered" /\ payload.sound /\ payload.epoch = epoch

Tx2Executes ==
  /\ tx2 = "in flight"
  /\ \/ Tx2Accepted /\ tx2' = "landed" /\ blob' = "certified"
     \/ tx2' = "aborted" /\ UNCHANGED blob
  /\ UNCHANGED <<epoch, paid, tx1, pc, committee, tipVars, postVars, outcome>>

-----------------------------------------------------------------------------
(* From here on a failure is a receipt. *)

Tx1Answered ==
  /\ pc = "tx1"
  /\ \/ tx1 = "landed" /\ Goto("finality")
     \/ End(Raise("RelayUploadError"))
  /\ UNCHANGED <<chainVars, txVars, committee, tipVars, postVars>>

(* RegistrationPendingError, from the poll or from the read-back. *)
Pending ==
  /\ \/ pc = "finality" /\ End(Receipt("resumable", "register_finality"))
     \/ pc = "readback" /\ End(Receipt("resumable", "register_readback"))
  /\ UNCHANGED <<chainVars, txVars, committee, tipVars, postVars>>

Settled ==
  /\ \/ pc = "finality" /\ Goto("readback") /\ UNCHANGED attempts
     \/ pc = "readback" /\ Goto("post") /\ attempts' = 1
  /\ UNCHANGED <<chainVars, txVars, committee, tipVars, payload>>

-----------------------------------------------------------------------------
(* upload_to_relay: the POST loop. *)

(* No answer, a 5xx, or a 4xx that means "not now": back off, or report
   UNANSWERED when the budget is used. *)
PostUnanswered ==
  /\ pc = "post"
  /\ IF attempts < max_upload_attempts
     THEN Goto("backoff")
     ELSE End(Receipt("resumable", "relay_upload"))
  /\ UNCHANGED <<chainVars, txVars, committee, tipVars, postVars>>

(* Broken: each attempt builds its own authentication package. *)
RetryWithFreshNonce ==
  /\ pc = "backoff"
  /\ Goto("post")
  /\ attempts' = attempts + 1
  /\ nonce' = nonce + 1
  /\ UNCHANGED <<chainVars, txVars, committee, quote, shown, payload>>

(* Broken: attempts are not counted. *)
RetryUncounted ==
  /\ pc = "backoff"
  /\ Goto("post")
  /\ UNCHANGED <<chainVars, txVars, committee, tipVars, postVars>>

(* The same request again: the same tx_id and the same nonce. *)
Retry ==
  /\ pc = "backoff"
  /\ Goto("post")
  /\ attempts' = attempts + 1
  /\ UNCHANGED <<chainVars, txVars, committee, tipVars, payload>>

(* Any other error status, or a 2xx whose body is not the documented one. *)
PostRefused ==
  /\ pc = "post"
  /\ End(Receipt("rejected", "relay_upload"))
  /\ UNCHANGED <<chainVars, txVars, committee, tipVars, postVars>>

(* The signers are positions; a position named twice counts once. *)
signers(p) == {p.signers[i] : i \in DOMAIN p.signers}
WeightOf(S) == Cardinality(UNION {{p} \X (1 .. weight[p]) : p \in S})

(* Broken: the weight is summed over the list as it came. *)
parses_counting_twice(p) ==
  /\ p.form = "certificate" /\ p.signers # <<>> /\ p.confirms = "this blob"
  /\ can_pack(signers(p), committee_size)
  /\ is_quorum(Cardinality(UNION {{i} \X (1 .. weight[p.signers[i]]) :
                                   i \in DOMAIN p.signers}), n_shards)

(* The epoch is taken from the signed message, not from the committee. *)
parses(p) ==
  /\ p.form = "certificate" /\ p.signers # <<>> /\ p.confirms = "this blob"
  /\ can_pack(signers(p), committee_size)
  /\ is_quorum(WeightOf(signers(p)), n_shards)

(* What verify_certificate may answer, with the keys of the committee in hand:
   members that kept their positions across an epoch change verify as before. *)
Verdicts(p) == IF ~ p.sound THEN {FALSE}
               ELSE IF p.epoch = committee THEN {TRUE} ELSE BOOLEAN

(* Broken: the error of the local verification is not caught. *)
PostAnsweredUncaught ==
  /\ pc = "post"
  /\ \E p \in Payloads, e \in 1 .. epoch :
       LET answer == [p EXCEPT !.epoch = e]
       IN  /\ payload' = answer
           /\ IF parses(answer)
              THEN \E verified \in Verdicts(answer) :
                     IF verified THEN Goto("submit")
                     ELSE End(Raise("RelayCertifyTransactionError"))
              ELSE End(Receipt("resumable", "certify"))
  /\ UNCHANGED <<chainVars, txVars, committee, tipVars, attempts>>

(* The relay answers with a certificate, which is parsed and, before Tx2 is
   composed, verified. *)
PostAnswered ==
  /\ pc = "post"
  /\ \E p \in Payloads, e \in 1 .. epoch :
       LET answer == [p EXCEPT !.epoch = e]
       IN  /\ payload' = answer
           /\ \/ /\ parses(answer) /\ TRUE \in Verdicts(answer)
                 /\ Goto("submit")
              \/ /\ ~ parses(answer) \/ FALSE \in Verdicts(answer)
                 /\ End(Receipt("resumable", "certify"))
  /\ UNCHANGED <<chainVars, txVars, committee, tipVars, attempts>>

(* ... or with no certificate in an otherwise good answer. *)
PostAnsweredEmpty ==
  /\ pc = "post"
  /\ End(Receipt("resumable", "relay_upload"))
  /\ UNCHANGED <<chainVars, txVars, committee, tipVars, postVars>>

-----------------------------------------------------------------------------
(* Certification: every failure of Tx2 is a RESUMABLE receipt. *)

SubmitTx2 ==
  /\ pc = "submit"
  /\ \/ Goto("tx2") /\ tx2' = "in flight"
     \/ End(Receipt("resumable", "certify")) /\ UNCHANGED tx2
  /\ UNCHANGED <<chainVars, tx1, committee, tipVars, postVars>>

(* Broken: an answer is taken for a success. *)
Tx2AnsweredUnchecked ==
  /\ pc = "tx2"
  /\ \/ tx2 \in {"landed", "aborted"} /\ End(Receipt("certified", "none"))
     \/ End(Receipt("resumable", "certify"))
  /\ UNCHANGED <<chainVars, txVars, committee, tipVars, postVars>>

Tx2Answered ==
  /\ pc = "tx2"
  /\ \/ tx2 = "landed" /\ End(Receipt("certified", "none"))
     \/ End(Receipt("resumable", "certify"))
  /\ UNCHANGED <<chainVars, txVars, committee, tipVars, postVars>>

Cancel ==
  /\ pc # "over"
  /\ End(Raise("CancelledError"))
  /\ UNCHANGED <<chainVars, txVars, committee, tipVars, postVars>>

Pipeline ==
  \/ FetchCommittee \/ Encode \/ Quote \/ Preflight \/ SubmitTx1 \/ Tx1Answered
  \/ Pending \/ Settled
  \/ PostUnanswered \/ Retry \/ PostRefused \/ PostAnswered \/ PostAnsweredEmpty
  \/ SubmitTx2 \/ Tx2Answered

Next == EpochChange \/ Tx1Executes \/ Tx2Executes \/ Pipeline \/ Cancel

(* Every await is bounded by a timeout, and the retries by their budget. *)
Spec     == Init /\ [][Next]_vars
FairSpec == Spec /\ WF_vars(Pipeline)

-----------------------------------------------------------------------------
(* Properties. *)

tells(what) == IF what.kind = "open" THEN "nothing"
               ELSE IF what.kind = "raised" THEN "exception"
               ELSE IF what.outcome = "certified" THEN "certified" ELSE "uncertified"

(* The relay receipt keeps the promise of the native one: CERTIFIED only for a
   blob that is, RESUMABLE and REJECTED only for one that was paid for. *)
Promise == INSTANCE PaidBlob WITH told <- tells(outcome)
ImplementsPaidBlob == Promise!Spec

(* No tip leaves that the caller did not agree to: what Tx1 pays is what
   on_quote was shown, and within the ceiling. *)
PaysWhatWasShown ==
  paid # NoTip => shown.requires_payment /\ paid.amount = shown.amount
                  /\ paid.amount <= max_tip

(* "Every attempt reuses the same tokens; generating a fresh nonce would abandon
   the tip already paid": a POST goes out only for a registered blob and with
   the nonce its tip was paid under, and so does a later one that is made with
   the tokens of a receipt. *)
TokensMatchPayment ==
  /\ pc = "post" => blob # "none" /\ paid.nonce = nonce
  /\ outcome.kind = "receipt" => blob # "none" /\ paid.nonce = outcome.nonce

(* "Once the tip is paid and the blob is registered, every later failure returns
   a RelayBlobReceipt": no error of the POST, the certificate or Tx2 is raised. *)
PaidIsReceipted ==
  attempts > 0 /\ outcome.kind = "raised" => outcome.error = "CancelledError"

(* Gas is spent on Tx2 only for a certificate that the contract could accept:
   for this blob, with a sound aggregate of members of the committee that hold a
   quorum of its shards, whatever list of signers the relay sent. *)
Tx2IsWorthItsGas ==
  tx2 # "idle" =>
    /\ payload.confirms = "this blob" /\ payload.sound
    /\ signers(payload) \subseteq Positions(committee_size)
    /\ 3 * WeightOf(signers(payload)) > 2 * n_shards

(* The call ends, however the relay behaves. *)
RelayWriteEnds == <>(pc = "over")
=============================================================================
