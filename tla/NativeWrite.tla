---------------------------- MODULE NativeWrite ----------------------------
(***************************************************************************)
(* store_blob_native (pytusk/core/pipelines/write.py): encode, register    *)
(* (Tx1), deliver, certify (Tx2), as one coroutine against a chain that    *)
(* goes on without it: the Walrus epoch advances between any two reads, a  *)
(* submitted transaction executes whether or not its answer comes back.    *)
(*                                                                         *)
(* pc is the await the coroutine is suspended at.  upload_slivers and      *)
(* collect_confirmations are reduced to their contracts: an error, or for  *)
(* the latter a certificate for the epoch of the committee it was given    *)
(* (SliverUpload and ConfirmationCollection have their insides).           *)
(***************************************************************************)
EXTENDS Naturals

CONSTANTS
  sender,           \* the address Tx1 is signed by
  active_address,   \* what an omitted sender defaults to
  recipient,        \* who gets the certified Blob, the sender if not given
  max_attempts,     \* epoch checks of certify
  MaxEpoch          \* bound of the run on epoch changes

ASSUME WriteAssumption == max_attempts \in Nat \ {0} /\ MaxEpoch \in Nat \ {0}

VARIABLES
  epoch,         \* the live Walrus epoch
  blob,          \* the Blob object: none, registered or certified
  owner,         \* who owns it
  tx1, tx2,      \* the fate of the two transactions
  pc,
  committee,     \* the epoch of the committee in hand, 0 before the first
  certificate,   \* the epoch the certificate in hand was signed for
  attempts,
  outcome        \* what the caller gets

chainVars  == <<epoch, blob, owner>>
clientVars == <<pc, committee, certificate, attempts, outcome>>
txVars     == <<tx1, tx2>>
vars == <<chainVars, txVars, clientVars>>

Stages == {"committee", "resolve_package_id", "encode", "register_tx1",
           "register_finality", "register_readback", "upload_slivers",
           "collect_confirmations", "certify"}

Open == [kind |-> "open"]
Raise(error, stage)  == [kind |-> "raised", error |-> error, stage |-> stage]
Receipt(certified, failed_stage) ==
  [kind |-> "receipt", certified |-> certified, failed_stage |-> failed_stage]

(* Errors that leave the pipeline as they are, with no stage. *)
Bare == {"RuntimeError", "CancelledError"}

TypeOK ==
  /\ epoch \in 1 .. MaxEpoch
  /\ blob \in {"none", "registered", "certified"}
  /\ owner \in {sender, recipient, "nobody"}
  /\ {tx1, tx2} \subseteq {"idle", "in flight", "landed", "aborted"}
  /\ pc \in {"committee", "encode", "compose", "tx1", "finality", "readback",
             "slivers", "confirm", "check epoch", "refetch", "recollect",
             "submit", "tx2", "over"}
  /\ committee \in 0 .. MaxEpoch /\ certificate \in 0 .. MaxEpoch
  /\ attempts \in 0 .. max_attempts
  /\ \/ outcome = Open
     \/ outcome \in [kind : {"raised"}, error : {"NativeUploadError"}, stage : Stages]
     \/ outcome \in [kind : {"raised"}, error : Bare, stage : {"none"}]
     \/ outcome \in [kind : {"receipt"}, certified : BOOLEAN,
                     failed_stage : Stages \cup {"none"}]

Init ==
  /\ epoch = 1 /\ blob = "none" /\ owner = "nobody"
  /\ tx1 = "idle" /\ tx2 = "idle"
  /\ pc = "committee"
  /\ committee = 0 /\ certificate = 0 /\ attempts = 0
  /\ outcome = Open

-----------------------------------------------------------------------------
(* The chain. *)

EpochChange ==
  /\ epoch < MaxEpoch
  /\ epoch' = epoch + 1
  /\ UNCHANGED <<blob, owner, txVars, clientVars>>

Tx1Executes ==
  /\ tx1 = "in flight"
  /\ \/ /\ tx1' = "landed"
        /\ blob' = "registered" /\ owner' = sender
     \/ /\ tx1' = "aborted"
        /\ UNCHANGED <<blob, owner>>
  /\ UNCHANGED <<epoch, tx2, clientVars>>

(* certify_blob takes the Blob by mutable reference from its owner and checks
   the aggregate against the committee of the live epoch; the same transaction
   hands the Blob on.  certify passes no sender, so the active address signs. *)
tx2_signer == active_address
Tx2Accepted == /\ blob = "registered" /\ owner = tx2_signer
               /\ certificate = epoch

Tx2Executes ==
  /\ tx2 = "in flight"
  /\ \/ /\ Tx2Accepted
        /\ tx2' = "landed"
        /\ blob' = "certified" /\ owner' = recipient
     \/ /\ tx2' = "aborted"
        /\ UNCHANGED <<blob, owner>>
  /\ UNCHANGED <<epoch, tx1, clientVars>>

-----------------------------------------------------------------------------
(* The pipeline up to the registration. *)

Goto(next) == pc' = next /\ UNCHANGED outcome
End(what)  == pc' = "over" /\ outcome' = what

FetchCommittee ==
  /\ pc = "committee"
  /\ \/ committee' = epoch /\ Goto("encode")
     \/ End(Raise("NativeUploadError", "committee")) /\ UNCHANGED committee
  /\ UNCHANGED <<chainVars, txVars, certificate, attempts>>

(* The package ID is resolved and the blob encoded in a worker thread. *)
Encode ==
  /\ pc = "encode"
  /\ \/ Goto("compose")
     \/ \E s \in {"resolve_package_id", "encode"} : End(Raise("NativeUploadError", s))
  /\ UNCHANGED <<chainVars, txVars, committee, certificate, attempts>>

(* Coin selection, composition, simulation and signing, then submission. *)
SubmitTx1 ==
  /\ pc = "compose"
  /\ \/ Goto("tx1") /\ tx1' = "in flight"
     \/ End(Raise("NativeUploadError", "register_tx1")) /\ UNCHANGED tx1
  /\ UNCHANGED <<chainVars, tx2, committee, certificate, attempts>>

(* Broken: the answer is awaited without a timeout. *)
Tx1AnsweredOrStuck ==
  /\ pc = "tx1"
  /\ \/ tx1 = "landed" /\ Goto("finality")
     \/ tx1 = "aborted" /\ End(Raise("NativeUploadError", "register_tx1"))
  /\ UNCHANGED <<chainVars, txVars, committee, certificate, attempts>>

(* The answer says that Tx1 landed and names the Blob created for its owner; or
   it says that Tx1 aborted, does not name the Blob, or does not arrive. *)
Tx1Answered ==
  /\ pc = "tx1"
  /\ \/ tx1 = "landed" /\ Goto("finality")
     \/ End(Raise("NativeUploadError", "register_tx1"))
  /\ UNCHANGED <<chainVars, txVars, committee, certificate, attempts>>

(* RegistrationPendingError is turned into a receipt. *)
Finality ==
  /\ pc = "finality"
  /\ Goto("readback") \/ End(Receipt(FALSE, "register_finality"))
  /\ UNCHANGED <<chainVars, txVars, committee, certificate, attempts>>

ReadBack ==
  /\ pc = "readback"
  /\ Goto("slivers") \/ End(Receipt(FALSE, "register_readback"))
  /\ UNCHANGED <<chainVars, txVars, committee, certificate, attempts>>

-----------------------------------------------------------------------------
(* NativeDelivery.deliver *)

UploadSlivers ==
  /\ pc = "slivers"
  /\ Goto("confirm") \/ End(Receipt(FALSE, "upload_slivers"))
  /\ UNCHANGED <<chainVars, txVars, committee, certificate, attempts>>

CollectConfirmations ==
  /\ pc = "confirm"
  /\ \/ certificate' = committee /\ Goto("check epoch")
     \/ End(Receipt(FALSE, "collect_confirmations")) /\ UNCHANGED certificate
  /\ UNCHANGED <<chainVars, txVars, committee, attempts>>

-----------------------------------------------------------------------------
(* certify *)

(* A read that fails raises RuntimeError, which nothing on the way converts. *)
CheckEpoch ==
  /\ pc = "check epoch"
  /\ attempts' = attempts + 1
  /\ \/ End(Raise("RuntimeError", "none"))
     \/ committee = epoch /\ Goto("submit")
     \/ /\ committee # epoch
        /\ IF attempts' >= max_attempts THEN End(Receipt(FALSE, "certify"))
                                        ELSE Goto("refetch")
  /\ UNCHANGED <<chainVars, txVars, committee, certificate>>

(* Broken: the old certificate is kept; or the old committee is. *)
RefetchOnly ==
  /\ pc = "refetch"
  /\ committee' = epoch /\ Goto("check epoch")
  /\ UNCHANGED <<chainVars, txVars, certificate, attempts>>

RefetchNothing ==
  /\ pc = "refetch"
  /\ Goto("recollect")
  /\ UNCHANGED <<chainVars, txVars, committee, certificate, attempts>>

Refetch ==
  /\ pc = "refetch"
  /\ \/ committee' = epoch /\ Goto("recollect")
     \/ End(Raise("RuntimeError", "none")) /\ UNCHANGED committee
  /\ UNCHANGED <<chainVars, txVars, certificate, attempts>>

(* The certificate is rebuilt against the new committee's ordering. *)
Recollect ==
  /\ pc = "recollect"
  /\ \/ certificate' = committee /\ Goto("check epoch")
     \/ End(Receipt(FALSE, "collect_confirmations")) /\ UNCHANGED certificate
  /\ UNCHANGED <<chainVars, txVars, committee, attempts>>

(* submit_certification: the local verification, composition, simulation and
   signing all fail as CertifyTransactionError. *)
SubmitTx2 ==
  /\ pc = "submit"
  /\ \/ Goto("tx2") /\ tx2' = "in flight"
     \/ End(Receipt(FALSE, "certify")) /\ UNCHANGED tx2
  /\ UNCHANGED <<chainVars, tx1, committee, certificate, attempts>>

(* Broken: the status in the effects is not looked at. *)
Tx2AnsweredUnchecked ==
  /\ pc = "tx2"
  /\ \/ tx2 \in {"landed", "aborted"} /\ End(Receipt(TRUE, "none"))
     \/ End(Receipt(FALSE, "certify"))
  /\ UNCHANGED <<chainVars, txVars, committee, certificate, attempts>>

Tx2Answered ==
  /\ pc = "tx2"
  /\ \/ tx2 = "landed" /\ End(Receipt(TRUE, "none"))
     \/ End(Receipt(FALSE, "certify"))
  /\ UNCHANGED <<chainVars, txVars, committee, certificate, attempts>>

(* The caller cancels the coroutine at any of its awaits. *)
Cancel ==
  /\ pc # "over"
  /\ End(Raise("CancelledError", "none"))
  /\ UNCHANGED <<chainVars, txVars, committee, certificate, attempts>>

Pipeline ==
  \/ FetchCommittee \/ Encode \/ SubmitTx1 \/ Tx1Answered \/ Finality \/ ReadBack
  \/ UploadSlivers \/ CollectConfirmations
  \/ CheckEpoch \/ Refetch \/ Recollect \/ SubmitTx2 \/ Tx2Answered

Next == EpochChange \/ Tx1Executes \/ Tx2Executes \/ Pipeline \/ Cancel

(* Every await of the pipeline is bounded by a timeout or a poll count. *)
Spec     == Init /\ [][Next]_vars
FairSpec == Spec /\ WF_vars(Pipeline)

-----------------------------------------------------------------------------
(* Properties. *)

(* What an outcome tells of the chain. *)
tells(what) == IF what.kind = "open" THEN "nothing"
              ELSE IF what.kind = "raised" THEN "exception"
              ELSE IF what.certified THEN "certified" ELSE "uncertified"

(* What a receipt says is true of the chain: certified only when Tx2 landed,
   and no receipt at all for a blob nobody paid for. *)
Promise == INSTANCE PaidBlob WITH told <- tells(outcome)
ImplementsPaidBlob == Promise!Spec

(* "The old certificate is never reused across an epoch change": Tx2 carries a
   certificate built for the very committee that was last found current. *)
CertificateIsRebuilt ==
  pc \in {"check epoch", "submit", "tx2"} => certificate = committee

(* Each turn of certify's loop was caused by an epoch change of its own: a
   committee that was refetched is not found stale for the same change twice. *)
EachRetryFollowsAChange ==
  pc = "check epoch" => committee > attempts

(* The Blob stays with the sender, who must sign for it, until the transaction
   that certifies it hands it to the recipient. *)
NotHandedAwayEarly ==
  /\ blob = "registered" => owner = sender
  /\ blob = "certified" => owner = recipient

(* The pipeline ends: the refetch loop cannot chase the epoch for ever. *)
WriteEnds == <>(pc = "over")

(* write.py: "A failure AFTER it has spent WAL and created a real Blob, so it
   is RETURNED as a NativeBlobReceipt", and the change log's "so a paid
   registration is never surfaced as an exception".  Stated only for runs past
   the read-back, where Tx1's Registration is in hand. *)
RegisteredIsReceipted ==
  certificate # 0 /\ outcome.kind = "raised" => outcome.error = "CancelledError"

(* certify.py, on Tx2's signer: "Must be the current owner of the Blob being
   certified". *)
Tx2SignedByOwner == tx2 = "in flight" => tx2_signer = owner
=============================================================================
