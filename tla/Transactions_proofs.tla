------------------------- MODULE Transactions_proofs -------------------------
(***************************************************************************)
(* The two programs whose word about a transaction has to be true of the   *)
(* chain.                                                                  *)
(*                                                                         *)
(* The native write (NativeWrite) tells the truth about the chain, for     *)
(* every pair of addresses, every number of epoch checks and any number of *)
(* epoch changes.                                                          *)
(*                                                                         *)
(* A command on storage or blobs (Lifecycle) reports a transaction in vain *)
(* at most once for each turn of the epoch, for every chain and command it *)
(* may start with, every batch size, and whatever other transactions of    *)
(* the owner are executed.  The argument: what a transaction does depends  *)
(* on the owned objects it uses and on the epoch alone (ExecutedAlike), so *)
(* what the dry run found still holds when the chain executes it, unless   *)
(* the epoch has turned in between.  That needs every transaction a plan   *)
(* holds to be of one of the kinds for which this is so (EveryPlan).       *)
(***************************************************************************)
EXTENDS NativeWrite, Lifecycle, Certification_proofs, SequenceTheorems

-----------------------------------------------------------------------------
(* The native write. *)

Unregistered == {"committee", "encode", "compose"}
Registered   == {"finality", "readback", "slivers", "confirm", "check epoch",
                 "refetch", "recollect", "submit", "tx2"}

(* The types that the other parts need. *)
CountInv == epoch \in Nat \ {0} /\ committee \in Nat /\ attempts \in Nat

TypeInv ==
  /\ tx1 \in {"idle", "in flight", "landed", "aborted"}
  /\ tx2 \in {"idle", "in flight", "landed", "aborted"}
  /\ blob \in {"none", "registered", "certified"}
  /\ pc \in Unregistered \cup Registered \cup {"tx1", "over"}

(* What the coroutine may conclude about the chain from where it is, although
   its transactions execute behind its back. *)
LedgerInv ==
  /\ blob = "none" <=> tx1 # "landed"
  /\ blob = "certified" <=> tx2 = "landed"
  /\ pc \in Unregistered => tx1 = "idle"
  /\ pc \in Registered => tx1 = "landed"
  /\ tx2 # "idle" => tx1 = "landed" /\ pc \in {"tx2", "over"}

(* The committee in hand was current when it was read, and each mismatch means
   that the epoch has moved past it since. *)
RetryInv ==
  /\ committee <= epoch
  /\ pc \in {"committee", "encode", "compose", "tx1", "finality", "readback",
             "slivers", "confirm"} => attempts = 0
  /\ pc \in {"encode", "compose", "tx1", "finality", "readback", "slivers",
             "confirm", "check epoch", "recollect"} => committee > attempts
  /\ pc = "refetch" => epoch > attempts

(* The outcome is set by the last step, and is true then and from then on. *)
OutcomeInv ==
  /\ tells(outcome) = "nothing" <=> pc # "over"
  /\ tells(outcome) \in {"nothing", "exception", "uncertified", "certified"}
  /\ tells(outcome) = "uncertified" => blob # "none"
  /\ tells(outcome) = "certified" => blob = "certified"

IInv ==
  /\ TypeInv
  /\ CountInv
  /\ LedgerInv
  /\ RetryInv
  /\ CertificateIsRebuilt
  /\ NotHandedAwayEarly
  /\ OutcomeInv

-----------------------------------------------------------------------------
(* What each ending tells. *)
LEMMA Told ==
  ASSUME NEW e, NEW s
  PROVE  /\ tells(Open) = "nothing"
         /\ tells(Raise(e, s)) = "exception"
         /\ tells(Receipt(FALSE, s)) = "uncertified"
         /\ tells(Receipt(TRUE, s)) = "certified"
BY DEF tells, Open, Raise, Receipt

LEMMA InitInv == Init => IInv
<1> SUFFICES ASSUME Init PROVE IInv
  OBVIOUS
<1> USE DEF Init
<1>1. TypeInv /\ LedgerInv
  BY DEF TypeInv, LedgerInv, Unregistered, Registered
<1>2. CountInv /\ RetryInv /\ CertificateIsRebuilt /\ NotHandedAwayEarly
  BY DEF CountInv, RetryInv, CertificateIsRebuilt, NotHandedAwayEarly
<1>3. tells(outcome) = "nothing"
  BY Told
<1>4. OutcomeInv
  BY <1>3 DEF OutcomeInv
<1> QED
  BY <1>1, <1>2, <1>4 DEF IInv

(* The step is one of the promise's, or changes nothing there. *)
Step == [Promise!Next]_(Promise!vars)

(* An ending of the pipeline leaves the chain alone and closes the outcome, so
   it preserves everything when what it tells is true. *)
LEMMA EndInv ==
  ASSUME IInv, pc # "over", pc' = "over",
         UNCHANGED <<epoch, blob, owner, tx1, tx2>>,
         CountInv', committee' <= epoch',
         \/ \E e, s : outcome' = Raise(e, s)
         \/ blob # "none" /\ \E s : outcome' = Receipt(FALSE, s)
         \/ blob = "certified" /\ outcome' = Receipt(TRUE, "none")
  PROVE  IInv' /\ Step
<1>1. TypeInv'
  BY DEF IInv, TypeInv, Unregistered, Registered
<1>2. LedgerInv'
  BY DEF IInv, LedgerInv, Unregistered, Registered
<1>3. RetryInv'
  BY DEF RetryInv
<1>4. /\ tells(outcome') \in {"exception", "uncertified", "certified"}
      /\ tells(outcome') = "uncertified" => blob # "none"
      /\ tells(outcome') = "certified" => blob = "certified"
  BY Told
<1>5. OutcomeInv'
  BY <1>4 DEF OutcomeInv
<1>6. CertificateIsRebuilt' /\ NotHandedAwayEarly'
  BY DEF IInv, CertificateIsRebuilt, NotHandedAwayEarly
<1>7. Promise!Tell(tells(outcome'))
  BY <1>4 DEF IInv, OutcomeInv, Promise!Tell
<1>8. Step
  BY <1>4, <1>7 DEF Step, Promise!Next
<1> QED
  BY <1>1, <1>2, <1>3, <1>5, <1>6, <1>8 DEF IInv

(* A step of the pipeline that does not end it and submits nothing: what is left
   to show is about the committee and the certificate in hand. *)
LEMMA GotoInv ==
  ASSUME IInv, NEW next, Goto(next),
         UNCHANGED <<epoch, blob, owner, tx1, tx2>>,
         CountInv', RetryInv', CertificateIsRebuilt',
         \/ pc \in Unregistered /\ next \in Unregistered
         \/ pc \in Registered \cup {"tx1"} /\ next \in Registered
            /\ tx1 = "landed" /\ tx2 = "idle"
  PROVE  IInv' /\ Step
<1>1. TypeInv'
  BY DEF IInv, TypeInv, Unregistered, Registered, Goto
<1>2. LedgerInv'
  BY DEF IInv, LedgerInv, Unregistered, Registered, Goto
<1>3. OutcomeInv'
  BY DEF IInv, OutcomeInv, Unregistered, Registered, Goto
<1>4. NotHandedAwayEarly'
  BY DEF IInv, NotHandedAwayEarly
<1>5. Step
  BY DEF Step, Promise!vars, Goto
<1> QED
  BY <1>1, <1>2, <1>3, <1>4, <1>5 DEF IInv

-----------------------------------------------------------------------------
(* The chain's own steps. *)

LEMMA EpochChangeInv == IInv /\ EpochChange => IInv' /\ Step
<1> SUFFICES ASSUME IInv, EpochChange PROVE IInv' /\ Step
  OBVIOUS
<1> USE DEF EpochChange, txVars, clientVars
<1>1. CountInv' /\ RetryInv'
  <2>0. CountInv /\ committee <= epoch
    BY Zenon DEF IInv, RetryInv
  <2>1. CountInv' /\ committee' <= epoch'
    BY <2>0 DEF CountInv
  <2>2. epoch > attempts => epoch' > attempts'
    BY <2>0 DEF CountInv
  <2>3. UNCHANGED <<pc, attempts, committee>>
    OBVIOUS
  <2> QED
    BY <2>1, <2>2, <2>3, Zenon DEF IInv, RetryInv
<1>2. TypeInv' /\ LedgerInv' /\ CertificateIsRebuilt' /\ NotHandedAwayEarly'
  BY DEF IInv, TypeInv, LedgerInv, CertificateIsRebuilt, NotHandedAwayEarly,
         Unregistered, Registered
<1>3. OutcomeInv' /\ Step
  BY DEF IInv, OutcomeInv, Step, Promise!vars
<1> QED
  BY <1>1, <1>2, <1>3 DEF IInv

LEMMA Tx1ExecutesInv == IInv /\ Tx1Executes => IInv' /\ Step
<1> SUFFICES ASSUME IInv, Tx1Executes PROVE IInv' /\ Step
  OBVIOUS
<1> USE DEF Tx1Executes, clientVars
<1>1. CountInv' /\ RetryInv' /\ CertificateIsRebuilt'
  BY DEF IInv, CountInv, RetryInv, CertificateIsRebuilt
<1>2. blob = "none" /\ pc \notin Unregistered /\ pc \notin Registered /\ tx2 = "idle"
  BY DEF IInv, LedgerInv, TypeInv
<1>3. TypeInv' /\ LedgerInv'
  BY <1>2 DEF IInv, TypeInv, LedgerInv, Unregistered, Registered
<1>4. NotHandedAwayEarly'
  BY <1>2 DEF NotHandedAwayEarly
<1>5. OutcomeInv'
  BY <1>2 DEF IInv, OutcomeInv
<1>6. Step
  BY <1>2 DEF Step, Promise!Next, Promise!Register, Promise!vars
<1> QED
  BY <1>1, <1>3, <1>4, <1>5, <1>6 DEF IInv

LEMMA Tx2ExecutesInv == IInv /\ Tx2Executes => IInv' /\ Step
<1> SUFFICES ASSUME IInv, Tx2Executes PROVE IInv' /\ Step
  OBVIOUS
<1> USE DEF Tx2Executes, Tx2Accepted, clientVars
<1>1. CountInv' /\ RetryInv' /\ CertificateIsRebuilt'
  BY DEF IInv, CountInv, RetryInv, CertificateIsRebuilt
<1>2. blob # "certified" /\ tx1 = "landed" /\ pc \in {"tx2", "over"}
  BY DEF IInv, LedgerInv, TypeInv
<1>3. TypeInv' /\ LedgerInv'
  BY <1>2 DEF IInv, TypeInv, LedgerInv, Unregistered, Registered
<1>4. NotHandedAwayEarly'
  BY DEF IInv, NotHandedAwayEarly
<1>5. OutcomeInv'
  BY <1>2 DEF IInv, OutcomeInv
<1>6. Step
  BY DEF Step, Promise!Next, Promise!Certify, Promise!vars
<1> QED
  BY <1>1, <1>3, <1>4, <1>5, <1>6 DEF IInv

-----------------------------------------------------------------------------
(* The pipeline's. *)

LEMMA BeforeTx1Inv ==
  IInv /\ (FetchCommittee \/ Encode \/ SubmitTx1) => IInv' /\ Step
<1> USE DEF chainVars, txVars
<1>1. ASSUME IInv, FetchCommittee PROVE IInv' /\ Step
  <2>1. CASE committee' = epoch /\ Goto("encode")
    <3>1. CountInv' /\ RetryInv' /\ CertificateIsRebuilt'
      BY <1>1, <2>1 DEF FetchCommittee, Goto, IInv, CountInv, RetryInv,
                        CertificateIsRebuilt
    <3> QED
      BY <1>1, <2>1, <3>1, GotoInv DEF FetchCommittee, Unregistered
  <2>2. CASE End(Raise("NativeUploadError", "committee")) /\ UNCHANGED committee
    <3>1. CountInv' /\ committee' <= epoch'
      BY <1>1, <2>2 DEF FetchCommittee, IInv, CountInv, RetryInv
    <3> QED
      BY <1>1, <2>2, <3>1, EndInv DEF FetchCommittee, End
  <2> QED
    BY <1>1, <2>1, <2>2 DEF FetchCommittee
<1>2. ASSUME IInv, Encode PROVE IInv' /\ Step
  <2>0. CountInv' /\ committee' <= epoch'
    BY <1>2 DEF Encode, IInv, CountInv, RetryInv
  <2>1. CASE Goto("compose")
    <3>1. RetryInv' /\ CertificateIsRebuilt'
      BY <1>2, <2>1 DEF Encode, Goto, IInv, RetryInv, CertificateIsRebuilt
    <3> QED
      BY <1>2, <2>0, <2>1, <3>1, GotoInv DEF Encode, Unregistered
  <2>2. CASE \E s \in {"resolve_package_id", "encode"} :
               End(Raise("NativeUploadError", s))
    BY <1>2, <2>0, <2>2, EndInv DEF Encode, End
  <2> QED
    BY <1>2, <2>1, <2>2 DEF Encode
<1>3. ASSUME IInv, SubmitTx1 PROVE IInv' /\ Step
  <2>0. CountInv' /\ committee' <= epoch'
    BY <1>3 DEF SubmitTx1, IInv, CountInv, RetryInv
  <2>1. CASE Goto("tx1") /\ tx1' = "in flight"
    <3> USE <1>3, <2>1 DEF SubmitTx1, Goto
    <3>1. RetryInv' /\ CertificateIsRebuilt'
      BY DEF IInv, RetryInv, CertificateIsRebuilt
    <3>2. tx1 = "idle" /\ tx2 = "idle"
      BY DEF IInv, LedgerInv, TypeInv, Unregistered
    <3>3. TypeInv' /\ LedgerInv'
      BY <3>2 DEF IInv, TypeInv, LedgerInv, Unregistered, Registered
    <3>4. NotHandedAwayEarly' /\ OutcomeInv' /\ Step
      BY DEF IInv, NotHandedAwayEarly, OutcomeInv, Step, Promise!vars
    <3> QED
      BY <2>0, <3>1, <3>3, <3>4 DEF IInv
  <2>2. CASE End(Raise("NativeUploadError", "register_tx1")) /\ UNCHANGED tx1
    BY <1>3, <2>0, <2>2, EndInv DEF SubmitTx1, End
  <2> QED
    BY <1>3, <2>1, <2>2 DEF SubmitTx1
<1> QED
  BY <1>1, <1>2, <1>3

(* From the answer to Tx1 up to the first certificate.  Any receipt here is for
   a blob that is registered, since Tx1 has landed. *)
LEMMA BeforeCheckInv ==
  IInv /\ (Tx1Answered \/ Finality \/ ReadBack \/ UploadSlivers
           \/ CollectConfirmations) => IInv' /\ Step
<1> USE DEF chainVars, txVars
<1>1. ASSUME IInv, Tx1Answered PROVE IInv' /\ Step
  <2>0. CountInv' /\ committee' <= epoch'
    BY <1>1 DEF Tx1Answered, IInv, CountInv, RetryInv
  <2>1. CASE tx1 = "landed" /\ Goto("finality")
    <3>1. RetryInv' /\ CertificateIsRebuilt'
      BY <1>1, <2>1 DEF Tx1Answered, Goto, IInv, RetryInv, CertificateIsRebuilt
    <3>2. tx2 = "idle"
      BY <1>1 DEF Tx1Answered, IInv, LedgerInv, TypeInv
    <3> QED
      BY <1>1, <2>0, <2>1, <3>1, <3>2, GotoInv DEF Tx1Answered, Registered
  <2>2. CASE End(Raise("NativeUploadError", "register_tx1"))
    BY <1>1, <2>0, <2>2, EndInv DEF Tx1Answered, End
  <2> QED
    BY <1>1, <2>1, <2>2 DEF Tx1Answered
<1>2. ASSUME IInv, pc \in {"finality", "readback", "slivers"},
             UNCHANGED <<chainVars, txVars, committee, certificate, attempts>>,
             NEW next \in {"readback", "slivers", "confirm"}, NEW s,
             Goto(next) \/ End(Receipt(FALSE, s))
      PROVE  IInv' /\ Step
  <2>0. CountInv' /\ committee' <= epoch'
    BY <1>2 DEF IInv, CountInv, RetryInv
  <2>1. tx1 = "landed" /\ tx2 = "idle" /\ blob # "none"
    BY <1>2 DEF IInv, LedgerInv, TypeInv, Registered
  <2>2. CASE Goto(next)
    <3>1. RetryInv' /\ CertificateIsRebuilt'
      BY <1>2, <2>2 DEF Goto, IInv, RetryInv, CertificateIsRebuilt
    <3> QED
      BY <1>2, <2>0, <2>1, <2>2, <3>1, GotoInv DEF Registered
  <2>3. CASE End(Receipt(FALSE, s))
    BY <1>2, <2>0, <2>1, <2>3, EndInv DEF End
  <2> QED
    BY <1>2, <2>2, <2>3
<1>3. ASSUME IInv, Finality PROVE IInv' /\ Step
  BY <1>2, <1>3 DEF Finality
<1>4. ASSUME IInv, ReadBack PROVE IInv' /\ Step
  BY <1>2, <1>4 DEF ReadBack
<1>5. ASSUME IInv, UploadSlivers PROVE IInv' /\ Step
  BY <1>2, <1>5 DEF UploadSlivers
<1>6. ASSUME IInv, CollectConfirmations PROVE IInv' /\ Step
  <2>0. CountInv' /\ committee' <= epoch'
    BY <1>6 DEF CollectConfirmations, IInv, CountInv, RetryInv
  <2>1. tx1 = "landed" /\ tx2 = "idle" /\ blob # "none"
    BY <1>6 DEF CollectConfirmations, IInv, LedgerInv, TypeInv, Registered
  <2>2. CASE certificate' = committee /\ Goto("check epoch")
    <3>1. RetryInv' /\ CertificateIsRebuilt'
      BY <1>6, <2>2 DEF CollectConfirmations, Goto, IInv, RetryInv,
                        CertificateIsRebuilt
    <3> QED
      BY <1>6, <2>0, <2>1, <2>2, <3>1, GotoInv DEF CollectConfirmations, Registered
  <2>3. CASE End(Receipt(FALSE, "collect_confirmations"))
    BY <1>6, <2>0, <2>1, <2>3, EndInv DEF CollectConfirmations, End
  <2> QED
    BY <1>6, <2>2, <2>3 DEF CollectConfirmations
<1> QED
  BY <1>1, <1>3, <1>4, <1>5, <1>6

(* certify.  A mismatch says that the epoch is past the committee in hand, which
   is what pays for the attempt that was just counted. *)
LEMMA CheckEpochInv == IInv /\ CheckEpoch => IInv' /\ Step
<1> SUFFICES ASSUME IInv, CheckEpoch PROVE IInv' /\ Step
  OBVIOUS
<1> USE DEF chainVars, txVars
<1>0. CountInv /\ committee <= epoch
  BY Zenon DEF IInv, RetryInv
<1>1. /\ pc = "check epoch" /\ attempts' = attempts + 1
      /\ UNCHANGED <<epoch, blob, owner, tx1, tx2, committee, certificate>>
  BY DEF CheckEpoch
<1>a. attempts' = attempts + 1 /\ UNCHANGED <<epoch, committee>>
  BY <1>1
<1>2. CountInv' /\ committee' <= epoch'
  BY <1>0, <1>a DEF CountInv
<1>3. tx1 = "landed" /\ tx2 = "idle" /\ blob # "none"
  BY <1>1 DEF IInv, LedgerInv, TypeInv, Registered
<1>4. committee > attempts
  BY <1>1, Zenon DEF IInv, RetryInv
<1>5. CASE \/ End(Raise("RuntimeError", "none"))
           \/ End(Receipt(FALSE, "certify"))
  BY <1>1, <1>2, <1>3, <1>5, EndInv DEF End
<1>6. CASE Goto("submit")
  <2>1. RetryInv' /\ CertificateIsRebuilt'
    BY <1>1, <1>2, <1>6 DEF Goto, IInv, RetryInv, CertificateIsRebuilt
  <2> QED
    BY <1>1, <1>2, <1>3, <1>6, <2>1, GotoInv DEF Registered
<1>7. CASE committee # epoch /\ Goto("refetch")
  <2>1. epoch' > attempts'
    <3>1. committee # epoch
      BY <1>7
    <3> QED
      BY <1>0, <1>a, <1>4, <3>1 DEF CountInv
  <2>2. RetryInv' /\ CertificateIsRebuilt'
    BY <1>1, <1>2, <1>7, <2>1 DEF Goto, RetryInv, CertificateIsRebuilt
  <2> QED
    BY <1>1, <1>2, <1>3, <1>7, <2>2, GotoInv DEF Registered
<1> QED
  BY <1>5, <1>6, <1>7 DEF CheckEpoch

LEMMA RebuildInv == IInv /\ (Refetch \/ Recollect) => IInv' /\ Step
<1> USE DEF chainVars, txVars
<1>1. ASSUME IInv, Refetch PROVE IInv' /\ Step
  <2>a. CountInv /\ committee <= epoch
    BY <1>1, Zenon DEF IInv, RetryInv
  <2>b. /\ UNCHANGED <<epoch, attempts>>
        /\ committee' = epoch \/ committee' = committee
    BY <1>1 DEF Refetch
  <2>c. CountInv' /\ committee' <= epoch'
    BY <2>a, <2>b DEF CountInv
  <2>0. /\ CountInv' /\ committee' <= epoch'
        /\ tx1 = "landed" /\ tx2 = "idle"
    BY <1>1, <2>c DEF Refetch, IInv, LedgerInv, TypeInv, Registered
  <2>1. CASE committee' = epoch /\ Goto("recollect")
    <3>1. committee' > attempts'
      BY <1>1, <2>1, Zenon DEF Refetch, IInv, RetryInv
    <3>2. RetryInv' /\ CertificateIsRebuilt'
      BY <2>0, <2>1, <3>1 DEF Goto, RetryInv, CertificateIsRebuilt
    <3> QED
      BY <1>1, <2>0, <2>1, <3>2, GotoInv DEF Refetch, Registered
  <2>2. CASE End(Raise("RuntimeError", "none"))
    BY <1>1, <2>0, <2>2, EndInv DEF Refetch, End
  <2> QED
    BY <1>1, <2>1, <2>2 DEF Refetch
<1>2. ASSUME IInv, Recollect PROVE IInv' /\ Step
  <2>0. CountInv' /\ committee' <= epoch'
    BY <1>2 DEF Recollect, IInv, CountInv, RetryInv
  <2>1. tx1 = "landed" /\ tx2 = "idle" /\ blob # "none"
    BY <1>2 DEF Recollect, IInv, LedgerInv, TypeInv, Registered
  <2>2. CASE certificate' = committee /\ Goto("check epoch")
    <3>1. RetryInv' /\ CertificateIsRebuilt'
      BY <1>2, <2>2 DEF Recollect, Goto, IInv, RetryInv, CertificateIsRebuilt
    <3> QED
      BY <1>2, <2>0, <2>1, <2>2, <3>1, GotoInv DEF Recollect, Registered
  <2>3. CASE End(Receipt(FALSE, "collect_confirmations"))
    BY <1>2, <2>0, <2>1, <2>3, EndInv DEF Recollect, End
  <2> QED
    BY <1>2, <2>2, <2>3 DEF Recollect
<1> QED
  BY <1>1, <1>2

LEMMA Tx2Inv == IInv /\ (SubmitTx2 \/ Tx2Answered) => IInv' /\ Step
<1> USE DEF chainVars, txVars
<1>1. ASSUME IInv, SubmitTx2 PROVE IInv' /\ Step
  <2>0. CountInv' /\ committee' <= epoch'
    BY <1>1 DEF SubmitTx2, IInv, CountInv, RetryInv
  <2>1. tx1 = "landed" /\ tx2 = "idle" /\ blob # "none"
    BY <1>1 DEF SubmitTx2, IInv, LedgerInv, TypeInv, Registered
  <2>2. CASE Goto("tx2") /\ tx2' = "in flight"
    <3> USE <1>1, <2>2 DEF SubmitTx2, Goto
    <3>1. RetryInv' /\ CertificateIsRebuilt'
      BY <2>0 DEF IInv, RetryInv, CertificateIsRebuilt
    <3>2. TypeInv' /\ LedgerInv'
      BY <2>1 DEF IInv, TypeInv, LedgerInv, Unregistered, Registered
    <3>3. NotHandedAwayEarly' /\ OutcomeInv' /\ Step
      BY DEF IInv, NotHandedAwayEarly, OutcomeInv, Step, Promise!vars
    <3> QED
      BY <2>0, <3>1, <3>2, <3>3 DEF IInv
  <2>3. CASE End(Receipt(FALSE, "certify")) /\ UNCHANGED tx2
    BY <1>1, <2>0, <2>1, <2>3, EndInv DEF SubmitTx2, End
  <2> QED
    BY <1>1, <2>2, <2>3 DEF SubmitTx2
<1>2. ASSUME IInv, Tx2Answered PROVE IInv' /\ Step
  <2>0. CountInv' /\ committee' <= epoch'
    BY <1>2 DEF Tx2Answered, IInv, CountInv, RetryInv
  <2>1. blob # "none" /\ (tx2 = "landed" => blob = "certified")
    BY <1>2 DEF Tx2Answered, IInv, LedgerInv, TypeInv, Registered
  <2>2. CASE tx2 = "landed" /\ End(Receipt(TRUE, "none"))
    BY <1>2, <2>0, <2>1, <2>2, EndInv DEF Tx2Answered, End
  <2>3. CASE End(Receipt(FALSE, "certify"))
    BY <1>2, <2>0, <2>1, <2>3, EndInv DEF Tx2Answered, End
  <2> QED
    BY <1>2, <2>2, <2>3 DEF Tx2Answered
<1> QED
  BY <1>1, <1>2

LEMMA CancelInv == IInv /\ Cancel => IInv' /\ Step
<1> SUFFICES ASSUME IInv, Cancel PROVE IInv' /\ Step
  OBVIOUS
<1> USE DEF chainVars, txVars
<1>1. CountInv' /\ committee' <= epoch'
  BY DEF Cancel, IInv, CountInv, RetryInv
<1> QED
  BY <1>1, EndInv DEF Cancel, End

LEMMA NextInv == IInv /\ [Next]_vars => IInv' /\ Step
<1> SUFFICES ASSUME IInv, [Next]_vars PROVE IInv' /\ Step
  OBVIOUS
<1>1. CASE EpochChange \/ Tx1Executes \/ Tx2Executes
  BY <1>1, EpochChangeInv, Tx1ExecutesInv, Tx2ExecutesInv
<1>2. CASE Pipeline
  BY <1>2, BeforeTx1Inv, BeforeCheckInv, CheckEpochInv, RebuildInv, Tx2Inv
     DEF Pipeline
<1>3. CASE Cancel
  BY <1>3, CancelInv
<1>4. CASE UNCHANGED vars
  <2>1. IInv'
    BY <1>4 DEF vars, chainVars, txVars, clientVars, IInv, TypeInv, CountInv,
                LedgerInv, RetryInv, CertificateIsRebuilt, NotHandedAwayEarly,
                OutcomeInv
  <2>2. Step
    BY <1>4 DEF vars, chainVars, clientVars, Step, Promise!vars
  <2> QED
    BY <2>1, <2>2
<1> QED
  BY <1>1, <1>2, <1>3, <1>4 DEF Next

LEMMA Inductive == Spec => []IInv
<1>1. IInv /\ [Next]_vars => IInv'
  BY NextInv
<1> QED
  BY InitInv, <1>1, PTL DEF Spec

-----------------------------------------------------------------------------
(* The theorems. *)

(* A certificate handed to Tx2 was built for the committee it is checked with. *)
THEOREM NeverReused == Spec => []CertificateIsRebuilt
<1>1. IInv => CertificateIsRebuilt
  BY DEF IInv
<1> QED
  BY Inductive, <1>1, PTL

(* certify's loop turns at most once for each epoch change. *)
THEOREM RetriesArePaidFor == Spec => []EachRetryFollowsAChange
<1>1. IInv => EachRetryFollowsAChange
  BY Zenon DEF IInv, RetryInv, EachRetryFollowsAChange
<1> QED
  BY Inductive, <1>1, PTL

(* The sender keeps the Blob for as long as it is not certified. *)
THEOREM OwnerUntilCertified == Spec => []NotHandedAwayEarly
<1>1. IInv => NotHandedAwayEarly
  BY DEF IInv
<1> QED
  BY Inductive, <1>1, PTL

(* Whatever store_blob_native returns or raises, the chain is as it says. *)
THEOREM NativeImplementsPaidBlob == Spec => ImplementsPaidBlob
<1>1. Init => Promise!Init
  BY Told DEF Init, Promise!Init
<1>2. IInv /\ [Next]_vars => [Promise!Next]_(Promise!vars)
  BY NextInv DEF Step
<1> QED
  BY Inductive, <1>1, <1>2, PTL DEF Spec, ImplementsPaidBlob, Promise!Spec

-----------------------------------------------------------------------------
(* Commands on storage and blobs: sequences. *)

(* What is proved of sequences here does not depend on what they hold. *)
IsSeq(s) == \E S : s \in Seq(S)

(* A function on 1 .. n is a sequence of n elements. *)
LEMMA MakeSeq ==
  ASSUME NEW n \in Nat, NEW s, s = [i \in 1 .. n |-> s[i]]
  PROVE  IsSeq(s) /\ Len(s) = n /\ DOMAIN s = 1 .. n
<1> DEFINE S == {s[i] : i \in 1 .. n}
<1>1. s \in [1 .. n -> S]
  OBVIOUS
<1>2. s \in Seq(S)
  BY <1>1
<1>3. DOMAIN s = 1 .. n
  BY <1>1
<1>4. Len(s) = n
  BY <1>2, <1>3
<1> QED
  BY <1>2, <1>3, <1>4 DEF IsSeq

LEMMA SeqFacts ==
  ASSUME NEW s, IsSeq(s)
  PROVE  /\ Len(s) \in Nat /\ DOMAIN s = 1 .. Len(s)
         /\ s = [i \in 1 .. Len(s) |-> s[i]]
         /\ s # <<>> => Len(s) > 0
<1>1. PICK S : s \in Seq(S)
  BY DEF IsSeq
<1> QED
  BY <1>1

LEMMA TailFacts ==
  ASSUME NEW s, IsSeq(s), Len(s) > 0
  PROVE  /\ IsSeq(Tail(s)) /\ Len(Tail(s)) = Len(s) - 1
         /\ \A i \in 1 .. Len(s) - 1 : Tail(s)[i] = s[i + 1]
<1>1. PICK S : s \in Seq(S)
  BY DEF IsSeq
<1>2. s # <<>> /\ Tail(s) \in Seq(S) /\ Len(Tail(s)) = Len(s) - 1
  BY <1>1
<1>3. \A i \in 1 .. Len(s) - 1 : Tail(s)[i] = s[i + 1]
  BY <1>1
<1> QED
  BY <1>2, <1>3 DEF IsSeq

LEMMA AppendFacts ==
  ASSUME NEW s, IsSeq(s), NEW e
  PROVE  /\ IsSeq(Append(s, e)) /\ Len(Append(s, e)) = Len(s) + 1
         /\ \A i \in 1 .. Len(s) : Append(s, e)[i] = s[i]
         /\ Append(s, e)[Len(s) + 1] = e
<1>1. PICK S : s \in Seq(S)
  BY DEF IsSeq
<1>2. s \in Seq(S \cup {e}) /\ e \in S \cup {e}
  BY <1>1
<1>3. Append(s, e) \in Seq(S \cup {e}) /\ Len(Append(s, e)) = Len(s) + 1
  BY <1>2
<1>4. /\ \A i \in 1 .. Len(s) : Append(s, e)[i] = s[i]
      /\ Append(s, e)[Len(s) + 1] = e
  BY <1>2
<1> QED
  BY <1>3, <1>4 DEF IsSeq

LEMMA ConcatFacts ==
  ASSUME NEW s, IsSeq(s), NEW t, IsSeq(t)
  PROVE  /\ IsSeq(s \o t) /\ Len(s \o t) = Len(s) + Len(t)
         /\ \A i \in 1 .. Len(s) + Len(t) :
              (s \o t)[i] = IF i <= Len(s) THEN s[i] ELSE t[i - Len(s)]
<1>1. PICK S : s \in Seq(S)
  BY DEF IsSeq
<1>2. PICK T : t \in Seq(T)
  BY DEF IsSeq
<1>3. s \in Seq(S \cup T) /\ t \in Seq(S \cup T)
  BY <1>1, <1>2
<1>4. s \o t \in Seq(S \cup T) /\ Len(s \o t) = Len(s) + Len(t)
  BY <1>3
<1>5. \A i \in 1 .. Len(s) + Len(t) :
              (s \o t)[i] = IF i <= Len(s) THEN s[i] ELSE t[i - Len(s)]
  BY <1>3
<1> QED
  BY <1>4, <1>5 DEF IsSeq

-----------------------------------------------------------------------------
(* Chains. *)

(* Two functions say the same of the elements of S. *)
AgreeOn(f, g, S) ==
  \A x \in S : /\ x \in DOMAIN f <=> x \in DOMAIN g
               /\ x \in DOMAIN f => f[x] = g[x]

(* So they do when their restrictions to S are equal. *)
LEMMA RestrictedAlike ==
  ASSUME NEW f, NEW g, NEW S, Restrict(f, S \cap DOMAIN f) = Restrict(g, S \cap DOMAIN g)
  PROVE  AgreeOn(f, g, S)
<1>1. DOMAIN Restrict(f, S \cap DOMAIN f) = S \cap DOMAIN f
      /\ DOMAIN Restrict(g, S \cap DOMAIN g) = S \cap DOMAIN g
  BY DEF Restrict
<1>2. S \cap DOMAIN f = S \cap DOMAIN g
  BY <1>1
<1>3. \A x \in S \cap DOMAIN f : f[x] = Restrict(f, S \cap DOMAIN f)[x]
                                 /\ g[x] = Restrict(g, S \cap DOMAIN g)[x]
  BY <1>2 DEF Restrict
<1> QED
  BY <1>2, <1>3 DEF AgreeOn

(* The owned objects a transaction uses, as in OwnedInputs. *)
Called(tx, names) == {c \in ToSet(tx) : c.call \in names}
BlobCalls == {"delete_blob", "burn", "share", "set_metadata", "remove_metadata",
              "take_metadata", "extend_blob", "extend_blob_with_resource"}
UsedCoins(tx) ==
  (UNION {c.merged \cup {c.id} : c \in Called(tx, {"merge_coins"})})
    \cup {c.coin : c \in Called(tx, {"extend_blob", "fund"})}
UsedStorages(tx) ==
  {c.id : c \in Called(tx, StorageCalls)}
    \cup {c.second : c \in Called(tx, {"fuse", "extend_blob_with_resource"})}
UsedBlobs(tx) ==
  {c.id : c \in {d \in ToSet(tx) : d.call \notin StorageCalls \cup SharedCalls \cup {"merge_coins"}}}

(* Two chains of one epoch between which the transaction cannot tell; shared blobs may
   have been added. *)
Alike(a, b, tx) ==
  /\ IsChain(a) /\ IsChain(b) /\ a.epoch = b.epoch
  /\ DOMAIN a.shared \subseteq DOMAIN b.shared
  /\ AgreeOn(a.coins, b.coins, UsedCoins(tx))
  /\ AgreeOn(a.storages, b.storages, UsedStorages(tx))
  /\ AgreeOn(a.blobs, b.blobs, UsedBlobs(tx))

LEMMA TriplesAlike ==
  ASSUME NEW p, NEW q, NEW r, NEW x, NEW y, NEW z, <<p, q, r>> = <<x, y, z>>
  PROVE  p = x /\ q = y /\ r = z
OBVIOUS

LEMMA InputsAlike ==
  ASSUME NEW a, NEW b, NEW tx, IsChain(a), IsChain(b), a.epoch = b.epoch,
         DOMAIN a.shared \subseteq DOMAIN b.shared, OwnedInputs(a, tx) = OwnedInputs(b, tx)
  PROVE  Alike(a, b, tx)
<1>1. /\ OwnedInputs(a, tx) =
           <<Restrict(a.coins, UsedCoins(tx) \cap DOMAIN a.coins),
             Restrict(a.storages, UsedStorages(tx) \cap DOMAIN a.storages),
             Restrict(a.blobs, UsedBlobs(tx) \cap DOMAIN a.blobs)>>
      /\ OwnedInputs(b, tx) =
           <<Restrict(b.coins, UsedCoins(tx) \cap DOMAIN b.coins),
             Restrict(b.storages, UsedStorages(tx) \cap DOMAIN b.storages),
             Restrict(b.blobs, UsedBlobs(tx) \cap DOMAIN b.blobs)>>
  BY DEF OwnedInputs, UsedCoins, UsedStorages, UsedBlobs, Called
<1>2. /\ Restrict(a.coins, UsedCoins(tx) \cap DOMAIN a.coins)
           = Restrict(b.coins, UsedCoins(tx) \cap DOMAIN b.coins)
      /\ Restrict(a.storages, UsedStorages(tx) \cap DOMAIN a.storages)
           = Restrict(b.storages, UsedStorages(tx) \cap DOMAIN b.storages)
      /\ Restrict(a.blobs, UsedBlobs(tx) \cap DOMAIN a.blobs)
           = Restrict(b.blobs, UsedBlobs(tx) \cap DOMAIN b.blobs)
  <2> DEFINE p == Restrict(a.coins, UsedCoins(tx) \cap DOMAIN a.coins)
             q == Restrict(a.storages, UsedStorages(tx) \cap DOMAIN a.storages)
             r == Restrict(a.blobs, UsedBlobs(tx) \cap DOMAIN a.blobs)
             x == Restrict(b.coins, UsedCoins(tx) \cap DOMAIN b.coins)
             y == Restrict(b.storages, UsedStorages(tx) \cap DOMAIN b.storages)
             z == Restrict(b.blobs, UsedBlobs(tx) \cap DOMAIN b.blobs)
  <2>1. <<p, q, r>> = <<x, y, z>>
    BY <1>1
  <2> HIDE DEF p, q, r, x, y, z
  <2>2. p = x /\ q = y /\ r = z
    BY <2>1, TriplesAlike
  <2> QED
    BY <2>2 DEF p, q, r, x, y, z
<1> QED
  BY <1>2, RestrictedAlike DEF Alike

(* The calls that look at owned objects only: all but the extension of a shared blob. *)
Moves == {"split_by_epoch", "split_by_size", "destroy", "fuse", "delete_blob", "burn", "share",
          "set_metadata", "remove_metadata", "take_metadata", "extend_blob",
          "extend_blob_with_resource", "merge_coins", "fund"}

(* Move allows a call on both of two such chains or on neither. *)
LEMMA AllowedAlike ==
  ASSUME NEW a, NEW b, NEW tx, Alike(a, b, tx), NEW c \in ToSet(tx), c.call \in Moves,
         Allowed(a, c)
  PROVE  Allowed(b, c)
<1>1. /\ IsChain(a) /\ IsChain(b) /\ a.epoch = b.epoch
      /\ DOMAIN a.shared \subseteq DOMAIN b.shared
      /\ AgreeOn(a.coins, b.coins, UsedCoins(tx))
      /\ AgreeOn(a.storages, b.storages, UsedStorages(tx))
      /\ AgreeOn(a.blobs, b.blobs, UsedBlobs(tx))
  BY DEF Alike
<1>2. CASE c.call \in {"split_by_epoch", "split_by_size", "destroy"}
  <2>1. c.id \in UsedStorages(tx)
    BY <1>2 DEF UsedStorages, Called, StorageCalls
  <2> QED
    BY <1>1, <1>2, <2>1 DEF Allowed, AgreeOn
<1>3. CASE c.call = "fuse"
  <2>1. c.id \in UsedStorages(tx) /\ c.second \in UsedStorages(tx)
    BY <1>3 DEF UsedStorages, Called, StorageCalls
  <2> QED
    BY <1>1, <1>3, <2>1 DEF Allowed, AgreeOn, move_fuse_allowed
<1>4. CASE c.call \in BlobCalls \ {"extend_blob", "extend_blob_with_resource"}
  <2>1. c.id \in UsedBlobs(tx)
    BY <1>4 DEF UsedBlobs, StorageCalls, SharedCalls, BlobCalls
  <2> QED
    BY <1>1, <1>4, <2>1 DEF Allowed, AgreeOn, BlobCalls
<1>5. CASE c.call = "extend_blob"
  <2>1. c.id \in UsedBlobs(tx) /\ c.coin \in UsedCoins(tx)
    BY <1>5 DEF UsedBlobs, StorageCalls, SharedCalls, UsedCoins, Called
  <2> QED
    BY <1>1, <1>5, <2>1 DEF Allowed, AgreeOn
<1>6. CASE c.call = "extend_blob_with_resource"
  <2>1. c.id \in UsedBlobs(tx) /\ c.second \in UsedStorages(tx)
    BY <1>6 DEF UsedBlobs, StorageCalls, SharedCalls, UsedStorages, Called
  <2> QED
    BY <1>1, <1>6, <2>1 DEF Allowed, AgreeOn, extend_resource_allowed
<1>7. CASE c.call = "merge_coins"
  <2>1. {c.id} \cup c.merged \subseteq UsedCoins(tx)
    BY <1>7 DEF UsedCoins, Called
  <2> QED
    BY <1>1, <1>7, <2>1 DEF Allowed, AgreeOn
<1>8. CASE c.call = "fund"
  <2>1. c.coin \in UsedCoins(tx)
    BY <1>8 DEF UsedCoins, Called
  <2> QED
    BY <1>1, <1>8, <2>1 DEF Allowed, AgreeOn
<1> QED
  BY <1>2, <1>3, <1>4, <1>5, <1>6, <1>7, <1>8 DEF Moves, BlobCalls

(* What a call makes of a chain. *)
LEMMA EffectShape ==
  ASSUME NEW a, IsChain(a), NEW c, Allowed(a, c)
  PROVE  /\ Effect(a, c) = [epoch |-> a.epoch, storages |-> Effect(a, c).storages,
                            blobs |-> Effect(a, c).blobs, shared |-> Effect(a, c).shared,
                            coins |-> Effect(a, c).coins]
         /\ DOMAIN a.shared \subseteq DOMAIN Effect(a, c).shared
<1>1. a = [epoch |-> a.epoch, storages |-> a.storages, blobs |-> a.blobs,
           shared |-> a.shared, coins |-> a.coins]
  BY DEF IsChain
<1>2. CASE c.call = "split_by_epoch"
  BY <1>1, <1>2 DEF Effect
<1>3. CASE c.call = "split_by_size"
  BY <1>1, <1>3 DEF Effect
<1>4. CASE c.call = "fuse"
  BY <1>1, <1>4 DEF Effect
<1>5. CASE c.call = "destroy"
  BY <1>1, <1>5 DEF Effect
<1>6. CASE c.call = "delete_blob"
  BY <1>1, <1>6 DEF Effect
<1>7. CASE c.call = "burn"
  BY <1>1, <1>7 DEF Effect
<1>8. CASE c.call = "share"
  BY <1>1, <1>8 DEF Effect, With
<1>9. CASE c.call = "set_metadata"
  BY <1>1, <1>9 DEF Effect
<1>10. CASE c.call = "remove_metadata"
  BY <1>1, <1>10 DEF Effect
<1>11. CASE c.call = "take_metadata"
  BY <1>1, <1>11 DEF Effect
<1>12. CASE c.call = "extend_blob"
  BY <1>1, <1>12 DEF Effect
<1>13. CASE c.call = "extend_blob_with_resource"
  BY <1>1, <1>13 DEF Effect
<1>14. CASE c.call = "merge_coins"
  BY <1>1, <1>14 DEF Effect
<1>15. CASE c.call = "fund"
  BY <1>1, <1>15 DEF Effect
<1>16. CASE c.call = "extend_shared"
  BY <1>1, <1>16 DEF Effect
<1> QED
  BY <1>2, <1>3, <1>4, <1>5, <1>6, <1>7, <1>8, <1>9, <1>10, <1>11, <1>12, <1>13, <1>14,
     <1>15, <1>16 DEF Allowed

(* The owner has finitely many objects at any time. *)
LEMMA FiniteDomains ==
  ASSUME NEW f, IsFiniteSet(DOMAIN f)
  PROVE  /\ \A id, v : IsFiniteSet(DOMAIN With(f, id, v))
         /\ \A ids : IsFiniteSet(DOMAIN Without(f, ids))
         /\ \A i, j : IsFiniteSet(DOMAIN move_fuse(f, i, j))
<1>1. ASSUME NEW id, NEW v PROVE IsFiniteSet(DOMAIN With(f, id, v))
  <2>1. DOMAIN With(f, id, v) = DOMAIN f \cup {id}
    BY DEF With
  <2> QED
    BY <2>1, FS_AddElement
<1>2. ASSUME NEW ids PROVE IsFiniteSet(DOMAIN Without(f, ids))
  <2>1. DOMAIN Without(f, ids) \subseteq DOMAIN f
    BY DEF Without, Restrict
  <2> QED
    BY <2>1, FS_Subset
<1>3. ASSUME NEW i, NEW j PROVE IsFiniteSet(DOMAIN move_fuse(f, i, j))
  <2>1. DOMAIN move_fuse(f, i, j) \subseteq DOMAIN f
    BY DEF move_fuse
  <2> QED
    BY <2>1, FS_Subset
<1> QED
  BY <1>1, <1>2, <1>3

LEMMA EffectKeepsFinite ==
  ASSUME NEW a, IsChain(a), NEW c, Allowed(a, c)
  PROVE  /\ IsFiniteSet(DOMAIN Effect(a, c).storages)
         /\ IsFiniteSet(DOMAIN Effect(a, c).blobs)
<1>1. a = [epoch |-> a.epoch, storages |-> a.storages, blobs |-> a.blobs,
           shared |-> a.shared, coins |-> a.coins]
      /\ IsFiniteSet(DOMAIN a.storages) /\ IsFiniteSet(DOMAIN a.blobs)
  BY DEF IsChain
<1>2. CASE c.call = "split_by_epoch"
  <2> DEFINE cut == [a.storages EXCEPT ![c.id].end = c.at]
             rest == Owned(FreshId(a), [a.storages[c.id] EXCEPT !.start = c.at])
  <2>1. DOMAIN cut = DOMAIN a.storages
    OBVIOUS
  <2>2. Effect(a, c).storages = With(cut, FreshId(a), rest) /\ Effect(a, c).blobs = a.blobs
    BY <1>1, <1>2 DEF Effect
  <2> HIDE DEF cut, rest
  <2>3. IsFiniteSet(DOMAIN With(cut, FreshId(a), rest))
    BY <1>1, <2>1, FiniteDomains
  <2> QED
    BY <1>1, <2>2, <2>3
<1>3. CASE c.call = "split_by_size"
  <2> DEFINE cut == [a.storages EXCEPT ![c.id].size = c.at]
             rest == Owned(FreshId(a), [a.storages[c.id] EXCEPT !.size = @ - c.at])
  <2>1. DOMAIN cut = DOMAIN a.storages
    OBVIOUS
  <2>2. Effect(a, c).storages = With(cut, FreshId(a), rest) /\ Effect(a, c).blobs = a.blobs
    BY <1>1, <1>3 DEF Effect
  <2> HIDE DEF cut, rest
  <2>3. IsFiniteSet(DOMAIN With(cut, FreshId(a), rest))
    BY <1>1, <2>1, FiniteDomains
  <2> QED
    BY <1>1, <2>2, <2>3
<1>4. CASE c.call = "fuse"
  <2>1. Effect(a, c).blobs = a.blobs
        /\ Effect(a, c).storages = move_fuse(a.storages, c.id, c.second)
    BY <1>1, <1>4 DEF Effect
  <2> QED
    BY <1>1, <2>1, FiniteDomains
<1>5. CASE c.call = "destroy"
  <2>1. Effect(a, c).blobs = a.blobs
        /\ Effect(a, c).storages = Without(a.storages, {c.id})
    BY <1>1, <1>5 DEF Effect
  <2> QED
    BY <1>1, <2>1, FiniteDomains
<1>6. CASE c.call = "delete_blob"
  <2>1. Effect(a, c).blobs = Without(a.blobs, {c.id})
        /\ Effect(a, c).storages =
             With(a.storages, FreshId(a), Owned(FreshId(a), a.blobs[c.id].storage))
    BY <1>1, <1>6 DEF Effect
  <2> QED
    BY <1>1, <2>1, FiniteDomains
<1>7. CASE c.call \in {"burn", "share"}
  <2>1. Effect(a, c).blobs = Without(a.blobs, {c.id})
        /\ Effect(a, c).storages = a.storages
    BY <1>1, <1>7 DEF Effect
  <2> QED
    BY <1>1, <2>1, FiniteDomains
<1>8. CASE c.call \in {"set_metadata", "remove_metadata", "take_metadata", "extend_blob"}
  <2>1. Effect(a, c).storages = a.storages /\ DOMAIN Effect(a, c).blobs = DOMAIN a.blobs
    BY <1>1, <1>8 DEF Effect
  <2> QED
    BY <1>1, <2>1
<1>9. CASE c.call = "extend_blob_with_resource"
  <2>1. Effect(a, c).storages = Without(a.storages, {c.second})
        /\ DOMAIN Effect(a, c).blobs = DOMAIN a.blobs
    BY <1>1, <1>9 DEF Effect
  <2> QED
    BY <1>1, <2>1, FiniteDomains
<1>10. CASE c.call \in {"merge_coins", "fund", "extend_shared"}
  BY <1>1, <1>10 DEF Effect
<1> QED
  BY <1>2, <1>3, <1>4, <1>5, <1>6, <1>7, <1>8, <1>9, <1>10 DEF Allowed

LEMMA EffectIsChain ==
  ASSUME NEW a, IsChain(a), NEW c, Allowed(a, c)
  PROVE  /\ IsChain(Effect(a, c)) /\ Effect(a, c).epoch = a.epoch
         /\ DOMAIN a.shared \subseteq DOMAIN Effect(a, c).shared
<1>1. /\ Effect(a, c) = [epoch |-> a.epoch, storages |-> Effect(a, c).storages,
                         blobs |-> Effect(a, c).blobs, shared |-> Effect(a, c).shared,
                         coins |-> Effect(a, c).coins]
      /\ DOMAIN a.shared \subseteq DOMAIN Effect(a, c).shared
  BY EffectShape
<1>2. Effect(a, c).epoch = a.epoch /\ a.epoch \in Nat \ {0}
  BY <1>1 DEF IsChain
<1> QED
  BY <1>1, <1>2, EffectKeepsFinite DEF IsChain

(* Updates that keep two functions in agreement. *)
LEMMA AgreeKept ==
  ASSUME NEW f, NEW g, NEW S, AgreeOn(f, g, S)
  PROVE  /\ \A ids : AgreeOn(Without(f, ids), Without(g, ids), S)
         /\ \A id, v : AgreeOn([f EXCEPT ![id] = v], [g EXCEPT ![id] = v], S)
         /\ \A i \in S, j \in S :
              move_fuse_allowed(f, i, j) => AgreeOn(move_fuse(f, i, j), move_fuse(g, i, j), S)
<1>1. ASSUME NEW ids PROVE AgreeOn(Without(f, ids), Without(g, ids), S)
  BY DEF AgreeOn, Without, Restrict
<1>2. ASSUME NEW id, NEW v PROVE AgreeOn([f EXCEPT ![id] = v], [g EXCEPT ![id] = v], S)
  BY DEF AgreeOn
<1>3. ASSUME NEW i \in S, NEW j \in S, move_fuse_allowed(f, i, j)
      PROVE  AgreeOn(move_fuse(f, i, j), move_fuse(g, i, j), S)
  <2>1. i \in DOMAIN f /\ j \in DOMAIN f /\ f[i] = g[i] /\ f[j] = g[j]
    BY <1>3 DEF move_fuse_allowed, AgreeOn
  <2> QED
    BY <2>1 DEF AgreeOn, move_fuse
<1> QED
  BY <1>1, <1>2, <1>3

(* An extension paid with coins, field by field. *)
LEMMA BlobExtended ==
  ASSUME NEW ch, IsChain(ch), NEW c, c.call = "extend_blob"
  PROVE  /\ Effect(ch, c).shared = ch.shared
         /\ Effect(ch, c).blobs =
              [ch.blobs EXCEPT ![c.id] =
                 [ch.blobs[c.id] EXCEPT !.storage =
                    [ch.blobs[c.id].storage EXCEPT !.end =
                       ch.blobs[c.id].storage.end + c.epochs]]]
         /\ Effect(ch, c).coins =
              [ch.coins EXCEPT ![c.coin] =
                 ch.coins[c.coin] - Cost(ch.blobs[c.id].storage, c.epochs)]
<1>1. ch = [epoch |-> ch.epoch, storages |-> ch.storages, blobs |-> ch.blobs,
            shared |-> ch.shared, coins |-> ch.coins]
  BY DEF IsChain
<1>2. Effect(ch, c) =
        [ch EXCEPT !.blobs[c.id].storage.end = @ + c.epochs,
                   !.coins[c.coin] = @ - Cost(ch.blobs[c.id].storage, c.epochs)]
  BY DEF Effect
<1> QED
  BY <1>1, <1>2

(* A call that makes no storage, or in a transaction that uses none. *)
Fusing == {"fuse", "destroy"}
Blobby == {"delete_blob", "burn", "set_metadata", "remove_metadata", "take_metadata",
           "merge_coins", "extend_blob", "fund"}

(* Such calls leave chains that are alike alike. *)
LEMMA EffectAlike ==
  ASSUME NEW a, NEW b, NEW tx, Alike(a, b, tx), NEW c \in ToSet(tx), Allowed(a, c),
         c.call \in Fusing \/ (c.call \in Blobby /\ UsedStorages(tx) = {})
  PROVE  Alike(Effect(a, c), Effect(b, c), tx)
<1>1. /\ IsChain(a) /\ IsChain(b) /\ a.epoch = b.epoch
      /\ DOMAIN a.shared \subseteq DOMAIN b.shared
      /\ AgreeOn(a.coins, b.coins, UsedCoins(tx))
      /\ AgreeOn(a.storages, b.storages, UsedStorages(tx))
      /\ AgreeOn(a.blobs, b.blobs, UsedBlobs(tx))
  BY DEF Alike
<1>2. c.call \in Moves
  BY DEF Moves, Fusing, Blobby
<1>3. Allowed(b, c)
  BY <1>2, AllowedAlike
<1>4. /\ IsChain(Effect(a, c)) /\ IsChain(Effect(b, c))
      /\ Effect(a, c).epoch = Effect(b, c).epoch
  BY <1>1, <1>3, EffectIsChain
<1>5. /\ a = [epoch |-> a.epoch, storages |-> a.storages, blobs |-> a.blobs,
              shared |-> a.shared, coins |-> a.coins]
      /\ b = [epoch |-> b.epoch, storages |-> b.storages, blobs |-> b.blobs,
              shared |-> b.shared, coins |-> b.coins]
  BY <1>1 DEF IsChain
<1>6. CASE c.call \in Fusing
  <2>1. /\ Effect(a, c).shared = a.shared /\ Effect(b, c).shared = b.shared
        /\ Effect(a, c).coins = a.coins /\ Effect(b, c).coins = b.coins
        /\ Effect(a, c).blobs = a.blobs /\ Effect(b, c).blobs = b.blobs
    BY <1>5, <1>6 DEF Effect, Fusing
  <2>2. AgreeOn(Effect(a, c).storages, Effect(b, c).storages, UsedStorages(tx))
    <3>1. CASE c.call = "fuse"
      <4>1. c.id \in UsedStorages(tx) /\ c.second \in UsedStorages(tx)
        BY <3>1 DEF UsedStorages, Called, StorageCalls
      <4>2. move_fuse_allowed(a.storages, c.id, c.second)
        BY <3>1 DEF Allowed
      <4>3. /\ Effect(a, c).storages = move_fuse(a.storages, c.id, c.second)
            /\ Effect(b, c).storages = move_fuse(b.storages, c.id, c.second)
        BY <1>5, <3>1 DEF Effect
      <4> QED
        BY <1>1, <4>1, <4>2, <4>3, AgreeKept
    <3>2. CASE c.call = "destroy"
      <4>1. /\ Effect(a, c).storages = Without(a.storages, {c.id})
            /\ Effect(b, c).storages = Without(b.storages, {c.id})
        BY <1>5, <3>2 DEF Effect
      <4> QED
        BY <1>1, <4>1, AgreeKept
    <3> QED
      BY <1>6, <3>1, <3>2 DEF Fusing
  <2> QED
    BY <1>1, <1>4, <2>1, <2>2 DEF Alike
<1>7. CASE c.call \in Blobby /\ UsedStorages(tx) = {}
  <2>1. AgreeOn(Effect(a, c).storages, Effect(b, c).storages, UsedStorages(tx))
    BY <1>7 DEF AgreeOn
  <2>2. CASE c.call \in {"delete_blob", "burn"}
    <3>1. /\ Effect(a, c).shared = a.shared /\ Effect(b, c).shared = b.shared
          /\ Effect(a, c).coins = a.coins /\ Effect(b, c).coins = b.coins
          /\ Effect(a, c).blobs = Without(a.blobs, {c.id})
          /\ Effect(b, c).blobs = Without(b.blobs, {c.id})
      BY <1>5, <2>2 DEF Effect
    <3>2. AgreeOn(Effect(a, c).blobs, Effect(b, c).blobs, UsedBlobs(tx))
      BY <1>1, <3>1, AgreeKept
    <3> QED
      BY <1>1, <1>4, <2>1, <3>1, <3>2 DEF Alike
  <2>3. CASE c.call \in {"set_metadata", "remove_metadata", "take_metadata"}
    <3> DEFINE Meta(m) == IF c.call = "set_metadata"
                            THEN IF m = <<>> THEN <<{c.key}>> ELSE <<m[1] \cup {c.key}>>
                          ELSE IF c.call = "remove_metadata" THEN <<m[1] \ {c.key}>> ELSE <<>>
               New(ch) == [ch.blobs[c.id] EXCEPT !.metadata = Meta(ch.blobs[c.id].metadata)]
    <3>1. /\ Effect(a, c).shared = a.shared /\ Effect(b, c).shared = b.shared
          /\ Effect(a, c).coins = a.coins /\ Effect(b, c).coins = b.coins
      BY <1>5, <2>3 DEF Effect
    <3>2. /\ Effect(a, c).blobs = [a.blobs EXCEPT ![c.id] = New(a)]
          /\ Effect(b, c).blobs = [b.blobs EXCEPT ![c.id] = New(b)]
      <4>1. CASE c.call = "set_metadata"
        BY <1>5, <4>1 DEF Effect
      <4>2. CASE c.call = "remove_metadata"
        BY <1>5, <4>2 DEF Effect
      <4>3. CASE c.call = "take_metadata"
        BY <1>5, <4>3 DEF Effect
      <4> QED
        BY <2>3, <4>1, <4>2, <4>3
    <3>3. c.id \in UsedBlobs(tx) /\ c.id \in DOMAIN a.blobs
      BY <2>3 DEF UsedBlobs, StorageCalls, SharedCalls, Allowed
    <3>4. New(a) = New(b)
      BY <1>1, <3>3 DEF AgreeOn
    <3> HIDE DEF New
    <3>5. AgreeOn(Effect(a, c).blobs, Effect(b, c).blobs, UsedBlobs(tx))
      <4>1. AgreeOn([a.blobs EXCEPT ![c.id] = New(a)], [b.blobs EXCEPT ![c.id] = New(a)],
                    UsedBlobs(tx))
        BY <1>1, AgreeKept
      <4> QED
        BY <3>2, <3>4, <4>1
    <3> QED
      BY <1>1, <1>4, <2>1, <3>1, <3>5 DEF Alike
  <2>4. CASE c.call = "merge_coins"
    <3> DEFINE New(ch) == ch.coins[c.id]
                 + Cardinality(UNION {{coin} \X (1 .. ch.coins[coin]) : coin \in c.merged})
    <3>1. /\ Effect(a, c).shared = a.shared /\ Effect(b, c).shared = b.shared
          /\ Effect(a, c).blobs = a.blobs /\ Effect(b, c).blobs = b.blobs
      BY <1>5, <2>4 DEF Effect
    <3>2. /\ Effect(a, c).coins = Without([a.coins EXCEPT ![c.id] = New(a)], c.merged)
          /\ Effect(b, c).coins = Without([b.coins EXCEPT ![c.id] = New(b)], c.merged)
      BY <1>5, <2>4 DEF Effect
    <3>3. {c.id} \cup c.merged \subseteq UsedCoins(tx) /\ {c.id} \cup c.merged \subseteq DOMAIN a.coins
      BY <2>4 DEF UsedCoins, Called, Allowed
    <3>4. New(a) = New(b)
      <4>1. \A coin \in {c.id} \cup c.merged : a.coins[coin] = b.coins[coin]
        BY <1>1, <3>3 DEF AgreeOn
      <4>2. {{coin} \X (1 .. a.coins[coin]) : coin \in c.merged}
              = {{coin} \X (1 .. b.coins[coin]) : coin \in c.merged}
        BY <4>1
      <4> QED
        BY <4>1, <4>2
    <3> HIDE DEF New
    <3>5. AgreeOn([a.coins EXCEPT ![c.id] = New(a)], [b.coins EXCEPT ![c.id] = New(b)],
                  UsedCoins(tx))
      BY <1>1, <3>4, AgreeKept
    <3>6. AgreeOn(Effect(a, c).coins, Effect(b, c).coins, UsedCoins(tx))
      BY <3>2, <3>5, AgreeKept
    <3> QED
      BY <1>1, <1>4, <2>1, <3>1, <3>6 DEF Alike
  <2>5. CASE c.call = "extend_blob"
    <3> DEFINE Blob(ch) == [ch.blobs[c.id] EXCEPT !.storage =
                              [ch.blobs[c.id].storage EXCEPT !.end =
                                 ch.blobs[c.id].storage.end + c.epochs]]
               Coin(ch) == ch.coins[c.coin] - Cost(ch.blobs[c.id].storage, c.epochs)
    <3>1. Effect(a, c).shared = a.shared /\ Effect(b, c).shared = b.shared
      BY <1>1, <2>5, BlobExtended
    <3>2. /\ Effect(a, c).blobs = [a.blobs EXCEPT ![c.id] = Blob(a)]
          /\ Effect(b, c).blobs = [b.blobs EXCEPT ![c.id] = Blob(b)]
          /\ Effect(a, c).coins = [a.coins EXCEPT ![c.coin] = Coin(a)]
          /\ Effect(b, c).coins = [b.coins EXCEPT ![c.coin] = Coin(b)]
      BY <1>1, <2>5, BlobExtended
    <3>3. /\ c.id \in UsedBlobs(tx) /\ c.id \in DOMAIN a.blobs
          /\ c.coin \in UsedCoins(tx) /\ c.coin \in DOMAIN a.coins
      BY <2>5 DEF UsedBlobs, StorageCalls, SharedCalls, UsedCoins, Called, Allowed
    <3>4. Blob(a) = Blob(b) /\ Coin(a) = Coin(b)
      BY <1>1, <3>3 DEF AgreeOn
    <3> HIDE DEF Blob, Coin
    <3>5. /\ AgreeOn(Effect(a, c).blobs, Effect(b, c).blobs, UsedBlobs(tx))
          /\ AgreeOn(Effect(a, c).coins, Effect(b, c).coins, UsedCoins(tx))
      <4>1. AgreeOn([a.blobs EXCEPT ![c.id] = Blob(a)], [b.blobs EXCEPT ![c.id] = Blob(a)],
                    UsedBlobs(tx))
        BY <1>1, AgreeKept
      <4>2. AgreeOn([a.coins EXCEPT ![c.coin] = Coin(a)], [b.coins EXCEPT ![c.coin] = Coin(a)],
                    UsedCoins(tx))
        BY <1>1, AgreeKept
      <4> QED
        BY <3>2, <3>4, <4>1, <4>2
    <3> QED
      BY <1>1, <1>4, <2>1, <3>1, <3>5 DEF Alike
  <2>6. CASE c.call = "fund"
    <3>1. /\ DOMAIN Effect(a, c).shared = DOMAIN a.shared
          /\ DOMAIN Effect(b, c).shared = DOMAIN b.shared
          /\ Effect(a, c).blobs = a.blobs /\ Effect(b, c).blobs = b.blobs
      BY <1>5, <2>6 DEF Effect
    <3>2. CASE c.split
      <4>1. /\ Effect(a, c).coins = [a.coins EXCEPT ![c.coin] = a.coins[c.coin] - c.amount]
            /\ Effect(b, c).coins = [b.coins EXCEPT ![c.coin] = b.coins[c.coin] - c.amount]
        BY <1>5, <2>6, <3>2 DEF Effect
      <4>2. c.coin \in UsedCoins(tx) /\ c.coin \in DOMAIN a.coins
        BY <2>6 DEF UsedCoins, Called, Allowed
      <4>3. a.coins[c.coin] = b.coins[c.coin]
        BY <1>1, <4>2 DEF AgreeOn
      <4>4. AgreeOn(Effect(a, c).coins, Effect(b, c).coins, UsedCoins(tx))
        BY <1>1, <4>1, <4>3, AgreeKept
      <4> QED
        BY <1>1, <1>4, <2>1, <3>1, <4>4 DEF Alike
    <3>3. CASE ~ c.split
      <4>1. /\ Effect(a, c).coins = Without(a.coins, {c.coin})
            /\ Effect(b, c).coins = Without(b.coins, {c.coin})
        BY <1>5, <2>6, <3>3 DEF Effect
      <4>2. AgreeOn(Effect(a, c).coins, Effect(b, c).coins, UsedCoins(tx))
        BY <1>1, <4>1, AgreeKept
      <4> QED
        BY <1>1, <1>4, <2>1, <3>1, <4>2 DEF Alike
    <3> QED
      BY <3>2, <3>3
  <2> QED
    BY <1>7, <2>2, <2>3, <2>4, <2>5, <2>6 DEF Blobby
<1> QED
  BY <1>6, <1>7

-----------------------------------------------------------------------------
(* Transactions. *)

(* What a transaction makes of a chain, call by call. *)
Runs(after, ch, tx) ==
  /\ after[0] = ch
  /\ \A n \in 1 .. Len(tx) : after[n] = Applied(after[n - 1], tx[n])

LEMMA ExecutedSteps ==
  ASSUME NEW ch, NEW tx, IsSeq(tx)
  PROVE  \E after : Runs(after, ch, tx) /\ Executed(ch, tx) = after[Len(tx)]
<1> DEFINE N == Len(tx)
           Whole(f) == [n \in 0 .. N |-> IF n = 0 THEN ch ELSE Applied(f[n - 1], tx[n])]
           after == CHOOSE f : f = Whole(f)
<1>1. N \in Nat
  BY SeqFacts
<1>2. Executed(ch, tx) = after[N]
  BY DEF Executed
<1> HIDE DEF N
<1> DEFINE Solved(f, n) == /\ DOMAIN f = 0 .. n /\ f[0] = ch
                           /\ \A i \in 1 .. n : f[i] = Applied(f[i - 1], tx[i])
           S == {n \in Nat : \E f : f = [i \in 0 .. n |-> f[i]] /\ Solved(f, n)}
<1>3. 0 \in S
  <2>1. LET f == [i \in 0 .. 0 |-> ch] IN f = [i \in 0 .. 0 |-> f[i]] /\ Solved(f, 0)
    OBVIOUS
  <2> QED
    BY <2>1
<1>4. ASSUME NEW n \in Nat, n \in S PROVE n + 1 \in S
  <2>1. PICK f : f = [i \in 0 .. n |-> f[i]] /\ Solved(f, n)
    BY <1>4
  <2> DEFINE new == Applied(f[n], tx[n + 1])
             g == [i \in 0 .. n + 1 |-> IF i = n + 1 THEN new ELSE f[i]]
  <2>2. DOMAIN g = 0 .. n + 1 /\ g = [i \in 0 .. n + 1 |-> g[i]]
    OBVIOUS
  <2>3. g[n + 1] = new /\ \A i \in 0 .. n : g[i] = f[i]
    OBVIOUS
  <2> HIDE DEF g
  <2>4. g[0] = ch
    BY <2>1, <2>3
  <2>5. \A i \in 1 .. n + 1 : g[i] = Applied(g[i - 1], tx[i])
    <3> TAKE i \in 1 .. n + 1
    <3>1. CASE i = n + 1
      <4>1. g[i - 1] = f[n]
        BY <2>3, <3>1
      <4> QED
        BY <2>3, <3>1, <4>1
    <3>2. CASE i \in 1 .. n
      <4>1. g[i] = f[i] /\ g[i - 1] = f[i - 1]
        BY <2>3, <3>2
      <4> QED
        BY <2>1, <3>2, <4>1
    <3> QED
      BY <3>1, <3>2
  <2>6. Solved(g, n + 1)
    BY <2>2, <2>4, <2>5
  <2> HIDE DEF Solved
  <2> QED
    BY <2>2, <2>6
<1> HIDE DEF S
<1>5. N \in S
  BY <1>1, <1>3, <1>4, SetInduction
<1>6. PICK f : f = [i \in 0 .. N |-> f[i]] /\ Solved(f, N)
  BY <1>5 DEF S
<1>7. f = Whole(f)
  <2>1. \A i \in 0 .. N : f[i] = IF i = 0 THEN ch ELSE Applied(f[i - 1], tx[i])
    BY <1>1, <1>6
  <2> QED
    BY <1>6, <2>1
<1>8. after = Whole(after)
  BY <1>7
<1> HIDE DEF after
<1>9. after[0] = ch /\ \A n \in 1 .. N : after[n] = Applied(after[n - 1], tx[n])
  <2>1. \A i \in 0 .. N : after[i] = Whole(after)[i]
    BY <1>8, Zenon
  <2>2. \A i \in 0 .. N : after[i] = IF i = 0 THEN ch ELSE Applied(after[i - 1], tx[i])
    BY <2>1
  <2>3. 0 \in 0 .. N /\ \A i \in 1 .. N : i \in 0 .. N /\ i # 0
    BY <1>1
  <2> QED
    BY <2>2, <2>3
<1> QED
  BY <1>2, <1>9 DEF Runs, N

(* A transaction of one call, or of calls none of which makes a storage that a later one
   might take. *)
Sound(tx) ==
  /\ IsSeq(tx)
  /\ \A i \in 1 .. Len(tx) : tx[i].call \in Moves
  /\ \/ Len(tx) = 1
     \/ \A i \in 1 .. Len(tx) : tx[i].call \in Fusing
     \/ \A i \in 1 .. Len(tx) : tx[i].call \in Blobby

(* A chain is not the mark of an abort. *)
LEMMA NotAborted ==
  ASSUME NEW ch, IsChain(ch)
  PROVE  ch # Abort
<1>1. "epoch" \in DOMAIN ch
  BY DEF IsChain
<1>2. "epoch" \notin DOMAIN Abort
  BY DEF Abort
<1> QED
  BY <1>1, <1>2

(* A transaction does what it does because of the objects it uses. *)
LEMMA ExecutedAlike ==
  ASSUME NEW a, NEW b, NEW tx, Sound(tx), Alike(a, b, tx), Executed(a, tx) # Abort
  PROVE  Executed(b, tx) # Abort
<1> DEFINE N == Len(tx)
<1>1. /\ IsSeq(tx) /\ N \in Nat /\ DOMAIN tx = 1 .. N
      /\ \A i \in 1 .. N : tx[i].call \in Moves /\ tx[i] \in ToSet(tx)
  BY SeqFacts DEF Sound, ToSet
<1>2. PICK left : Runs(left, a, tx) /\ Executed(a, tx) = left[N]
  BY <1>1, ExecutedSteps
<1>3. PICK right : Runs(right, b, tx) /\ Executed(b, tx) = right[N]
  BY <1>1, ExecutedSteps
<1>4. /\ left[0] = a /\ \A n \in 1 .. N : left[n] = Applied(left[n - 1], tx[n])
      /\ right[0] = b /\ \A n \in 1 .. N : right[n] = Applied(right[n - 1], tx[n])
  BY <1>2, <1>3 DEF Runs
<1>5. IsChain(a) /\ IsChain(b)
  BY DEF Alike
<1> HIDE DEF N
<1>6. \A n \in 0 .. N : left[n] # Abort
  <2> DEFINE S == {k \in Nat : k <= N => left[N - k] # Abort}
  <2>1. 0 \in S
    BY <1>1, <1>2
  <2>2. ASSUME NEW k \in Nat, k \in S PROVE k + 1 \in S
    <3> SUFFICES ASSUME k + 1 <= N PROVE left[N - (k + 1)] # Abort
      OBVIOUS
    <3>1. N - k \in 1 .. N /\ (N - k) - 1 = N - (k + 1) /\ left[N - k] # Abort
      BY <1>1, <2>2
    <3>2. left[N - k] = Applied(left[(N - k) - 1], tx[N - k])
      BY <1>4, <3>1
    <3> QED
      BY <3>1, <3>2 DEF Applied
  <2> HIDE DEF S
  <2>3. Nat \subseteq S
    BY <2>1, <2>2, SetInduction
  <2> TAKE n \in 0 .. N
  <2>4. N - n \in Nat /\ N - n <= N /\ N - (N - n) = n
    BY <1>1
  <2> QED
    BY <2>3, <2>4 DEF S
<1>7. \A n \in 1 .. N : left[n] = Effect(left[n - 1], tx[n]) /\ Allowed(left[n - 1], tx[n])
  <2> TAKE n \in 1 .. N
  <2>1. left[n] = Applied(left[n - 1], tx[n]) /\ left[n] # Abort
    BY <1>1, <1>4, <1>6
  <2> QED
    BY <2>1 DEF Applied
<1>8. CASE N = 1
  <2>1. left[0] = a /\ Allowed(a, tx[1]) /\ right[1] = Applied(b, tx[1])
    BY <1>4, <1>7, <1>8
  <2>2. Allowed(b, tx[1])
    BY <1>1, <1>8, <2>1, AllowedAlike
  <2>3. b # Abort /\ IsChain(Effect(b, tx[1]))
    BY <1>5, <2>2, NotAborted, EffectIsChain
  <2>4. right[1] = Effect(b, tx[1])
    BY <2>1, <2>2, <2>3 DEF Applied
  <2> QED
    BY <1>3, <1>8, <2>3, <2>4, NotAborted DEF N
<1>9. CASE \A i \in 1 .. N : tx[i].call \in Fusing \/ (tx[i].call \in Blobby /\ UsedStorages(tx) = {})
  <2> DEFINE S == {n \in Nat : n <= N => Alike(left[n], right[n], tx)}
  <2>1. 0 \in S
    BY <1>4
  <2>2. ASSUME NEW n \in Nat, n \in S PROVE n + 1 \in S
    <3> SUFFICES ASSUME n + 1 <= N PROVE Alike(left[n + 1], right[n + 1], tx)
      OBVIOUS
    <3>1. n + 1 \in 1 .. N /\ (n + 1) - 1 = n /\ Alike(left[n], right[n], tx)
      BY <1>1, <2>2
    <3>2. left[n + 1] = Effect(left[n], tx[n + 1]) /\ Allowed(left[n], tx[n + 1])
      BY <1>7, <3>1
    <3>3. Alike(Effect(left[n], tx[n + 1]), Effect(right[n], tx[n + 1]), tx)
      BY <1>1, <1>9, <3>1, <3>2, EffectAlike
    <3>4. Allowed(right[n], tx[n + 1])
      BY <1>1, <3>1, <3>2, AllowedAlike
    <3>5. right[n] # Abort
      BY <3>1, NotAborted DEF Alike
    <3>6. right[n + 1] = Applied(right[n], tx[n + 1])
      BY <1>4, <3>1
    <3>7. right[n + 1] = Effect(right[n], tx[n + 1])
      BY <3>4, <3>5, <3>6 DEF Applied
    <3> QED
      BY <3>2, <3>3, <3>7
  <2> HIDE DEF S
  <2>3. N \in S
    BY <1>1, <2>1, <2>2, SetInduction
  <2>4. IsChain(right[N])
    BY <1>1, <2>3 DEF S, Alike
  <2> QED
    BY <1>3, <2>4, NotAborted DEF N
<1>10. (\A i \in 1 .. N : tx[i].call \in Blobby) => UsedStorages(tx) = {}
  BY <1>1 DEF UsedStorages, Called, StorageCalls, Blobby, ToSet
<1> QED
  BY <1>8, <1>9, <1>10 DEF Sound, N

-----------------------------------------------------------------------------

-----------------------------------------------------------------------------
(* A sequence mapped element by element. *)
LEMMA MapFacts ==
  ASSUME NEW s, IsSeq(s), NEW t, t = [i \in DOMAIN s |-> t[i]]
  PROVE  IsSeq(t) /\ Len(t) = Len(s) /\ DOMAIN t = 1 .. Len(s)
BY SeqFacts, MakeSeq

(* Ascending and Only yield sequences. *)
LEMMA AscendingFacts ==
  ASSUME NEW S, IsFiniteSet(S)
  PROVE  IsSeq(Ascending(S)) /\ DOMAIN Ascending(S) = 1 .. Cardinality(S)
<1> DEFINE n == Cardinality(S)
<1>1. n \in Nat
  BY FS_CardinalityType
<1>2. Ascending(S) = [k \in 1 .. n |-> CHOOSE m \in S : Cardinality({i \in S : i < m}) = k - 1]
  BY DEF Ascending
<1> HIDE DEF n
<1>3. Ascending(S) = [k \in 1 .. n |-> Ascending(S)[k]]
  BY <1>2
<1>4. IsSeq(Ascending(S)) /\ DOMAIN Ascending(S) = 1 .. n
  BY <1>1, <1>3, MakeSeq
<1> QED
  BY <1>4 DEF n

LEMMA SelectedFacts ==
  ASSUME NEW s, IsSeq(s), NEW some \in SUBSET DOMAIN s
  PROVE  IsSeq(Ascending(some))
<1>1. IsFiniteSet(DOMAIN s)
  BY SeqFacts, FS_Interval
<1>2. IsFiniteSet(some)
  BY <1>1, FS_Subset
<1> QED
  BY <1>2, AscendingFacts

LEMMA OnlyFacts ==
  ASSUME NEW s, IsSeq(s), NEW set
  PROVE  IsSeq(Only(s, set))
<1> DEFINE some == {i \in DOMAIN s : s[i] \in set}
           at == Ascending(some)
<1>1. IsSeq(at)
  BY SelectedFacts
<1>2. Only(s, set) = [k \in DOMAIN at |-> s[at[k]]]
  BY DEF Only
<1> HIDE DEF at
<1>3. Only(s, set) = [k \in DOMAIN at |-> Only(s, set)[k]]
  BY <1>2
<1> QED
  BY <1>1, <1>3, MapFacts

LEMMA DistinctFacts ==
  ASSUME NEW ids, IsSeq(ids)
  PROVE  IsSeq(Distinct(ids))
<1> DEFINE some == {i \in DOMAIN ids : \A j \in 1 .. i - 1 : ids[j] /= ids[i]}
           at == Ascending(some)
<1>1. IsSeq(at)
  BY SelectedFacts
<1>2. Distinct(ids) = [k \in DOMAIN at |-> ids[at[k]]]
  BY DEF Distinct
<1> HIDE DEF at
<1>3. Distinct(ids) = [k \in DOMAIN at |-> Distinct(ids)[k]]
  BY <1>2
<1> QED
  BY <1>1, <1>3, MapFacts

(* A sequence has finitely many elements. *)
LEMMA ToSetFinite ==
  ASSUME NEW s, IsSeq(s)
  PROVE  IsFiniteSet(ToSet(s))
<1> DEFINE f == [i \in DOMAIN s |-> s[i]]
<1>1. f \in Surjection(DOMAIN s, ToSet(s))
  BY DEF Surjection, ToSet
<1>2. IsFiniteSet(DOMAIN s)
  BY SeqFacts, FS_Interval
<1> HIDE DEF f
<1> QED
  BY <1>1, <1>2, FS_Surjection

-----------------------------------------------------------------------------
(* Transactions of one kind of call, and batches of them. *)

(* A transaction of calls of one name. *)
AllOf(tx, name) == IsSeq(tx) /\ \A i \in 1 .. Len(tx) : tx[i].call = name

LEMMA CallsFacts ==
  ASSUME NEW name, NEW ids, IsSeq(ids)
  PROVE  AllOf(Calls(name, ids), name)
<1>1. Calls(name, ids) = [i \in DOMAIN ids |-> Calls(name, ids)[i]]
      /\ \A i \in DOMAIN ids : Calls(name, ids)[i].call = name
  BY DEF Calls
<1> QED
  BY <1>1, MapFacts DEF AllOf

LEMMA MinOfTwo ==
  ASSUME NEW p \in Int, NEW q \in Int
  PROVE  Min({p, q}) \in Int /\ Min({p, q}) <= q
<1> DEFINE R(x) == x \in {p, q} /\ \A y \in {p, q} : x <= y
<1>1. \E x : R(x)
  <2>1. CASE p <= q
    BY <2>1
  <2>2. CASE q <= p
    BY <2>2
  <2> QED
    BY <2>1, <2>2
<1>2. Min({p, q}) \in {p, q} /\ \A y \in {p, q} : Min({p, q}) <= y
  BY <1>1 DEF Min
<1> QED
  BY <1>2

(* Batches of such calls are such transactions. *)
LEMMA BatchesFacts ==
  ASSUME NEW calls, NEW name, AllOf(calls, name)
  PROVE  /\ IsSeq(Batches(calls))
         /\ \A b \in 1 .. Len(Batches(calls)) : AllOf(Batches(calls)[b], name)
<1> DEFINE M == MAX_OPS_PER_PTB
           L == Len(calls)
           n == (L + M - 1) \div M
<1>1. M \in Nat \ {0} /\ L \in Nat /\ \A i \in 1 .. L : calls[i].call = name
  BY BatchAssumption, SeqFacts DEF AllOf
<1>2. Batches(calls) =
        [b \in 1 .. n |-> SubSeq(calls, (b - 1) * M + 1, Min({b * M, L}))]
  BY DEF Batches
<1> HIDE DEF M, L
<1>3. n \in Nat
  <2>1. L + M - 1 \in Nat
    BY <1>1
  <2> QED
    BY <1>1, <2>1, DivisionWithRest
<1> HIDE DEF n
<1>4. Batches(calls) = [b \in 1 .. n |-> Batches(calls)[b]]
  BY <1>2
<1>5. IsSeq(Batches(calls)) /\ Len(Batches(calls)) = n
  BY <1>3, <1>4, MakeSeq
<1>6. ASSUME NEW b \in 1 .. n PROVE AllOf(Batches(calls)[b], name)
  <2> DEFINE lo == (b - 1) * M + 1
             hi == Min({b * M, L})
             S == {calls[i] : i \in 1 .. L}
  <2>1. b \in Nat /\ b - 1 \in Nat
    BY <1>3
  <2>2. (b - 1) * M \in Nat /\ b * M \in Int
    BY <1>1, <2>1
  <2>3. lo \in Int /\ lo >= 1
    BY <2>2
  <2>4. hi \in Int /\ hi <= L
    BY <1>1, <2>2, MinOfTwo
  <2>5. Batches(calls)[b] = SubSeq(calls, lo, hi)
    BY <1>2
  <2> HIDE DEF lo, hi
  <2>6. \A i \in lo .. hi : calls[i] \in S
    BY <1>1, <2>3, <2>4
  <2>7. SubSeq(calls, lo, hi) \in Seq(S)
    BY <2>3, <2>4, <2>6, SubSeqProperties
  <2>8. \A i \in 1 .. Len(SubSeq(calls, lo, hi)) : SubSeq(calls, lo, hi)[i] \in S
    BY <2>7
  <2>9. \A s \in S : s.call = name
    BY <1>1
  <2> QED
    BY <2>5, <2>7, <2>8, <2>9 DEF AllOf, IsSeq
<1> QED
  BY <1>5, <1>6

-----------------------------------------------------------------------------
(* Plans of fuse_storage. *)

Pairing(plan) == IsSeq(plan.pairs)

(* A plan that is not refused has a sequence of pairs, whichever plan it is. *)
LEMMA AmountPlanned ==
  ASSUME NEW storages, IsSeq(storages), NEW range,
         plan_fuse_amount(storages, range) # Refused
  PROVE  Pairing(plan_fuse_amount(storages, range))
<1> DEFINE group == resolve_amount_targets(storages, range)
           n == Len(group) - 1
           named == {g \in fuse_amount_groups(storages) :
                       range = <<>> \/ <<g[1].start, g[1].end>> = range}
<1>1. group # <<>>
  BY DEF plan_fuse_amount
<1>2. group \in named
  <2>1. group = IF Cardinality(named) = 1 THEN CHOOSE g \in named : TRUE ELSE <<>>
    BY DEF resolve_amount_targets
  <2>2. Cardinality(named) = 1
    BY <1>1, <2>1
  <2>3. named # {}
    BY <2>2, FS_EmptySet
  <2> QED
    BY <2>1, <2>2, <2>3
<1>3. \E set : group = Only(storages, set)
  BY <1>2 DEF fuse_amount_groups
<1>4. IsSeq(group)
  BY <1>3, OnlyFacts
<1>5. plan_fuse_amount(storages, range).pairs =
        [i \in 1 .. n |-> <<group[1].id, group[i + 1].id>>]
  BY <1>1 DEF plan_fuse_amount
<1> HIDE DEF group
<1>6. n \in Nat
  BY <1>1, <1>4, SeqFacts
<1>7. plan_fuse_amount(storages, range).pairs =
        [i \in 1 .. n |-> plan_fuse_amount(storages, range).pairs[i]]
  BY <1>5
<1> QED
  BY <1>6, <1>7, MakeSeq DEF Pairing

LEMMA ExplicitPlanned ==
  ASSUME NEW to, NEW from, IsSeq(from), plan_fuse_explicit(to, from) # Refused
  PROVE  Pairing(plan_fuse_explicit(to, from))
<1>1. plan_fuse_explicit(to, from).pairs = [n \in DOMAIN from |-> <<to.id, from[n].id>>]
  BY DEF plan_fuse_explicit
<1>2. plan_fuse_explicit(to, from).pairs =
        [n \in DOMAIN from |-> plan_fuse_explicit(to, from).pairs[n]]
  BY <1>1
<1> QED
  BY <1>2, MapFacts DEF Pairing

-----------------------------------------------------------------------------
(* A pass over the spokes, and the passes one after another. *)

(* A chain of fuses under way: its pairs and the spokes left over are sequences. *)
Passing(c) ==
  /\ c = [survivor |-> c.survivor, pairs |-> c.pairs, skipped |-> c.skipped]
  /\ IsSeq(c.pairs) /\ IsSeq(c.skipped)

LEMMA EmptyIsSeq == IsSeq(<<>>) /\ Len(<<>>) = 0
BY DEF IsSeq

LEMMA FuseOnePasses ==
  ASSUME NEW c, Passing(c), NEW spoke
  PROVE  Passing(fuse_one(c, spoke))
<1>1. /\ c = [survivor |-> c.survivor, pairs |-> c.pairs, skipped |-> c.skipped]
      /\ IsSeq(Append(c.pairs, <<c.survivor.id, spoke.id>>))
      /\ IsSeq(Append(c.skipped, spoke)) /\ IsSeq(c.pairs) /\ IsSeq(c.skipped)
  BY AppendFacts DEF Passing
<1> DEFINE p == Append(c.pairs, <<c.survivor.id, spoke.id>>)
           k == Append(c.skipped, spoke)
           v == fuse_chain_state(c.survivor, spoke)
<1>2. \/ fuse_one(c, spoke) = [survivor |-> v, pairs |-> p, skipped |-> c.skipped]
      \/ fuse_one(c, spoke) = [c EXCEPT !.skipped = k]
  BY DEF fuse_one
<1> HIDE DEF p, k, v
<1>3. [c EXCEPT !.skipped = k] = [survivor |-> c.survivor, pairs |-> c.pairs, skipped |-> k]
  BY <1>1
<1>4. IsSeq(p) /\ IsSeq(k)
  BY <1>1 DEF p, k
<1> QED
  BY <1>1, <1>2, <1>3, <1>4 DEF Passing

(* The recursion of fuse_pass, and then that of fuse_periods_chain, is well defined and
   keeps it so. *)
LEMMA FusePassPasses ==
  ASSUME NEW chained, Passing(chained)
  PROVE  Passing(fuse_pass(chained))
<1> DEFINE N == Len(chained.skipped)
           start == [chained EXCEPT !.skipped = <<>>]
           Whole(f) == [n \in 0 .. N |->
                          IF n = 0 THEN start ELSE fuse_one(f[n - 1], chained.skipped[n])]
           after == CHOOSE f : f = Whole(f)
<1>1. N \in Nat
  BY SeqFacts DEF Passing
<1>2. fuse_pass(chained) = after[N]
  BY DEF fuse_pass
<1>3. Passing(start)
  <2>1. start = [survivor |-> chained.survivor, pairs |-> chained.pairs, skipped |-> <<>>]
    BY DEF Passing
  <2> QED
    BY <2>1, EmptyIsSeq DEF Passing
<1> HIDE DEF N, start
<1> DEFINE Solved(f, n) ==
             /\ DOMAIN f = 0 .. n /\ f[0] = start
             /\ \A i \in 1 .. n : f[i] = fuse_one(f[i - 1], chained.skipped[i])
           S == {n \in Nat : \E f : f = [i \in 0 .. n |-> f[i]] /\ Solved(f, n)}
<1>4. 0 \in S
  <2>1. LET f == [i \in 0 .. 0 |-> start] IN f = [i \in 0 .. 0 |-> f[i]] /\ Solved(f, 0)
    OBVIOUS
  <2> QED
    BY <2>1
<1>5. ASSUME NEW n \in Nat, n \in S PROVE n + 1 \in S
  <2>1. PICK f : f = [i \in 0 .. n |-> f[i]] /\ Solved(f, n)
    BY <1>5
  <2> DEFINE new == fuse_one(f[n], chained.skipped[n + 1])
             g == [i \in 0 .. n + 1 |-> IF i = n + 1 THEN new ELSE f[i]]
  <2>2. DOMAIN g = 0 .. n + 1 /\ g = [i \in 0 .. n + 1 |-> g[i]]
    OBVIOUS
  <2>3. g[n + 1] = new /\ \A i \in 0 .. n : g[i] = f[i]
    OBVIOUS
  <2> HIDE DEF g
  <2>4. g[0] = start
    BY <2>1, <2>3
  <2>5. \A i \in 1 .. n + 1 : g[i] = fuse_one(g[i - 1], chained.skipped[i])
    <3> TAKE i \in 1 .. n + 1
    <3>1. CASE i = n + 1
      <4>1. g[i - 1] = f[n]
        BY <2>3, <3>1
      <4> QED
        BY <2>3, <3>1, <4>1
    <3>2. CASE i \in 1 .. n
      <4>1. g[i] = f[i] /\ g[i - 1] = f[i - 1]
        BY <2>3, <3>2
      <4> QED
        BY <2>1, <3>2, <4>1
    <3> QED
      BY <3>1, <3>2
  <2>6. Solved(g, n + 1)
    BY <2>2, <2>4, <2>5
  <2> HIDE DEF Solved
  <2> QED
    BY <2>2, <2>6
<1> HIDE DEF S
<1>6. N \in S
  BY <1>1, <1>4, <1>5, SetInduction
<1>7. PICK f : f = [i \in 0 .. N |-> f[i]] /\ Solved(f, N)
  BY <1>6 DEF S
<1>8. f = Whole(f)
  <2>1. \A i \in 0 .. N : f[i] = IF i = 0 THEN start ELSE fuse_one(f[i - 1], chained.skipped[i])
    BY <1>1, <1>7
  <2> QED
    BY <1>7, <2>1
<1>9. after = Whole(after)
  BY <1>8
<1> HIDE DEF after
<1>10. \A i \in 0 .. N :
         after[i] = IF i = 0 THEN start ELSE fuse_one(after[i - 1], chained.skipped[i])
  <2>1. \A i \in 0 .. N : after[i] = Whole(after)[i]
    BY <1>9, Zenon
  <2> QED
    BY <2>1
<1> DEFINE T == {n \in Nat : n <= N => Passing(after[n])}
<1>11. 0 \in T
  BY <1>1, <1>3, <1>10
<1>12. ASSUME NEW n \in Nat, n \in T PROVE n + 1 \in T
  <2> SUFFICES ASSUME n + 1 <= N PROVE Passing(after[n + 1])
    OBVIOUS
  <2>1. Passing(after[n])
    BY <1>1, <1>12
  <2>2. after[n + 1] = fuse_one(after[n], chained.skipped[n + 1])
    <3>1. n + 1 \in 0 .. N /\ n + 1 # 0 /\ (n + 1) - 1 = n
      BY <1>1
    <3> QED
      BY <1>10, <3>1
  <2> QED
    BY <2>1, <2>2, FuseOnePasses
<1> HIDE DEF T
<1>13. N \in T
  BY <1>1, <1>11, <1>12, SetInduction
<1> QED
  BY <1>1, <1>2, <1>13 DEF T

LEMMA PeriodsChained ==
  ASSUME NEW hub, NEW spokes, IsSeq(spokes)
  PROVE  Passing(fuse_periods_chain(hub, spokes))
<1> DEFINE N == Len(spokes)
           start == [survivor |-> hub, pairs |-> <<>>, skipped |-> spokes]
           Whole(f) == [n \in 0 .. N |->
                          IF n = 0 THEN start ELSE fuse_pass(f[n - 1])]
           after == CHOOSE f : f = Whole(f)
<1>1. N \in Nat
  BY SeqFacts
<1>2. fuse_periods_chain(hub, spokes) = after[N]
  BY DEF fuse_periods_chain
<1>3. Passing(start)
  BY EmptyIsSeq DEF Passing
<1> HIDE DEF N, start
<1> DEFINE Solved(f, n) ==
             /\ DOMAIN f = 0 .. n /\ f[0] = start
             /\ \A i \in 1 .. n : f[i] = fuse_pass(f[i - 1])
           S == {n \in Nat : \E f : f = [i \in 0 .. n |-> f[i]] /\ Solved(f, n)}
<1>4. 0 \in S
  <2>1. LET f == [i \in 0 .. 0 |-> start] IN f = [i \in 0 .. 0 |-> f[i]] /\ Solved(f, 0)
    OBVIOUS
  <2> QED
    BY <2>1
<1>5. ASSUME NEW n \in Nat, n \in S PROVE n + 1 \in S
  <2>1. PICK f : f = [i \in 0 .. n |-> f[i]] /\ Solved(f, n)
    BY <1>5
  <2> DEFINE new == fuse_pass(f[n])
             g == [i \in 0 .. n + 1 |-> IF i = n + 1 THEN new ELSE f[i]]
  <2>2. DOMAIN g = 0 .. n + 1 /\ g = [i \in 0 .. n + 1 |-> g[i]]
    OBVIOUS
  <2>3. g[n + 1] = new /\ \A i \in 0 .. n : g[i] = f[i]
    OBVIOUS
  <2> HIDE DEF g
  <2>4. g[0] = start
    BY <2>1, <2>3
  <2>5. \A i \in 1 .. n + 1 : g[i] = fuse_pass(g[i - 1])
    <3> TAKE i \in 1 .. n + 1
    <3>1. CASE i = n + 1
      <4>1. g[i - 1] = f[n]
        BY <2>3, <3>1
      <4> QED
        BY <2>3, <3>1, <4>1
    <3>2. CASE i \in 1 .. n
      <4>1. g[i] = f[i] /\ g[i - 1] = f[i - 1]
        BY <2>3, <3>2
      <4> QED
        BY <2>1, <3>2, <4>1
    <3> QED
      BY <3>1, <3>2
  <2>6. Solved(g, n + 1)
    BY <2>2, <2>4, <2>5
  <2> HIDE DEF Solved
  <2> QED
    BY <2>2, <2>6
<1> HIDE DEF S
<1>6. N \in S
  BY <1>1, <1>4, <1>5, SetInduction
<1>7. PICK f : f = [i \in 0 .. N |-> f[i]] /\ Solved(f, N)
  BY <1>6 DEF S
<1>8. f = Whole(f)
  <2>1. \A i \in 0 .. N : f[i] = IF i = 0 THEN start ELSE fuse_pass(f[i - 1])
    <3>1. \A i \in 0 .. N : i = 0 \/ (i \in 1 .. N /\ i # 0)
      BY <1>1
    <3> QED
      BY <1>7, <3>1
  <2> QED
    BY <1>7, <2>1
<1>9. after = Whole(after)
  BY <1>8
<1> HIDE DEF after
<1>10. \A i \in 0 .. N :
         after[i] = IF i = 0 THEN start ELSE fuse_pass(after[i - 1])
  <2>1. \A i \in 0 .. N : after[i] = Whole(after)[i]
    BY <1>9, Zenon
  <2> QED
    BY <2>1
<1> DEFINE T == {n \in Nat : n <= N => Passing(after[n])}
<1>11. 0 \in T
  BY <1>1, <1>3, <1>10
<1>12. ASSUME NEW n \in Nat, n \in T PROVE n + 1 \in T
  <2> SUFFICES ASSUME n + 1 <= N PROVE Passing(after[n + 1])
    OBVIOUS
  <2>1. Passing(after[n])
    BY <1>1, <1>12
  <2>2. after[n + 1] = fuse_pass(after[n])
    <3>1. n + 1 \in 0 .. N /\ n + 1 # 0 /\ (n + 1) - 1 = n
      BY <1>1
    <3> QED
      BY <1>10, <3>1
  <2> QED
    BY <2>1, <2>2, FusePassPasses
<1> HIDE DEF T
<1>13. N \in T
  BY <1>1, <1>11, <1>12, SetInduction
<1> QED
  BY <1>1, <1>2, <1>13 DEF T

(* A connected component is listed in the order of the ids. *)
LEMMA ComponentsFacts ==
  ASSUME NEW storages, IsSeq(storages), NEW component \in periods_components(storages)
  PROVE  IsSeq(component)
<1> DEFINE pairs == fuse_periods_pairs(storages)
           closed(set) == \A p \in pairs : p[1] \in set <=> p[2] \in set
           cluster(s) == {t \in ToSet(storages) :
                            \A set \in SUBSET ToSet(storages) :
                              s \in set /\ closed(set) => t \in set}
           in_order(c) == [k \in 1 .. Cardinality(c) |->
                             CHOOSE s \in c : Cardinality({t \in c : t.id < s.id}) = k - 1]
<1>1. \E p \in pairs : component = in_order(cluster(p[1]))
  BY DEF periods_components
<1> HIDE DEF pairs
<1>2. \A s : cluster(s) \subseteq ToSet(storages)
  OBVIOUS
<1>3. PICK c \in SUBSET ToSet(storages) : component = in_order(c)
  BY <1>1, <1>2
<1> HIDE DEF cluster
<1>4. Cardinality(c) \in Nat
  BY ToSetFinite, FS_Subset, FS_CardinalityType
<1>5. component = [k \in 1 .. Cardinality(c) |-> component[k]]
  <2> DEFINE first(k) == CHOOSE s \in c : Cardinality({t \in c : t.id < s.id}) = k - 1
             n == Cardinality(c)
  <2>1. component = [k \in 1 .. n |-> first(k)]
    BY <1>3, Zenon
  <2> HIDE DEF first, n
  <2>2. component = [k \in 1 .. n |-> component[k]]
    BY <2>1
  <2> QED
    BY <2>2 DEF n
<1> QED
  BY <1>4, <1>5, MakeSeq

LEMMA PeriodsPlanned ==
  ASSUME NEW storages, IsSeq(storages), NEW to, plan_fuse_periods(storages, to) # Refused
  PROVE  Pairing(plan_fuse_periods(storages, to))
<1> DEFINE targets == resolve_periods_targets(storages, to)
<1>1. /\ targets # <<>>
      /\ plan_fuse_periods(storages, to) = fuse_periods_chain(targets[1], Tail(targets))
  BY DEF plan_fuse_periods
<1>2. IsSeq(targets)
  <2> DEFINE named == {c \in periods_components(storages) :
                         to = NoId \/ \E s \in ToSet(c) : s.id = to}
             component == CHOOSE c \in named : TRUE
             hub == IF to = NoId THEN component[1].id ELSE to
  <2>1. /\ Cardinality(named) = 1
        /\ targets = Only(component, {s \in ToSet(component) : s.id = hub})
                       \o Only(component, {s \in ToSet(component) : s.id /= hub})
    BY <1>1 DEF resolve_periods_targets
  <2>2. component \in named
    <3> HIDE DEF named
    <3> QED
      BY <2>1, FS_EmptySet
  <2>3. IsSeq(component)
    BY <2>2, ComponentsFacts
  <2> HIDE DEF component, hub
  <2> QED
    BY <2>1, <2>3, OnlyFacts, ConcatFacts
<1> HIDE DEF targets
<1>3. IsSeq(Tail(targets))
  BY <1>1, <1>2, SeqFacts, TailFacts
<1>4. Passing(fuse_periods_chain(targets[1], Tail(targets)))
  BY <1>3, PeriodsChained
<1> QED
  BY <1>1, <1>4 DEF Passing, Pairing

-----------------------------------------------------------------------------
(* A plan of sound transactions. *)
SoundPlan(plan) == IsSeq(plan.txs) /\ \A i \in 1 .. Len(plan.txs) : Sound(plan.txs[i])

LEMMA SingleFacts ==
  ASSUME NEW e
  PROVE  IsSeq(<<e>>) /\ Len(<<e>>) = 1 /\ <<e>>[1] = e
<1>1. <<e>> \in Seq({e})
  OBVIOUS
<1> QED
  BY <1>1 DEF IsSeq

(* The transactions that the compose functions yield are sound. *)
LEMMA OneCallIsSound ==
  ASSUME NEW k, k.call \in Moves
  PROVE  Sound(<<k>>)
BY SingleFacts DEF Sound

LEMMA OneKindIsSound ==
  ASSUME NEW name \in Fusing \cup Blobby, NEW tx, AllOf(tx, name)
  PROVE  Sound(tx)
BY DEF AllOf, Sound, Fusing, Blobby, Moves

LEMMA NothingSent == SoundPlan(Refuse)
BY EmptyIsSeq DEF SoundPlan, Refuse

LEMMA OneSent ==
  ASSUME NEW tx, Sound(tx)
  PROVE  SoundPlan(Send(<<tx>>))
BY SingleFacts DEF SoundPlan, Send

LEMMA BatchesSent ==
  ASSUME NEW name \in Fusing \cup Blobby, NEW ids, IsSeq(ids)
  PROVE  SoundPlan(Send(Batches(Calls(name, ids))))
<1>1. AllOf(Calls(name, ids), name)
  BY CallsFacts
<1> DEFINE sent == Batches(Calls(name, ids))
<1>2. IsSeq(sent) /\ \A b \in 1 .. Len(sent) : AllOf(sent[b], name)
  BY <1>1, BatchesFacts
<1> HIDE DEF sent
<1>3. Send(sent).txs = sent
  BY DEF Send
<1> QED
  BY <1>2, <1>3, OneKindIsSound DEF SoundPlan, sent

LEMMA KeysSent ==
  ASSUME NEW id, NEW keys, IsSeq(keys)
  PROVE  /\ SoundPlan(Send(<<add_set_blob_metadata(id, keys)>>))
         /\ SoundPlan(Send(<<add_drop_blob_metadata_keys(id, keys)>>))
<1>1. AllOf(add_set_blob_metadata(id, keys), "set_metadata")
  <2> DEFINE t == add_set_blob_metadata(id, keys)
  <2>1. t = [i \in DOMAIN keys |-> t[i]] /\ \A i \in DOMAIN keys : t[i].call = "set_metadata"
    BY DEF add_set_blob_metadata
  <2> HIDE DEF t
  <2>2. AllOf(t, "set_metadata")
    BY <2>1, MapFacts DEF AllOf
  <2> QED
    BY <2>2 DEF t
<1>2. AllOf(add_drop_blob_metadata_keys(id, keys), "remove_metadata")
  <2> DEFINE t == add_drop_blob_metadata_keys(id, keys)
  <2>1. t = [i \in DOMAIN keys |-> t[i]] /\ \A i \in DOMAIN keys : t[i].call = "remove_metadata"
    BY DEF add_drop_blob_metadata_keys
  <2> HIDE DEF t
  <2>2. AllOf(t, "remove_metadata")
    BY <2>1, MapFacts DEF AllOf
  <2> QED
    BY <2>2 DEF t
<1>3. {"set_metadata", "remove_metadata"} \subseteq Fusing \cup Blobby
  BY DEF Fusing, Blobby
<1> QED
  BY <1>1, <1>2, <1>3, OneKindIsSound, OneSent

LEMMA OneIdSent ==
  ASSUME NEW name \in Moves, NEW id
  PROVE  Sound(Calls(name, <<id>>)) /\ SoundPlan(Send(<<Calls(name, <<id>>)>>))
<1>1. Calls(name, <<id>>) = <<[call |-> name, id |-> id]>>
  BY DEF Calls
<1> QED
  BY <1>1, OneCallIsSound, OneSent

LEMMA FundingSent ==
  ASSUME NEW id, NEW payment
  PROVE  SoundPlan(Send(<<add_fund_shared_blob(id, payment)>>))
<1> DEFINE merge == [call |-> "merge_coins", id |-> payment.coin, merged |-> payment.merged]
           fund  == [call |-> "fund", id |-> id, coin |-> payment.coin,
                     split |-> payment.split, amount |-> payment.amount]
           tx    == add_fund_shared_blob(id, payment)
<1>1. tx = (IF payment.merged = {} THEN <<>> ELSE <<merge>>) \o <<fund>>
  BY DEF add_fund_shared_blob
<1>2. merge.call = "merge_coins" /\ fund.call = "fund"
  OBVIOUS
<1> HIDE DEF merge, fund, tx
<1>3. CASE payment.merged = {}
  <2>1. tx = <<fund>>
    BY <1>1, <1>3
  <2> QED
    BY <1>2, <2>1, OneCallIsSound, OneSent DEF Moves, tx
<1>4. CASE payment.merged # {}
  <2> DEFINE one == <<merge>>
             two == <<fund>>
  <2>1. tx = one \o two
    BY <1>1, <1>4
  <2>2. IsSeq(tx) /\ Len(tx) = 2 /\ \A i \in 1 .. 2 : tx[i] \in {merge, fund}
    <3>1. IsSeq(one) /\ Len(one) = 1 /\ one[1] = merge /\ IsSeq(two) /\ Len(two) = 1 /\ two[1] = fund
      BY SingleFacts
    <3> HIDE DEF one, two
    <3>2. /\ IsSeq(one \o two) /\ Len(one \o two) = 2
          /\ \A i \in 1 .. 2 : (one \o two)[i] = IF i <= 1 THEN one[i] ELSE two[i - 1]
      <4>1. /\ IsSeq(one \o two) /\ Len(one \o two) = Len(one) + Len(two)
            /\ \A i \in 1 .. Len(one) + Len(two) :
                 (one \o two)[i] = IF i <= Len(one) THEN one[i] ELSE two[i - Len(one)]
        BY <3>1, ConcatFacts
      <4> QED
        BY <3>1, <4>1
    <3> QED
      BY <2>1, <3>1, <3>2
  <2>3. Sound(tx)
    BY <1>2, <2>2 DEF Sound, Moves, Blobby
  <2> QED
    BY <2>3, OneSent DEF tx
<1> QED
  BY <1>3, <1>4

LEMMA FuseSent ==
  ASSUME NEW plan, Pairing(plan)
  PROVE  SoundPlan(Send(<<[i \in DOMAIN plan.pairs |->
                             Head(add_fuse(plan.pairs[i][1], plan.pairs[i][2]))]>>))
<1> DEFINE tx == [i \in DOMAIN plan.pairs |->
                    Head(add_fuse(plan.pairs[i][1], plan.pairs[i][2]))]
<1>1. \A p, q : Head(add_fuse(p, q)).call = "fuse"
  BY DEF add_fuse
<1>2. tx = [i \in DOMAIN plan.pairs |-> tx[i]] /\ \A i \in DOMAIN plan.pairs : tx[i].call = "fuse"
  BY <1>1
<1> HIDE DEF tx
<1>3. AllOf(tx, "fuse")
  BY <1>2, MapFacts DEF Pairing, AllOf
<1>4. Sound(tx)
  BY <1>3, OneKindIsSound DEF Fusing
<1> QED
  BY <1>4, OneSent DEF tx

-----------------------------------------------------------------------------
(* What a command has read, and the plan it makes of it. *)

(* What a command has read: every listing is a sequence. *)
ReadInv(c, answers) ==
  /\ IsSeq(answers)
  /\ \A i \in 1 .. Len(answers) :
       Reads(c)[i][1] \in {"storages", "blobs"} => IsSeq(answers[i])

(* The commands on shared blobs, which anyone may change. *)
Extending == {"extend_shared", "execute_extend_shared"}

(* The plans of the commands, one lemma for each that is built from a listing or a list. *)
LEMMA FuseStoragePlanned ==
  ASSUME NEW c, IsCommand(c), c.op \in {"fuse_amount", "fuse_periods", "fuse_explicit"},
         NEW answers, ReadInv(c, answers), Len(answers) = Len(Reads(c))
  PROVE  SoundPlan(fuse_storage(c, Tail(answers)))
<1>1. IsSeq(answers) /\ Len(answers) \in Nat
  BY SeqFacts DEF ReadInv
<1>2. CASE c.op = "fuse_amount"
  <2>1. Reads(c) = <<<<"package">>, <<"storages">>>>
    BY <1>2 DEF Reads
  <2>2. Len(answers) = 2 /\ IsSeq(answers[2]) /\ Tail(answers)[1] = answers[2]
    BY <1>1, <2>1, TailFacts DEF ReadInv
  <2> DEFINE plan == plan_fuse_amount(answers[2], c.range)
  <2>3. fuse_storage(c, Tail(answers)) =
          IF plan = Refused THEN Refuse
          ELSE Send(<<[i \in DOMAIN plan.pairs |->
                         Head(add_fuse(plan.pairs[i][1], plan.pairs[i][2]))]>>)
    BY <1>2, <2>2 DEF fuse_storage
  <2>4. plan # Refused => Pairing(plan)
    BY <2>2, AmountPlanned
  <2> HIDE DEF plan
  <2> QED
    BY <2>3, <2>4, NothingSent, FuseSent
<1>3. CASE c.op = "fuse_periods"
  <2>1. Reads(c) = <<<<"package">>, <<"storages">>>>
    BY <1>3 DEF Reads
  <2>2. Len(answers) = 2 /\ IsSeq(answers[2]) /\ Tail(answers)[1] = answers[2]
    BY <1>1, <2>1, TailFacts DEF ReadInv
  <2> DEFINE plan == plan_fuse_periods(answers[2], c.to)
  <2>3. fuse_storage(c, Tail(answers)) =
          IF plan = Refused THEN Refuse
          ELSE Send(<<[i \in DOMAIN plan.pairs |->
                         Head(add_fuse(plan.pairs[i][1], plan.pairs[i][2]))]>>)
    BY <1>3, <2>2 DEF fuse_storage
  <2>4. plan # Refused => Pairing(plan)
    BY <2>2, PeriodsPlanned
  <2> HIDE DEF plan
  <2> QED
    BY <2>3, <2>4, NothingSent, FuseSent
<1>4. CASE c.op = "fuse_explicit"
  <2> DEFINE ids == <<c.id>> \o c.from
             read == Tail(answers)
  <2>1. IsSeq(c.from)
    BY <1>4 DEF IsCommand, IsSeq
  <2>2. IsSeq(ids) /\ Len(ids) = 1 + Len(c.from) /\ Len(c.from) \in Nat
    <3> DEFINE one == <<c.id>>
    <3>1. IsSeq(one) /\ Len(one) = 1
      BY SingleFacts
    <3> HIDE DEF one
    <3>2. IsSeq(one \o c.from) /\ Len(one \o c.from) = 1 + Len(c.from)
      <4>1. IsSeq(one \o c.from) /\ Len(one \o c.from) = Len(one) + Len(c.from)
        BY <2>1, <3>1, ConcatFacts
      <4> QED
        BY <3>1, <4>1
    <3> QED
      BY <2>1, <3>2, SeqFacts DEF one
  <2> HIDE DEF ids
  <2>3. IsSeq(Each("storage", ids)) /\ Len(Each("storage", ids)) = Len(ids)
    <3>1. Each("storage", ids) = [i \in DOMAIN ids |-> Each("storage", ids)[i]]
      BY DEF Each
    <3> QED
      BY <2>2, <3>1, MapFacts
  <2>4. Reads(c) = <<<<"package">>>> \o Each("storage", ids)
    BY <1>4 DEF Reads, ids
  <2>5. Len(answers) > 1
    <3>1. Len(Reads(c)) = 1 + Len(ids)
      BY <2>3, <2>4, SingleFacts, ConcatFacts
    <3> QED
      BY <2>2, <3>1
  <2>6. IsSeq(read) /\ Len(read) > 0
    BY <1>1, <2>5, TailFacts
  <2> HIDE DEF read
  <2> DEFINE plan == plan_fuse_explicit(read[1], Tail(read))
  <2>7. \/ fuse_storage(c, read) = Refuse
        \/ /\ plan # Refused
           /\ fuse_storage(c, read) =
                Send(<<[i \in DOMAIN plan.pairs |->
                         Head(add_fuse(plan.pairs[i][1], plan.pairs[i][2]))]>>)
    BY <1>4 DEF fuse_storage
  <2>8. plan # Refused => Pairing(plan)
    BY <2>6, TailFacts, ExplicitPlanned
  <2> HIDE DEF plan
  <2> QED
    BY <2>7, <2>8, NothingSent, FuseSent DEF read
<1> QED
  BY <1>2, <1>3, <1>4

LEMMA ReclaimPlanned ==
  ASSUME NEW c, IsCommand(c), c.op \in {"reclaim", "reclaim_all"},
         NEW answers, ReadInv(c, answers), Len(answers) = Len(Reads(c))
  PROVE  SoundPlan(reclaim_storage(c, Tail(answers)))
<1>1. IsSeq(answers) /\ Len(answers) \in Nat
  BY SeqFacts DEF ReadInv
<1> DEFINE ids == IF c.op = "reclaim_all"
                    THEN [i \in DOMAIN Tail(answers)[1] |-> Tail(answers)[1][i].id]
                    ELSE c.ids
<1>2. IsSeq(ids)
  <2>1. CASE c.op = "reclaim"
    BY <2>1 DEF IsCommand, IsSeq
  <2>2. CASE c.op = "reclaim_all"
    <3>1. Reads(c) = <<<<"package">>, <<"storages">>>>
      BY <2>2 DEF Reads
    <3>2. Len(answers) = 2 /\ IsSeq(answers[2]) /\ Tail(answers)[1] = answers[2]
      BY <1>1, <3>1, TailFacts DEF ReadInv
    <3>3. ids = [i \in DOMAIN answers[2] |-> answers[2][i].id]
      BY <2>2, <3>2
    <3> HIDE DEF ids
    <3>4. ids = [i \in DOMAIN answers[2] |-> ids[i]]
      BY <3>3
    <3> QED
      BY <3>2, <3>4, MapFacts
  <2> QED
    BY <2>1, <2>2
<1>3. reclaim_storage(c, Tail(answers)) = Send(Batches(Calls("destroy", ids)))
  BY DEF reclaim_storage, destroy_storage_batches
<1> HIDE DEF ids
<1> QED
  BY <1>2, <1>3, BatchesSent DEF Fusing

LEMMA BurnPlanned ==
  ASSUME NEW c, IsCommand(c), c.op = "burn_blob", NEW blobs
  PROVE  SoundPlan(burn_blob(c, blobs))
<1> DEFINE ids   == Distinct(c.ids)
           found == Ascending({i \in DOMAIN ids : blobs[i] /= Missing})
           burnt == [i \in DOMAIN found |-> ids[found[i]]]
<1>1. IsSeq(c.ids)
  BY DEF IsCommand, IsSeq
<1>2. IsSeq(ids)
  BY <1>1, DistinctFacts
<1>3. burn_blob(c, blobs) = Send(Batches(Calls("burn", burnt)))
  BY DEF burn_blob, burn_blob_batches
<1> HIDE DEF ids
<1>4. IsSeq(found)
  BY <1>2, SelectedFacts
<1> HIDE DEF found
<1>5. burnt = [i \in DOMAIN found |-> burnt[i]]
  OBVIOUS
<1>6. IsSeq(burnt)
  BY <1>4, <1>5, MapFacts
<1> HIDE DEF burnt
<1> QED
  BY <1>3, <1>6, BatchesSent DEF Blobby

LEMMA DeleteAllPlanned ==
  ASSUME NEW c, IsCommand(c), c.op = "delete_all", NEW blobs, IsSeq(blobs), NEW now
  PROVE  SoundPlan(delete_all_blobs(c, blobs, now))
<1> DEFINE Ids(some) == [i \in DOMAIN Only(blobs, some) |-> Only(blobs, some)[i][1]]
           active  == Ids({b \in ToSet(blobs) : ~Expired(b[2], now) /\ b[2].deletable})
           expired == Ids({b \in ToSet(blobs) : Expired(b[2], now)})
           first   == Batches(Calls("delete_blob", active))
           second  == IF c.burn THEN Batches(Calls("burn", expired)) ELSE <<>>
<1>1. \A some : IsSeq(Ids(some))
  <2> TAKE some
  <2> DEFINE kept == Only(blobs, some)
             ids == Ids(some)
  <2>1. IsSeq(kept)
    BY OnlyFacts
  <2>2. ids = [i \in DOMAIN kept |-> kept[i][1]]
    OBVIOUS
  <2> HIDE DEF kept, ids
  <2>3. ids = [i \in DOMAIN kept |-> ids[i]]
    BY <2>2
  <2>4. IsSeq(ids)
    BY <2>1, <2>3, MapFacts
  <2> QED
    BY <2>4 DEF ids
<1>2. delete_all_blobs(c, blobs, now) = Send(first \o second)
  BY DEF delete_all_blobs, burn_blob_batches
<1>3. IsSeq(active) /\ IsSeq(expired)
  BY <1>1
<1> HIDE DEF active, expired
<1>4. SoundPlan(Send(first))
  BY <1>3, BatchesSent DEF Blobby
<1>5. SoundPlan(Send(second))
  <2>1. SoundPlan(Send(Batches(Calls("burn", expired))))
    BY <1>3, BatchesSent DEF Blobby
  <2>2. SoundPlan(Send(<<>>))
    BY EmptyIsSeq DEF SoundPlan, Send
  <2> QED
    BY <2>1, <2>2
<1> HIDE DEF first, second
<1>6. /\ IsSeq(first) /\ \A i \in 1 .. Len(first) : Sound(first[i])
      /\ IsSeq(second) /\ \A i \in 1 .. Len(second) : Sound(second[i])
  BY <1>4, <1>5 DEF SoundPlan, Send
<1>7. /\ IsSeq(first \o second)
      /\ \A i \in 1 .. Len(first \o second) : Sound((first \o second)[i])
  <2>1. /\ IsSeq(first \o second) /\ Len(first \o second) = Len(first) + Len(second)
        /\ \A i \in 1 .. Len(first) + Len(second) :
             (first \o second)[i] = IF i <= Len(first) THEN first[i] ELSE second[i - Len(first)]
    BY <1>6, ConcatFacts
  <2>2. Len(first) \in Nat /\ Len(second) \in Nat
    BY <1>6, SeqFacts
  <2>3. ASSUME NEW i \in 1 .. Len(first \o second) PROVE Sound((first \o second)[i])
    <3>1. CASE i <= Len(first)
      BY <1>6, <2>1, <2>2, <3>1
    <3>2. CASE i > Len(first)
      <4>1. i - Len(first) \in 1 .. Len(second)
        BY <2>1, <2>2, <3>2
      <4>2. (first \o second)[i] = second[i - Len(first)]
        BY <2>1, <2>2, <3>2
      <4> QED
        BY <1>6, <4>1, <4>2
    <3> QED
      BY <2>2, <3>1, <3>2
  <2> QED
    BY <2>1, <2>3
<1> QED
  BY <1>2, <1>7 DEF SoundPlan, Send

-----------------------------------------------------------------------------
(* The transactions a command has still to send. *)
PlanInv(c, transactions) ==
  /\ IsSeq(transactions)
  /\ \A i \in 1 .. Len(transactions) :
       /\ IsSeq(transactions[i])
       /\ c.op \notin Extending => Sound(transactions[i])

LEMMA SoundPlanned ==
  ASSUME NEW c, NEW plan, SoundPlan(plan)
  PROVE  PlanInv(c, plan.txs)
BY DEF SoundPlan, PlanInv, Sound

(* Whatever the command, and whatever it has read. *)
LEMMA EveryPlan ==
  ASSUME NEW c, IsCommand(c), NEW answers, ReadInv(c, answers), Len(answers) = Len(Reads(c))
  PROVE  PlanInv(c, Plan(c, answers).txs)
<1>1. CASE c.op \in {"fuse_amount", "fuse_periods", "fuse_explicit"}
  BY <1>1, FuseStoragePlanned, SoundPlanned DEF Plan
<1>2. CASE c.op \in {"split_by_epoch", "split_by_size"}
  <2>1. /\ SoundPlan(Send(<<add_split_by_epoch(c.id, c.at)>>))
        /\ SoundPlan(Send(<<add_split_by_size(c.id, c.at)>>))
    BY OneCallIsSound, OneSent DEF add_split_by_epoch, add_split_by_size, Moves
  <2>2. Plan(c, answers) = split_storage(c)
    BY <1>2 DEF Plan
  <2>3. SoundPlan(split_storage(c))
    BY <2>1 DEF split_storage
  <2> QED
    BY <2>2, <2>3, SoundPlanned
<1>3. CASE c.op \in {"reclaim", "reclaim_all"}
  BY <1>3, ReclaimPlanned, SoundPlanned DEF Plan
<1>4. CASE c.op = "extend_blob_with_storage"
  <2> DEFINE extend == [call |-> "extend_blob_with_resource", id |-> c.id, second |-> c.second]
  <2>1. SoundPlan(Send(<<<<extend>>>>)) /\ SoundPlan(Refuse)
    BY OneCallIsSound, OneSent, NothingSent DEF Moves
  <2>2. Plan(c, answers) = extend_blob_with_storage(c, answers[1], answers[2], answers[3])
    BY <1>4 DEF Plan
  <2>3. Plan(c, answers) \in {Refuse, Send(<<<<extend>>>>)}
    BY <2>2 DEF extend_blob_with_storage
  <2> QED
    BY <2>1, <2>3, SoundPlanned
<1>5. CASE c.op = "extend_blob_expiration"
  <2> DEFINE coins   == answers[4]
             largest == primary(coins)
             merge   == [call |-> "merge_coins", id |-> coins[largest][1],
                         merged |-> {coins[i][1] : i \in DOMAIN coins \ {largest}}]
             extend  == [call |-> "extend_blob", id |-> c.id, epochs |-> c.epochs,
                         coin |-> coins[largest][1]]
             before  == IF c.merge /\ Len(coins) > 1 THEN <<merge>> ELSE <<>>
  <2>1. Plan(c, answers) = extend_blob_expiration(c, answers[1], answers[2], answers[4])
    BY <1>5 DEF Plan
  <2>2. Plan(c, answers) \in {Refuse, Send(<<before \o <<extend>>>>)}
    BY <2>1 DEF extend_blob_expiration
  <2>3. Sound(before \o <<extend>>)
    <3>1. merge.call = "merge_coins" /\ extend.call = "extend_blob"
      OBVIOUS
    <3> DEFINE last == <<extend>>
    <3> HIDE DEF merge, extend
    <3>2. IsSeq(last) /\ Len(last) = 1 /\ last[1] = extend
      BY SingleFacts
    <3>3. IsSeq(before) /\ \A i \in 1 .. Len(before) : before[i] = merge
      <4>1. IsSeq(<<merge>>) /\ Len(<<merge>>) = 1 /\ <<merge>>[1] = merge
        BY SingleFacts
      <4> QED
        BY <4>1, EmptyIsSeq
    <3> HIDE DEF last, before
    <3>4. Len(before) \in Nat
      BY <3>3, SeqFacts
    <3>5. /\ IsSeq(before \o last) /\ Len(before \o last) = Len(before) + Len(last)
          /\ \A i \in 1 .. Len(before) + Len(last) :
               (before \o last)[i] = IF i <= Len(before) THEN before[i] ELSE last[i - Len(before)]
      BY <3>2, <3>3, ConcatFacts
    <3>6. \A i \in 1 .. Len(before \o last) : (before \o last)[i] \in {merge, extend}
      BY <3>2, <3>3, <3>4, <3>5
    <3>7. Sound(before \o last)
      BY <3>1, <3>5, <3>6 DEF Sound, Moves, Blobby
    <3> QED
      BY <3>7 DEF last
  <2> HIDE DEF before, extend
  <2> QED
    BY <2>2, <2>3, OneSent, NothingSent, SoundPlanned
<1>6. CASE c.op \in {"set_metadata", "execute_set_metadata"}
  <2>1. IsSeq(c.keys)
    BY <1>6 DEF IsCommand, IsSeq
  <2>2. Plan(c, answers) = Send(<<add_set_blob_metadata(c.id, c.keys)>>)
    BY <1>6 DEF Plan, set_blob_metadata, execute_set_blob_metadata
  <2> QED
    BY <2>1, <2>2, KeysSent, SoundPlanned
<1>7. CASE c.op \in {"drop_keys", "execute_drop_keys"}
  <2>1. IsSeq(c.keys)
    BY <1>7 DEF IsCommand, IsSeq
  <2>2. Plan(c, answers) \in {Refuse, Send(<<add_drop_blob_metadata_keys(c.id, c.keys)>>)}
    BY <1>7 DEF Plan, drop_blob_metadata, execute_drop_blob_metadata_keys
  <2> QED
    BY <2>1, <2>2, KeysSent, NothingSent, SoundPlanned
<1>8. CASE c.op \in {"drop_all", "execute_drop_all"}
  <2>1. Plan(c, answers) \in {Refuse, Send(<<Calls("take_metadata", <<c.id>>)>>)}
    BY <1>8 DEF Plan, drop_blob_metadata, execute_drop_blob_metadata_all,
                add_drop_blob_metadata_all
  <2> QED
    BY <2>1, OneIdSent, NothingSent, SoundPlanned DEF Moves
<1>9. CASE c.op = "delete_blob"
  <2>1. Plan(c, answers) = delete_blob(c, answers[3], answers[1])
    BY <1>9 DEF Plan
  <2>2. Plan(c, answers) \in {Refuse, Send(<<Calls("delete_blob", <<c.id>>)>>),
                              Send(<<Calls("burn", <<c.id>>)>>)}
    BY <2>1 DEF delete_blob
  <2> QED
    BY <2>2, OneIdSent, NothingSent, SoundPlanned DEF Moves
<1>10. CASE c.op = "delete_all"
  <2>1. Reads(c) = <<<<"epoch">>, <<"package">>, <<"blobs">>>>
    BY <1>10 DEF Reads
  <2>2. IsSeq(answers[3])
    BY <2>1 DEF ReadInv
  <2>3. Plan(c, answers) = delete_all_blobs(c, answers[3], answers[1])
    BY <1>10 DEF Plan
  <2> QED
    BY <1>10, <2>2, <2>3, DeleteAllPlanned, SoundPlanned
<1>11. CASE c.op = "burn_blob"
  BY <1>11, BurnPlanned, SoundPlanned DEF Plan
<1>12. CASE c.op \in {"share_blob", "execute_share"}
  <2>1. Plan(c, answers) = Send(<<Calls("share", <<c.id>>)>>)
    BY <1>12 DEF Plan, share_blob, execute_share_blob, add_share_blob
  <2> QED
    BY <2>1, OneIdSent, SoundPlanned DEF Moves
<1>13. CASE c.op \in {"fund_coin", "fund_amount"}
  <2>1. Plan(c, answers) = fund_shared_blob(c, Tail(answers))
    BY <1>13 DEF Plan
  <2>2. \E payment : Plan(c, answers) \in {Refuse, Send(<<add_fund_shared_blob(c.id, payment)>>)}
    BY <2>1 DEF fund_shared_blob
  <2> QED
    BY <2>2, FundingSent, NothingSent, SoundPlanned
<1>14. CASE c.op = "execute_fund"
  <2>1. Plan(c, answers) = execute_fund_shared_blob(c, answers[1])
    BY <1>14 DEF Plan
  <2>2. \E payment : Plan(c, answers) \in {Refuse, Send(<<add_fund_shared_blob(c.id, payment)>>)}
    BY <2>1 DEF execute_fund_shared_blob
  <2> QED
    BY <2>2, FundingSent, NothingSent, SoundPlanned
<1>15. CASE c.op \in {"execute_split_by_epoch", "execute_split_by_size", "execute_fuse"}
  <2>1. /\ Sound(add_split_by_epoch(c.id, c.at)) /\ Sound(add_split_by_size(c.id, c.at))
        /\ Sound(add_fuse(c.id, c.second))
    BY OneCallIsSound DEF add_split_by_epoch, add_split_by_size, add_fuse, Moves
  <2>2. Plan(c, answers) \in {Send(<<add_split_by_epoch(c.id, c.at)>>),
                              Send(<<add_split_by_size(c.id, c.at)>>),
                              Send(<<add_fuse(c.id, c.second)>>)}
    BY <1>15 DEF Plan, execute_split_by_epoch, execute_split_by_size, execute_fuse
  <2> QED
    BY <2>1, <2>2, OneSent, SoundPlanned
<1>16. CASE c.op = "execute_destroy"
  <2>1. Plan(c, answers) = Send(<<Calls("destroy", <<c.id>>)>>)
    BY <1>16 DEF Plan, execute_destroy_storage, add_destroy_storage
  <2> QED
    BY <2>1, OneIdSent, SoundPlanned DEF Moves
<1>17. CASE c.op \in Extending
  <2> DEFINE extend == [call |-> "extend_shared", id |-> c.id, epochs |-> c.epochs]
             tx == <<extend>>
             sent == <<tx>>
  <2>1. Plan(c, answers).txs = sent
    BY <1>17 DEF Plan, extend_shared_blob, execute_extend_shared_blob, add_extend_shared_blob,
                 Send, Extending
  <2>2. IsSeq(tx)
    BY SingleFacts
  <2> HIDE DEF tx
  <2>3. IsSeq(sent) /\ Len(sent) = 1 /\ sent[1] = tx
    BY SingleFacts
  <2> HIDE DEF sent
  <2> QED
    BY <1>17, <2>1, <2>2, <2>3 DEF PlanInv
<1> QED
  BY <1>1, <1>2, <1>3, <1>4, <1>5, <1>6, <1>7, <1>8, <1>9, <1>10, <1>11, <1>12, <1>13, <1>14,
     <1>15, <1>16, <1>17 DEF IsCommand, Extending

-----------------------------------------------------------------------------
(* The dry run was made on a chain of this epoch that was like this one. *)
RanDry ==
  \E before : /\ IsChain(before) /\ before.epoch = chain.epoch
              /\ DOMAIN before.shared \subseteq DOMAIN chain.shared
              /\ OwnedInputs(before, txs[1]) = built
              /\ Executed(before, txs[1]) # Abort

(* Types, as far as the rest needs them. *)
CommandInv ==
  /\ IsChain(chain)
  /\ IsCommand(command) /\ ReadInv(command, seen) /\ PlanInv(command, txs)
  /\ stage \in {"building", "submitting"} => txs # <<>>
  /\ reported \in Nat /\ landed \in Nat

(* The count that the theorem is about.  While a transaction is in flight there is either
   a turn of the epoch to spare, or the dry run is as good as new. *)
ReportInv ==
  command.mode = "execute" =>
    /\ command.op # "extend_shared" =>
         /\ reported - landed <= chain.epoch - 1
         /\ stage = "submitting" /\ command.op \notin Extending =>
              reported - landed <= chain.epoch - 2 \/ RanDry
    /\ ChecksEffects => reported = landed

CommandIInv == CommandInv /\ ReportInv

(* A transaction leaves a chain of the same epoch, and no shared blob goes away. *)
LEMMA ExecutedIsChain ==
  ASSUME NEW ch, IsChain(ch), NEW tx, IsSeq(tx), Executed(ch, tx) # Abort
  PROVE  /\ IsChain(Executed(ch, tx)) /\ Executed(ch, tx).epoch = ch.epoch
         /\ DOMAIN ch.shared \subseteq DOMAIN Executed(ch, tx).shared
<1> DEFINE N == Len(tx)
           Follows(later) == /\ IsChain(later) /\ later.epoch = ch.epoch
                             /\ DOMAIN ch.shared \subseteq DOMAIN later.shared
<1>1. N \in Nat
  BY SeqFacts
<1>2. PICK after : Runs(after, ch, tx) /\ Executed(ch, tx) = after[N]
  BY ExecutedSteps
<1> DEFINE S == {n \in Nat : n <= N => after[n] = Abort \/ Follows(after[n])}
<1>3. 0 \in S
  BY <1>2 DEF Runs
<1>4. ASSUME NEW n \in Nat, n \in S PROVE n + 1 \in S
  <2> SUFFICES ASSUME n + 1 <= N PROVE after[n + 1] = Abort \/ Follows(after[n + 1])
    OBVIOUS
  <2>1. after[n] = Abort \/ Follows(after[n])
    BY <1>1, <1>4
  <2>2. after[n + 1] = Applied(after[n], tx[n + 1])
    <3>1. n + 1 \in 1 .. N /\ (n + 1) - 1 = n
      BY <1>1
    <3> QED
      BY <1>2, <3>1 DEF Runs
  <2>3. CASE after[n + 1] # Abort
    <3>1. /\ after[n] # Abort /\ Allowed(after[n], tx[n + 1])
          /\ after[n + 1] = Effect(after[n], tx[n + 1])
      BY <2>2, <2>3 DEF Applied
    <3>2. /\ IsChain(after[n + 1]) /\ after[n + 1].epoch = after[n].epoch
          /\ DOMAIN after[n].shared \subseteq DOMAIN after[n + 1].shared
      BY <2>1, <3>1, EffectIsChain
    <3> QED
      BY <2>1, <3>1, <3>2
  <2> QED
    BY <2>3
<1> HIDE DEF S
<1>5. N \in S
  BY <1>1, <1>3, <1>4, SetInduction
<1> QED
  BY <1>1, <1>2, <1>5 DEF S

(* One more answer. *)
LEMMA ReadExtended ==
  ASSUME ReadInv(command, seen), NEW answer,
         NextRead[1] \in {"storages", "blobs"} => IsSeq(answer)
  PROVE  ReadInv(command, Append(seen, answer))
<1>1. IsSeq(seen) /\ Len(seen) \in Nat
  BY SeqFacts DEF ReadInv
<1>2. /\ IsSeq(Append(seen, answer)) /\ Len(Append(seen, answer)) = Len(seen) + 1
      /\ \A i \in 1 .. Len(seen) : Append(seen, answer)[i] = seen[i]
      /\ Append(seen, answer)[Len(seen) + 1] = answer
  BY <1>1, AppendFacts
<1>3. ASSUME NEW i \in 1 .. Len(seen) + 1, Reads(command)[i][1] \in {"storages", "blobs"}
      PROVE  IsSeq(Append(seen, answer)[i])
  <2>1. CASE i = Len(seen) + 1
    BY <1>2, <1>3, <2>1 DEF NextRead
  <2>2. CASE i \in 1 .. Len(seen)
    BY <1>2, <1>3, <2>2 DEF ReadInv
  <2> QED
    BY <1>1, <2>1, <2>2
<1> QED
  BY <1>2, <1>3 DEF ReadInv

LEMMA AnswersAreListed ==
  ASSUME NEW ch, IsChain(ch), NEW read, read[1] \in {"storages", "blobs"},
         NEW answer \in Answers(ch, read)
  PROVE  IsSeq(answer)
<1>1. IsFiniteSet(DOMAIN ch.storages) /\ IsFiniteSet(DOMAIN ch.blobs)
  BY DEF IsChain
<1>2. CASE read[1] = "storages"
  <2>1. PICK ids \in SUBSET DOMAIN ch.storages :
          answer = [i \in DOMAIN Ascending(ids) |-> ch.storages[Ascending(ids)[i]]]
    BY <1>2 DEF Answers, list_storage_objects
  <2> DEFINE s == Ascending(ids)
  <2>2. IsSeq(s)
    BY <1>1, FS_Subset, AscendingFacts
  <2>3. answer = [i \in DOMAIN s |-> ch.storages[s[i]]]
    BY <2>1
  <2> HIDE DEF s
  <2>4. answer = [i \in DOMAIN s |-> answer[i]]
    BY <2>3
  <2> QED
    BY <2>2, <2>4, MapFacts
<1>3. CASE read[1] = "blobs"
  <2>1. PICK ids \in SUBSET DOMAIN ch.blobs :
          answer = [i \in DOMAIN Ascending(ids) |->
                      <<Ascending(ids)[i], ch.blobs[Ascending(ids)[i]]>>]
    BY <1>3 DEF Answers, list_blobs, Listing
  <2> DEFINE s == Ascending(ids)
  <2>2. IsSeq(s)
    BY <1>1, FS_Subset, AscendingFacts
  <2>3. answer = [i \in DOMAIN s |-> <<s[i], ch.blobs[s[i]]>>]
    BY <2>1
  <2> HIDE DEF s
  <2>4. answer = [i \in DOMAIN s |-> answer[i]]
    BY <2>3
  <2> QED
    BY <2>2, <2>4, MapFacts
<1> QED
  BY <1>2, <1>3

(* There is a transaction to send while there should be. *)
LEMMA FirstPlanned ==
  ASSUME CommandInv, stage = "building" \/ stage = "submitting"
  PROVE  /\ IsSeq(txs) /\ Len(txs) \in Nat /\ Len(txs) > 0 /\ IsSeq(txs[1])
         /\ command.op \notin Extending => Sound(txs[1])
<1>1. IsSeq(txs) /\ txs # <<>>
  BY DEF CommandInv, PlanInv
<1>2. Len(txs) \in Nat /\ Len(txs) > 0
  BY <1>1, SeqFacts
<1> QED
  BY <1>1, <1>2 DEF CommandInv, PlanInv

LEMMA TailPlanned ==
  ASSUME CommandInv, stage = "submitting", NEW successes \in {0, 1}, Report(successes),
         UNCHANGED <<command, seen>>, IsChain(chain')
  PROVE  CommandInv'
<1>1. /\ IsSeq(txs) /\ Len(txs) \in Nat /\ Len(txs) > 0
      /\ PlanInv(command, txs) /\ reported \in Nat /\ landed \in Nat
  BY FirstPlanned DEF CommandInv
<1>2. /\ IsSeq(Tail(txs)) /\ Len(Tail(txs)) = Len(txs) - 1
      /\ \A i \in 1 .. Len(txs) - 1 : Tail(txs)[i] = txs[i + 1]
  BY <1>1, TailFacts
<1>3. PlanInv(command, Tail(txs))
  BY <1>1, <1>2 DEF PlanInv
<1>4. stage' = "building" => Tail(txs) # <<>>
  <2> DEFINE rest == Tail(txs)
  <2>1. rest = <<>> => Len(rest) = 0
    BY EmptyIsSeq
  <2>2. Len(rest) = 0 => Len(txs) = 1
    BY <1>1, <1>2
  <2>3. Len(txs) = 1 => stage' # "building"
    BY DEF Report
  <2> QED
    BY <2>1, <2>2, <2>3
<1> QED
  BY <1>1, <1>3, <1>4 DEF CommandInv, Report

(* What was true of the transaction when it ran dry is still true of it. *)
LEMMA DryRunHolds ==
  ASSUME CommandInv, Submittable, command.op \notin Extending, RanDry
  PROVE  Executed(chain, txs[1]) # Abort
<1>1. PICK before : /\ IsChain(before) /\ before.epoch = chain.epoch
                    /\ DOMAIN before.shared \subseteq DOMAIN chain.shared
                    /\ OwnedInputs(before, txs[1]) = built
                    /\ Executed(before, txs[1]) # Abort
  BY DEF RanDry
<1>2. IsChain(chain) /\ OwnedInputs(chain, txs[1]) = built
  BY DEF CommandInv, Submittable, Accepted
<1>3. Alike(before, chain, txs[1])
  BY <1>1, <1>2, InputsAlike
<1>4. Sound(txs[1])
  BY FirstPlanned DEF Submittable
<1> QED
  BY <1>1, <1>3, <1>4, ExecutedAlike

-----------------------------------------------------------------------------
LEMMA CommandInit_IInv == CommandInit => CommandIInv
<1> SUFFICES ASSUME CommandInit PROVE CommandIInv
  OBVIOUS
<1>1. IsChain(chain) /\ IsCommand(command)
  BY StartsAssumption DEF CommandInit
<1>2. ReadInv(command, <<>>) /\ PlanInv(command, <<>>)
  BY EmptyIsSeq DEF ReadInv, PlanInv
<1> QED
  BY <1>1, <1>2 DEF CommandIInv, CommandInv, ReportInv, CommandInit, IsChain

LEMMA CommandNext_IInv ==
  ASSUME CommandIInv, [CommandNext]_commandVars
  PROVE  CommandIInv'
<1>1. CommandInv /\ ReportInv
  BY DEF CommandIInv
<1>2. /\ IsChain(chain) /\ IsCommand(command) /\ ReadInv(command, seen) /\ PlanInv(command, txs)
      /\ reported \in Nat /\ landed \in Nat /\ chain.epoch \in Nat \ {0}
  BY <1>1 DEF CommandInv, IsChain
<1>3. CASE UNCHANGED commandVars
  BY <1>1, <1>3 DEF commandVars, CommandIInv, CommandInv, ReportInv, RanDry, ChecksEffects
<1>4. CASE Read
  <2>1. PICK answer \in Answers(chain, NextRead) : seen' = Append(seen, answer)
    BY <1>4 DEF Read
  <2>2. ReadInv(command, seen')
    BY <1>2, <2>1, AnswersAreListed, ReadExtended
  <2> QED
    BY <1>1, <1>4, <2>2 DEF Read, CommandIInv, CommandInv, ReportInv, RanDry, ChecksEffects
<1>5. CASE ReadFails
  <2>1. CASE command.op = "burn_blob" /\ NextRead[1] = "blob"
    <3>1. ReadInv(command, Append(seen, Missing))
      BY <1>2, <2>1, ReadExtended
    <3> QED
      BY <1>1, <1>5, <2>1, <3>1 DEF ReadFails, CommandIInv, CommandInv, ReportInv, ChecksEffects
  <2>2. CASE ~ (command.op = "burn_blob" /\ NextRead[1] = "blob")
    BY <1>1, <1>5, <2>2 DEF ReadFails, CommandIInv, CommandInv, ReportInv, ChecksEffects
  <2> QED
    BY <2>1, <2>2
<1>6. CASE Decide
  <2> DEFINE plan == Plan(command, seen)
  <2>1. PlanInv(command, plan.txs)
    BY <1>2, <1>6, EveryPlan DEF Decide
  <2>2. /\ txs' = plan.txs /\ stage' \in {"refused", "done", "building"}
        /\ stage' = "building" => plan.txs # <<>>
    BY <1>6 DEF Decide
  <2> HIDE DEF plan
  <2> QED
    BY <1>1, <1>6, <2>1, <2>2 DEF Decide, CommandIInv, CommandInv, ReportInv, ChecksEffects
<1>7. CASE Build
  <2>1. CommandInv'
    BY <1>1, <1>7 DEF Build, CommandInv
  <2>2. stage' = "submitting" => RanDry'
    <3>1. stage' = "submitting" => Executed(chain, txs[1]) # Abort
      BY <1>7 DEF Build
    <3> QED
      BY <1>2, <1>7, <3>1 DEF Build, RanDry
  <2> QED
    BY <1>1, <1>7, <2>1, <2>2 DEF Build, CommandIInv, ReportInv, ChecksEffects
<1>8. CASE Simulated
  <2>1. CommandInv'
    BY <1>1, <1>2, <1>8, TailPlanned DEF Simulated
  <2> QED
    BY <1>8, <2>1 DEF Simulated, CommandIInv, ReportInv
<1>9. CASE AnsweredDone
  <2>1. /\ IsChain(chain') /\ chain'.epoch = chain.epoch
    BY <1>1, <1>2, <1>9, FirstPlanned, ExecutedIsChain DEF AnsweredDone, Submittable
  <2>2. CommandInv'
    BY <1>1, <1>9, <2>1, TailPlanned DEF AnsweredDone, Submittable
  <2>3. /\ reported' = reported + 1 /\ landed' = landed + 1 /\ command' = command
        /\ stage' # "submitting"
    BY <1>9 DEF AnsweredDone, Report
  <2> QED
    BY <1>1, <1>2, <2>1, <2>2, <2>3 DEF CommandIInv, ReportInv, ChecksEffects
<1>10. CASE AnsweredAborted
  <2>1. CASE ChecksEffects
    BY <1>1, <1>10, <2>1 DEF AnsweredAborted, CommandIInv, CommandInv, ReportInv, ChecksEffects
  <2>2. CASE ~ ChecksEffects
    <3>1. Report(0) /\ chain' = chain /\ command' = command /\ seen' = seen
      BY <1>10, <2>2 DEF AnsweredAborted
    <3>2. CommandInv'
      BY <1>1, <1>2, <1>10, <3>1, TailPlanned DEF AnsweredAborted, Submittable
    <3>3. /\ reported' = reported + 1 /\ landed' = landed /\ stage' # "submitting"
      BY <1>2, <3>1 DEF Report
    <3>4. command.op # "extend_shared" => command.op \notin Extending
      BY <2>2 DEF Extending, ChecksEffects
    <3>5. command.op # "extend_shared" => reported - landed <= chain.epoch - 2
      BY <1>1, <1>10, <3>4, DryRunHolds DEF AnsweredAborted, Submittable, ReportInv
    <3> QED
      BY <1>2, <2>2, <3>1, <3>2, <3>3, <3>5 DEF CommandIInv, ReportInv, ChecksEffects
  <2> QED
    BY <2>1, <2>2
<1>11. CASE CallFails
  <2>1. IsChain(chain') /\ chain'.epoch = chain.epoch
    <3>1. \/ chain' = chain
          \/ chain' = Executed(chain, txs[1]) /\ Executed(chain, txs[1]) # Abort
      BY <1>11 DEF CallFails
    <3>2. IsSeq(txs[1])
      BY <1>1, <1>11, FirstPlanned DEF CallFails
    <3> QED
      BY <1>2, <3>1, <3>2, ExecutedIsChain
  <2> QED
    BY <1>1, <1>11, <2>1 DEF CallFails, CommandIInv, CommandInv, ReportInv, ChecksEffects
<1>12. CASE EpochAdvances
  <2>1. chain' = [chain EXCEPT !.epoch = chain.epoch + 1]
    BY <1>12 DEF EpochAdvances
  <2>2. IsChain(chain') /\ chain'.epoch = chain.epoch + 1
    BY <1>2, <2>1 DEF IsChain
  <2>3. UNCHANGED <<command, seen, stage, txs, reported, landed, built>>
    BY <1>12 DEF EpochAdvances
  <2> QED
    BY <1>1, <1>2, <2>2, <2>3 DEF CommandIInv, CommandInv, ReportInv, ChecksEffects
<1>13. CASE OtherTransaction
  <2>1. PICK c \in OtherCalls(chain) : Allowed(chain, c) /\ chain' = Effect(chain, c)
    BY <1>13 DEF OtherTransaction
  <2>2. /\ IsChain(chain') /\ chain'.epoch = chain.epoch
        /\ DOMAIN chain.shared \subseteq DOMAIN chain'.shared
    BY <1>2, <2>1, EffectIsChain
  <2>3. UNCHANGED <<command, seen, stage, txs, reported, landed, built>>
    BY <1>13 DEF OtherTransaction
  <2>4. RanDry => RanDry'
    BY <2>2, <2>3 DEF RanDry
  <2> QED
    BY <1>1, <2>2, <2>3, <2>4 DEF CommandIInv, CommandInv, ReportInv, ChecksEffects
<1> QED
  BY <1>3, <1>4, <1>5, <1>6, <1>7, <1>8, <1>9, <1>10, <1>11, <1>12, <1>13 DEF CommandNext

(* The record of successful batches (tusky_cmds_lifecycle.py:62-64) is wrong at most once
   for each turn of the epoch, and never where the code looks at the effects. *)
THEOREM FalseReportsNeedEpochsAlways == CommandSpec => []FalseReportsNeedEpochs
<1>1. CommandIInv => FalseReportsNeedEpochs
  BY DEF CommandIInv, ReportInv, FalseReportsNeedEpochs
<1> QED
  BY <1>1, CommandInit_IInv, CommandNext_IInv, PTL DEF CommandSpec
=============================================================================
