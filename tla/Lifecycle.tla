----------------------------- MODULE Lifecycle -----------------------------
(***************************************************************************)
(* A command on storage objects, blobs, their metadata or shared blobs:    *)
(* it reads the chain object by object, checks what it read, then builds   *)
(* and submits one or more transactions (LifecyclePlans), while the epoch  *)
(* advances and other transactions of the same owner are executed.         *)
(***************************************************************************)
EXTENDS LifecyclePlans

CONSTANTS
  Starts,           \* the pairs <<chain, command>> a behaviour may start with
  OtherCalls(_),    \* OtherCalls(chain): what other transactions may call
  LastEpoch,        \* bound: the last epoch
  MaxOthers         \* bound: transactions of others while the command runs

ASSUME BoundsAssumption == LastEpoch \in Nat /\ MaxOthers \in Nat

(* What the commands start with is a chain and a command. *)
ASSUME StartsAssumption ==
  \A start \in Starts : IsChain(start[1]) /\ IsCommand(start[2])

VARIABLES
  chain,     \* the chain
  command,   \* the command that runs
  seen,      \* what it has read so far, in the order of Reads(command)
  stage,     \* "reading", "building", "submitting", or how the command ended
  txs,       \* the transactions it has still to send
  reported,  \* how many transactions it has reported as successful
  landed,    \* how many of those the chain executed successfully
  others,    \* how many transactions of others have been executed
  fresh,     \* nobody else has changed the chain since the command began
  built      \* the owned objects the built transaction uses, as they were

commandVars == <<chain, command, seen, stage, txs, reported, landed, others, fresh, built>>

-----------------------------------------------------------------------------
(* The command. *)

CommandInit ==
  /\ \E start \in Starts : chain = start[1] /\ command = start[2]
  /\ seen = <<>> /\ stage = "reading" /\ txs = <<>>
  /\ reported = 0 /\ landed = 0 /\ others = 0 /\ fresh = TRUE /\ built = <<>>

NextRead == Reads(command)[Len(seen) + 1]

Read ==
  /\ stage = "reading" /\ Len(seen) < Len(Reads(command))
  /\ \E answer \in Answers(chain, NextRead) : seen' = Append(seen, answer)
  /\ UNCHANGED <<chain, command, stage, txs, reported, landed, others, fresh, built>>

(* A read that fails ends the command, except that burn_blob skips the blob. *)
ReadFails ==
  /\ stage = "reading" /\ Len(seen) < Len(Reads(command))
  /\ IF command.op = "burn_blob" /\ NextRead[1] = "blob"
       THEN seen' = Append(seen, Missing) /\ UNCHANGED stage
       ELSE stage' = "failed" /\ UNCHANGED seen
  /\ UNCHANGED <<chain, command, txs, reported, landed, others, fresh, built>>

Decide ==
  /\ stage = "reading" /\ Len(seen) = Len(Reads(command))
  /\ LET plan == Plan(command, seen)
     IN  /\ txs' = plan.txs
         /\ stage' = CASE plan.refused -> "refused"
                      [] ~plan.refused /\ plan.txs = <<>> -> "done"
                      [] OTHER -> "building"
  /\ UNCHANGED <<chain, command, seen, reported, landed, others, fresh, built>>

(* The owned objects a transaction uses: they are signed in the version they have,
   and the transaction is not executed with any other. *)
StorageCalls == {"split_by_epoch", "split_by_size", "destroy", "fuse"}
SharedCalls  == {"fund", "extend_shared"}

OwnedInputs(ch, transaction) ==
  LET Of(names) == {c \in ToSet(transaction) : c.call \in names}
      coins     == (UNION {c.merged \cup {c.id} : c \in Of({"merge_coins"})})
                     \cup {c.coin : c \in Of({"extend_blob", "fund"})}
      storages  == {c.id : c \in Of(StorageCalls)}
                     \cup {c.second : c \in Of({"fuse", "extend_blob_with_resource"})}
      blobs     == {c.id : c \in {d \in ToSet(transaction) :
                      d.call \notin StorageCalls \cup SharedCalls \cup {"merge_coins"}}}
  IN  <<Restrict(ch.coins, coins \cap DOMAIN ch.coins),
        Restrict(ch.storages, storages \cap DOMAIN ch.storages),
        Restrict(ch.blobs, blobs \cap DOMAIN ch.blobs)>>

(* Broken: the transactions of all the batches are built before any is sent. *)
BuildAhead ==
  /\ stage = "building"
  /\ stage' = IF reported = 0 /\ Executed(chain, txs[1]) = Abort THEN "rejected" ELSE "submitting"
  /\ built' = OwnedInputs(chain, txs[1])
  /\ UNCHANGED <<chain, command, seen, txs, reported, landed, others, fresh>>

(* build_and_sign runs the transaction dry and raises when it would abort. *)
Build ==
  /\ stage = "building"
  /\ stage' = IF Executed(chain, txs[1]) = Abort THEN "rejected" ELSE "submitting"
  /\ built' = OwnedInputs(chain, txs[1])
  /\ UNCHANGED <<chain, command, seen, txs, reported, landed, others, fresh>>

Report(successes) ==
  /\ reported' = reported + 1
  /\ landed' = landed + successes
  /\ txs' = Tail(txs)
  /\ built' = <<>>
  /\ stage' = IF Len(txs) = 1 THEN "done" ELSE "building"

(* --mode simulate: nothing is executed. *)
Simulated ==
  /\ stage = "submitting" /\ command.mode = "simulate"
  /\ Report(0)
  /\ UNCHANGED <<chain, command, seen, others, fresh>>

Accepted == OwnedInputs(chain, txs[1]) = built

Submittable == stage = "submitting" /\ command.mode = "execute" /\ Accepted

AnsweredDone ==
  /\ Submittable /\ Executed(chain, txs[1]) /= Abort
  /\ chain' = Executed(chain, txs[1])
  /\ Report(1)
  /\ UNCHANGED <<command, seen, others, fresh>>

(* The library calls require_success on the effects before anything else.  The
   commands do not; share_blob does, but after it has printed "Shared". *)
ChecksEffects ==
  command.op \in {"execute_split_by_epoch", "execute_split_by_size",
                  "execute_fuse", "execute_destroy", "execute_set_metadata",
                  "execute_drop_keys", "execute_drop_all", "execute_share",
                  "execute_fund", "execute_extend_shared"}

(* An answer may say that the transaction aborted; the other commands take any
   answer for success. *)
AnsweredAborted ==
  /\ Submittable /\ Executed(chain, txs[1]) = Abort
  /\ IF ChecksEffects
       THEN stage' = "failed" /\ UNCHANGED <<txs, reported, landed, built>>
       ELSE Report(0)
  /\ UNCHANGED <<chain, command, seen, others, fresh>>

(* The call fails: the transaction was never executed, or its answer was lost. *)
CallFails ==
  /\ stage = "submitting"
  /\ chain' \in {chain} \cup (IF Submittable THEN {Executed(chain, txs[1])} \ {Abort} ELSE {})
  /\ stage' = "failed"
  /\ UNCHANGED <<command, seen, txs, reported, landed, others, fresh, built>>

-----------------------------------------------------------------------------
(* The rest of the world. *)

Running == stage \in {"reading", "building", "submitting"}

EpochAdvances ==
  /\ Running /\ chain.epoch < LastEpoch
  /\ chain' = [chain EXCEPT !.epoch = @ + 1] /\ fresh' = FALSE
  /\ UNCHANGED <<command, seen, stage, txs, reported, landed, others, built>>

OtherTransaction ==
  /\ Running /\ others < MaxOthers
  /\ \E c \in OtherCalls(chain) :
       Allowed(chain, c) /\ chain' = Effect(chain, c)
  /\ others' = others + 1 /\ fresh' = FALSE
  /\ UNCHANGED <<command, seen, stage, txs, reported, landed, built>>

CommandNext ==
  \/ Read \/ ReadFails \/ Decide \/ Build \/ Simulated
  \/ AnsweredDone \/ AnsweredAborted \/ CallFails
  \/ EpochAdvances \/ OtherTransaction

CommandSpec == CommandInit /\ [][CommandNext]_commandVars

-----------------------------------------------------------------------------
(* Properties. *)

(* The commands that check before they spend (the pre-flight docstrings of
   storage_compose.py and blob_metadata_execute.py) are never rejected by Move
   for something that was true when they looked: a transaction they build aborts
   only if someone else has changed the chain since. *)
Preflighted ==
  {"fuse_amount", "fuse_periods", "fuse_explicit", "reclaim_all",
   "extend_blob_with_storage", "drop_keys", "drop_all", "delete_blob", "delete_all",
   "burn_blob", "fund_amount", "execute_drop_keys", "execute_drop_all", "execute_fund"}

PreflightPredictsChain ==
  command.op \in Preflighted /\ fresh => stage /= "rejected"

(* Paid space from now on: bytes times epochs. *)
Space(storage, epoch) ==
  storage.size * Max({0, storage.end - Max({storage.start, epoch})})

SpaceOf(storages, epoch) ==
  FoldSet(LAMBDA id, sum : sum + Space(storages[id], epoch), 0, DOMAIN storages)

Storages(holders) == [id \in DOMAIN holders |-> holders[id].storage]

TotalSpace(ch) ==
  SpaceOf(ch.storages, ch.epoch) + SpaceOf(Storages(ch.blobs), ch.epoch)
    + SpaceOf(Storages(ch.shared), ch.epoch)

(* What the user has named for destruction. *)
NamedSpace(ch) ==
  CASE command.op = "reclaim_all" -> SpaceOf(ch.storages, ch.epoch)
    [] command.op = "execute_destroy" ->
         SpaceOf(Restrict(ch.storages, DOMAIN ch.storages \cap {command.id}), ch.epoch)
    [] command.op = "reclaim" ->
         SpaceOf(Restrict(ch.storages, DOMAIN ch.storages \cap ToSet(command.ids)), ch.epoch)
    [] command.op = "burn_blob" ->
         SpaceOf(Storages(Restrict(ch.blobs, DOMAIN ch.blobs \cap ToSet(command.ids))), ch.epoch)
    [] command.op = "delete_blob" /\ command.burn ->
         SpaceOf(Storages(Restrict(ch.blobs,
           {b \in DOMAIN ch.blobs \cap {command.id} : ~ch.blobs[b].deletable})), ch.epoch)
    [] OTHER -> 0

(* No command destroys paid space that has not run out, unless it was told to
   destroy that very object: delete_blob --all --burn burns expired blobs only,
   whatever the epoch has become meanwhile, and fuses, splits, deletions and
   extensions lose nothing. *)
ActiveSpaceIsSpared ==
  [][stage = "submitting" /\ stage' /= stage =>
       TotalSpace(chain') + NamedSpace(chain) >= TotalSpace(chain)]_commandVars

(* The record of what was done, batch by batch (tusky_cmds_lifecycle.py:563-573), is
   wrong only where the code cannot help it without reading the effects: each turn of
   the epoch can spoil at most the one deletion or extension in flight, because the
   next transaction is run dry before it is sent, and what the owner does meanwhile
   spoils none.  extend_shared is left out: anyone may change a shared blob.  The
   library's functions, which look at the effects first, report only what was done. *)
FalseReportsNeedEpochs ==
  command.mode = "execute" =>
    /\ command.op /= "extend_shared" => reported - landed <= chain.epoch - 1
    /\ ChecksEffects => reported = landed
=============================================================================
