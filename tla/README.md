# A TLA+ verification of pytusk

pytusk is a Python SDK for the Walrus blob store, with a command line (`tusky`).
It encodes a blob into slivers, pays for storage on Sui, sends the slivers to a
committee of storage nodes, collects signed confirmations, and certifies the blob
on chain; it also reads blobs back, asks a committee for a blob's status, and does
the same write through an upload relay. It is one asyncio program: many tasks on
one event loop, talking to nodes that answer, fail, stall or lie, and to a chain
that goes on without it.

This directory holds the modules that model it, the TLC configurations that check
them, and the TLAPS proofs. `PROJECT.json` ties each definition to the lines it
models and lists the runs, the mutants that show each property can fail, the
hazards and the theorems. Paths below are relative to `src/pytusk/`.

To run a check: `tlc -config X.cfg Module` (the pairs are in `PROJECT.json`);
to check the proofs: `tlapm Module_proofs.tla`.

## 1. Inventory

| Component (source) | State | Operations | What is hard | What makes it correct |
|---|---|---|---|---|
| Committee fan-out (`core/committee_fanout.py`) | one task per node, the coordinator's pending set, the caller's accumulators | wait loop, threshold, grace window, cancel stragglers, clean up | batches of completions, timer against answers, cancellation at every await | no task outlives the call; each node folded once; an answer is never lost; the call ends |
| Certification (`core/certification.py`) | none (pure) | thresholds, bitmap, `build_certificate`, `verify_certificate` | ceilings at every residue, partly filled bytes, a bad signature in the batch | a certificate is backed by verified quorum weight of exactly the members its bitmap names; two quorums share more than liars can make up |
| Confirmation collection (`core/native_upload/confirm.py`) | a semaphore, the confirmations kept | `_confirm_node`, `_fold`, `collect_confirmations` | weight is counted before signatures are checked; queued and in-flight cancellation | permits balance; one bad signature does not spoil a good quorum |
| Sliver upload (`core/native_upload/fanout.py`) | two semaphores, a byte throttle, progress counters, one task per node and per sliver PUT | `_put_metadata`, `_put_sliver`, `_upload_node`, `upload_slivers` | three nested gates around a retried request; two levels of cancellation | gates balance, nobody starves, credited weight is stored weight, no detached PUT |
| Native write (`core/pipelines/write.py`, `delivery.py`, `registration.py`, `core/native_upload/certify.py`) | committee, certificate, attempts; on chain: epoch, Blob, owner | encode, Tx1, finality, read-back, deliver, certify (refetch loop), Tx2 | epoch changes between any two steps, lost answers, failure after payment | the receipt tells the truth about the chain; certificates match the committee; the loop ends |
| Relay write (`core/pipelines/write.py`, `delivery.py`, `core/relay_upload/*`) | tip quote, nonce, relay certificate | quote, pay, POST with retries, parse and check the relay's certificate, Tx2 | an unanswered POST may have been served; pending payment; partial failure | as the native write; no tip but the one shown and under the ceiling; every POST carries the nonce that was paid for; no failure after payment is raised; Tx2 only for a certificate worth its gas |
| Native read (`core/pipelines/read.py`, `core/native_read/*`) | verified metadata, slivers kept, nodes indicted | fetch metadata, fetch slivers, verify, decode, one retry | wrong slivers found only by a failed decode; duplicate contents put down to one node; a decode error that is not recovered from | a verified read returns the blob asked for; one lying node cannot prevent it, with the exception of section 8; it ends |
| Blob status (`core/ops/blob_status.py`) | weight per reported status, time budget | the vote and its verdict, the Sui objects of the blob | exhausted budget, conflicting answers, forged answers | the verdict is one an honest node gave; every member accounted for once; no object of another blob |
| Committee and chain reads (`core/chain/*`) | none, paged reads | `fetch_pools`, `build_committee`, lookups, event decoding | pages read while the chain advances; layouts that change | each shard owned once; the newest version of a pool counts |
| Storage, blob, metadata and shared-blob commands (`tusky/tusky_cmds_storage.py`, `tusky_cmds_lifecycle.py`, `core/ops/*`) | none but the chain's objects | split, fuse, reclaim, extend, delete, burn, share, fund, metadata; batches | the chain changes between reads, dry run and execution; plans of several fuses | what was checked is not rejected; no paid space destroyed unasked; reports are true |
| Transactions (`core/ops/*_compose.py`, `blob_execute.py`, `coins.py`) | none | compose, choose coins, simulate, sign, submit, read effects | an answer lost after submission; balances at equality | an error is not proof that nothing was paid; payments are exact |
| Configuration (`config/tusk_config.py`) | groups, profiles, networks, relays, the active ones; a file; a cached pysui configuration | load, migrate, edit, save | names that refer to one another; a torn file | a built-in network's active relay exists, the cache is what the overrides and the active network ask for, after any sequence of edits |
| RedStuff, quilts (`core/encoding/*`) | none (pure) | encode, decode, rotation, quilt layout | alignment, runs that cross symbols and columns, byte order | writers and readers agree where each sliver and each byte is |
| Transport client (`client/walrus_client.py`), commands, types, argument parsing | one HTTP session | one call each | - | failures are results, not exceptions |

### How they interact

`store_blob_native` is the spine. It reads the committee, encodes in a worker
thread, and registers the blob with Tx1. `NativeDelivery` then calls
`upload_slivers` and `collect_confirmations`; each starts one task per node and
hands all of them to `fan_out_to_committee` with its own accumulators, callbacks
and threshold, all on the same event loop. `collect_confirmations` hands what it
kept to `build_certificate` in a worker thread. `certify` checks the live epoch
against the committee's, refetches and recollects when they differ, and submits
Tx2. The native read and the status vote use the same fan-out. The commands of
`tusky` read objects one by one, decide, and then build, dry-run and submit one or
several transactions; the owner and the chain go on in between. The shared state is
therefore of three kinds: a caller's accumulators (changed by the callbacks and
read by the threshold), the gates of an upload (semaphores and the byte throttle,
shared by all its PUT tasks), and the chain.

The hard behaviours are the ones in the list of hazards: cancellation at each
await, timers racing answers, gates under cancellation and retry, the epoch moving
between a read and its use, nodes that lie, and a failure of one step after an earlier one was
paid for.

## 2. Plan

The order follows what the rest of the system leans on.

1. **The fan-out**, with its abstract contract - *done*: `CommitteeTally`,
   `CommitteeFanout`, `CommitteeFanout_proofs`.
2. **Certificates** - *done*: `Certification`, `Certification_proofs`.
3. **The two callers of the fan-out in a write** - *done*:
   `ConfirmationCollection` (fan-out and certification composed),
   `SliverPuts` and `SliverUpload` (the inside of a PUT, and the node level
   over the fan-out), with `ConfirmationCollection_proofs` and
   `SliverUpload_proofs`, which is about both levels.
4. **The native write** with its abstract promise - *done*: `PaidBlob`,
   `NativeWrite`, `Transactions_proofs`.
5. **The relay write**, as a second implementation of `PaidBlob` - *done*:
   `RelayWrite`, `RelayWrite_proofs`.
6. **The native read** - *done*: `NativeRead`, with the fan-out by its contract, and
   `NativeRead_proofs`.
7. **The commands on storage and blobs** - *done*: `StorageResource`, `WalCoins`,
   `MoveCalls`, `LifecyclePlans`, `Lifecycle`, with `Transactions_proofs`, which is about
   both programs that sign for the owner.
8. **The parts without interleaving** - *done*, composed in `Tools`: `RedStuff`,
   `QuiltLayout`, `BlobStatus`, `BlobEvents`, `ChainCommittee`, `WalCoins`, and
   `TuskConfig`, which has a state of its own.
9. **The proofs**. *Done*: every safety property that a run checks of the fan-out,
   the collection, the upload at both levels, the two writes and the native read,
   the refinements of `CommitteeTally` and of `PaidBlob`, and the safety part of the
   two refinements into `CommitteeFanout`; thresholds, geometry, verdicts,
   committees, payments and the configuration, in `Tools_proofs`; what the commands on
   storage and blobs report, in `Transactions_proofs` (section 6). *Left*: the other two
   properties of `Lifecycle`, and quilts (section 7).

The runs are few on purpose: each asks one question of one part. A second instance
of a module is a second initial state of the same run (`SliverPuts`), and the parts
that only compute share one run (`Tools`).

## 3. The modules

### CommitteeTally and CommitteeFanout

`CommitteeTally` is what a committee-wide operation promises its caller, with no
tasks or timers: every node gets at most one verdict (accepted, rejected, given
up), nodes are given up only when the accepted ones are enough, the call returns
only when no node is open, and a call that raises tells nothing more.

`CommitteeFanout` is `fan_out_to_committee`. The coordinator's awaits are the
values of `pc`; code between two awaits is one action, because an event loop
cannot interleave anything there. `Wake` is a turn of the wait loop and folds the
whole batch of ended tasks; `GraceEnds` is the end of the grace wait (its timer may
fire at any moment); `Reaped` is the end of the gather over cancelled stragglers;
`CancelledWaiting`, `CancelledReaping` and `CleanedUp` are a cancellation of the
caller and the finally block. The nodes' tasks end by themselves (`TaskEnds`) or
unwind (`CancelDelivered`). The threshold is a parameter: `Enough`, an upward
closed family of node sets, since each caller's accumulator only grows.

### Certification

The thresholds, the bitmap and `build_certificate` as operators. A byte is the set
of its set bits. BLS is external and abstracted to what the code can see of it: a
signature is valid, wrong or malformed; an aggregate is the set of what went into
it. The aggregate-first path and the exclusion path give the same result, so
`Kept` stands for both.

### ConfirmationCollection

Extends `Certification` and instantiates `CommitteeFanout`, whose `Enough` becomes
"the weight of the answered requests reaches quorum" (`confirm.py:431`). `Send`,
`Answer` and `Unwind` are the awaits of `_confirm_node` around the semaphore.
`HeartbeatReaped` ends the fan-out, `Assemble` is `build_certificate` returning
from its thread, with the errors wrapped as the code wraps them.

### SliverPuts

The inside of a PUT: `TakeGlobal`, `TakeNode`, `TakeBytes` in the order of the
code, `GiveBack` for leaving the block by any path, `Stored`, `Refused`, `Raises`,
`Retry`, and cancellation wherever the coroutine is suspended. The node level is
reduced to its two effects: a node may be stopped from outside (`StopNode`), and a
node with a failed PUT cancels its others (`AbandonNode`).

### SliverUpload

The node level over `CommitteeFanout`: the metadata PUT, the sliver PUTs counted by
state (which PUT is which tells no property apart), the finally block that cancels
and awaits them, and the verdict of `upload_slivers`. The inside of a PUT is
reduced to "it ends, stored or not", which is what `SliverPuts!EveryPutEnds` shows.

### PaidBlob and NativeWrite

`PaidBlob`: a blob is registered, then certified; the caller is told once; a
certified receipt is given only for a certified blob and no receipt for a blob
nobody paid for. An exception says nothing.

`NativeWrite` is `store_blob_native` from the committee read to the receipt, one
action per await. The chain acts by itself: the epoch advances at any moment
(`EpochChange`) and a submitted transaction executes or aborts whether or not the
coroutine is still there to hear of it (`Tx1Executes`, `Tx2Executes`). The checks
`certify_blob` makes on chain (owner, registered, certificate of the live epoch)
are external and taken from how the code composes and describes the call.
`upload_slivers` and `collect_confirmations` are reduced to their contracts.

### RelayWrite

`store_blob_relay`, in the same style and against the same chain. `Quote` is the
tip policy, `compute_tip`, the ceiling, the `on_quote` hook and the authentication
package, in the order of `_store_relay`; `SubmitTx1` carries tip and registration in
one transaction. `PostUnanswered`, `Retry`, `PostRefused`, `PostAnswered` and
`PostAnsweredEmpty` are the turns of the loop of `upload_to_relay` with what
`RelayDelivery` makes of its result. The relay is external and not trusted: it may
answer with any member of `Payloads`, signed for any epoch so far. `parses` is
`parse_relay_certificate` (with the quorum and the bitmap of `Certification`), and
`Verdicts` is the local check before Tx2, which for a certificate of a later epoch
may go either way, as members may have kept their positions. A receipt is the
pair of outcome and stage with the nonce it hands back. The encoded length that
a tip is computed from is that of `RedStuff`.

### NativeRead

`read_blob_native` as one coroutine. `MetadataAnswer` is a turn of the loop over the
members from a random start; `Served`, `GiveUp` and `FanoutEnds` are the sliver
fan-out, reduced to what `CommitteeTally` promises; `Decode` is the first attempt
with, when it fails, the partition of the slivers and the choice between decoding
what verifies and a second fan-out without the indicted nodes (`Recover`);
`Redecode` is the last attempt. A node is honest, flaky or faulty; a faulty one
answers a GET with any sliver of this or another blob, with junk, or with a sliver of
another size (`Misfit`). The native decoder takes any large enough set of slivers of
distinct pairs. Junk fails it with one of `_DECODE_FAILURE_CODES`, which is recovered
from; a sliver of another size it passes over or refuses, and then the error is a bare
`ValueError` that ends the read (outcome `sliver_size_mismatch`).

### Lifecycle and the modules under it

`StorageResource` is storage objects: what Move allows and does (external) beside
the local checks and the plans of `tusky_cmds_storage.py`. `WalCoins` is the choice
of a payment: the coins sorted before a coin are a set, a balance is a number of
units, and the loop that merges coins until they cover the amount is the set of the
coins it takes. `MoveCalls` is a chain of storages, blobs, shared blobs and coins with
the effect of each Move call, and the compose functions. `LifecyclePlans` says of
each command what it reads, what it refuses and which transactions it sends.
`Lifecycle` runs a command: `Read` and `ReadFails` one read at a time, `Decide` the
plan, `Build` the dry run that `build_and_sign` makes, then the submission with an
answer of success or abort, a failed call, or a simulation; `EpochAdvances` and
`OtherTransaction` come in between anywhere. A transaction with owned inputs is
executed only if they still have the versions it was built with.

### RedStuff, QuiltLayout, BlobStatus, BlobEvents, ChainCommittee

Operators that translate the functions of the same names. A quilt is the function
from offsets to bytes that `assemble_quilt` fills, a byte being named by blob,
section and position. A status query is the list of answers in the order in which
they were folded with the nodes given up; the rest was cut off by the deadline.
Weights are numbers of shares, as in `Certification`; the dict of candidates, which
Python keeps in the order of insertion and sorts stably, is the set of statuses with
the one heard first. An event is a sequence of bytes, decoded by `event_payload` as
BCS with its two length prefixes. The pools table is a sequence of entries as the
pages listed them; the loop that keeps the newest entry of a field is the function
from fields to the first entry of the highest version.

### TuskConfig

The session's model, the file, the cached pysui configuration, and the overrides of
path, group and profile that the constructor was given, which win over the active
network whichever it is (`Path`, `Group`, `Profile`). Each operation of
`PytuskConfiguration` is an action, with or without `persist`; a write may be torn, in
which case the process is gone; a session begins by loading or migrating what is there.
`add_network` takes any network a caller can construct
(`CallersNetworks`: any relays, each name once, and any active relay, also none of
them). `SessionIsConsistent` of `Tools` states what holds at any time, with its
exceptions, and that nothing but `add_network` makes an active relay that is not there.
The bound `RelayNetworks` says which networks' relays a session edits, by what it was
given; the theorem is about every such bound.

### Tools

Chooses an input of one part at the start (or a run of `TuskConfig`) and states the
property of each part about it. What depends on a committee, a chain or a wallet is
a constant with an assumption; `MCTools` gives the values.

## 4. What each run checks

| Run | Instance | Checks and shows |
|---|---|---|
| CommitteeFanout | 4 nodes, weights 2,1,1,1, quorum 4; no fairness for nodes | No task outlives the call; each node is folded once, and those folded as answered are those whose tasks ended in an answer; `EndsWithoutNodes` (after the threshold or a cancellation the call ends even if no node ever answers again), and the refinement of `CommitteeTally`. |
| ConfirmationCollection | 3 members (2,1,1 of 4 shards), 2 permits, 2 messages, 3 kinds of signature | Certificates are backed by verified quorum weight; bad signatures are tolerated when the verified answers make a quorum; permits balance; request coroutines give the fan-out the fairness it assumes. |
| ConfirmationShortfall | same | *Violation*, see section 8. |
| SliverPuts | two calls: 2 nodes with a shard each, slivers of 3 and 2 bytes, 9 bytes in flight, 2 permits a node; 1 node, 2 retries, a byte budget of 1 | The gates balance on every path and across attempts, and the progress counters with them; a PUT holding permits never waits for bytes; every PUT ends, an oversized sliver too. |
| SliverUpload | 3 nodes with 2,1,1 of 4 shards | Credited weight is stored weight, no PUT is detached, failures are a node's own, and the node coroutines implement what the fan-out assumes. |
| NativeWrite | up to epoch 4 (three changes), 2 attempts, sender = active address, another recipient | The receipt is true of the chain (refinement of `PaidBlob`); certificates are rebuilt after an epoch change; each turn of the refetch loop has a change of its own; the write ends. |
| RelayWrite | 3 members (2,1,1 of 4 shards), three POSTs, up to epoch 3, four tip policies against a ceiling of 3, ten certificates | What Tx1 pays is what the caller was shown; every POST and every receipt has the nonce its tip was paid under; no failure after payment is raised; Tx2 is sent only for this blob, a sound aggregate and a quorum of distinct members; the write ends; the receipt is true of the chain (refinement of `PaidBlob`). |
| NativeRead | 3 nodes with 2, 1 and 1 of four shards, up to two faulty, either axis, with and without verify | A verified read returns the blob asked for even if every node that answers lies; one lying node cannot make it fail while enough others are up, unless the decoder refuses the size of a sliver before any node has been indicted; it ends. |
| Lifecycle | three storages, three blobs, a blob with metadata and coins, a shared blob; 29 operations; batches of 2; up to epoch 3; one other transaction | A checked command is not rejected on an unchanged chain; no command destroys paid space it was not told to; transactions are reported in vain at most once per epoch change, and never by the library's functions. |
| Tools | bounded inputs of each part, see below; every sequence of operations on a configuration | The thresholds suffice for what they are used for; shards and pairs are rotated alike and symbols are of the least size; a quilt is read back from its index; listings and plans agree with Move; payments are exact; a verdict is earned and shows no object of another blob; an event of a layout with a field more or less leads to no object; a committee is whole; a configuration stays consistent, and its active relays stray only when a network is added like that. |
| NativeWriteReceipt, NativeWriteSigner | same; the latter with a sender that is not the active address | *Violations*, see section 8. |

### Bounds, and why they are enough

- Four nodes of weights 2,1,1,1 with quorum 4 of 5: the heavy node is necessary and
  any light one is dispensable, so thresholds met in the middle of a batch,
  thresholds met by the last answer, stragglers and shortfalls all occur. The
  theorems of section 6 have no bound.
- Three members and two permits in `ConfirmationCollection`: one queues, and after
  the quorum of heavy plus light the third may be queued, in flight or answered.
- Six PUTs for three global permits (9 div 3) and two permits a node, with up to four
  slivers of 10 bytes in all against 9: contention at both semaphores, and at the
  throttle if the permits were not derived from the byte budget. The second call takes
  the budget below a sliver's size, where the permit count falls to its floor of one.
- Two attempts of `certify` and three epoch changes: one more change than the loop
  can absorb, so it may succeed after a refetch and may run out.
- 1192 encoded bytes are two started KiB, so rounding shows; the two linear policies
  ask for the ceiling and for one more. The signer lists are a quorum, the heavy
  member twice (a quorum only if it counted twice), a stranger, and nobody. Three
  POSTs: a first, a repeated and a last one.
- Four shards on three nodes in `NativeRead`: the primary axis needs 2 slivers and the
  secondary 3, so a read may or may not afford to lose the node with two shards; the
  blob ID rotates the shards, so that a shard and its pair differ. Two faulty nodes
  out of three are more than the protocol tolerates; safety holds for them as well.
- `Lifecycle`: three storages give fuses by amount, by periods, chains of two fuses
  and storages that fit nothing; batches of two make three objects two batches, so
  that something may happen between them; three epochs let a blob expire before,
  during and after the decision. `MAX_OPS_PER_PTB` is 100 in the code.
- `Tools`: committees of up to 8 shards cover each residue of 3, f from 0 to 2, and
  every pair of sets of shards; blobs of up to 40 bytes cross several symbol sizes at
  each of them; quilts of up
  to three patches on 3, 4 and 5 columns, of which 112 of 243 can be assembled (the
  limits on the symbol size and on the index columns are lowered to 20 and 2 to be
  met); listings of three storages, of which 96 plans leave something out; four
  voters of 2, 2, 2 and 1 of seven shards, so that a liar may hold f = 2 and a quorum
  needs three, any of them heard, in one order or its reverse, with any of seven
  answers each; wallets of up to three coins of 0 to 3 for amounts up to 7, so that a
  wallet may be too poor, hold the amount in one coin, or need all; a pools table of up to three entries of two pools at up to three
  versions; every event layout with a field lost, gained or missing; configurations
  with two paths and one custom network, added with a relay that it makes active, or
  replaced by one of another profile without it. Constructors are given nothing, a
  group, a profile, or all three; those given nothing edit the relays of a built-in
  network, as relays are no part of what is cached. 398,217 states in all.
- `MaxEpoch`, in `Lifecycle` `LastEpoch`, bounds a run and the model;
  `Transactions_proofs` holds for every value.
- Shard counts stand for weights; Python integers are unbounded, so no width is
  modelled.

The modules of the fan-out, its callers, the writes and the read have a type
invariant `TypeOK` (`PutsTypeOK` in `SliverPuts`). It documents the state rather than checks the code, and the
configurations leave it out; for all of them but `NativeWrite` it is proved.

`CHECK_DEADLOCK FALSE` is set where the call comes to an end, which is a
deadlock to TLC.

## 5. Fairness

- `CommitteeFanout!LoopFairness`: weak fairness of the coordinator and of the
  delivery of a cancellation. This is asyncio's event loop: it runs every ready
  callback, fires due timers, and throws CancelledError into a task it was
  asked to cancel. It makes no node answer; the run of `CommitteeFanout` uses only
  this.
- `CommitteeFanout!TaskFairness`: every node's coroutine ends. The fan-out assumes
  it of its callers, and `ImplementsFanout` of `ConfirmationCollection` and
  `SliverUpload` checks that they provide it.
- `ConfirmationCollection!Fairness`: a semaphore wakes its waiters in order, a
  request is bounded by the client's HTTP timeout, the worker thread returns.
- `SliverPuts!PutsFairness`: the same for the two semaphores and the throttle, whose
  `notify_all` wakes every waiter; the back-off sleep ends. Weak fairness is enough
  because a gate that has room keeps it until someone takes it, and the number of
  PUTs is finite.
- `SliverUpload!Fairness`: each PUT ends, which is `SliverPuts!EveryPutEnds`.
- `NativeRead!FairSpec`: weak fairness of the whole next-state relation. Every GET
  ends with an answer or by the HTTP timeout, each step consumes one, and the rest is
  the event loop resuming the read.
- `NativeWrite!FairSpec`, `RelayWrite!FairSpec`: weak fairness of the pipeline only. Each of its awaits
  has a timeout or a poll count; an answer that does not come is one of its
  outcomes. The chain is not assumed to execute anything.

## 6. What is proved

The theorems hold for all values of the constants under the named assumptions of
the modules. None is more than the code provides:

| Assumption | Says | Because |
|---|---|---|
| `EnoughAssumption` | the threshold is upward closed, over subsets of the nodes | accumulators only grow; `ConfirmationCollection_proofs` and `SliverUpload_proofs` prove it of their thresholds |
| `CollectionAssumption`, `UploadAssumption` | finitely many requests and nodes; positions within the committee; weights and shard counts are natural numbers, a node in the upload owning at least one shard; at least one permit | lists of a committee; `upload_slivers` collects its nodes from the owners of shards (`fanout.py:1077`); a semaphore of none would let nobody in |
| `PutsAssumption` | sizes, budgets and retries are natural numbers, a node has at least one connection | arguments of the call |
| `WriteAssumption`, `RelayAssumption` | attempts are positive, lengths, ceilings and weights natural numbers; `MaxEpoch` is any bound | arguments of the call |
| `KindsAssumption` | a tip policy is none, an amount, or a linear rate, of natural numbers | `_parse_tip_kind` knows no other and refuses negative ones (`commands/relay_commands.py`) |
| `CommitteeAssumption`, `BlobIdAssumption` of `NativeRead` | members are a list of the nodes, there is a shard, each shard has one owner; a blob ID is a sequence of bytes | `build_committee`; the type `BlobId` |
| `InputsAssumption` of `Tools` | bounds are natural numbers, blob IDs sequences of bytes | - |
| `SessionAssumption` of `Tools` | what callers add are networks that can be constructed, each relay name once; what constructors are given is a path, group or profile, or nothing for each | the types of the arguments; `RelayConfig.__post_init__` (`config/tusk_config.py:98`) |
| `CommitteeAssumption` of `Tools` | finitely many members; the shards are those that the members hold, each held by one; a member is heard at most once | `build_committee` refuses any other; the fan-out has one task per node |
| `StakingAssumption` | the staking object is well typed and lists a node once | a map of the chain, keyed by node |
| `BoundsAssumption`, `StartsAssumption` of `Lifecycle` | the bounds are natural numbers; a command starts on a well-formed chain of finitely many objects, is one of the 29 operations, and is given its ids and keys as sequences | what a node lists; what `tusky_args.py` parses |
| `BatchAssumption` of `LifecyclePlans` | a batch holds at least one operation | `_MAX_STORAGE_OPS_PER_PTB` is 100 (`tusky_cmds_storage.py:45`) |
| `EntriesAssumption` | entries are well typed; of one version of an object there is one content, which an answer may leave out | objects of Sui are immutable per version |

**CommitteeFanout_proofs.** The inductive invariant relates the four sets the code
keeps: pending is what is neither counted nor dropped until stragglers are
cancelled; what is counted has answered; what is being or has been cancelled is
pending, and only for a reason; in `reaping` the dropped are exactly the pending.
From it follow `TypeCorrect`, `NoOrphans`, `ExactlyOnce`, `CancelJustified`,
`ShortfallIsFinal` (a call that returns below its threshold has heard
every node: the comment at the grace block), `CancelledFoldsNothing`, and
`FanoutImplementsTally`. The last needs that `should_stop` stays true as tasks end,
which is where `EnoughAssumption` is used.

**Certification_proofs.** `QuorumWeightIsLeast` and `ValidityWeightIsLeast` for
every `n_shards` (the code's negated floor division is a ceiling);
`QuorumsIntersectAboveValidity`, by inclusion and exclusion, for finite sets of
shards; `BitmapRoundTrip` for every committee size, from the uniqueness of quotient
and remainder; `BuiltCertificateVerifies`: whatever confirmations are given, a
certificate that comes back verifies against the signers in its bitmap and has
quorum weight. It also holds what readers and writers have to compute alike:
`RotationsAreInverse`; `SymbolSizeIsLeast` (the negated floor divisions of
`symbol_size` give the least aligned size, for every length and committee, by
monotonicity of a product the solver is told of); and `QuorumOutlivesFaults`, which
ties the thresholds of `certification.py` to the source symbols of `redstuff.py`. Its
lemmas serve the modules below: a certificate says which
confirmations it was built of and which are enough for one (`CertificateComesFrom`,
`CertificateIsBuilt`); a weight is a number of shares, which is finite, grows with
the set (`WeightMonotone`) and does not depend on the names of the members
(`WeightRenamed`), so that the weight counted by request while the collection runs
is the weight by position in the certificate.

**ConfirmationCollection_proofs** and **SliverUpload_proofs** use the fan-out and do
not prove it again. Each shows first that a step of its own is a step of
`CommitteeFanout` or one the fan-out cannot see (`CollectionIsFanout`,
`UploadIsFanout`); with that, the fan-out's inductive invariant is theirs, by an
instance of `CommitteeFanout_proofs`. What is added is small. For the collection
(`CInv`): a request's coroutine is over exactly when its task has ended, permits
balance, and the outcome is the one `build_certificate` gives for what the fan-out
counted. `PermitsBalanceTheorem`, `CertificateIsBackedTheorem` and
`BadSignaturesAreToleratedTheorem` follow, the last two through the lemmas on
certificates and weights. For the upload: the PUTs of a node add up, a PUT is running
only inside its node's coroutine, a node that ended well has stored all it owns, one
that failed has a failure. `CreditIsEarnedTheorem`, `NoOrphanPuts` and
`FailuresAreOwn` follow.

**The inside of a PUT**, in `SliverUpload_proofs` as well. A gate in balance is not inductive alone: that a permit is
given back once needs that only a PUT that holds it can, across `Retry` and a
cancellation that arrives between two awaits. The invariant (`PutsInv`) adds that a
node's sliver PUTs start after its metadata, which passes the throttle with no bytes,
that cancellation leaves a PUT its gates until it has unwound, and that holders are
finite; byte counts go up and down by lemmas on counting pairs. `GatesBalanceTheorem` follows;
`BytesNeverBlockTheorem` is the arithmetic of `effective_write_permits`: with at most
(budget div larger sliver) holders, floored at one, the byte throttle always has room
for one more, also when a sliver is larger than the whole budget.

**Transactions_proofs**, the native write. `NeverReused`, `RetriesArePaidFor`, `OwnerUntilCertified`
and the refinement `NativeImplementsPaidBlob`. None of the properties is inductive
alone: transactions execute behind the coroutine's back, so the invariant ties the
control point to the fate of each transaction (`LedgerInv`), the attempts to the
epochs seen (`RetryInv`: after a mismatch the live epoch is beyond the committee's),
and each outcome to the chain (`OutcomeInv`).

**Transactions_proofs**, the commands on storage and blobs.
`FalseReportsNeedEpochsAlways`: of the transactions a command reports, no more than one
for each turn of the epoch has failed, and none where the code looks at the effects. The
count alone is not inductive: that the transaction in flight will go through unless the
epoch turns has to follow from the dry run, while other transactions of the owner go on.
So the invariant (`ReportInv`) says that there is a turn of the epoch to spare, or that
some chain of this epoch on which the transaction went through had the same owned objects
(`RanDry`). `ExecutedAlike` carries that over to the chain as it is: Move allows a call on
both of two chains that agree on the objects it uses or on neither (`AllowedAlike`), and
leaves them in agreement (`EffectAlike`). A call that makes a storage may spoil the
agreement, since the new id depends on the others; so transactions have to be `Sound`, of
one call or without such calls before a storage is used, and `EveryPlan` shows that those
of all 29 operations are, whatever was read. Sequences are only known to be sequences
(`IsSeq`), and recursive functions along them are shown to exist before they are used
(`ExecutedSteps`, `FusePassPasses`, `PeriodsChained`).

**RelayWrite_proofs.** The same ledger, with what the relay adds: past the quote the
one shown is the one kept, without payment there is no nonce (`TipInv`); nothing is
posted before the blob is registered (`PostInv`); from the submission of Tx2 on the
payload parsed and may verify (`SubmitInv`). `TipIsAgreed`, `TokensAreThePaidOnes`,
`NothingPaidIsLost`, `Tx2IsJustified` (with the quorum arithmetic and the fact that a
parsed list of signers names members) and `RelayImplementsPaidBlob`. The set of
payloads a relay may send is not restricted.

**NativeRead_proofs.** `ReadsWhatWasAsked` needs little: verified metadata is of the
blob asked for, and what is decoded is verified against it. `OneLiarIsSurvived` is an
argument about the whole read: members asked for metadata in vain are not up, so one
that is up is reached before the round ends (`AskInv`, by the rotation of the
members); a fan-out that ended short has heard every node that is up (`ServedInv`);
slivers are put down to nodes that served them and only liars are indicted
(`BlameInv`); and with one liar, what is left of the shards either verifies at the
threshold or can be asked for again, for whatever distribution of the shards. A read
that a refused size ended has the sliver of that size among what it collected and has
indicted nobody: once the liar is indicted, it is not asked again, and nothing of its
slivers that does not verify is kept. It rests
on `RotationIsInjective`: the rotation of shards into pairs by the blob ID loses none.

**Tools_proofs.** The parts that compute. An input never changes, so the invariant
(`InputInv`) only says which inputs there are, and the work is in lemmas about the
operators. `ThresholdsSufficeAlways` and `GeometryAgreesAlways` put together the
arithmetic of `Certification_proofs`; the geometry also needs that the rotation taken
byte by byte is that of the number the blob ID reads as (`RotationByBytes`).
`VerdictIsEarnedAlways`: any candidate for a verdict has more weight than f, so that
one of its nodes is not a liar, the nodes that are not liars make up a quorum, and two
quorums do not say different things; every member is accounted for once because it is
heard at most once. `CommitteeIsWholeAlways`: the check of `build_committee` leaves each
shard one holder, and among the entries of a field the one kept is the newest, in
whatever order and however often the pages listed them, for any table; a regular answer
is not refused (`RegularIsHandedOut`). `PaymentIsExactAlways`: the coins taken are a
prefix of the sorted wallet, the largest coins of a number are worth at least as much as
any others of that number (`LargestCoins`: each coin on one side only is set against one
on the other), and no fewer coins would do (`TakenSuffice`), for any wallet.
`SessionStaysConsistent`, by the invariant `SessionInv`: what a session holds and what
the file holds are each absent, torn or well formed, the active relay of each of a set
of networks is there, and the cache agrees with the overrides and the active network;
each operation, save, torn save and restart keeps it so. The set is a parameter: with
the built-in networks, whose names `add_network` refuses, it gives the state part of the
theorem; with those that do not stray at the moment, it gives the action part, as every
operation but `add_network` keeps them from straying.

Some of these lemmas are inductions over data, such as the bytes of an ID. The induction
theorems of the library have an operator parameter that the provers at hand cannot
instantiate. They are replaced by two lemmas of `Certification_proofs` without one:
`SetInduction`, in which the induction hypothesis is a set of numbers, and the existence
of a function given step by step (`RecursionExists`). Where a least or a largest element
is enough it is found by `LeastExists`.

## 7. What is only model-checked

- Liveness (`EndsWithoutNodes`, `EveryPutEnds`, `WriteEnds`, `RelayWriteEnds`,
  `ReadEnds`, and the fairness part of the refinements into `CommitteeFanout`):
  liveness under fairness and ENABLED are beyond the prover.
- `PreflightPredictsChain` and `ActiveSpaceIsSpared` of `Lifecycle`. They compare what a
  plan says of objects with what the chain makes of them: beyond the shape of the plans,
  which is proved (`EveryPlan`), each needs per command what every call of it does to
  the sizes, periods, coins and keys, and sums of space over all objects. That has not
  been done.
- `QuiltIsReadBack`: its inputs are a finite set, but the limits on symbols and index
  columns are constants, lowered for the run. A proof would need the position of every
  byte, which comes of products and remainders of rows, columns and symbol sizes, and
  the folds that lay out the patches; it has not been made.
- `PlansMatchMove` and `EventsAreReadByLayout`. The inputs of these two are finite
  sets that depend on no constant, so that TLC's check of them is the whole of what the
  model says.

## 8. Where the code and its documents disagree

- **ConfirmationShortfall.** `collect_confirmations` counts a confirmation's weight
  when it arrives and verifies signatures only afterwards. When the quorum that
  stopped the fan-out contains a bad signature, `QuorumNotReachedError` is raised
  although candidates were cancelled that had not been heard. The docstring says
  "Only a genuine quorum shortfall across the whole queried set raises"
  (`core/native_upload/confirm.py:261`).
- **NativeWriteReceipt.** `certify` reads the epoch and refetches the committee
  outside any try block; both raise RuntimeError, which `store_blob_native` does
  not convert, so a failed read after Tx1 surfaces as an exception. The change log
  says "a paid registration is never surfaced as an exception"
  (`src/CHANGELOG.md:48`).
- **NativeWriteSigner.** `store_blob_native` passes its `sender` to Tx1 and not to
  `certify`, whose Tx2 is then signed by the active address. With another sender the
  signer does not own the Blob, and the certification aborts. The docstring of
  `certify` says the sender "Must be the current owner of the Blob"
  (`core/native_upload/certify.py:126`).

### Further observations

No run is kept for these; each was met while modelling. The first five are in the model
as the code has them; the last three are so only in part, as each says.

- **Aborted transactions reported as done.** Most commands take an answer with
  `is_ok()` for success without reading the effects (`tusky_cmds_lifecycle.py:101`,
  `563`; `tusky_cmds_storage.py:795`, `887`), while the library calls
  `require_success` (`core/chain/effects.py:261`). The dry run in `build_and_sign`
  catches what is wrong before the submission; an epoch change in flight it cannot
  catch, so a deletion or an extension may be printed as done that was not. A burn
  does not depend on the epoch. `share_blob` does call `require_success`, but after it
  has printed "Shared" (`:705`, `:707`). `FalseReportsNeedEpochs` is the exact bound.
- **Decode.** `decode_blob` turns the codes of `_DECODE_FAILURE_CODES` into
  `BlobDecodeError` (`core/encoding/redstuff.py:129`); `sliver_size_mismatch` is not
  one of them and leaves as a bare `ValueError`, as its docstring says (`:786`).
  `reconstruct_blob` catches `BlobDecodeError` only
  (`core/native_read/reconstruct.py:240`), so when the decoder refuses the size of a
  sliver, nobody is indicted, no recovery round runs, and the read fails although
  enough good slivers are there. The change log says "Native blob reads now recover
  from a storage node serving unusable slivers, instead of one bad sliver failing the
  whole read" (`src/CHANGELOG.md:19`). `OneBadNodeIsSurvived` excepts exactly this;
  with `OneBadSliverIsSurvived` of `NativeRead` as an invariant TLC shows it. Whether
  the decoder refuses such a sliver or passes it over is the native library's choice,
  which is why no run is kept for it.
- **Indictment misses a node.** Slivers are deduplicated by content before they are
  verified, so a node that served the same bad sliver as another one is not
  indicted and is asked again, against the docstring of
  `_partition_by_verification` (`core/native_read/reconstruct.py:116`). With
  `BadNodesAreNotAskedAgain` of `NativeRead` as an invariant TLC shows it; the retry
  still survives one lying node (`OneBadNodeIsSurvived`).
- **Configuration.** `add_network` takes a network whose active relay is none of its
  relays (`config/tusk_config.py:491`); `remove_network` leaves `active_network` naming
  a network that is gone (`:532`), after which the properties that need it raise; a
  group or profile given to the constructor goes on winning after
  `set_active_network`, so that the pysui configuration need not be the active
  network's (`:396`); `update_relay` takes a URL that `RelayConfig` refuses when the
  file is loaded again (`:714`); the network named to the constructor is written out by
  any later operation that persists; the file is truncated before it is written. The
  properties of `TuskConfig` name these exceptions. A network added with one relay
  name twice is not modelled.
- **Registration.** "Tx1 did not land. Nothing was spent"
  (`core/pipelines/registration.py:113`) also covers an answer that was lost.
- **Status.** With no time left `wait_for` may cancel the fan-out before its first
  step, and nothing then awaits the node tasks that were created before it
  (`core/ops/blob_status.py:272`); `CommitteeFanout` begins after that step. The last
  tier of `resolve_blob_sui_objects` does not look at which blob the event's object is
  of, which is modelled; it is safe because a verdict is backed by an honest node.
- **Events.** The comment at `core/chain/events.py:264` says a reordering of fields
  would be logged; the length check sees only a change of the total size. An event
  with fields of one width exchanged is not among the inputs of `Tools`.
- **Duplicates.** `drop_blob_metadata --keys` and `fuse_storage --fuse-from` accept
  the same id twice, which passes the checks and aborts in Move; the commands of the
  run name distinct ones, so no run shows it. `validate_blob_metadata_exists` refuses
  metadata that is there and empty, which Move would remove; that is modelled.

## 9. What is not modelled, and why

- *The transport client, commands and types*: one call each, with the errors of a
  library turned into results. The modules take a failed call as an outcome of every
  await; there is no state to model.
- *`tusky`'s argument parsing, printing, and the commands that only call a pipeline
  or a query*: text in and text out, around functions that are modelled.
- *The native RedStuff library and BLS*: external; modelled by what their callers
  rely on. *BCS and JSON decoding of chain objects*, paging, quilt index and tag
  serialization: conversions without decisions, which tests cover with vectors.
- *Within the modelled parts*: progress logging and the heartbeat's text; stage
  timings; the byte layout of confirmation messages and of transactions; the cost
  figures in the effects and the sponsor's signature; the characters of a quilt
  identifier (`validate_quilt_identifier`) and the ceilings of its length fields; the
  length of a member's public key in `build_committee`; resuming a relay write from a
  receipt by hand and `execute_tip`. The number of polls of `wait_for_finality` is
  reduced to its two results. That a cancellation during the await of the cancelled
  heartbeat is swallowed is noted in the model and leaves no trace in the modelled
  state. A cancellation of the native read is not modelled: its fan-outs clean up as
  `CommitteeFanout` shows.
