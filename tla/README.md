# A TLA+ verification of HopNet

HopNet is a private mesh of nodes that replicate one database through BFT
consensus and store file contents as erasure-coded fragments spread over the
nodes. This directory models the parts of it whose correctness depends on
interleavings, crashes and delays. TLC checks the models on small instances;
TLAPS proves the most important facts for every instance.

All paths below are relative to the repository. `PROJECT.json` maps every
definition to the lines it models and lists runs, findings, hazards and theorems.

## 1. The system

### Parts and state

| Part | Code | State | Operations |
|---|---|---|---|
| Pending pool | `src/consensus/queue.rs` | queued and in-flight entries, notifiers, two wake permits | push, take, restage, mark in flight, settle |
| Engine driver, settler | `src/consensus/malachite/engine.rs` | a task each; decided watch channel | answer NeedValue, resume a paused height, settle a decided one |
| Consensus host | `hopnet-consensus/src/host.rs`, `shell.rs`, `store.rs` | WAL, decided chain, undecided blocks, stash, deferred height | start or defer, replay, receive, propose, decide, sync |
| Application | `src/consensus/malachite/app.rs`, `dispatch.rs` | the database | build, validate, apply a block |
| Quorum arithmetic | `common/src/quorum.rs`, `hopnet-consensus/src/membership.rs` | none | quorum, headroom, posture, ceiling |
| Membership | `src/consensus/handlers.rs`, `membership_guards.rs`, `evidence.rs`, `hopnet-consensus/src/validators.rs` | validators table, evidence per peer | activate, leave, vote out; scans |
| Blob lifecycle | `hopnet-storage/src/lifecycle.rs`, `store.rs`, `engine/`, `src/storage_host/jobs.rs` | handoff pair, inventory rows, files, local flags | declare, pull, attest, confirm, sweep, release, evict |
| Transaction path | `src/consensus/queue.rs`, `rpc.rs`, `malachite/app.rs`, `dispatch.rs` | channel, holdback, open forwards, committed nonces | submit, forward, poll, preflight, age check, cleanup |
| Regenesis | `src/regenesis/`, `src/main.rs` | phase of the epoch; database files, staging, lineage and markers on disk | start, abort, drain, seal; boot transition, join, rollback |
| Sync | `malachite/sync.rs`, `engine.rs` | one flag; target, cursor, strikes | ask a peer, feed, wait, give up |
| Uploads | `hopnet-projection/src/host.rs`, `hopnet-storage/src/api.rs`, `jobs.rs` | fragment files, ledger of holds | put, abandon, sweep orphans, purge |
| Photo ingress | `crates/ingress-core`, `crates/ingress-publisher` | photo and resource rows, markers, retry ledgers, spool | classify, fetch, publish pass, evict, hard delete |
| Admission, transfers | `hopnet-storage/src/admission.rs`, `engine/fetch.rs`, `serve.rs` | reservations, caps | reserve, fetch, serve |
| Projections | `hopnet-projection`, `hopnet-drive`, `hopnet-photos`, `hopnet-takeout` | tables of their own | transaction handlers, reads behind barriers |
| Clients | `hopnet-mount`, `frontend`, `apple`, `android` | local caches and queues | read, watch |

### How they interact

A submission enters the pool, which wakes the driver. The driver resumes a
deferred height and answers the engine's NeedValue with a batch. The host logs
and gossips the proposal; the engine's effects come back through the host, which
logs before it publishes, and a decide applies the block and publishes the
height. The settler then answers submitters. Membership and lifecycle
transactions travel the same way, and their handlers run on every node in block
order. Their validation by voters reads local evidence, so two honest voters may
disagree. The lifecycle's local jobs read a database that may be behind and
report the disk back as transactions that may be decided late.

A node that cannot propose forwards a submission to one that may and polls for its
result. A `regenesis_start` closes admission, the pools drain, and the block that
seals the epoch is the last: each node then crosses into the next epoch by
renaming database files at its next boot, and one that missed the seal joins from
what its peers staged for it. A node that lags feeds itself decided values. Uploads
put their fragments on disk before any transaction names them. The photo daemon is
a client: it submits transactions over HTTP and keeps its own record of what the
mesh was told.

### What is hard to get right

- a batch is in no vector of the pool while a proposal is being built;
- wake permits hold one wake-up each, and an idle mesh decides nothing;
- a crash can fall between any two effects of one engine input;
- the host may pause a height, and must not pause one it has voted in;
- guards evaluated on evidence that is stale when the block is decided;
- reports about a disk that are decided after the disk has changed;
- deletes decided on a lagging database;
- an epoch boundary made of a dozen file operations, with a death between any two;
- a submission that travels in several copies, with verdicts of several proposers;
- files that belong to no row yet, next to a sweep that deletes files without rows;
- an answer that is lost after the transaction it is about was decided.

## 2. Modules

| Module | Models | Run in | Proofs |
|---|---|---|---|
| `PendingPool` | pool, driver, settler, shell's decide | `MCWake`, `MCPendingPool` | `PendingPoolProofs` |
| `ConsensusHost` | host, shell, WAL, crash and replay | `MCConsensusHost` | `HostLogProofs`, `ConsensusHostProofs` |
| `QuorumPolicy` | the pure arithmetic | through `Membership`, `TxPath` | `MembershipProofs` |
| `Membership` | validator set, guards, scans, solo rule | `MCMembership`, `MCReclaim` | `MembershipProofs` |
| `BlobLifecycle` | one blob: handoff, inventory, disks | `MCBlobLifecycle` | `BlobLifecycleProofs` |
| `TxPath` | submissions over several nodes, up to the seal | `MCTxPath` | `TxPathProofs` |
| `Ledger` | what `TxPath` promises, abstractly | as a property of `MCTxPath` | `TxPathProofs` |
| `NonceWindow` | forgetting nonces, under skewed clocks | `MCTxPath` | `TxPathProofs` |
| `EpochBoot` | one node's files at an epoch boundary | `MCEpochBoot` | `EpochBootProofs` |
| `UploadLedger` | a node's uploads, holds, sweep and purge | `MCReclaim` | `UploadLedgerProofs` |
| `SyncLoop` | catching up from peers | `MCWake` | `PendingPoolProofs` |
| `PhotoPublish` | the photo daemon's publish queue | `MCReclaim` | `UploadLedgerProofs` |

`MC*.tla` give the constants for TLC. Several hold more than one instance: a behaviour
picks its scenario, part or budget in its first state and keeps it, so the instances
share a run and no state. A definition whose comment starts with "Mutant", or that
stands just before the definition it varies, is a plausible bug: replacing the original
by it makes TLC report a property violated.

### PendingPool

Each critical section is an action, so tasks interleave where the locks let
them. `pool` is one set of entries tagged with a place: `queued` and `inflight`
are the two vectors of `PendingPool`, the rest are local vectors of the driver
(`ticket`, `include`, `restage`) and of the settler (`repool`). `work` and `kick`
are the stored permits of the two `Notify`s. A push takes both locks of
`push` in turn: `PushInflight` looks for the nonce in flight, `PushQueued` joins
or appends. The driver lingers once before an empty pool, and then goes through take, pre-flight verdicts
(`Resolve`: include, reject, retry, give up), restage and mark; the settler
through in-flight, repool and queued, each of which may stop on a failed read.
`Decide(S)` commits any set of nonces, so a height may be decided by somebody
else's block.

Left out: order inside vectors (a proposal takes any nonempty batch) and transactions
the proposer adds. The moratorium and the forwarding half of `queue.rs` are in `TxPath`.

### ConsensusHost

The engine is external; it is modelled by its answers. One input gives a list
`fx` of effects that are executed one by one, and a crash or a failing effect may
come before each. `wal` and `chain` survive a crash, everything else is lost.
`Boot` starts or defers the next height, `Replay` feeds the rows back,
`ReplayDone` asks a proposer again for a value nothing was logged for. `todo`
holds what a handler does after its effects (ingest, drain the stash), so
that the inputs of one handler stay together. Messages for the height past the seal
arrive like any other; only the code's guards keep them out. Prevote and precommit take the same
path through the host and are one vote; a quorum of peers is one input, for the
value the protocol agrees on, since agreement between nodes is the engine's
business.

### Membership

`rows` is the validators table with its (height, node) key; a set is read as in
`validators.rs`, from the latest row of each node. Evidence is `contact` (live,
silent, dark) and `span` (how long a node has been bright, in the steps the guards
compare with); `boot` is the height at which a voter's evidence began. A block is
proposed, voted on by each validator after its own evaluation of the guards,
then decided or abandoned. A crash may come between a vote and the decide.

Simplified: all observers read the same evidence, at different times; probe timing,
catch-up tolerance and cooldowns are folded into the evidence values; ties between
candidates are broken arbitrarily.

### BlobLifecycle

A block makes a new `state[h]`; `at[n]` is the height node `n` has applied, so
`Db(n)` is what its jobs read. `desired` and `confirmed` are
`desired_placement_height` and `placement_height`; `inv` holds
`verified_height`, `Null` for a row without one and `NoRow` for no row. `disk` is
the files, `flag` the `stored_locally` marks. The sweep is three actions (height
and walk, flag repair, release and report), and so is the eviction (plan under one read
of the database, delete the files, clear the flags), because pulls, evictions and blocks
come between. The release, which the code runs inside the sweep's last part, is one step
with it; a crash may cut it, as it may cut an eviction. Submitted transactions wait in `txs`, are decided in any order, one
or two per block, or are lost. `held` is a history variable: the last height at
which a node had the file.

The model starts with the decided insert; uploads and orphan reaping are in
`UploadLedger`. Left out: deletes, scrubbing, pins, space pauses, batching across blobs, `suspect` rows (no
submitter sets them) and the legacy placement-commit transaction. A fetch reads
the disks, since a pull asks all peers.

### TxPath, Ledger and NonceWindow

`TxPath` has several nodes. `chain` is the decided blocks with the phase each leaves,
`applied[n]` how many of them node `n` has applied: everything a node decides, it decides
on that prefix. A submission is `held` at its home (channel or holdback), in a pool
(`staged`, `inflight`), in an open forward (`call`, from sent over acknowledged to a
verdict) or travelling `late` after its caller gave up. A proposer preflights its pool
in two steps: the transactions are taken out of the pool and their nonces read at one
prefix (`BuildSome`), and the dry run and its verdicts come at a later one (`Build`), since
blocks are applied in between. A rejection that a forwarder polls is likewise first believed
and then counted. Validators at the tip vote; the agreement itself is the engine's
and one proposal at a time. A `regenesis_start` closes admission when it is applied, and a
drained proposer proposes the seal. `Ledger` says the same with no nodes, pools or
messages: each transaction at most once, an epoch that is open, closing or sealed, one
answer per submission that is never changed and is "committed" only of what is in the
ledger. `TxPath` maps to it through the decided prefix and what clients know.

`NonceWindow` is about the table of committed nonces, which `TxPath` never forgets.
A proposer sweeps nonces older than an hour by its own clock, voters judge ages by theirs,
and a failed read of the table makes a proposer believe nothing was committed.

Simplified: a forward carries one transaction; apply and settle are one step here (their
races are in `PendingPool`); votes are counted when a block is decided; empty blocks are
bounded.

### EpochBoot

The state is the files: `db`, `next` and `old` are `database.db`, `.next` and
`.sealed`, each reduced to its epoch and the facts the boot reads; beside them the staging
directory, the lineage records, and the agreement, reconcile and rollback markers. The
boot transition is a process with a program counter and one action per rename, removal or
marker write; `Crash` may come before each, and so may a failed build, swap or walk. The
process then parks or starts the engine as `main.rs` does. The peers are one number, the
epoch they run in, which moves on or back; the operator installs another binary or asks
for a rollback at any time. The lineage is a set of records, written one at a time by a
join, so that a death in between leaves some of them.

Left out: the awaiting-upgrade marker, the seal's artifact file, verification of lineage
evidence, and the in-process join of a node without a database.

### UploadLedger

An upload is a future (`fut`), which the client may drop at any await, and a chunk task
that outlives it. The task goes through hook, record, recheck and write, two batches to a
chunk. `abandon`, `purge` and `sweep` are the three cleaners, each a list of files and a
program counter, because database and disk steps interleave. `holds` is the ledger that
keeps the sweep off files without rows; ages saturate at the limit the code compares them
with. A write that fails may leave the file on disk, as part of its batch. A transaction
that carries the rows may be decided late, be refused, or arrive with a joined inventory. `Timely` is the assumption behind the two limits: rows come, if
at all, before the retention or the purge age has passed.

Simplified: one file stands for a batch; the clock never steps back; ages run from the
ledger stamp, as in the code, not from the end of the put.

### SyncLoop

One sync at a time, admitted by `sync_inflight` and started by the driver on
SyncNeeded, by traffic from a peer that is ahead, or by the tip poll. The loop is the
code's: it stops at its target, in tip mode when every peer had nothing, and otherwise
when failures and empty answers together reach the number of peers; a chunk is asked for,
fed to the shell and waited for, and progress clears both counts. A peer is sound; faulty
(no answer, or certificates the engine refuses); garbled (a chunk that is malformed from
its first block on, too); or crossed into the next epoch. Left out: a shell that stops,
and the genesis fetch of `bootstrap_join`.

### PhotoPublish

One photo whose edited render the user changes, reverts, deletes and restores. `photo`
and `res` are the daemon's two tables, each fact beside its marker: `deleted` and
`tombstone`, `content` and `told`; `remote` is what the mesh has of it. A queue is a place where the two differ (`Publishable`,
`Propagatable`, `Editable`). A changed render is noticed by its size, as in `plan_changes`
(`classify.rs:156-166`): `Revise` reopens the row if it was resized, and otherwise the
re-edit is missed. A pass claims the photo, resolves, and runs its operations in
the order publish, restore, edit, delete (`Op` is the one whose turn it is); events for a claimed photo wait, but a scan's
deletion does not. A submission is decided in any order, dropped, or decided after its
answer was lost. `doubt` and `overtaken` are history: submissions nobody heard of again,
and whether the user then changed the photo on top of one.

Left out: adoption of another device's copy, metadata-only edits, permanent rejections,
library moves, failing fetches, several photos in one pass. The original's own row never
changes and is not there.

## 3. What is model-checked

| Run | Instance | Distinct states | Shows |
|---|---|---|---|
| `pool_wake` | pool: 2 submissions of one nonce with failing reads and builds, and 2 of two nonces with sound ones, 2 heights; sync: 2 peers, one of any conduct, 2 heights; fair | 457 k | no submitter lost or answered twice, Committed is true; staged work is answered unless stranded (finding 1); every sync ends, a lagging node catches up, a tip sync returns well only at the tip |
| `pool_lost_round` | the pool with sound reads | | finding 1 |
| `host_crash` | 3 on-demand heights, 1 crash, the second seals; 1 contended height of 2 rounds, 2 crashes | 994 k | no equivocation, WAL keys, blocks of decides, replayed decides, a proposer is asked again, early proposals, nothing after the seal |
| `membership_safety` | 3 validators, 3 heights, leaves, 1 crash, 1 lost contact; growth from 4 to 7 in 5 heights | 281 k | never empty, keys unique, no change stalls the mesh, the proven hold a quorum across the seam at 7 |
| `blob_handoff` | 2 nodes, 1 class moved from a to b, 6 heights, 1 fault | 712 k | true stamps, birth copies, no last copy deleted, goals forward, confirmations held |
| `blob_return` | the class moves away and back, no fault | | finding 2 |
| `epoch_boot` | 3 epochs, 2 versions, any number of deaths, fair | 549 k | the database survives, each crossing is by the right binary, no retired engine runs, lineage has no gap, rollbacks end, stragglers cross |
| `epoch_flags` | the same | | finding 3 |
| `tx_path` | 3 nodes and 5 budgets: dependent submissions, failed reads, an empty block, a closing epoch, an abort with a crash; the nonce table | 201 k | answers true where given, rejections only of what was not committed when the verdict was formed, the mesh implements `Ledger`, the moratorium drains, nothing is decided twice |
| `tx_starts` | two starts | | finding 4 |
| `tx_stale` | one submission, forwarded once | | finding 5 |
| `reclaim` | 1 upload of 2 batches, 1 fault, 1 restart; 4 validators, of which one goes dark, and a fifth node; 1 photo, 2 renders, 2 user events, 1 fault; fair | 232 k | own fragments kept, abandoned uploads hold nothing, rowless files go; a dark validator is voted out; settled photo queues agree with the mesh, no only copy is evicted, queues drain |

### Bounds

- **Pool.** Two heights let a batch miss its height and be retried; one extra
  submission of a nonce meets every place its twin can be in. The part with failing reads
  is for safety. `PoolWakes` speaks of sound reads, because with failing ones it is
  false: see the note on failed settles in section 5. `MaxRestages` is 1,
  which has a first, a last and a spent attempt.
- **Host.** Two crashes allow a crash during the recovery from a crash. Two rounds
  let the node owe a value in a later round. Three heights with a stash of one
  let a proposal arrive early and overflow, and the third, past the seal, shows that
  nothing is started, voted on or taken from a sync there. The two dimensions are two scenarios of
  one run.
- **Membership.** Seven nodes reach the seam at seven members, in batches. Three
  heights allow two transitions after the first; growth has five. `DarkIsRemoved` is
  checked with four validators, so that three hold the quorum, and a fifth node whose
  seating the posture allows also while one of the four is dark: it may take heights and
  seats before the removal. Only the validator the property names crashes.
- **Blob.** Six heights hold a complete handoff after a first confirmation: birth report,
  view, confirm and declare in one block, pull report, confirm; seven heights (1.6 M
  states) were explored apart from the run, with the same result. A node is at most one height
  behind (`MaxLag`). With one class and `K = 1` a rebuild from other classes never
  differs from a fetch. `MaxReports` bounds sweeps and pulls that move nothing;
  steps that change the system are bounded by the heights. `NoClassLost` is checked
  for views that do not return a class to a former holder; finding 2 is what happens
  when they do.
- **Transaction path.** Each budget names what a behaviour may do: two forwards of a
  transaction, so that an old request meets a retry; one crash, one lost round, one
  empty block. Each budget asks one question; all of them together in one behaviour
  are out of reach. With three nodes `MaxByzantine` is 0, so one rejection is final and
  the branch of `CountRejection` that asks a second proposer is not taken. `NonceWindow` counts in units of five minutes with the code's ages
  (proposal 45, limit 50, cleanup 60) and clocks at the edge of what the gap tolerates.
- **Epoch.** Three epochs, of which the third changes the version: a crossing without an
  upgrade, one with it, and a straggler two epochs behind, which may have sealed for or
  staged the second epoch when it is given the third one's binary. Three different
  versions (1.2 M states) were explored apart from the run, with the same result. Deaths
  are not bounded.
- **Uploads.** Two batches are one chunk: a first batch, a last one, and the gap
  between. The limits are 1, 2 and 3 ticks, which keeps their order.
- **Sync.** Two peers let one fail and the other serve; two heights with chunks of one
  make a sync of two rounds; the second peer is always sound.
- **Photo.** Two renders distinguish an edit from a re-edit. The photo may start
  published or deleted, so two events reach a restore of a deletion, a revert of an
  edit and a re-edit over a removal. Three events with two faults (691 k states) were
  explored apart from the run, with the same result. `RetryCap` is 1: one failure gives
  up.

`CHECK_DEADLOCK FALSE` is set everywhere but in `epoch_boot`: an idle mesh stops
(on-demand heights), and the bounds end every behaviour. A node at an epoch boundary can
always die or be restarted, so there deadlock is checked.

### Fairness

- `PendingPool`: weak fairness of each task, because each is a loop on the runtime
  that never blocks on another for ever; of publishing a decided height; and of
  deciding a height that has been started, which the engine's round timeouts give.
  No fairness of deciding while paused, and none of new submissions.
- `Membership`: weak fairness of observing peers, of the vote-out scan (cron), and of
  proposing, voting, abandoning and deciding, which the rounds of consensus
  give while a quorum is up. None of restarts, seatings, refusals or users. `MCReclaim`
  asks for less: only that these steps, taken together, do not all stop while one could be
  taken (`Removing`), which is enough here and quicker to check.
- `TxPath`: only in a moratorium, whose drain is the one thing the property waits for.
  Weak fairness of applying, deciding and losing a refused round; strong fairness of each
  node's building a proposal, because the proposer rotates. None of clients, forwards or
  requests.
- `EpochBoot`: weak fairness of the boot's next step, of the restart a supervisor makes
  and of the staging that a parked node does by itself. None of the operator. Deaths and
  moves of the peers may recur, so `RollbackEnds` and `StragglerCrosses` say what they
  assume to have stopped. The one exception of `StragglerCrosses`, `AwaitsVersion`, is a
  node that waits for the version it sealed for or staged.
- `UploadLedger`: weak fairness of the sweep, of time and of the spawned chunk and
  clean-up tasks. None of the client, the operator or the mesh.
- `SyncLoop`: weak fairness of the loop, each of whose waits has a timeout, of the
  shell, of the tip poll (a timer) and of traffic from sound peers.
- `PhotoPublish`: weak fairness of passes, fetches and scans (timers) and of the mesh's
  deciding what it was given. Failures and events are bounded and owe nothing.

`MCWake` and `MCReclaim`, which hold several parts, ask for a part's fairness only in
behaviours of that part and while it has something to make good: work that waits, a
validator that is down, a file without a row, a queue that is not drained. Where nothing is
owed, nothing need run.

## 4. What is proved

Every theorem holds for all constants that satisfy the named assumption of its
module (`PoolAssumption`, `HostAssumption`, `MembershipAssumption`, `LifecycleAssumption`,
`EpochAssumption`, `TxPathAssumption`, `UploadAssumption`, `SyncAssumption`,
`PhotoAssumption`): typing and nonemptiness, and,
for the pool, that a local submission's nonce is its own (each `submit` draws a fresh one);
for the host, that one value of each height is the agreed one (the engine's agreement) and
that "nil" and "none" are no values. `NonceWindow` assumes `WindowTolerated`: two nodes or
more, and clocks that differ by less than the gap between the age limit and the cleanup's
cutoff.

- **`PendingPoolProofs`**: `PoolTypeCorrect`, `SubmittersConserved`,
  `CommittedAnswersTrue`. The inductive invariant `IInv` adds that an entry's
  waiters all submitted its nonce (joining and repooling keep it) and that only
  pushed submissions are answered. The lemmas say what relabelling, joining and
  answering do to a set of entries; each action is one of those.
- **`PendingPoolProofs`**, the sync loop: `TipSyncReachesTip`, for any number of peers and
  heights. The code counts empty answers and compares the count with the number of peers;
  that this means every peer was asked is the invariant `SyncInv`. Peers are asked in
  turn, so the peers asked last are a run of indices modulo their number (`Lately`), and
  as many empty answers as there are peers come from all of them (`InTurn`). A height that
  a peer had when the sync began is still some peer's, and if that peer's answer was
  empty the node has the height (`Covered`).
- **`HostLogProofs`**, **`ConsensusHostProofs`**: `NeverEquivocates`, `NoEffectIsFatal`,
  `ProposerAlwaysAsked`, `SealEndsTheEpoch`, `EveryLoggedDecideHappens`,
  `ProposalsJudgedInTime`, all from one inductive invariant `HInv` (`LogDeterminesEngine`).
  Its core is that the rows of the open height determine the engine. `First` names the row
  that makes the vote of a round, and `EngOK` says that the engine's round, vote and values
  are the ones the rows lead to. `Full` is the log with the rows that still wait in the
  effects: a running engine has followed `Full`, a replaying one the rows before `walSeq -
  Len(replay)`. What is published is bound to the log alone (`VotesOK`, `PropsOK`), because
  the log is what a crash leaves: it leaves a beginning of `Full`, and a beginning has the
  same first voting row (`FirstPrefix`). Rows never change a vote that was made before them
  (`FirstBehind`), and `FxOK` puts an append before every publish of it. `Phase` has the five
  things a host can be doing (stopped, replaying, running, closed, waiting) with what is
  dense, deferred and asked in each. The first module has the invariant and the steps that
  move the log and the process; the second has the inputs and the theorems.
- **`MembershipProofs`**, arithmetic: `QuorumIsLeast`, `QuorumsIntersect`, `QuorumSlope`,
  `GainingBatchExists`, `CeilingKeepsProvenQuorum`, `PostureKeepsTolerance`, for
  every set size and profile, by cases on the profile and its seam.
- **`MembershipProofs`**, the set: `SetFloor`, `TableKeys`. `IInv` is that every row is
  stamped below the decided height, so that a new row is the latest of its node, that a
  proposed block is solo and objectively valid in the state it is applied to, and
  the two properties. Both the floor and the keys need the solo rule: without it TLC finds
  a counterexample. `ProvenQuorumKept` adds `GInv`: while nothing has gone wrong all
  evidence is as old as the mesh (`Bright`), and the rules that the voters of a seating
  checked still hold when it is decided (`Judged`), as proven members only become more; the
  ceiling then gives the quorum of the larger set. `TransitionsKeepQuorum` adds `Vouched`,
  what each kind of block has had vouched for by voters that are up.
- **`BlobLifecycleProofs`**: `TrueStamps`, `ForwardGoals`, `HeldConfirmations`,
  `OriginKeepsBirthCopies`.
  A stamp passes through three places: a sweep's listing, a submitted attestation,
  an inventory row. `IInv` says the claim is true in each (`ClaimsOK`, `RowsTrue`)
  and the pair is ordered (`PairOrdered`). Since `held` only grows (`HeldGrows`), a
  true claim stays true while it waits, and a stamp capped at the deciding height
  stays below it. For the birth copies, `BirthInv` says that before the first confirmation
  no state that a lagging node may read has a confirmed view, so that no node finds surplus
  and no eviction that is under way has anything planned.
- **`EpochBootProofs`**: `DatabaseNeverLost`, `EngineStartsWhole`,
  `EveryBuildByItsVersion`, `RetiredEngineNeverRuns`, `LineageComplete` and the types, for
  any number of epochs and any assignment of versions. `IInv` says for each place of the
  boot's program counter what the files hold: when the database is away (`Away`), what
  the build is of (`Built`), how far the lineage reaches (`Lineage`), that flags which are
  not whole are announced by the marker (`Flags`), and that a rollback request goes first
  (`Requested`). A death changes the counter only, so `IInv` is what the next boot finds.
- **`TxPathProofs`**: `CommittedHere`, `RejectionsOvertaken`,
  `MeshImplementsLedger`. `TxPathInv` is `Shape` (types), `OnTheTip` (the proposal
  that stands was built on the tip: it is disjoint from what the chain decided, and its
  start, abort or seal fits the tip's phase), `BuildBegan` and `BelievedSoundly` (what a
  preflight or a polled rejection knew when it began, as long as reads succeed) and
  `CommittedIsAppliedHere`.
  The refinement shows that `Init` maps to the ledger's and that each of `TxPath`'s
  actions maps to `Decide`, `Seal`, `Tell` or a stutter: only a decided round touches the
  ledger, and only steps that answer a client touch `told`.
- **`TxPathProofs`**, the nonce table: `WindowDecidesOnce`. `WindowInv` says that a transaction
  decided once is in the table or too old for every voter, that what anyone besides its
  proposer voted for was never decided, and how far a cutoff lies behind its proposer.
  The second voter is needed: see the note on single nodes.
- **`UploadLedgerProofs`**: `OwnUploadsKept`. `UploadInv` adds to the types and the
  property which phases of future, task and transaction go together (`Phases`), that rows
  come all at once (`WholeRows`), and that a file whose rows may still come is on disk,
  and held until then (`Kept`).
- **`UploadLedgerProofs`**, abandoned uploads: `AbandonedUploadsReleased`. `AbandonInv` follows a dropped
  upload through the two races of clean-up and chunk task: whatever the task records
  after the release, its recheck takes back. Where no write has failed, what
  is on disk is what the task counts as done (`Written`).
- **`UploadLedgerProofs`**, the photo queue: `SettledQueuesAgree`, `EvictedBytesHeld`, for
  any number of renders, open submissions, user events and failures. `PhotoInv` has two
  halves. `Local` is what the daemon's own tables keep whatever the mesh does: the rows fit
  the photo (`RowsFit`), current bytes that left the spool were told (`Spooled`), the rows
  still ask for what a pass is about to do (`PassFits`), they are as they were sent while
  it waits (`Awaited`), and each submission's premise holds (`Founded`). The other
  half is claimed until `overtaken`: each submission that is undecided or in doubt carries
  what the photo still is (`Current`, `Doubtful`, `Lapsed`), so that a late decision can only
  bring the mesh nearer, and each marker is then true of the mesh (`TruthOfAdd`,
  `TruthOfTombstone`, `TruthOfBytes`).

The type invariants are parts of these proofs and not of a run.

Only model-checked:

- liveness (`PoolWakes`, `DarkIsRemoved`, `DrainEnds`, `RowlessReclaimed`,
  `RollbackEnds`, `StragglerCrosses`, `SyncEnds`, `CatchesUp`, `QueuesDrain`), which with
  `ENABLED` is outside this prover;
- `NoClassLost`, which does not hold for every sequence of views: finding 2 is a
  counterexample. The run has views that do not return a class.

What a recursive definition computes for every input cannot be proved here either; no
module uses one.

## 5. Where code and documentation disagree

1. **A batch can be stranded** (`pool_lost_round`). `mark_inflight`
   (`src/consensus/queue.rs:342`) may run after its height was decided and settled.
   The entry then waits in flight at a passed height until an unrelated transaction
   decides another one. `queue.rs:389` says entries whose height has passed go back
   to staging. `PoolWakes` shows this is the only way work is left waiting.
2. **A stale row can cost a class** (`blob_return`). A holder evicts
   surplus; its row stays recent. The view returns the class to it, the
   goal is confirmed on that row, and the other holder evicts the last copy. There
   is no fault and every report was true. `block-lifecycle.md:256` says such a loss
   traces to a fault. It concerns one class; a blob lives while any K survive. The
   return must come within the recency window and before a sweep's removal is decided.
3. **An engine can start on partial flags** (`epoch_flags`). A staged join that dies
   between its second rename and `write_agreed_version` (`boot.rs:1103`) is parked as
   version-ahead by the next boot, which skips the walk of the store; `main.rs` starts the
   engine all the same. `boot.rs:60` and `:402` say the walk comes first, `main.rs:352`
   that the engine will not start. `HealthyEngineWhole` shows that no boot that
   does not park has this problem.
4. **Two starts in one block** (`tx_starts`). `regenesis_start` is neither a solo
   transaction nor written by its dry run (`regenesis/handlers.rs:95`), so two of them pass
   every check together, and the decided block then fails to apply on every node, at each
   restart. `db/regenesis.rs:64` says the phase rule guarantees that no row exists;
   `handlers.rs:170` has the general rule that apply "must NEVER fail on it, because decided
   is decided". Two aborts do the same.
5. **A committed transaction can be reported rejected** (`tx_stale`). `build_value` reads
   the committed nonces before it takes the write gate (`app.rs:588`, `:665`). A copy that
   was forwarded earlier may commit in between; the handler then refuses the second copy,
   and its submitter is told "rejected". `app.rs:585` says committed transactions are
   "DONE, not rejected", `queue.rs:1144` that a committed transaction cannot be rejected.
   A failed read of the table does the same. `RejectionOvertaken` shows there is no other
   way.

Read in the code while modelling, or met by TLC on an instance that is not kept as a run:

*Pool and host*
- A re-forward that arrives between take and mark enters the pool as a second
  entry, though `queue.rs:257` calls the pool nonce-unique. `Conservation` holds.
- A settle whose first read of nonces fails returns without re-arming the wake, so work
  that waits can stay where it is until something else wakes the driver. `NoLostWake`
  fails with `DbFaults`; the run checks it with sound reads (`PoolWakes`).
- While the next height is deferred the engine still reports the decided one, so a
  late proposal for it is validated and kept (`host.rs:468`), and a sync value for it
  passes the guard of `on_sync_value` (`host.rs:641`).
- In eager mode the stash is not drained after decides that come from propose, a
  timeout or a sync value; it waits for the next message.
- The height in a `ConsensusResult` is not always an upper bound of the committing
  one (`queue.rs:54`).

*Membership*
- Rows of block h are stamped h - 1, so a member seated by the block after a voter's boot
  passes "seated since before my evidence began" (`membership_guards.rs:115`, `:134`;
  `validator-membership.md:361`).

*Transaction path*
- A proposal that loses its round in the moratorium leaves its entries in flight until
  the height decides. Its proposer then proposes nothing and refuses the seal, so where
  its vote is needed (two nodes, or two such proposers) the drain does not end, though
  `docs/specs/regenesis.md:146` says the pool is finite and the drain terminates. An
  abort or a restart frees it. `DrainEnds` therefore speaks of meshes that have lost no
  round.
- The drain looks at the pool, not at the channel or the holdback, and one dissenting
  vote is no veto: work accepted at a minority node can be lost at the seal.
- With up to three nodes one rejection is final (`queue.rs:1264`). A proposer that is
  behind can reject a transaction of which another copy commits later.
- In a mesh of one node a failed read of the nonce table can commit a transaction twice;
  there is no voter to object.

*Epoch boundary*
- A node that sealed for, or staged, an epoch with another version than the one it runs
  parks as awaiting an upgrade (`boot.rs:609`, `:921`), and only a failed gate arms the
  join of a parked node (`main.rs:354`, `:623`). It stays there although its peers have
  moved on to the version it does run, until the operator runs the staged epoch's version;
  `docs/specs/regenesis.md:337-340` has such a node join. A join that finds a complete
  manifest looks no further, so a leftover of an epoch the node has already reached holds
  up the next join too, until a restart clears it. This is `AwaitsVersion`.
- A node that seals and dies before the seal's work crosses without writing the artifact;
  `seal.rs:3-5` says it is recomputed on wake.
- A rollback can restore a retained database with partial flags, which is why
  `HealthyEngineWhole` excludes `restored`; it does not clear the dissent marker; and
  since `boot.rs:762` looks for the retained file after renaming it back, a rollback to a
  database that was never sealed does not rewrite the agreement.
- The in-process join of a fresh node commits its import before the lineage records; a
  death in between leaves a database whose next boot panics.

*Uploads and admission*
- The last batch of a detached task may be left on disk without a hold until the sweep.
- Two ingests can pass admission on one reading of the free space, and a reservation is
  dropped before the detached task ends.

*Sync*
- A chunk that is malformed from its first block on counts as progress, so a sync with
  such a peer need not end, though `sync.rs:82-84` says the peer is skipped for the
  remainder. `SyncEnds` excepts it.
- An unreadable peer list makes a tip sync return well with nothing asked.

*Photo ingress*
- `photo_restore` errs on a photo that is not deleted (`hopnet-photos/src/db/photos.rs:200`),
  so a restore retried after a lost answer is refused for ever; `flow.rs:172-175` calls both
  directions idempotent. This is `StuckRestore`.
- A deletion that was in doubt, was undone by the user and is decided after all leaves a
  photo deleted in the mesh that the daemon takes for present: it owes no restore, and an
  edit of it is refused for ever. This is `StuckEdit`.
- A row reopened by a re-edit and then reverted stays unwritten as a removal marker: the
  photo never counts as materialized again and the removal is never sent. This is
  `StuckRemoval`.
- A re-edit while a removal marker is there collides with the table's primary key; the
  change fails as a whole and a later scan delivers it again.
- A re-edit that keeps the size in bytes is not noticed (`classify.rs:156-166`).
- What the user does while a submission is in doubt can leave mesh and daemon apart for
  good: an edit under a publish that is later found by the probe is stamped as told; a
  photo deleted under an unanswered publish is forgotten locally and stays in the mesh; a
  deletion undone, or an edit changed back, while its transaction is in doubt is never
  corrected. `overtaken` excepts these from `SettledIsAgreed`, and by
  `SettledQueuesAgree` there are no others. In the first case the new bytes are then
  evicted although the mesh never got them; `blobs.rs:191-192` says "the bytes stay until
  the mesh has them". `EvictedIsHeld` excepts this too, in its last clause only: bytes that
  a queue still has to send are kept in any case. `QueuesDrain` excepts no overtaken photo
  but the ones in `StuckEdit` and in the two states above.

## 6. Not modelled

Pure functions over real data (placement ranking, Reed-Solomon, ciphers), file and
network I/O, HTTP routes, the user interfaces, the FUSE client and the test harness
have no protocol state of their own or depend on external systems; the `components`
of `PROJECT.json` give the reason for each. Projection handlers are sequential
once a block is decided. Liveness evidence is a matter of real time, which `Membership`
replaces by any outcome that probes can give. Storage admission has one counter, checked
against a reading of the file system that every process on the machine moves, so what it
promises cannot be stated over its own state.

## 7. What could follow

- `Evidence` with time, refined to the three values `Membership` uses.
- `PhotoPublish` further: adoption, metadata-only edits, library moves.
- `BlobLifecycle` with two classes and `K = 2`, and liveness of a handoff once views settle.
- A condition on views under which `NoClassLost` holds for every instance, and its proof.
