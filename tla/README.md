# TLA+ models of the Meter consensus core, staking, rewards and pruner

This directory holds TLA+ models of the consensus core of this repository
(`src/consensus/`), of the staking bookkeeping of the meter tracker
(`src/builtin/metertracker/meter_tracker_staking.go`), of the validator
reward split (`src/consensus/validator_reward.go`) and of the state
pruner (`src/trie/pruner.go`), together with the TLC configurations that
check them.
Every definition is translated from the Go source. `PROJECT.json` maps each
definition to the lines it models.

## The system

The consensus core is a HotStuff-style pacemaker. Every committee member
runs it on a single main loop (`Pacemaker.mainLoop`, `pacemaker.go`).

* **Pacemaker** (`pacemaker.go`). The loop selects among five channels:
  * EpochEnd;
  * commands (Regulate);
  * round timeouts;
  * beats;
  * incoming messages.

  Each choice runs one handler to completion:
  * `OnBeat` → `OnPropose` → `CreateLeaf`;
  * `OnReceiveProposal` → `Update` → `OnCommit`;
  * `OnReceiveVote`;
  * `OnReceiveTimeout`;
  * `OnRoundTimeout`.

  Their shared state is in the `Pacemaker` struct:
  * `currentRound`, `lastVotingHeight`, `lastVoteMsg`;
  * `QCHigh`, `blockLocked`, `TCHigh`, `lastOnBeatRound`;
  * the round timer and `timeoutCounter`;
  * the proposal map (DraftSpace);
  * the QC and TC vote managers.
* **Vote managers**. `qc_vote_manager.go` contains a `QCVoteManager`:
  * `AddVote` returns a QC;
  * `Aggregate` builds the QC.

  `pacemaker.go` calls a different API. Its `AddVote` takes six arguments and
  returns a bool, and there is also a `TCVoteManager`. Neither that API nor
  the TC manager is under `src/`. The models therefore treat them as two
  components:
  * the file's `QCVoteManager` is modelled exactly;
  * the managers the pacemaker uses are modelled from spec 4.2.
* **DraftSpace / ProposalMap**, **IncomingQueue**, **BlockExecutor** and
  **ChainStore**. These are not under `src/`. The pacemaker reaches them
  through a few calls (`GetOne`, `GetOneByEscortQC`, `ValidateProposal`,
  `commitBlock`), which are modelled from the spec.
* **OutgoingQueue** (`outgoing_queue.go`). `sendMsg` puts signed messages
  into this buffered channel. `WORKER_CONCURRENCY` workers post them to
  peers. `Start` closes the channel when the context is cancelled.
* **EpochController** (`pacemaker.go`). This is `Regulate`,
  `scheduleRegulate`, the EpochEnd and command branches of `mainLoop`, and
  `SendEpochEndInfo`, which `OnCommit` calls for a K-block. It is meant to
  restart the pacemaker for the next committee when a K-block commits.
* **Meter tracker staking** (`meter_tracker_staking.go`). This is
  independent of the consensus core. Each transaction clause runs one
  method: open, close, deposit into, withdraw from, merge or transfer
  between buckets, or move a bucket to another candidate. Each method
  updates three things:
  * the owner's free and bounded MTRG balance;
  * the global bucket list;
  * the candidates' bucket lists and vote totals.
* **Validator rewards** (`validator_reward.go`). When the K-block is
  proposed, `GetValidatorRewards(totalReward, delegates)` splits the reward.
  Every delegate first gets the base reward. If the total exceeds the base
  rewards, the rest is shared in proportion to voting power. The delegate
  takes its commission and its own share, and its distributors take theirs.
  Every amount is then split into a distributed part and an auto-bid part.
* **Trie pruner** (`pruner.go`). This is an offline tool: nothing under
  `src/` calls it. A Bloom filter of visited node hashes is seeded with the
  genesis and snapshot state tries. `Prune` walks an older block's trie and
  batches the nodes the filter has not seen, and `Scan` and `ScanIndexTrie`
  only mark nodes. All three use a custom iterator, `pruneIterator`, that
  skips marked children and marks every child it enters.

How the parts interact:
* Proposals, votes and timeouts leave a member through the OutgoingQueue.
* They arrive at the other members' main loops in any order, possibly
  twice, or not at all.
* A vote goes to the proposer of the next round, and a timeout goes to the
  proposer of the wished round.
* Timers and scheduled beats are `time.AfterFunc` goroutines. They post into
  the loop's channels, and a value already posted stays there after the
  timer is stopped.

## Modules

| module | models | state | actions |
|---|---|---|---|
| `QCVoteManager` | `qc_vote_manager.go` | `votes` (key → index → hash), `sealed`, the history `qcs` of returned QCs | `AddVote`, `Aggregate` |
| `Pacemaker` | `pacemaker.go` handlers for one epoch, N members | `rep[p]`: the `Pacemaker` struct of member p plus its drafts, chain store, vote managers and pending channel values; `msgs`: every message sent | `OnBeat`, `OnReceiveProposal`, `OnReceiveVote`, `OnReceiveTimeout`, `RoundTimerFires`, `OnRoundTimeout` |
| `OutgoingQueue` | `outgoing_queue.go` | the channel contents, `closed`, each producer's position in `Add`, each worker's position in its range loop | `AddBegin`, `FullCheck`, `DropHead`, `Enqueue`, `Close`, `WorkerRecv`, `WorkerPost` |
| `MeterTrackerStaking` | `meter_tracker_staking.go` | `balance`, `bounded` per address; `bkt` (every bucket by ID), `listed` (the bucket list); `candBuckets`, `candVotes` | `BucketOpen`, `BucketClose`, `BucketDeposit`, `BucketWithdraw`, `BucketUpdateCandidate`, `BucketMerge`, `BucketTransferFund` (one per method; a failing method is a stutter step) |
| `StakingLedger` | the promise of the staking methods about balances | `balance`, `bounded` | `Bind`, `Unbind`, `Hand` |
| `ValidatorReward` | `validator_reward.go` | the call's inputs (`total`, `delegates`, `fromFile`), its two result lists, `done`, `panicked` | `GetValidatorRewards` (one step; `CalcValidatorRewards` and its two branches are operators folded over the delegate list) |
| `EpochController` | the epoch plumbing of `pacemaker.go` | the loop's position (`pc`: top, select, blocked in the EpochEnd send), `cmdCh` as a count, `epochEndCh`, the best, committed and QCHigh heights, the reactor's `lastKBlockHeight` and `curNonce`, and `awaiting` (EpochEnds accepted but not followed by Regulate) | `Regulate`, `LoopTop`, `RecvEpochEnd`, `RecvCmd`, `Handle` (a QC forms; `OnCommit`), `SendEpochEndInfo`, `Sync` |
| `Pruner` | `pruner.go` | `bloom`, the saved bloom file, the delete `batch`, the stored index-root entries and block hashes | `NewPruner`, `InitForStatePruning`, `Prune`, `Scan`, `ScanIndexTrie`, `PruneIndexTrie`; the iterator is the recursive operators `Walk`, `Below`, `ChildStep` |

Each of these except `EpochController` and `StakingLedger` has an `MC` module that gives the constants values for TLC; `EpochController` takes plain numbers from its cfg, and `StakingLedger` is checked through `MeterTrackerStaking`.

### Abstractions in Pacemaker

* **Blocks.** A block is the sequence of the rounds of its ancestors and
  itself. Its parent is `Front`, its height is `Len` and its round is `Last`.
  A QC is named by the block it certifies. Every block `CreateLeaf` builds
  extends the node of its justify QC, so `b'.Parent = b` always holds and
  the block carries the QC of its parent.
* **Messages.** A message is never removed from `msgs`, so a message may be
  delivered late, twice, or never. This also covers the re-enqueue of a
  proposal whose parent is missing.
* **Time.** Durations are abstract. A timer fires at any moment after it is
  armed, and a scheduled beat arrives at any moment. `RoundTimerFires`
  models the `AfterFunc` callback. Its value stays in `timeouts` even if
  the timer is later reset.
* **Nil pointers.**
  * `nilJustify` records drafts built on a QCHigh whose `QCNode` is nil.
  * `qcHighNode` records whether `QCHigh.QCNode` is nil.
  * A nil dereference sets `crashed`: the main loop panics.
* **Vote managers.** The managers the pacemaker uses count distinct signers
  per key and seal at two thirds.
* **Committed.** A block is committed when it is in the member's chain
  store. `commitBlock` fails for a block whose parent is not there.
* **Validation.** `ValidateProposal` succeeds, or, for a proposal whose
  round is in `ExecFailRounds`, may fail.
* **Members.** `Active` is the set of members whose main loop runs. The
  others are down (crash faults), but they still count in N.

### Abstractions in EpochController

* **Heights stand for blocks**, and a K-block's PoW nonce is its height.
  `KHeights` names the K-block heights.
* **The other select branches** (beats, timeouts, messages) are one step,
  `Handle`: QCHigh rises by one and the block below it goes to
  `OnCommit`; the two-chain rule of `Update` that `Pacemaker` models in
  full commits the block at `q - 1` when a QC forms at `q`.
  `OnCommit` ignores `ErrBlockExist`, so a K-block that block sync already
  stored still produces an EpochEndInfo; `Handle` therefore commits relative
  to the pacemaker's own `committed` height, not the best block.
* **`scheduleRegulate`** drains `cmdCh` and sends one command; only the main
  loop touches `cmdCh`, so the net effect is `cmdCh' = 1`.
* **Outside `src/`.** `PrepareEnvForPacemaker` (the reactor's
  `lastKBlockHeight` and `curNonce`) and the capacity of `EpochEndCh` are
  modelled from spec section 6.
* **Regulate** is the reactor's call that starts the loop. No code under
  `src/` calls it again, so it is enabled only before the loop starts.

### Abstractions in MeterTrackerStaking

* **Amounts** are small integers, and `MinBound` stands for
  `MIN_BOUND_BALANCE`. A bucket ID is the smallest unused number: the real
  ID is a hash of fresh fields and a nonce, so it is never reused.
* **Time.** Timestamps and lock times are left out, because no method
  reads `MatureTime`.
* **Types outside `src/`.** `meter.Bucket` and `meter.Candidate` are not
  under `src/`. `NewBucket` sets TotalVotes equal to the value.
  `AddBucket`/`RemoveBucket` add or remove the ID and its TotalVotes, as the
  commented-out lines next to their calls say.
* **Initial state.** The chain starts with no bucket, or with one genesis
  bucket that carries bonus votes and may be forever-locked. Bonus votes
  only come from genesis and governing, which is not modelled.
* **Aliasing.** `BucketMerge` and `BucketTransferFund` with the same ID
  twice make `fromBkt` and `toBkt` one Go object. The model applies the
  writes in order, so later reads see the earlier writes.

### Abstractions in ValidatorReward

* **Amounts** are small integers. `Unit` = 10 stands for the 1e09 unit of
  `Commission` and `Shares`, so 0%, 50% and 100% keep their rounding.
  Autobid stays a percentage. `big.Int.Div` with a positive divisor is
  floor division, which is TLA+ `\div`.
* **Inputs.** The delegate list is non-empty, and every voting power is
  positive, because `GetInternalDelegateList` keeps only delegates that meet
  `MinimumRequirements` (300 MTRG, divided by 1e12). The state read of
  `KeyValidatorBaseReward` is the constant `BaseReward`. The total reward
  is an input; `calcKblockValidatorRewards` is not modelled.
* **The map.** `RewardInfoMap` is a function from address to its two sums.
  Go's map iteration order does not matter here, because only sums and the
  non-zero entries are read.
* **A panic** sets `panicked`: the call does not return.

### Abstractions in Pruner

* **Tries** are graphs of node hashes. `Kids[n]` lists the hash children in
  child order, and `StorageOf[n]` is the storage root of the account in the
  leaf under `n`. Embedded nodes are folded into their parent.
* **The Bloom filter** is a set. A false positive only makes the pruner
  skip a node, so it can never cause a deletion.
* **The batch** is never written. The caller owns it, and the model shows
  what it would delete. The LRU node cache is left out for the same reason:
  every node stays loadable.
* **The caller plan** is inferred, since no caller is under `src/`:
  * `InitForStatePruning` comes first;
  * blocks before the snapshot are pruned (`Prune`, `PruneIndexTrie`);
  * the snapshot and later blocks are scanned (`Scan`, `ScanIndexTrie`);
  * `NewPruner` models a restart of the tool.

## Runs

| run | cfg | expect | what it shows |
|---|---|---|---|
| qcvm_quorum | `MCQCVoteManagerQuorum.cfg` | violation | `voteCount := len(m.votes)` counts keys, so a QC forms with one voter. |
| pm_safety | `MCPacemaker.cfg` | pass | Three of four members run, round-0 timers fire, and round-0 proposals may fail validation. Every block a member commits has a QC, and so does a child of it: `Update` commits only behind a two-chain. |
| pm_round | `MCPacemakerRound.cfg` | violation | `currentRound` goes backward through `enterRound`. |
| pm_panic | `MCPacemakerPanic.cfg` | violation | A Timeout's QCHigh for an unknown block leads to a nil dereference in `UpdateQCHigh`. |
| pm_lock | `MCPacemakerLock.cfg` | violation | `blockLocked` moves to a lower block (spec S4). |
| oq_fair | `MCOutgoingQueue.cfg` | pass | With the main loop as the only caller of `Add`, two workers and shutdown, under fair scheduling every parcel leaves the channel (posted, lost or dropped) unless a goroutine panicked. |
| oq_stuck | `MCOutgoingQueueStuck.cfg` | violation | A lone `Add` blocks forever in the drop loop. |
| mts_safety | `MCMeterTrackerStaking.cfg` | pass | Over every sequence of staking calls, self-merges and self-transfers included, the balances implement `StakingLedger` (see Refinement below), a listed bucket's value is backed by bounded balance, and no bucket's votes fall below its value. |
| mts_bounded | `MCMeterTrackerStakingBounded.cfg` | violation | `BucketUpdateCandidate` drops the moved bucket from the bucket list, stranding its bounded MTRG. |
| pr_reclaim | `MCPrunerReclaim.cfg` | violation | `Prune` batches only trie roots and storage roots; the rest of a pruned block's garbage stays. |
| ec_regulate | `EpochControllerRegulate.cfg` | violation | After the loop accepts a K-block's EpochEnd, Regulate never runs: the command branch only re-schedules the command. |
| vr_panic | `MCValidatorRewardPanic.cfg` | violation | A delegate with no self distributor makes `GetValidatorRewards` panic once the total exceeds the base rewards (the function has no caller under `src/`). |

`QCVoteManager` has no passing run. Its violation run shows that its
quorum count is wrong, so there is little left to prove about it. The
module also keeps the hash choice of `Aggregate` (the hash of the vote the
map iteration visits last, `qc_vote_manager.go:88-91`), which lets one
Byzantine vote with another hash become the QC's `VoterMsgHash`; no run
checks it at present.

## Refinement

`StakingLedger` states what the staking methods promise about MTRG
balances, with buckets and candidates hidden. An address's MTRG is free or
bounded, and a step does one of three things:
* `Bind` moves free MTRG of one address to its bounded balance;
* `Unbind` moves it back;
* `Hand` moves bounded MTRG from one address to another.

No step takes more than the address holds. `MeterTrackerStaking` maps
`balance` and `bounded` onto the ledger's variables
(`Ledger == INSTANCE StakingLedger WITH ...`). `mts_safety` checks
`LedgerSpec == Ledger!Spec` as a PROPERTY:
* `BucketOpen` and `BucketDeposit` are `Bind` steps;
* `BucketWithdraw` to another address is a `Hand` step;
* `BucketWithdraw` to the owner itself, and every other method, leave the
  balances alone.

A `BucketWithdraw` that read the recipient's bounded balance before writing
the owner's would turn a self-withdrawal into new MTRG; no ledger step
allows that. `Unbind` is never used: no method under `src/` unbinds
(`UnboundMeterGov` binds, see below).

### The violations in detail

1. **QC without quorum** (`qc_vote_manager.go:60`). With three keys holding
   one vote each, the third `AddVote` seals its key. It returns a QC with a
   single signer.
2. **EpochEnd never regulates** (`pacemaker.go:606-616`). The failing
   trace: the reactor's Regulate starts the loop at height 1. QCs form at
   heights 2 and 3, and the proposal carrying the second commits the K-block
   at height 2, so the loop sends its EpochEndInfo. The loop accepts the EpochEnd (its nonce differs from
   `curNonce`) and schedules Regulate. From then on the loop alternates
   between its top, which finds nothing to do (line 603), and the command
   branch, which receives the command and calls `scheduleRegulate` again
   (line 615). `Regulate` itself is never called, so the pacemaker
   never moves to the next committee (spec 6).
3. **Round regression** (`pacemaker.go:694-734`). The failing trace:
   * Member 0 is the proposer of round 0. On its BeatOnInit it arms the
     timer and proposes block `<<0>>`.
   * The timer fires, and `OnRoundTimeout(0)` moves the member to round 1.
   * The member's own proposal, looped back through the message bus, then
     arrives. It passes the voting rule (height 1 > lastVotingHeight 0), and
     `enterRound(0, UpdateOnRegularProposal)` sets `currentRound` back to 0.

   A stale value in `roundTimeoutCh` reaches the same `enterRound` branch in
   the same way.
4. **Panic** (`pacemaker.go:416`, `:500`). The failing trace runs as
   follows:
   * Member 2 never receives the proposal `<<0>>` of round 0.
   * Members 0, 1 and 3 vote for it, and member 1, the proposer of round 1,
     forms the QC and proposes `<<0, 1>>`.
   * Member 1 times out in round 1 and sends its Timeout, which carries
     that QC, to member 2, the proposer of round 2.
   * Member 2 does not know `<<0>>`, so it installs a QCHigh with a nil
     node. The same Timeout arrives again; its `UpdateQCHigh` with a QC of
     equal height reads `QCHigh.QCNode.Height` and panics.
5. **Lock not committed / lock regression** (`pacemaker.go:164`, `:180`).
   The proposer of round 0 fails to validate its own block, so its
   `OnCommit` skips it. `Update` still locks it. A redelivered proposal of
   height 2 runs `Update` again. Because the block is not `Committed`,
   `blockLocked` becomes genesis again.
6. **OutgoingQueue** (`outgoing_queue.go:53-57`). The length check, the
   drop receive and the send are three separate channel operations. When
   the workers empty the channel between the check and the receive, `Add`
   blocks in `<-q.queue`. With the main loop as the only sender, nobody
   wakes it.
7. **Stranded bucket** (`meter_tracker_staking.go:305`). The failing trace
   starts from the genesis bucket. `BucketUpdateCandidate` re-targets it,
   here to the candidate `a2` it already has, and then calls
   `bucketList.Remove(id)`. The candidate still counts the bucket's votes, but `checkBucket` no longer finds the bucket.
   From then on the owner can never withdraw, close or deposit into it, and
   its bounded MTRG stays bound.
8. **Prune reclaims only roots** (`pruner.go:700`, `:722`, `:337`). After
   `InitForStatePruning`, `Prune(block 1)` batches `{o, Y}`: the state root
   and an unseen storage root. The garbage account node `b` and the storage
   node `y1` were marked by `nextChild` before `Prune` tested the bloom for
   them, so the test said "visited".
9. **Reward panic** (`validator_reward.go:206`). The trace has one delegate
   whose `DistList` has no entry with its own address (empty, or holding
   only other addresses) and a total reward of 3, above the base reward
   of 2. `GetDelegateSelfDistributor` fails, and the log at line 196 says
   "treat as 0". Line 206 then reads `d.Autobid` from the nil distributor.
   `GetInternalDelegateList` builds every delegate without a `DistList`.
   The base-only branch handles the same error correctly (lines 153-155).
   Nothing under `src/` calls `GetValidatorRewards` (K-block rewards come
   from `governor.ComputeRewardMap*`, `reactor_validate.go:703-709`), and
   the file imports the older `dfinlab/meter` packages, so this is a bug of
   the function, not of a path this node runs.

## Bounds

* **Pacemaker.**
  * N = 4, so the QC and TC threshold is 3.
  * MaxRound = 2: rounds 0..2 and blocks up to height 3. This is enough for
    a commit (the proposal at height 3 commits height 1).
  * `FireRounds` names the rounds whose timers may fire.
  * `Active` = 3 members, timeouts in round 0, and `ExecFailRounds` = {0}
    (the proposer of round 0 may fail to validate its own block).
  * With 4 running members, only violation runs are feasible. They find
    their traces within seconds. An exhaustive 4-member run takes over
    1M states per round of timeouts.
  * The quorum of 3 out of 3 running members makes `Agreement` (spec S1)
    follow from the voting rule alone in the passing bounds, so it is kept
    in the module but checked by no run. For the same reason a member
    whose validation failed never sees a QC for that block there; the
    lock-without-commit case is shown by `pm_lock` instead.
  * `CommitHasTwoChain` is not vacuous at these bounds: a commit happens
    (height 1, once QCs exist at heights 1 and 2), and committing one
    level too high breaks it.
* **Pacemaker run time.** The passing run has 116,284 distinct states and
  takes about 45 s.
* **QCVoteManager.** The quorum run uses 4 voters, 3 keys and two
  hashes.
* **EpochController.** Heights up to 4 with a K-block at 2, `cmdCh` of
  capacity 2 and `EpochEndCh` of capacity 1. A K-block at 2 is committed
  once a QC exists at 3, and 4 leaves room for sync and further QCs
  afterwards. This gives 149 distinct states. The loop stops when heights
  run out, so deadlock checking is off.
* **OutgoingQueue.**
  * The passing run uses one producer (`sendMsg` runs only on the main
    loop), 2 workers, capacity 2 and 4 parcels, which makes the channel
    fill, drop and drain around shutdown.
  * The stuck run uses one producer, one worker and capacity 1.
  * The model stops after `MaxParcels` Adds or after shutdown, so deadlock
    checking is off: the system really does stop there.
* **MeterTrackerStaking.**
  * There are three addresses, two of them candidates, and three bucket IDs.
  * Amounts are 1 or 2, with MinBound 1 and 3 MTRG each.
  * The genesis bucket has one bonus vote, so withdrawals and transfers
    split a bonus with integer division.
  * This gives 617,803 states in about 55 s with the refinement property.
  * Every method may fail, so deadlock checking is off.
* **ValidatorReward.** There are up to two delegates, each with at most
  one distributor, among three addresses. Powers are 1 or 2, commissions 0
  or 50%, shares 50% or 100% and autobid 0 or 50%. Totals of 3 and 10 reach
  both branches. This gives 97,968 initial states.
* **Pruner.** There are four blocks, with the snapshot at block 2. The graph
  has the sharing that matters:
  * an account node shared between the old trie and the kept tries;
  * an account node and its storage trie that only the old block has;
  * index nodes shared between old and kept blocks.

## Fairness

Only `OutgoingQueue` states liveness (`oq_fair`, `FairSpec`). The Go
scheduler eventually runs every runnable goroutine, so each producer and
each worker has weak fairness on its own steps. `AddBegin` and `Close` are
left unfair, because nothing obliges a caller to call `Add` or to cancel the
context. The staking methods and the pruner are called by their users, and
nothing obliges those users to call them, so those modules state no
liveness.

`EpochController` states one liveness property (`ec_regulate`). The main
loop is one goroutine, which the scheduler keeps running: weak fairness on
`LoopTop`, on the EpochEnd send and on the reactor's first `Regulate`. Go's
`select` picks uniformly among ready cases, so a case that is ready
infinitely often is eventually taken: strong fairness on the EpochEnd and
command branches. `Handle` and `Sync` depend on the network and are left
unfair. The counterexample uses only these fair steps.

## Not modelled (yet)

* **K-block and stop-committee proposals**, and the reactor's switch to
  the next committee. `EpochController` stops at the point where Regulate
  should run.
* **EpochEnd self-deadlock** (`pacemaker.go:666`). `SendEpochEndInfo` runs
  on the main loop and sends into `EpochEndCh`, which only that loop
  receives. If the channel is full, the loop blocks on itself. Reaching a
  full channel needs two K-block commits before the EpochEnd case is
  selected, that is, a committee change that the model leaves out.
* **Round-timer backoff arithmetic.** `baseInterval * (1 << power)`
  overflows int64 nanoseconds from power 30. This contradicts spec L2,
  which says there is no overflow up to counter 63.
* **Other staking problems with no run.**
  * `UnboundMeterGov` (`meter_tracker_staking.go:46-63`) has the same
    statements as `BoundMeterGov`: it moves free MTRG into bounded MTRG.
    Nothing under `src/` calls it, so the model only defines it.
  * A self-merge (`BucketMerge(o, i, i)`) adds the doubled TotalVotes to the
    candidate after removing the original. The candidate's total is then
    larger than its buckets' votes. `BucketsBacked` still holds, because the
    doubled bucket is removed from the list.
* **Pruner keep-safety.** No run checks that no live node is batched. Two
  things could break it:
  * `PruneIndexTrie` deletes without a bloom test, and after a restart the
    loaded bloom lacks the scanned index tries;
  * `Scan` does not mark roots or storage roots.

  `Live` in `Pruner.tla` is ready for such an invariant.
* **Validator rewards.** Two things have no run:
  * whether the payout stays within `totalReward` (distributor shares are
    rounded separately, and nothing checks that shares sum to at most
    1e09);
  * `calcKblockValidatorRewards`, the ten-auction average that gives the
    total.
* **Code that needs its own run.** The txpool object map, the legacy `PendingList` and block header validation each need a
  run. The project keeps twelve runs, and each current run is a passing run
  or a finding.
* **I/O code.** The API, RPC, wire encoding and command line are pure I/O,
  with no state machine worth checking.

## Planned next

1. **EpochEnd self-deadlock.** Several K-blocks per run, with
   `EpochEndCap` at its real value.
2. **RoundTimer.** The backoff computed at 64-bit width, with a violation
   run for L2.
3. **Pruner keep-safety run.** This needs a graph where an old and a kept
   block share a storage root that is not in the snapshot.
4. **Agreement with four running members.** This needs a coarser Pacemaker
   (for example, one that merges the proposal and vote steps).
5. **Validator rewards:** a passing run bounding the payout, once the
   panic is out of the way (for example, over delegates that have a self
   distributor).
6. **Small modules** for `PendingList` and
   `tx_object_map.go`, once run budget is freed.
