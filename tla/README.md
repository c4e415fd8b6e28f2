# A TLA+ model of the Chainflip backend

Chainflip is a cross-chain exchange. Its *state chain*, a Substrate chain, is run by a changing set of
authorities. Together they hold, by threshold signatures, the keys of vaults on Ethereum, Arbitrum, Bitcoin
and Polkadot. Every authority runs an *engine* beside its node: it watches the other chains, takes part in the
ceremonies that make keys and signatures, and sends transactions. This directory models both halves: the pallets
of the state chain, and the parts of the engine that run concurrently or must survive losses and restarts.

The modules are translated from the Rust source. TLC checks them on small instances (12 runs), and TLAPS
proves the properties of witnessing, signing, key rotation and epochs, and of some pure algorithms, for every instance.
Sources are named relative to `src/`; `pallets/` stands for `state-chain/pallets/`.

## 1. The system and how its parts interact

```
 engine                                        state chain
 ChainSources -> VaultWitnessing               Witnesser --dispatches--> the "witnessed" calls of every pallet
      -> BlockWitnessing --votes---------------->  ^                        |  deposits, successes, rotated keys
 SubmissionWatcher, EngineRunner, Tasks            | epochs, expiry         v
   carry extrinsics, blocks, RPC calls         EpochHistory <--new epoch-- ValidatorRotation
 ScObserver <--------requests (CfeEvents)---+      |                        | keygen, handover, activate   ^ status
      | ceremonies                          |      | bonds                  v                              |
      v                                     |      v                   KeyRotation (one per key) ----------+
 CeremonyRunner, CeremonyStages             |   Funding, Reputation       | verify     | activate
      | over P2P                            |                             v            v
      +--signatures, failure reports------> +-- ThresholdSigning <--sign-- Broadcast   VaultActivation
                                                                             ^
 IngressEgress <--> Swapping <--> Pools       transactions of ChainTransactions, BitcoinVault
        +------------ egress batches ----------------------------------------+
 Governance sets parameters and keys; RuntimeUpgrades migrates the storage; safe mode reaches most pallets
```

* Engines vote on what they saw; a call is dispatched when a quorum of an epoch's authorities voted for it.
* Deposits become swaps or balances, swaps become egress, and egress is batched into transactions.
* A transaction is signed by a threshold of the authorities and sent by one of them, nominated by the broadcast pallet.
* The authorities are replaced epoch by epoch. The new ones make new keys, or are handed over the old one (Bitcoin), verify them by
  a signature, and take over each vault through a transaction of the old key. Several epochs are active at once.

What makes this hard: votes, reports and answers arrive late, twice or never; queues are keyed by block numbers that
are computed at one time and read at another; safe mode and weight limits stop work half-way; one of several keys, chains or swaps
fails while the others succeed; rounding; chains reorganise; engines crash, are upgraded, and see other chains through unreliable nodes.
`PROJECT.json` names 40 such hazards at their lines, and the property that covers each.

### How the models are composed

* `KeyRotation` extends `ThresholdSigning`: verifications of keys and other requests share ids, queues and blocks.
  `SignatureRequests` is what users of the signer rely on; `ThresholdSigning` implements it (`KeepsPromise`).
* `KeyRotator` is what the validator pallet relies on; `KeyRotation` implements it (`IsARotator`). `ValidatorRotation` drives several rotators
  with the same status operators and calls them only as they allow (`RotatorsAreObeyed`, a conjunct of `RotationIsSound`).
* `AlgorithmProofs` is about the operators of `AmmMath`, which `Pools` computes with, and of `CeremonyStages`.
* Elsewhere a module sees its neighbour as an environment: `Broadcast` has a set of signature requests in flight,
  `Swapping` a market that is chosen anew in each block, `IngressEgress` hands deposits to swaps, `ScObserver` ceremonies that end.
  The modules of the engine and of the state chain are not composed with each other: the product is out of TLC's reach.

## 2. Conventions

* A block is a sequence of steps. A hook that works through a list takes one entry per step where something
  may come in between or where its state is observable; calls wait until the hook is done, as in the code.
* Block numbers in queues are relative to the current block where a run would otherwise have to bound its length.
* Hashes, keys, accounts and payloads are model values, bit masks of votes are sets, an optional value is a set of at most one element.
* A call that is refused changes nothing, so reasons to refuse that depend on nothing modelled are left out.
* Variables marked *history* exist for properties only; those marked *external* are other chains, contracts and nodes.
* Parameters named `...Plans`, `...Budgets`, `Loads`, `Scripts`, `Scenarios`, `Histories`, `Networks`, `Chains` are sets of scenarios: initial
  states and how often the environment may do something. A behaviour chooses one and any interleaving within it. Other bounds are the constants `Max...`
  and `Last...`. Bounds stop *new* work only: `KeyRotation`, for one, keeps ceremony ids in reserve (`IdsLeft`), so no rotation is cut off half-way.
* Several components share one run where they share no state. The variable `part` (or the scenario) says whose behaviour it is, and
  the variables of the others keep their first values. Each part is explored exactly as it would be alone; the constant `Parts` selects parts.
* A property of a run is often a conjunction. Each conjunct is a definition of its own with a comment, in the module of its component.
* Definitions under "faulty variants" are plausible bugs. Each replaces one definition (`PROJECT.json`, `mutants`), and TLC
  then finds the property violated. No specification uses them.

## 3. Modules

### State chain

| module | models | state and actions |
|---|---|---|
| `Thresholds` | `utilities/src/lib.rs` | the three threshold functions |
| `Witnesser` | `pallets/cf-witnesser`, the median of `decompose_recompose.rs` | The storage items keep their names. `witness_at_epoch`, `force_witness`, `on_finalize`, `on_expired_epoch`; `on_idle` and its two loops `DispatchScheduled` and `CullEpoch`; `phase` is the position within the block |
| `ThresholdSigning` | `pallets/cf-threshold-signature`, `signer_nomination.rs` | requests, ceremonies, both retry queues. `on_initialize` takes the queues of the block; `RetryCeremony`, `StaleCeremony` and `RetryRequest` handle their entries |
| `SignatureRequests` | the `ThresholdSigner` trait | the life of a request as callers see it |
| `KeyRotation` | the same pallet with `key_rotator.rs`, `response_status.rs`; `pallets/cf-vaults` | `PendingKeyRotation`, the voters stored apart from it, timers, the vault; keygen, handover, their verification, activation, reset |
| `KeyRotator` | the `KeyRotator` trait | the status of a rotator and what may be asked of it |
| `ValidatorRotation` | `pallets/cf-validator`, its `auction_resolver.rs` and `rotation_state.rs`; `cons_key_rotator.rs` | the rotation phase, the auction, bans; `validator_on_initialize` sees the joint status of the rotators, each of which moves on its own (`Resolve`) |
| `EpochHistory` | `pallets/cf-validator` | epochs, their expiry, authorities and bonds of past epochs, bidding, (de)registration, governance's change of the duration |
| `Broadcast` | `pallets/cf-broadcast`, the barriers of `chains/src/evm.rs`, the failed calls of `cf-ingress-egress` | pending and aborted broadcasts, barriers, timeouts and retries by blocks from now, callbacks, safe mode |
| `VaultActivation` | `cf-vaults`, `cf-chain-tracking`, `cf-environment`, `evm_vault_activator.rs` | the vaults of all chains of a rotation, nonces of rotation transactions, first vaults |
| `Funding` | `cf-funding`, `cf-flip`, `cf-emissions`, `cf-account-roles` | the FLIP ledger with its imbalances, redemptions, restricted balances, fees, rewards, supply updates; the gateway contract as external |
| `IngressEgress` | `cf-ingress-egress` with `boost_pool.rs`, `cf-lp` | channels and their recycling, deposits, prewitnessing, boosts, egress |
| `Swapping` | `cf-swapping`, the network fee of `cf-pools` | the queue, batches that fail in part, fill-or-kill refunds, messages, commissions |
| `AmmMath`, `Pools` | `amm/src`, `cf-pools` | arithmetic of swaps as operators; limit and range orders, ticks, fee growth, caches, scheduled updates |
| `Reputation` | `cf-reputation`, `missed_authorship_slots.rs`, backups of `cf-validator`, backup rewards | heartbeats, points, suspensions, offences; who is a backup and what it earns |
| `Governance` | `cf-governance`, `cf-tokenholder-governance` | the council's proposals and the governance key's calls; token holders' votes and their enactment |
| `RuntimeUpgrades` | `runtime-upgrade-utilities`, the migrations of the release | versions of pallets; values by the fields their release knew |
| `BitcoinVault` | `chains/src/btc.rs`, `btc/utxo_selection.rs`, Bitcoin's part of `chainflip.rs` and `cf-environment` | the list of UTXOs, selection, consolidation, transactions, rotations |
| `ChainTransactions` | `chains/src/evm`, `eth`, `arb`, `chains/src/btc.rs` | EVM calls: nonces, fees, signatures, refunds, the contracts as external. Bitcoin: numbers, scripts, addresses and transactions written as bytes and read back by a node |

### Engine

| module | models | state and actions |
|---|---|---|
| `CeremonyStages` | `engine/multisig/src/client/{keygen,signing,common}` | all correct parties of a ceremony, stage by stage, with losses and one faulty party. Cryptography is abstract: a share fits its commitment or not |
| `CeremonyRunner` | `ceremony_manager.rs`, `ceremony_runner.rs` | the manager and runners of one engine: early and stray messages, deadlines, results |
| `P2P` | `engine/src/p2p` | registrations, connections, socket monitor, reconnection timers, authenticator, multiplexer |
| `ChainSources` | `engine/src/witness/common/chain_source`, sources of the chains | headers of a chain that reorganises, lag safety, shared channel, chain tracking |
| `VaultWitnessing` | `epoch_source.rs`, `chunked_by_vault` | epochs the engine takes part in; the blocks of a vault across crashes; monitored addresses |
| `BlockWitnessing` | `witness/{evm,eth,arb,btc,dot}` | what is reported of a range of blocks, restarts, panics, unreadable ranges |
| `ScObserver` | `state_chain_observer/sc_observer.rs`, `cf-cfe-interface` | the requests of the chain, ceremonies and broadcasts it starts, heartbeats |
| `SubmissionWatcher` | `submission_watcher.rs`, `signed.rs`; the EVM signer in `evm/rpc.rs` | extrinsics and their nonces over forks and upgrades; nonces of EVM transactions |
| `EngineRunner` | `engine/src/lib.rs`, `state_chain_observer/client.rs`, `engine-runner-bin` | two versions of the engine over an upgrade; the stream of finalized blocks and its receivers |
| `Tasks` | `retrier.rs`, the retrying RPC clients, `utilities/src/with_std/task_scope.rs` | slots, buffer and delays of requests; tasks of a scope that fail, panic or are cancelled |

`MC...` modules instantiate these. `...Proofs`, `...Steps` and `...Stages` hold the proofs (`CeremonyStages` is a model).
The map of every definition to its lines is in `PROJECT.json`.

## 4. Runs

Ten runs pass and two show a disagreement between the code and a comment (section 7). A run is
`tlc -config <cfg> <module>`. States are distinct states.

| run | module, cfg | states | properties |
|---|---|---|---|
| `witnesser` | `MCWitnesser` | 502,009 | `DispatchedWithQuorum`, `WitnessedCallNotLost`, `VotesAreAccountedFor`, `InjectedWithinHonestReports`, `NoReplayWhileActive`, `EpochsAreAccountedFor` |
| `signing` | `MCKeys`, `MCSigning.cfg` | 128,234 | `RequestsAreTracked`, `CeremoniesEnd`, `KeepsPromise` |
| `rotation` | `MCKeys`, `MCRotation.cfg` | 159,080 | `KeysAreVerified`, `IsARotator`, `StagesEnd` |
| `authorities` | `MCKeys`, `MCAuthorities.cfg` | 226,140 | `HonestAreSafe`, `RotationIsSound`, `RotationIsDecided` |
| `broadcast` | `MCBroadcast` | 256,422 | `BroadcastsAreTracked`, `RotationIsABarrier`, `EveryBroadcastEnds` |
| `market` | `MCMarket` | 211,234 | `DepositsAreAccountedFor`, `SwapsAreAccountedFor`, `PoolIsSound` |
| `state_chain` | `MCStateChain` | 238,405 | `FlipIsAccountedFor`, `NodeRecordsAreTrue`, `DecisionsHaveBacking`, `VaultsAreHandedOver`, `UtxosAreAccountedFor`, `EvmCallsAreSound`, `BitcoinReadsBack`, `UpgradesKeepTheState` |
| `multisig` | `MCMultisig` | 139,420 | `CeremoniesAgree`, `RequestsAreAnswered` |
| `engine` | `MCEngine` | 831,597 | `SubmissionsAreTracked`, `PeersAreReachable`, `HeadersAreSafe`, `ReportsAreTrue`, `EveryBlockIsHandled` |
| `tasks` | `MCTasks` | 54,674 | `RequestsAreServed`, `RequestsAreFollowed`, `ScopesHoldTheirTasks`, `WitnessingIsComplete` |
| `validator_handover_stuck` | `MCKeys`, `MCHandoverStuck.cfg` | violation | `FailureIsRepeated` |
| `broadcast_endless` | `MCBroadcast`, `MCBroadcastEndless.cfg` | violation | `EveryBroadcastEnds` |

What they show, and why the bounds are enough for the cases that matter:

* **witnesser.** 4 validators, one of which may report outliers on either side; two epochs of 4 and of 2 authorities overlap; one call, one forced
  dispatch; idle weight 0 to 2, so that a block may dispatch or cull only in part. A dispatched call has a quorum; a call with a quorum is dispatched or stays
  scheduled through safe mode; it is not dispatched again while an epoch it was dispatched for is active; late authorities are reported; what is culled stays culled; the median lies
  within the honest reports. In other behaviours 2 accounts register, bid and deregister through 4 epochs of 1 or 3 blocks (three may be
  active together), while governance makes epochs longer or shorter: bonds follow unexpired epochs. That epochs expire in order is claimed
  as long as no duration was made shorter, that key holders are validators only for epochs which no later one overtook.
* **signing.** 2 requests, 3 ceremonies, timeouts of 1 and 2 blocks, a key of either of two epochs that is replaced at any time. Nomination gives any
  sufficient set or none. A request has one attempt, which is queued for a later block and keeps its key, and one callback.
* **rotation.** 2 validators; chains with and without a vault; 2 requests and 5 ceremonies, enough for keygen, verification, handover, its verification
  and one more; governance changes the timeout. Only keys verified in this rotation become active, and no stage lasts for ever.
* **authorities.** 4 candidates, 2 of them faulty, report a keygen and its verification in every order: nobody who answered with the honest ones is
  punished. In other behaviours 4 bidders (two of equal bids, one of less than half), 2 rotators of which one hands its key over, 2 sets of auction
  parameters; every failure names one offender. The debug assertions of `on_initialize` hold, the new authorities hold the new
  keys and are the highest bidders, the set changes slowly, and a rotation is decided.
* **broadcast.** 2 broadcasts on Ethereum or Polkadot, either of which may be a rotation; authorities {v1, v2} then {v2, v3}; 2 signatures each; at
  most one disturbance (a signature that is made again, a time without nominees, a safe mode). Transactions are sent and failures reported by nominees
  only (`OutOfTurn = FALSE`). Two broadcasts show a barrier, and three would only repeat it. The number of authorities stays
  the same: `EveryBroadcastEnds` needs that, see `broadcast_endless`.
* **market.** Deposits: 2 boosters, 2 pools, up to 3 openings over 2 addresses, amounts of 2 or 3 (a remainder in every division), one reorganisation.
  Swaps: two in a batch, markets that are deep, shallow and dry, retries, safe mode, messages with gas, commissions. Pools: 5 ticks, 2
  providers, 6 scenarios of orders and swaps with fees from none to three quarters. Providers are interchangeable (`SYMMETRY`). Nothing is lost, made or paid
  twice, up to the rounding that each comment states.
* **state_chain.** Each part from its own scenarios (`MCStateChain.tla` comments them): two accounts and one pending redemption with
  restrictions that change meanwhile; a council that is replaced between approvals; two votes of token holders; penalties of different lengths imposed in
  any order; a second EVM chain that joins a shared key; up to 4 UTXOs and 2 rotations; upgrades from three releases;
  fees that change between attempts of a transaction; the boundaries of Bitcoin's encodings (252 to 254, 2^16, 127 to 129, ...).
* **multisig.** Keygen and signing of 4 with one faulty party that may deviate in every stage; 3 or 4 with one or two lost messages; handovers
  with equal and with other indexes. And the manager of one engine with up to 3 requests, 2 peers, stray messages and timeouts; a few stages stand for nine, since all are
  handled alike.
* **engine.** Two extrinsics of an account that somebody else uses too, one fork, one runtime upgrade, forgotten extrinsics; EVM nonces with failures and cancellations; two versions
  over 3 to 7 blocks with a channel of 2; two peers with 3 keys; chains of 5 or 6 blocks with one reorganisation up to the
  safety margin; blocks of each chain with deposits, fetches and events in any order.
* **tasks.** 2 or 3 requests for 1 slot; 2 to 4 blocks of requests of the chain; 3 tasks of a scope of every kind and ending; 3 epochs; vaults of 2 or 3
  blocks with a crash at any step and writes that fail.

## 5. Fairness and deadlock

Liveness is part of `CeremoniesEnd`, `KeepsPromise`, `StagesEnd`, `RotationIsDecided`, `EveryBroadcastEnds`, `RequestsAreAnswered` and of the properties of `tasks`.
The other runs check safety only.

| module | assumed | because |
|---|---|---|
| `ThresholdSigning`, `KeyRotation` | weak fairness of `on_initialize` and its steps | blocks are produced, and a hook runs to its end |
| `ValidatorRotation` | weak fairness of `on_initialize` and of each rotator's ceremonies, not of activation | `StagesEnd`, checked of `KeyRotation`; an activation waits for another chain |
| `Broadcast` | block production; a requested signature arrives; a safe mode ends | the signer retries until it succeeds; strong, since a call must wait for the hook of its block |
| `CeremonyRunner` | time passes, timeouts and results are handled | tokio schedules its tasks |
| `ScObserver` | blocks are made and read, ceremonies end, sends return | `RequestsAreAnswered`; calls go through the retrier |
| `Tasks`, retrier | submissions end or time out, delays end, clients get ready; strong: a node called healthy answers a request it gets again and again | every submission has a timeout; `CallersAreAnswered` is about callers that have such a node |
| `Tasks`, scopes; `VaultWitnessing` | tasks that can run do; chain tracking goes on | tokio schedules its tasks. A task that never ends (`"Never"`) is not assumed to |

No fairness is assumed of validators, peers or nominees: none of them needs to vote, report or answer.

Deadlock is checked in the runs of `MCWitnesser`, `MCKeys` and `MCBroadcast`: these pallets go on for ever. `MCMarket`, `MCStateChain`, `MCMultisig`, `MCEngine` and `MCTasks`
say `CHECK_DEADLOCK FALSE`: their scenarios end (requests are answered, budgets are used up, an engine stops or panics), and the liveness properties say what must have happened by then.

## 6. Proofs

The theorems hold for every value of the constants that satisfies the named assumption of the module (`WitnesserAssumption`, `SigningAssumption`,
`RotationAssumption`, `EpochAssumptions`, `ScalesAssumption`): finite sets of validators, authorities, keys and calls; natural numbers where the code has unsigned ones;
model values for "none" outside of the sets they extend. TLC evaluates them in the runs.

| module | theorem | states |
|---|---|---|
| `WitnesserProofs` | `DispatchNeedsQuorum`, `QuorumIsNotLost`, `VotesAreKept`, `NoReplay` | `DispatchedWithQuorum`, `WitnessedCallNotLost`, `VotesAreAccountedFor`, `NoReplayWhileActive` |
| `SigningProofs` | `OneAttemptOneAnswer`, `KeyIsKept` | one attempt and one callback per request; its key is kept, for all timeouts |
| | `RequestsAreKept` | `RequestsAreTracked`, if no timeout is 0 blocks |
| | `AnswersAreFinal` | every step is one of `SignatureRequests` (the safety part of `KeepsPromise`) |
| `RotationProofs` | `VerifiedKeysActivate`, `HonestAreNotPunished`, `ImplementsRotator` | `KeysAreVerified`, `HonestAreSafe`, `IsARotator`; from `Callbacks = RotationCallbacks`, the calls the runtime registers: those of the two key verifications and that of the broadcast pallet |
| `EpochProofs` | `EpochsAreHeld` | `EpochsAreAccountedFor`, however governance changes the duration |
| `AlgorithmProofs` | `FeesWithinInput`, `PartialSwapWithinInput`, `PartialSwapStopsBeforeTarget`, `PartialFillLeavesSome` | the subtractions of a swap do not underflow and its price does not pass its target: what comments of `amm/src` claim or leave as "TODO: Prove" |
| | `FrequentElementUnique`, `HonestBroadcastAgreed` | at most one value has a majority; verifiers that have the reports of a majority agree on it |

The arguments:

* **Witnesser.** `WitnesserInv` is inductive. A call in the safe-mode schedule is dispatched long after its vote, so `PendingCallsHaveQuorum` carries the
  quorum along while its epoch is active. The checks read executed flags while the properties speak of dispatches: `ExecutedIsDispatched` and `DispatchedIsExecuted` tie them together for active epochs
  only, since culling erases flags. Culling and new epochs stay away from active records (`CullingExpiredOnly`, `FutureEpochsEmpty`). One lemma per action; the three that dispatch share `DispatchStep`. Facts on counting
  votes are assumed in the steps (`CountingFacts`) and proved at the end.
* **Signing.** The centre is what carries a request: one ceremony or one waiting instruction, the one it was made with
  (`Carried` in `SigningSteps`). A step removes the carrier and puts another in its place, or answers the request. `SigningInv` adds types and queues. `EveryAttemptIsQueued` is inductive only
  together with it and without timeouts of zero blocks, which would queue into a block already taken.
* **Rotation.** `RotationInv` joins the signing invariant with `StageInv`: the status has the shape of its stage, the stored voters are those of the ceremony in progress and counted
  once (`VotersInv`), at most one verification is under way and the status waits for it (`CallbackInv`), and what the status says of a key was verified in this rotation
  (`VerifiedInv`). `RotationStages` and `RotationSteps` show that each step keeps `StageInv`, `RotationProofs` that it keeps the signing part, for which the blame of honest
  respondents is bounded by the number of faulty ones (`BlameInv`). The refinement follows from the status step.
* **Epochs.** `BondInv` and `HolderInv` hold whatever governance does. `ExpiryInv` (expiries wait in the order of their epochs, and none longer than the present duration from the last transition) needs that no
  duration was made shorter, and is therefore kept under `~shortened`.
* **Algorithms.** Floor and ceiling of a quotient by its defining inequalities, from which each claim follows by monotonicity; majorities by cardinalities of subsets.

Only model-checked: all liveness (the prover has neither fairness nor `ENABLED`); what recursive definitions compute, such as medians, folds and encodings (induction over data is
out of its reach, and `RECURSIVE` operators cannot be used in modules with theorems); and every module not named in this section, where the inductive
invariants would be long and the instances already show the hard cases. `BlockWitnessing`, `ChainTransactions`, `Pools`, `Swapping`, `Tasks` and the others are in this class.

## 7. What the code does not do

### Findings with a run

1. *validator_handover_stuck.* When the verification after a key handover fails and names nobody, the validator pallet asks for another handover in every block
   (`cf-validator/src/lib.rs:446`), which the failed rotator ignores (`key_rotator.rs:124`). Neither a keygen nor an abort follows, although `cf-threshold-signature/src/lib.rs:97` says that a failure
   "ought to result in another Keygen ceremony".
2. *broadcast_endless.* A broadcast is aborted when a *reported* failure makes as many failures as there are authorities (`cf-broadcast/src/lib.rs:867`). If the
   set shrinks to validators that have all failed before, nobody can be nominated, no failure is reported, and it is retried for ever, although it is aborted "to prevent infinite retries" (line 882).

### Statements of comments that do not hold, without a run

These definitions state what a comment says. No configuration names them. TLC finds each violated when it is put in the place of the properties of the named configuration;
the properties that the runs do check exclude exactly these cases and say so.

| statement | configuration | what happens |
|---|---|---|
| `AvailableUtxosAreOurs` (`BitcoinVault`) | `MCStateChain` | the last output of a batch without change is a transfer, and is listed as the vault's UTXO |
| `StillKeyHolder` (`EpochHistory`) | `MCWitnesser` | a shorter duration lets a later epoch expire first; authorities of the earlier one may deregister (`cf-validator/src/lib.rs:763`) |
| `FailedTransfersConvert` (`BlockWitnessing`) | `MCEngine` | a failed transfer of USDC on Arbitrum is converted to an asset of Ethereum: the `expect` of `vault.rs:194` fails |
| `NoBlockMissed` (`EngineRunner`) | `MCEngine` | blocks that the old version had queued when it stopped are handled by neither version (`engine/src/lib.rs:88`) |
| `RegisteredPeersAreKept` (`P2P`) | `MCEngine` | a reconnection timer left over from before a new registration removes the entry of a connected peer (`core.rs:499`) |
| `OnlyInvalidResponsesReported` (`CeremonyStages`) | `MCMultisig` | in a handover with other indexes the old index of a correct party may be reported (`keygen_stages.rs:906`) |
| `RangeOrdersNeverPanic` (`Pools`) | `MCMarket` with `PoolBudgets <- RangeBudgets`, `Parts = {"pools"}`, no `SYMMETRY` | fees of a range order: an unsigned difference below zero, when a tick is set up after fees were earned |

### Observations

Behaviour that the models contain and the properties allow for; each is stated in a comment where it matters.

* Witnesser: replay is excluded only while an epoch the call was dispatched for is active; after culling its flag is gone. A call that cannot be decoded after a runtime upgrade is not modelled.
* Signing: a timeout of 0 blocks queues a ceremony into a block already taken (`cf-threshold-signature/src/lib.rs:1474`). Timeouts in the runs start at 1.
* Broadcast: `on_signature_ready` does not ask whether the broadcast is still pending, so a late signature starts an attempt nothing waits for. With `OutOfTurn = TRUE`
  (somebody else sends the transaction first) a barrier can stay after what it was for is over.
* Deposits: a boost fee is rounded in favour of the depositor by part of a unit; a batch of prewitnessed deposits fails as a whole on one unknown address; the fetch of a recycled channel stays scheduled.
* Swapping: commissions are rounded one by one; egress below the dust limit is dropped; `swap_single_leg` ignores input that is left, of which there is none (`SwapsUseTheirInput`).
* Pools: the share left of a fixed pool may be rounded up past its largest value (`limit_orders.rs`, `mul_div_ceil`).
* Bitcoin: a consolidation that does not pay its fees drops its inputs; after two rotations a batch may be built from UTXOs of a key nobody signs with, and panics.
* EVM: a new attempt overwrites the metadata a refund is checked against, so the nominee of an earlier attempt may be refused; a batch whose fetches are all unnecessary still uses a nonce.
* Governance: approvals of former members count; of token holders' proposals submitted in one block only the last is voted on.
* Upgrades: from version 8 of ingress-egress, a swap channel with a boost under way cannot be read any more.
* Engine: after a fork the submission watcher may panic (`take().unwrap()`); a cancelled EVM attempt leaves a nonce gap until the counter expires; a block whose `CfeEvents` cannot be read is skipped; an error of a weak task may only be logged.
* Witnessing: ranges whose logs cannot be parsed count as processed; failed native transfers on Arbitrum are reported as Ethereum's; holes in a vault's blocks loaded after a restart wait for another
  request to complete, possibly for ever; a block may be witnessed twice.

## 8. Not modelled

* Cryptography (keys, shares and signatures are abstract); encodings of Polkadot and Solana transactions, which libraries and tables of constants make. The Solana witnesser is a `todo!()` in the code.
* 256- and 512-bit fixed point and square roots of the AMM: `AmmMath` has the same formulas with small scales.
* Node, RPC, API, CLI, settings, key store (single records of RocksDB), engine macros that load a library: input and output around the above.
* Of modelled pallets: `bind_executor_address`, creation of boost pools, channel-opening fees, egress ids, peer ids and session keys in `EpochHistory` (peer ids are in `P2P`), the broadcast stress test and fee refunds in `Broadcast`
  (refunds are in `ChainTransactions`), amounts of slashes where they feed nothing back. `PROJECT.json` marks these components *partly*.
* Genesis, weights and events, except where a weight limits work (`on_idle`) or an event is what another part reads (`CfeEvents`).

## 9. Running

In this directory: `tlc -workers 2 -config MCBroadcast.cfg MCBroadcast`, and likewise for the others; the configurations of signing, rotation and authorities belong to `MCKeys`, that of the
endless broadcast to `MCBroadcast`. A run takes one to three minutes. `tlapm WitnesserProofs.tla`, and likewise for `SigningProofs`, `RotationProofs`, `EpochProofs` and `AlgorithmProofs`,
and for `SigningSteps`, `RotationStages` and `RotationSteps`, which they extend; one after the other the proofs take about 25 minutes.
