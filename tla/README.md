# Verification of the mainchain upgrade simulator

The simulator generates a local Unification (FUND) network, a second gaiad
chain and a Hermes relayer, runs them in containers through a software upgrade,
and meanwhile keeps the chain busy: the **tx_runner** reacts to every block with
transactions of some twenty wallets. Around it, `make monitor` watches the upgrade
and `make verify` judges the rehearsal afterwards. This directory holds TLA+ models of
the concurrent part of it, their TLC configurations, and proofs for TLAPS.

JavaScript here means: one thread, no preemption between two `await`s, and any
order at an `await`. The runner subscribes to block events and starts an
asynchronous handler for each, *without waiting for the handler of the block
before* (`runner/blocks.mjs`). All handlers share the wallets, the message
modules and one `BlockActions`. Everything that makes this program hard to test
follows from that, from requests that fail or whose answer is lost, and from the
restart of all nodes at the upgrade height.

In what follows `TX` is `src/scripts/nodejs/packages/tx_runner/src`.

## Contents

1. [Inventory](#1-inventory)
2. [Modules and how they follow the code](#2-modules-and-how-they-follow-the-code)
3. [Runs](#3-runs)
4. [Fairness](#4-fairness)
5. [Proofs](#5-proofs)
6. [Where the code departs from what it says](#6-where-the-code-departs-from-what-it-says)
7. [What is only model-checked, and what is not modelled](#7-what-is-only-model-checked-and-what-is-not-modelled)

How to run: `tlc -config Wallet.cfg WalletSequence`, and so on for the table of
section 3; `tlapm WalletSequence_proofs.tla` for the proofs.

## 1. Inventory

### tx_runner

| Component | State | Operations | What makes it correct |
|---|---|---|---|
| Wallet signing data (`TX/wallet/wallet.mjs`, `sendTx` in `TX/tx/tx_factory.mjs`) | `#sequence`, `#chainId`, the shared promise `#seqInit` | `signerData`, `resyncSignerData`, `adoptSequence`, `releaseSequence` | Overlapping calls sign with distinct sequences; a fault costs at most one rejection; the wallet comes back |
| Wallet queues (`TX/wallet/wallet.mjs`, `checkWalletTxs`, `moveSentToPending`) | `#sentTxs`, `#pendingTxs`, `#txResults` | add, splice, `getTx` promises, `Promise.all` reactions | A broadcast tx is followed to its result, reported once, and the queue is freed |
| Block handler (`TX/runner/actions.mjs`, `blocks.mjs`, `runner.mjs`, `index.mjs`) | `#height`, `#proposalSubmitted`, `#customDone` | `onFundBlock` and what it calls, `onGaiadBlock` | Each thing once, retried until done, message shapes fit the binary |
| Governance (`TX/modules/gov.mjs`) | none of its own: open proposals are queried | submit upgrade, custom and text proposals; vote | The upgrade passes in time; custom proposals end as configured |
| Enterprise FUND (`TX/modules/enterprise.mjs`) | `#eFundStatus`, `#eFundPoId` per wallet | whitelist, raise, accept, poll | One order per owner, `PO_COMPLETE` only when locked, everyone gets there |
| BEACON, WrkChain (`TX/modules/beacon.mjs`, `wrkchain.mjs`) | `#beaconOrWrkChainRegTxSent`, `...Id` per wallet, static `beaconMetadata` | register by SDK or CLI, find the id, record | One registration, then records |
| Payment streams (`TX/modules/stream.mjs`) | static `streamDenom`; streams are queried | create, claim, top up, change flow, cancel | Each operation covered, none on a stream that is gone |
| Bank and staking (`TX/modules/bank.mjs`, `stake.mjs`) | none | random sends, (un)delegations, withdrawals | A tx never fails in its block: what was read is still there |
| IBC (`TX/modules/ibc.mjs`, `#checkIbcChannels`, `#ibcTransfers`) | `#ibcOpen`, `#ibcDenom` | find the channel, transfer with a height timeout | FUND crosses and comes back, for as long as the rehearsal runs |
| Start-up (`TX/runner/readiness.mjs`, `clients.mjs`) | none | poll both chains, connect | Waits for both |

The components interact by plain calls and by shared objects. Every message
module sends through `TxFactory.sendTx` (in process) or `#inNode` (the `und` CLI
in a node's container, signed with the account's *committed* sequence, of which
the wallet's counter does not hear). Whether a wallet sends at all depends on its
`#pendingTxs`, which `checkWalletTxs` of the same or a later block empties.

The hard parts: `sendTx` calls of one wallet that overlap; answers that
arrive in another order than the questions; a handler that resumes with the
`height`, the static shapes or the status of a newer block; `sendTx` never
throwing, so that callers cannot tell a failure from a success; loops that splice
the array they walk; the mempool lost at the restart.

### The rest of the repository

| Component | State | What is hard |
|---|---|---|
| Monitor (`src/scripts/nodejs/packages/monitor`) | `#state`, `NodeTracker`, port flags, regex `lastIndex` | the current height is read again after an await; the watch starts only at the event of the block before the upgrade; nodes restart while their logs are read; the node it asks is down meanwhile |
| Verify (`packages/verify`) | none | says what the other parts are to achieve: its checks are their properties |
| Config validation (`packages/config`, `src/schema`) | none | Levenshtein distance for suggestions |
| Generator: network (`src/generator/internal/network`, `generate`) | port and IP allocators | ranges of one kind of node running into those of another |
| Generator: genesis, stake, wallets | none (pure transformation) | nothing that outlives a call |
| Generator: text tools (bech32, tomledit, render, compare) | none | encodings |
| Third-party sources (`internal/thirdparty`) | a directory and its temporary twin | crash between download and rename |
| Relayer bootstrap (`src/templates/scripts`) | an `initialised` flag file, the channels it leaves on both chains | the flag is set whether or not the channel was created; the container may stop anywhere |
| Legacy bash generator, Makefile, docker | pid file of `tx-bg` | straight-line scripts |

`PROJECT.json` lists each with its status and, under `hazards`, the lines where
something can go wrong that a test would hardly reach.

## 2. Modules and how they follow the code

    SequenceAllocator            what callers of signerData() may rely on
      ^ implemented by
    WalletSequence               wallet counter, sendTx, resync, CheckTx, CLI
    TxQueue                      sentTxs, pendingTxs, txResults and their promises
    EfundFlow    <- MCEfundFlow  enterprise FUND, BEACON, WrkChain
    Verify                       the checks of `make verify`, as predicates; extended by
      BlockRunner  <- MCBlockRunner  onFundBlock: custom txs, upgrade, votes, shapes
      PaymentStreams             stream operations across the upgrade
      Transfers    <- MCTransfers  test wallets, IBC wallets of both chains, relayer
      Monitor                    block events, upgrade watch, refreshes
    *_proofs                     theorems about the module they extend

Throughout, **one action is the code between two awaits**, the await being named
by a program counter. `MC*` modules only add symmetry sets and constants that are functions or sets of them. Definitions whose comment begins with "Mutant" are plausible bugs:
TLC must refute a property when one replaces its original, which shows that the
property depends on that code. They are in no behaviour.

### SequenceAllocator

The contract of a wallet's counter: `next` is unset, then read once; holders take
`next` and advance it; a holder returns its number, and only the top one moves
the counter back; or a number is adopted from outside. `overlap` remembers that a
number was adopted while others were held, after which distinctness is off until
those holders are gone. The chain, the faults and the awaits are absent.

### WalletSequence

State: the three wallet fields, and per caller (a `sendTx` in progress) the await
it is at, the sequence and chain id it was given and the sequence named in its
rejection. `AwaitInit`, `AnswerSequence`, `SetSequence`, `SetChainId`, `Settle`
are `signerData` and the shared `resyncSignerData` promise; `Settle` moves all
callers awaiting the promise and clears `#seqInit` as `finally` does. `Accept`,
`Mismatch`, `BadSignature` and `BroadcastFails` are what `broadcastTxSync` may
answer. `AdoptSequence` and `ReleaseSequence` are the catch. The chain is
external: `committed` and `checkSeq` (committed plus the mempool). `LoseMempool`
is the restart, `CliSign` and `CliBroadcast` are `#inNode` on the same account.

`serial` and `unpaid` are history variables for one property: while no two calls
have held a sequence at once, rejections are counted against disturbances.

Abstracted: fee, gas and encoding; the account number, which is read with the
sequence; the chain id as "known or not".

### TxQueue

`CheckWalletTxs`, `SendTxs`/`SendNothing` and `MoveSentToPending` are the three
parts of a handler that touch the queues. The loops of the code call `splice` on
the array they iterate, so `Taken` and `Skipped` are the elements at odd and even
positions, and `WithoutRejected`, `WithoutReported` do the same for promises
(`KeepPositions` keeps what is at a set of positions, in order).
Each `checkWalletTxs` leaves a `Promise.all` over `#txResults` behind (`checks`);
its `then` is `OnFulfilled`, its `catch` `OnRejected`, and as a microtask either
one runs before any other callback (`Quiet`). `Abort` is a handler that a rejected
query ends before it has moved what it sent.

### EfundFlow

A handler walks the owners, then the enterprise signers, then the owners again,
at `at[h]`. `eFundStatus` has the values of `EFUND_ACTION_STEP`. `SendTx` may fail
silently, as the caller sees it; a query that rejects ends the handler (`Abort`).
`upgraded` is the shared `#height` at or past the upgrade height, `sawUpgrade` what
a handler passed on as `currentBlockHeight`. A BEACON and a WrkChain differ only in
how they register after the upgrade, so a run with WrkChains has both ways. The enterprise, beacon and wrkchain modules of
the chain are external: whitelisting, orders decided at `Threshold` acceptances,
eFUND locked at a block's end. That a wallet's pending queue is empty is a free
choice here (each guarded step has a skipping twin); `TxQueue` is the model of
that queue, and its `KeepsSending` is what the fairness of this module assumes.

### BlockRunner

A handler's path from the block event through `#checkTxs`, `#customGovTxs`,
`#customMsgTxs`, `#validatorActions` to the other wallets, of which one message
with a shape that depends on the binary stands for stream operations and BEACON
records (`Compose` reads the static, `Send` sends later). `Cli` answers as the CLI
script does: accepted, rejected, a stale sequence (code 32) or nothing. The chain
has a FIFO mempool, proposals with a voting period in blocks, and the plan.

`rejected` is a history variable: the custom txs whose CLI call was *answered* with a
rejection (`TX/runner/actions.mjs:132`). A msg noted as done for any other reason, or lost
after it was accepted, is not among them, and `VerifyPasses` asks for it on chain.

Abstracted: the validators vote alike and hold all the stake, and one vote tx
stands for theirs; heights from `MaxHeight` on are one.

### Verify

The checks `buildChecks` makes of what the runner did, as operators on what they read
from the chain: `ExpectedMsg` (each message type on both sides of the upgrade),
`CustomProposal` and `CustomMsg` (the first answer with the label, as `find` takes it),
`UpgradeAppliedAt`, `TransferChannelOpen`. There is no state. `BlockRunner` states
`VerifyPasses` with them, `PaymentStreams` `StreamsVerified`, `Transfers` and `Monitor`
what an open channel is. So "correct" means in these properties what it means to the
program itself.

### PaymentStreams

A handler's `#paymentStreamTxs`: for each sender/receiver pair two lookups
(`AnswerFlow`, `AnswerStream`), either of which may throw, the sender's operation (`Compose`,
`SendSender`) and the receiver's claim (`SendClaim`), each between two awaits.
`streamDenom` and `uncoveredOps` are statics: `OnFundBlock` switches the denom one block
before the upgrade and renews the list. A lookup that throws, for whatever reason, forces
a create. The stream of a pair on the chain is none, flowing, ended (its deposit ran out)
or empty; a message or lookup without the denom misses it from the upgrade on.

Abstracted: amounts and rates, but for zero; the time a deposit lasts (`Drain` may come at
any moment). `landed`, `rejected`, `lost` and `sent` are history variables for properties.

### Transfers

Both chains' handlers, each from one block to the next, with the shared `#ibcOpen` and
`#ibcDenom`: the channel check (two queries, one per chain), then on FUND the test
wallets (module by dice, a query, a share of what it answered, `sendTx`), then the IBC
transfers of the chain. `Portion` is `randomAmountFromBalance`. `OnBlock` and `End` are
what `checkTxs` and `moveSentToPending` do to the gate `pendingTxs.length > 0`; only test
wallets have it. `run_hermes.sh` is the other half: create the channel (`HermesCreates`,
which can fail between INIT and OPEN), touch the flag whatever became of it, relay;
`HermesCrashes` stops it anywhere and `HermesStarts` runs the script again.

Abstracted: fees and rewards; who a delegation goes to; packets that time out, since the
timeout is set a thousand blocks ahead; votes of test wallets, which move nothing; and, of
`sendTx`, failures other than a refused message. `MCTransfers` scales holdings
and shares down, not what comes back (90 to 99 per cent) or is unstaked. Custom msgs that
`config.json` may have a test wallet sign are in `BlockRunner` only: `GatedNeverFail` is about
wallets that sign none. The gate `#height > 4` (`TX/runner/actions.mjs:60`) is left out here
and in `PaymentStreams`; it shifts the heights at which these wallets begin.

### Monitor

`StartUp` is `run` up to the subscription (`ReadTotal`, then `OnOpen`: the network makes
blocks meanwhile, whose events nobody hears); `OnBlock` and `OnLogs` are `#onBlock` on either
side of `docker logs`; `Look` and `Wake` are the loop of `NodeTracker.watchUpgrade`, whose
synchronous parts are `Walk`; `RefreshChannels`, `RefreshRpcs`, `RefreshRow`,
`RefreshStreams` are `#refresh`. Handlers and refreshes overlap, and all write `rows`
and `#state`. `totalValidTxs` is kept per block: how often it is in the sum. `TotalOfLog`
models the global expression whose `lastIndex` survives a line, so that `run` counts
every other line of the log so far.

Logs are read from their end: 200 lines for the watch, 400 for the count, 1000 for the
version. `InTail` says what those lines show, the blocks that the node committed last:
`Tail200`, `Tail400` and `Tail1000` are the numbers of such blocks. `CheckNodeUpgraded` finds
the upgrade block's line among the first, or the node is not counted; `SoftwareVersion` finds
the line a binary logs when it starts (after the block before the upgrade, for the new one)
among the last, or shows 0.

The network is external: a block needs more than two thirds of the nodes on the binary of
its height, each commits and restarts in its own time, and the queried node's port is
closed around its restart. `Data` are three successive answers of the queries.

Abstracted: queries whose answer is shown as it is (supply, proposals, BEACONs, orders)
share the stream's; colours, columns and the list shown in turn are left out. A tail reaches
back a fixed number of blocks: that a block logs more or fewer lines, and a start lines of its
own, is not in the model. The watch searches for the text `height=30`, which `height=300` contains
too (`docker.mjs:75`); such a block, were it reached, would count its node late.

## 3. Runs

| Run | Question | Instance |
|---|---|---|
| `Wallet` | Types, `UniqueReservations`, `OneMismatchPerDisturbance`, the refinement of `SequenceAllocator`, and `EventuallyAccepted` under every fault | 2 callers, 8 kinds of fault, 2 faults, 3 accepted txs |
| `WalletNeverHeals` | Does a wallet always recover? No | 1 kind of fault, once |
| `TxGated` | `NeverLost`, `ReportedOnce`, `KeepsSending` for a wallet that waits for an empty queue | 3 txs, 2 handlers, 1 tx per block |
| `TxOverlap` | `EventuallyReported` for a wallet that does not wait | 3 txs, 2 handlers, several txs per block, one handler that ends early |
| `EfundSerial` | `OneOrderEach`, `CompleteMeansLocked`, `OneRegistration`, `EventuallyRecorded` | two WrkChain owners, one of which starts at the upgrade, 2 signers, threshold 2, one rejected query |
| `BlockSerial` | `AsConfigured`, `CustomOnce`, `ShapesFollowBinary`, `VerifyPasses` with a failing query, script, rejection, `sendTx` or restart | 2 custom proposals, 2 custom msgs, 2 validators, upgrade at 7 |
| `BlockStaleUpgrade` | Is `#proposalSubmitted` true only of a submitted proposal? No | a custom proposal due at once |
| `BlockOverlap` | `NewShapeNeverEarly` with overlapping handlers, txs that wait in the mempool, the restart and a rejected query | 2 handlers, one tx may wait, upgrade at 4 |
| `Streams` | `NothingRejected`, `StreamsVerified`, `KeepsClaiming` with failing lookups and sends, deposits that run out, the mempool lost at the restart | 1 pair, upgrade at 9, 2 faults |
| `StreamsUncovered` | Does an operation leave the list only by being sent? No | 2 pairs, upgrade at 6, no fault |
| `Monitor` | `SuccessMeansUpgraded`, `TxsCountedOnce`, `UpgradeReported`, `ScreenConverges` with a failing query, refresh or `docker logs`, or a lost event | 2 nodes, 2 handlers, 1 refresh, upgrade at 3, tails of 1 and 2 blocks |
| `Transfers` | `GatedNeverFail`, `VouchersReturn` with a failing query, a tx left out of a block, a failed channel creation, a crash of the relayer | 2 test wallets, 1 IBC wallet per chain, 1 fault |

Each run also checks its module's `TypeOK`, except those that ask for one property only.
Four more configurations are kept for running by hand:

| Configuration | Question | Result |
|---|---|---|
| `TxLost.cfg` (`TxQueue`) | Is a tx that is not indexed yet looked up again? | Not always: with two lookups in one block `NeverLost` fails |
| `EfundStuck.cfg` (`MCEfundFlow`) | Does every owner record although a tx fails? | No: `EventuallyRecorded` fails |
| `EfundOverlap.cfg` (`MCEfundFlow`) | `CompleteMeansLocked` with two handlers and stale order lists | Holds; also proved |
| `BlockNoMsgs.cfg` (`MCBlockRunner`) | Is the upgrade proposed without a custom tx file? | No: `UpgradeSubmitted` fails |

The bounds, and why they are enough to see the interesting cases:

- *Two callers, two handlers.* Every conflict in this code is between two: two
  reservations, a caller and the resync it joined, an older and a newer handler.
  `UniqueReservations`, `ImplementsAllocator`, `NewShapeNeverEarly` and
  `CompleteMeansLocked` are proved for any number. `NeverLost` is proved for two and fails
  with three.
- *Two faults* let a second one hit the recovery from the first (a lost answer,
  then the rejection it causes lost as well). The proofs cover any number.
- *`MaxSeq` 3* is one more than what two callers hold together, so the counter
  is used, moved back and used again.
- *Three txs* are the fewest for which a splicing loop both takes and leaves
  elements and leaves one between two taken.
- *`MaxOrders` 2* in `EfundSerial` is one order each; raising a second one for an owner is
  within reach, and what `OneOrderEach` excludes. *`Threshold` 2* makes an
  order wait between acceptances.
- *`UpgradeHeight` 7, `VotingBlocks` 3*: the proposal opens, ends and is scheduled
  with one block to lose to a fault; `MaxHeight` 10 leaves room for a custom
  proposal to end after the upgrade.
- *Streams: upgrade at 9, `MaxHeight` 12, two faults, one pair.* That leaves room before
  the upgrade for a create, the three operations of the list, a claim between them and two blocks
  lost to the faults. With two pairs `StreamsVerified` fails, as `StreamsUncovered`
  shows why; the example configuration has five.
- *Monitor: two nodes, upgrade at 3, `MaxHeight` 4.* Two nodes must both be up for a block, and
  may be a block apart; height 2 starts the watch, 3 is the new binary's first block and 4
  the one after it. Two handlers: one watches while the other counts. Any numbers are
  covered by the proofs. The tails are shorter than the program's, so that with three blocks
  to go the limits are met: `Tail200` 1 has block 3 out of sight once block 4 is committed, and
  `Tail1000` 2 the start of the new binary.
- *BlockOverlap: upgrade at 4, a voting period of 1.* The fewest blocks in which the plan is
  made before the upgrade, and with it the restart that loses mempool and event. Only one
  event is undelivered at a time; the handlers it starts run on for as long as they like.
- *Transfers: holdings of 3 or 4, one fault.* A holding of a test wallet is sent or staked
  in halves, so that two messages computed from the same reading exceed it. What crosses
  is large enough for a share of it to come back. `AlreadyHas` 2 makes a receiver refuse, and its
  return transfer lift the refusal.

Bounds are guards, and each is a constant with "bound:" in its comment. In
`WalletSequence`, where the end of the bounded behaviour would be a deadlock, `AllSent`
stutters once the bound is reached. `Monitor.cfg` alone turns deadlock checking off: the
monitor's process may exit, and with it everything that is modelled.

Each run covers the interesting part under a stated restriction: `ReportedOnce`
and `NeverLost` for gated wallets with one tx per block and handlers that reach their end, `OneOrderEach`,
`OneRegistration`, `CustomOnce`, `ShapesFollowBinary`, `NothingRejected` and `GatedNeverFail` for handlers that do not
overlap, `CustomOnce` without lost CLI answers, `TxsCountedOnce` and `UpgradeReported` for
logs that are read before the network's next step (`Prompt`), `UpgradeReported` besides for
behaviours in which no node outruns the watch (`Outran`), `VerifyPasses` for a mempool that each
block empties, `VouchersReturn` for
behaviours in which the first channel opens. Outside these restrictions the
properties fail, see section 6.

## 4. Fairness

- `WalletSequence`: weak fairness of each caller's step: the event loop runs every
  settled await, requests are answered, and another block brings another call.
  Nothing obliges a block to be committed or a fault to happen, and no strong
  fairness is used.
- `TxQueue`: weak fairness of handlers, of the node's answers, of inclusion, and of
  promise reactions; strong fairness of `SendTxs`, since a wallet that may send
  draws its action at random and picks one it can pay for again and again.
- `EfundFlow`: weak fairness of handlers, blocks and completion; strong fairness of
  the three steps that need an empty pending queue, per owner and signer. The
  queue is emptied again and again by `KeepsSending` of `TxQueue`, not for ever.
- `BlockRunner`: weak fairness of blocks and of handlers.
- `PaymentStreams`: weak fairness of blocks, of the mempool and of handlers. `LuckySpec`
  adds, for `KeepsClaiming`, that the random choice of an operation does not always avoid
  what leads on to a claim (strong fairness of that outcome of `AnswerStream`; most rolls of
  `randomStreamSenderMsg` are one). `StreamsVerified` does not need it: the list alone does it.
- `Transfers`: weak fairness of the handlers of both chains, of each wallet's txs and of
  the relayer. Nothing is assumed of the dice.
- `Monitor`: weak fairness of start-up, handlers and refreshes; strong fairness of the
  nodes' progress, which `Prompt` suspends while a log is read: the watch sleeps a
  second between two rounds, so the network is never held up for ever. Nothing bounds what
  it does in that second: `Outran` is what may then go wrong.

The violations of liveness (`WalletNeverHeals`, and by hand `EfundStuck` and `BlockNoMsgs`) are
under the same fair specifications as the passing runs.

## 5. Proofs

Constants are restricted by the named assumptions of each module only: callers, handlers
and refreshes are any set, faults any subset of the kinds, bounds any naturals. Where a
property holds only while handlers do not overlap, or only without a kind of fault, the
theorem assumes that besides, and the table says so.

| Theorem | States |
|---|---|
| `AllocatorDistinct` (`SequenceAllocator_proofs`) | numbers handed out are distinct and below the counter, until one is adopted under other holders |
| `WalletTypeOK` (`WalletSequence_proofs`) | `Spec => []TypeOK` |
| `WalletImplementsAllocator` | `Spec => Allocator!Spec` |
| `WalletUniqueReservations` | `Spec => []UniqueReservations` |
| `SerialWalletHeals` | `Spec => []OneMismatchPerDisturbance` |
| `RunnerNewShapeNeverEarly` (`BlockRunner_proofs`) | `Spec => []NewShapeNeverEarly` |
| `RunnerShapesFollowBinary` | with `Prompt`, `Spec => []ShapesFollowBinary` |
| `RunnerTypeOK` | `Spec => []TypeOK` |
| `RunnerCustomOnce` | with `OneAtATime` and without the fault `answerLost`, `Spec => []CustomOnce` |
| `RunnerAsConfigured` | with `Prompt`, `MsgsLoaded` and `RoomForFaults`, without the fault `submit`, `Spec => []AsConfigured` |
| `PurchaseTypeOK` (`EfundFlow_proofs`) | `Spec => []TypeOK` |
| `PurchaseCompleteMeansLocked` | `Spec => []CompleteMeansLocked` |
| `SerialOneOrderEach` | with one handler, `Spec => []OneOrderEach` |
| `SerialOneRegistration` | with one handler, `Spec => []OneRegistration` |
| `StreamsNothingRejected` (`PaymentStreams_proofs`) | with `Prompt`, `Spec => []NothingRejected` |
| `StreamsTypeOK` | `Spec => []TypeOK` |
| `TransfersGatedNeverFail` (`Transfers_proofs`) | without failing queries, `Spec => []GatedNeverFail` |
| `TransfersTypeOK` | `Spec => []TypeOK` |
| `QueueTypeOK` (`TxQueue_proofs`) | `Spec => []TypeOK` |
| `QueueNeverLost` | with `Singly`, `Spec => []NeverLost` |
| `QueueReportedOnce` | with `Singly`, `Spec => []ReportedOnce` |
| `MonitorTypeOK` (`Monitor_proofs`) | with `Prompt`, `Spec => []TypeOK` |
| `MonitorSuccess` | with `Prompt`, `Spec => []SuccessMeansUpgraded` |
| `MonitorCountsOnce` | with `Prompt`, `Spec => []TxsCountedOnce` |

**Wallet.** `TypeOK` is not inductive: that the counter is a number when a call
uses it depends on who runs the resync. `SingleFlight` adds that a resync in
progress is the one `seqInit` names, that its read is pending only while the
counter is unset, and that a sequence is held only once it is set. With it each
step of the wallet is a step of the allocator or a stutter, under the mapping
`next <- sequence`, `held[c] <- usedSeq[c]` while `c` holds one. Resync, signing,
the chain and the CLI stutter; `SetSequence` is the read; the two ends of the catch are
`Adopt` and `Release`; success is giving the number up. Distinctness is proved for the
allocator, and reaches the wallet through the mapping.

**Serial recovery.** `OneMismatchPerDisturbance` needs an exact account: while
`serial`, `Settled` relates the number the current holder has (or the counter,
when nobody has one) to `checkSeq`: they agree unless something is still owed,
and what is owed never exceeds the disturbances counted. `SerialInv` joins
`Settled` with the fact that there is at most one holder (`Holder`, `Owed`). One
lemma per group of actions: `SerialReserve`, `SerialPrepare`,
`SerialBroadcast`, `SerialFinish`, `SerialChain`.

**Message shapes.** `NotAhead`: what a handler knows of the height, undelivered
events included, is at most the chain's; hence the static shapes, a composed
message and every message in the mempool are new only if the next block is of the new
binary. Blocks only raise the height and take a prefix of the mempool. The converse needs
`Prompt`: `InStep` says that the switched shape is *fresh* unless the handler of this block
has yet to start, when nobody is sending and nothing waits; a block event or a mempool lost
at the upgrade leaves exactly that state.

**The runner's types.** `TypeOK` says more than types: a vote in the mempool names a
proposal that exists, a handler holds an answer exactly at the await that brought it. A
block is the hard step. `OfKind`, `Selected` and `Run` pick a prefix of the mempool apart
into proposals, votes and msgs; `Opens`, `Votes` and `Executes` state what they yield, by
the rank of each position in a finite set.

**Custom txs.** `OneAtATime` is the condition of both properties: blocks wait for their
handlers, or there is only one. `OnceInv` follows one custom tx: it is *in one place*
(`InOnePlace`: nowhere, in the mempool, or on chain), and once it has left the runner it is
*noted*, in `customDone` or by the handler whose CLI call is still to return (`Noted`).
A lost answer breaks `Noted`, and nothing else does.

`RunnerAsConfigured` is the one proof that counts. A custom proposal stays *on track*
(`OnTrack`) as long as every vote cast on it is the configured one, and each block that
passed without one has cost a fault; the restart at the upgrade may cost one more, its lost
event, which is no fault. `RoomForFaults` turns that into an outcome: `VotingBlocks >
MaxFaults + 1`. That the votes are the configured ones needs proposal 1 to be the
upgrade's, as `voteFor` goes by that number: `UpgradeFirst`, which holds if no custom
proposal is due in the first `MaxFaults + 1` blocks. The generated network
votes for 90 seconds (`genesis.go:75`), about 18 blocks, and its example submits at block 20
(README 77, 109); `submit_height` may be 1, though.
`BlockSerial` meets both conditions.

**Purchases.** A handler may be told that an order is complete after another handler has
given its owner another order. `PurchaseInv` says why that does no harm: every order a
handler asks about is one *of the owner it is at* (`AsksItsOwn`), because it came from
that owner's `eFundPoId`, which names an order of the owner's while the status is
`PO_PROCESSING` (`Processing`); orders never change hands or disappear (`Listed`,
`Shapes`); and a completed one has its purchaser's eFUND locked (`CompletedAreLocked`).
`PoIdOfList` is the one fact about the order list: the last of an owner's orders in it is
one of the owner's. For `TypeOK`, `Bounded` counts the orders on chain together with those
still in the mempool, and `Places` and `Values` say what each await and each variable may
hold.

**One order, one registration.** With a single handler, `OneOrder` says that an owner's
orders, on chain and in the mempool, are at most one, and none before the owner's status
says so; `AsFound` that what the handler was told about the owner has not changed since,
as nobody else is at work. `RegistrationInv` is the same for the registration and its flag.
Failures do not matter: a tx that may have been sent counts as sent.

**Streams.** What makes every message succeed is not visible in the messages alone:
`StreamsInv` says that one handler is busy at a time and on what earlier pairs left
(`Alone`), that the denom is the *next* block's (`DenomOfNext`), that a pair's claim can be
preceded only by a top-up or an update (`Composed`), and that the messages of a pair in the
mempool bear each other's execution in either order (`AllApply`, `Compatible`).
`AppliesNext` is the step where the upgrade could bite: a message simulated on the last
block's state has the next block's denom.

**Test wallets.** `GateInv` has three parts: the handler's place in the list (`Local`), who
had a turn (`Turns`: the wallet whose turn it is is in neither queue), and that a wallet
with a tx on its way has only that one, is in `sentTxs` or `pendingTxs` for it, and can
still afford it (`Queues`). A rejected query breaks `Turns`: the handler ends with wallets
left in `sentTxs`.

`TransfersTypeOK` has no such condition. It adds to `Local` what the relayer does (`RelayerOK`)
and that no holding or stake is below zero (`WalletsOK`), since the chain takes only what
is there; `StreamsTypeOK` adds to the types of the handlers that the list of operations to
cover is always an end of `ValidRandomMsgTypes` (`Listed`).

**Queues.** The types hold without condition; that a reaction finds the promise it is
about rests on `FirstPosition` and `RankedPosition`, the facts about finite sets of positions that
replace an induction over the queue. What is followed, and logged once, needs `Singly`, the
life of a test, BEACON or WrkChain wallet: it waits for an empty `#pendingTxs`, sends one tx
in a block, is answered before it acts, and at most two handlers are in progress, neither of which ends
early. Then there is *one lookup* (`OneLookup`): a check that finds the one before answered
cleans what that left, and takes one tx, since there are at most two (`TwoAtMost`: each in
`#sentTxs` was put there by a handler that has still to move it, so that a third sender would
be a third handler). `OnePlace` and `Outstanding` say that a tx is in
one queue or looked up from its broadcast to its result, and not after. The splicing
loops appear as `Halves`: one takes a part of the queue and leaves the rest. The
condition is sharp: with three handlers, or one that ends early, two txs are
looked up together and `NeverLost` fails as in `TxLost`; the fate `dropped` and any number of
rejected lookups are allowed.

**Monitor.** `SuccessMeansUpgraded` compares a counter with a number of rows, so the
invariant `WatchOK` says that the counter *is* the number of upgraded rows, that at most
one handler watches, that it looks only at a row that is not upgraded, and that an
upgraded row's node has committed the block. One watcher is where `Prompt` is needed
(`CommitKeeps`): without it two events of the block before the upgrade may meet, and two
loops count one node twice. `CountOK` keeps, for each block, whether its line is still to
be counted, and that the counted lines are in the log in the format looked for; the blocks
of the log that `run` read are below any whose event comes (`BeforeFollow`: up to the
subscription there is no event). The tails are any positive numbers.

Out of the provers' reach: liveness under fairness, `ENABLED`, and induction over data.
The first two stay with TLC. For the third the models say what a loop leaves by the
*set* of positions it keeps, so that facts about finite sets take induction's place; only the
positions that the cleaning loop of `checkWalletTxs` keeps (`gone`) are recursive, and the theorems
need of them no more than that they are positions, and which they are in a queue of one.

## 6. Where the code departs from what it says

Shown by a run or a configuration each:

1. `WalletNeverHeals`: `wallet.mjs` says a resync follows every tx error. It only
   follows while the sequence is unset; when `getChainId` fails after
   `getSequence` succeeded, the wallet signs over an empty chain id for ever.
2. `BlockStaleUpgrade`: the flag that the upgrade proposal was submitted is set
   whatever the CLI answered, a stale sequence included.
3. `BlockNoMsgs`: with no custom tx file the list of msgs is undefined, every
   handler throws before the validators act, and the upgrade is never proposed.
4. `StreamsUncovered`: an operation leaves `uncoveredOps` when its message is composed. In
   the block before the upgrade the messages have the new shape already and the old binary
   refuses to simulate them, so with two streams the second one's `update_flow` is lost
   without a fault, and `make verify` may miss it after the upgrade.
5. `TxLost`: several lookups of a block may reject; the `catch` of `Promise.all`
   sees one, so only one hash returns to the pending queue.
6. `EfundStuck`: `purchaseEfund` catches a failing `sendTx` to retry, which
   never throws; the owner waits for an order that was never raised.

Met while modelling, allowed by the models, and with no run of their own:

- A caller that resumes between the two assignments of a resync is handed the
  sequence without the chain id (`TX/wallet/wallet.mjs:167`).
- A lost answer releases the sequence of an accepted tx
  (`TX/tx/tx_factory.mjs:48-49`); the next call pays with a mismatch.
- Adopting in mid-flight is called safe (`TX/wallet/wallet.mjs:211-212`), but may
  hand out a number another call still holds. `overlap` records exactly that.
- A lookup that fails otherwise than with "tx not found" is only logged, and the tx
  is not looked up again (`TX/tx/tx_factory.mjs:182-184`; `Answers` with "error").
- The loop that cleans rejected promises skips their neighbours
  (`TX/tx/tx_factory.mjs:139-145`).
- When a handler ends early while another overlaps it, or three overlap, a gated wallet too
  has several txs in its queue, and one may be lost as in `TxLost` (`TxGated` with `MaxAborts`
  1, or with a third handler).
- A dropped tx is looked up for ever, and a gated wallet never sends again
  (`TX/runner/actions.mjs:82`).
- A custom proposal due at the first block takes id 1, which the validators take
  for the upgrade (`TX/modules/gov.mjs:142`).
- Overlapping handlers may submit two upgrade proposals
  (`TX/runner/actions.mjs:97`), raise two purchase orders, or register twice.
- A custom msg whose CLI answer is lost is sent again
  (`TX/runner/actions.mjs:126`, `TX/tx/tx_factory.mjs:68`).
- A message composed by a slow handler may reach the new binary in the old shape.
- With two faults a gated test wallet can overdraw: a rejected query skips
  `moveSentToPending`, the delayed tx stays in `#sentTxs`, and the gate reads
  `#pendingTxs` only (`TX/runner/actions.mjs:165`).
- When hermes fails to create the channel, the flag is touched all the same, and no restart
  creates one (`src/templates/scripts/run_hermes.sh:31`). When it fails between INIT and OPEN and
  a later attempt succeeds, the runner still takes the first channel
  (`TX/modules/ibc.mjs:79`), while `make verify` accepts any.
- The total of txs at start-up counts every other line of the log and none of the new
  binary's format (`packages/monitor/src/lib/docker.mjs:43`).
- A node that logs more than 200 lines past the upgrade block before the watch looks again (it
  sleeps a second, and asks the nodes one by one) is never counted, so that "UPGRADE SUCCESSFUL"
  is never shown and the watch does not end (`packages/monitor/src/lib/nodes.mjs:45`,
  `docker.mjs:73-83`), although by `nodes.mjs:36` the watch goes on "until every node has
  restarted on the upgrade binary". `UpgradeReported` without its `Outran` disjunct is violated in the run's
  instance. The version shows 0 once its line is more than 1000 lines back (`nodes.mjs:26`).
- Blocks between the reading of the log and the subscription are in no total
  (`packages/monitor/src/lib/monitor.mjs:100-106`).
- When logs are slow, two handlers of the monitor can both start the watch, or neither
  (`packages/monitor/src/lib/monitor.mjs:134`); a lost event of the block before the upgrade
  means no watch at all.

## 7. What is only model-checked, and what is not modelled

Model-checked only: all liveness (`EventuallyAccepted`, `KeepsSending`,
`EventuallyReported`, `EventuallyRecorded`, `VerifyPasses`, `StreamsVerified`,
`KeepsClaiming`, `UpgradeReported`, `ScreenConverges`, `VouchersReturn`), and
`GatedNeverFail` with one failing query. Every invariant that a run checks is also proved, some
under the conditions of section 5.

Not modelled, and why:

- *No composition of all of `onFundBlock`.* Its parts share wallets and the block height
  but hardly state; each module has the interface it needs as a free choice (an empty
  queue, a send that fails), and the product is beyond TLC.
- *Test wallets' votes, rewards, fees, gas, packets that time out*: no branch of
  the code depends on them within a rehearsal.
- *Start-up of the runner* (`readiness.mjs`, `clients.mjs`): a loop of polls with nothing beside it.
- *The generator, config validation, bech32, TOML and text tools, the legacy bash
  generator*: sequential transformations of one file into others, with no state between
  calls, within reach of their unit tests; most is formatting.
- *Third-party sources, Makefile, docker*: pure I/O and build recipes.
- *The rest of `make verify`* (block production, signatures, containers, logs): checks of
  the chain and of docker, which have no model here.
- *The chains, the CLI, Hermes and CosmJS themselves* appear only as what the
  code in `src/` asks of them.
