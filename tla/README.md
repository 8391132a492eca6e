# Verification of the Garant escrow

Garant is an escrow service that lives in Telegram. A buyer and a seller agree on a deal; the buyer's money is locked
in a smart contract (on Polygon in USDT, on TON in TON or jettons); it leaves the contract when the buyer confirms,
when the seller gives up, or as an arbitrator decides. A NestJS backend (`services/user-service`) talks to the payment
provider, to the chains through a hot wallet (the relay), to the database and to the users.

This directory holds TLA+ modules for the parts of the system that hold or move money, TLC configurations that check
them on small instances, and proofs, checked by TLAPS, for all instances.

Contents: [1 inventory](#1-the-system), [2 modules and code](#2-modules-and-how-they-correspond-to-the-code),
[3 runs](#3-what-the-runs-check), [4 proofs](#4-what-is-proved), [5 findings](#5-where-the-code-and-its-documents-disagree),
[6 what is left out](#6-what-is-not-modelled), [7 known limitations](#7-known-limitations), [8 plan](#8-plan).

---------------------------------------------------------------------------------------------------------------------

## 1. The system

Paths are relative to `src/`; `U` stands for `services/user-service/src/modules`.

### 1.1 Polygon contracts (`contracts/contracts`)

| component | state | operations | what makes it correct |
|---|---|---|---|
| `EscrowFactory.sol` | relay, minimum amount, tariff, fine; one clone per deal id | `createEscrow` (relay only), four setters | terms are fixed when the clone is created, whatever the setters do later; a deal whose seller's fee exceeds its amount is never created |
| `EscrowImplementation.sol` (a clone) | status, terms, funding deadline, arbitrator; its token balance | `notifyFunded`, `extendFundingDeadline`, `cancel`, `expireUnfunded`, `release`, `refund`, `dispute`, `assignArbitrator`, `resolve`, `rescue` | a funded clone can always pay; each outcome pays exactly what it promises, once; nothing else takes tokens out |
| `PlatformTreasury.sol` | main balance, reserve, rewards it owes to arbitrators | fees, rewards (paid or deferred), claims, slashed stakes, transfers between the balances, withdrawal, reconciliation | balances are backed by tokens; no reward is lost or paid twice |
| `ArbitratorRegistry.sol` | status, level, stake, withdrawal request, disputes of every arbitrator | hire, set status or level, slash, deposit, request / make / cancel a withdrawal, begin / end a dispute | a stake cannot leave while its owner decides a dispute; the stakes recorded are there |

A clone calls the treasury and the registry within its own transactions, so one call of `resolve` moves tokens of three
contracts and calls two of them. Hard: the arithmetic of splits and fees in integers; tokens that arrive at any time,
before the clone exists and after it is closed; parameters that change while clones live; calls of six kinds of actors
in any order around two deadlines.

### 1.2 From a payment to a funded escrow (`U/payment`, `U/ops`, `U/blockchain`, `U/escrow`)

| component | state | operations | interactions |
|---|---|---|---|
| webhook processing (`payment-webhook.service.ts`) | payment rows | provider notices: paid, processing, failed, refunded | reads payment and deal, locks the rate into the deal, claims the operation, drives the relay, writes ledger, operation and deal |
| payment operations (`payment-operation.service.ts`) | one row per payment: status, lease owner, lease expiry | claim, renew, mark completed / retryable / manual review | compare-and-swap updates; a lease of a process, renewed on a timer by `withLease` |
| reconciliation (`reconciliation.service.ts`, scheduler) | none | a periodic sweep over 100 completed payments, of which it takes those of deals still to be paid | the same operations as the webhook, in another process |
| wallets (`user.service.ts`) | a wallet on each account | `attachWallet`, `detachWallet` | a payment is forwarded only between parties who have one |
| relay (`relay.service.ts`, `relay-tx-queue.ts`, clients) | a queue per process; the hot wallet's nonces on chain | `deployEscrow`, `forwardAndFund`, `assignArbitrator`, `extendFundingDeadline` | reads the chain, broadcasts, waits for receipts |
| money ledger (`money-ledger.service.ts`) | unique entries | `recordEscrowFunding` | written after the funding |
| deal service (`deal.service.ts`) | deal rows | here `confirmPayment` and `cancel`; about twenty more | reads a row, decides, saves the whole row |

Hard: a notice is delivered more than once, and to any process; a process dies between the transfer and the record of
it; a lease runs out while a transaction is pending; a row is saved whole from a copy read long ago; the parties act on
chain and in the bot meanwhile. Correct means: a deal is in progress only with its deposit in escrow; the books say
funded only when it is; two workers never fund one payment at the same time; the hot wallet does not pay twice; a
completed payment does not hang.

### 1.3 Deal lifecycle, outbox (`U/deal`, `U/notifications`, `U/ops/outbox.service.ts`)

* **Deal service and state machine** (`deal.service.ts`, `fsm/deal-state-machine.ts`). State: the deal row. Invite,
  accept, reject, confirm, ship, receive, dispute, cancel, admin overrides, `syncEscrowRelease`, reminders. Most
  operations read, decide and save without lock or version; `acceptInvite` uses a row lock; `openDispute` goes around the
  state machine. Statistics and reputation are counted before the row is saved, events are enqueued after it. Correct: no
  event announces what was never saved; what a row shows has been done; the status follows the state machine.
* **Outbox** (`outbox.service.ts`, dispatcher, scheduler). Rows PENDING, PROCESSING under a lease of 60 s, DELIVERED,
  DEAD after six failures; a message is sent to one recipient after the other, and a copy is enqueued for those who are
  asleep. Correct: nobody is forgotten, an event is at rest in the end; hard: leases that run out after sending, marks
  that come late.

### 1.4 TON (`contracts-ton/contracts`, `U/payment/rails`, `U/deal/ton-*`)

* **`TonNativeEscrow.tolk`**: deposit, release, refund, dispute, resolution and deadlines, in one contract that pays out
  with messages from its own balance, from which rent is taken as well. **`TonJettonEscrow.tolk`**: the same with jetton
  transfers, which are asynchronous: a settlement is a set of payout legs with masks, each of which may bounce or come
  back without a word, with reconciliation, retry and recovery. Correct: the total is divided once, every part is paid
  once, what is open is covered, the deal closes only when all are paid.
* **Deposit rails** (`ton-rail.base.ts`, `direct-usdt.rail.ts`, `ton-funding-lock.service.ts`, `ton-recovery.service.ts`,
  `direct-deposit.watcher.ts`, `escrow-deadline.service.ts`): the buyer pays to the platform's wallet in TON or straight
  to the clone, and the backend funds the clone from its float, under a Redis lock with a time to live that its holder
  deletes unconditionally, and a local set for when Redis fails; deposits are matched to payments by hand; a deadline is extended on chain and then in the
  database. Correct: the float is spent once per deal, and only for money that has come.
* **Native ingestion** (`ton-native-funding-ingestion.service.ts`, `ton-native-lifecycle-ingestion.service.ts` and the
  services around them): two cron jobs, on every replica, and backfills share a watch (status, cursor) and a table of events; events are applied to ledger,
  deal, intent and watch under a row lock, give up after some attempts, and are requeued by two administrators.
* **Jetton ingestion** (`ton-jetton-{preparation,action-intent,durable-ingestion,transactional-application,
  ledger-reconciliation}.service.ts`): a deal is prepared in versions, each with an escrow and a watch of its own; events
  are applied in one database transaction each, by several workers, against `prepare` and a circuit breaker. Correct: one
  escrow counts; an event is applied wholly or not at all; none waits for ever.

### 1.5 Agreements, safety, arbitration (`U/deal/settlement-agreement.service.ts`, `U/safety`, `U/arbitration`)

* **Settlement agreement**: quotes, confirmations of both parties, changes of terms between them.
* **Circuit breaker and money gate**: whether money may move, asked before a broadcast or a booking.
* **Arbitration** (`dispute.service.ts`, `arbitration.service.ts`, `arbitrator-selection.service.ts`,
  `dispute-blockchain.service.ts`): a dispute row with eleven statuses, a decision with an appeal window, appeals that
  are reviewed or withdrawn, assignment in the database and then on chain, and the arbitrator's report of the transaction
  that resolved the clone.

### 1.6 The rest

Invoices and signatures, reviews, users and KYC limits, the TON proof kernel, anti-scam, auth, admin, monitoring, i18n,
the Telegram bot, the mini app, scripts and migrations: they keep no money state of their own, or are pure functions on
bytes. `PROJECT.json` lists every component with its files, what is modelled of it, and the reason where nothing is.

---------------------------------------------------------------------------------------------------------------------

## 2. Modules and how they correspond to the code

```
 FeeSchedule   Usdt                      PaymentOperations   RelayChain          PayoutPlan        DealStatus
      \         |                               |  (INSTANCE)   /      \           /        \        /    |    \
    PlatformTreasury                            PaymentFunding    TonDeposits   TonJetton TonNative  Deal Ton    Ton
         |                                           |                |          Escrow    Escrow   Life Native Jetton
    ArbitratorRegistry                           MCFunding        MCDeposits                        cycle Watch Ingestion
         |
    EscrowContracts --- implements ---> DealCustody                                              Outbox
         |                                                                                         |
    EscrowAccounts --- MCEscrow                                                                MCOutbox
```

`X_proofs` holds the theorems about `X` (`TonNative_proofs` and `TonJetton_proofs` those about the escrow and about the
ingestion of its transactions), `Sums` lemmas about sums that two of them need; the `MC` modules give constants their
values.

### 2.1 The contracts on Polygon

A transaction is atomic, so a step of `EscrowContracts` is one external call with every call it makes to the other
contracts and every transfer; `require` and custom errors are conjuncts of the guard, and a call that reverts is a step
that is not enabled.

| module | models | notes |
|---|---|---|
| `FeeSchedule` | `computeTotalFee`, `splitFee`, `_computeFine`, `_computeResolveSplit` | integer division rounds as in Solidity; `DISPUTE_FEE` and the denominators have the code's values |
| `Usdt` | the token, external | `Credit` and `Pays`; a transfer fails without the balance. Fees on transfer and blacklists of a real USDT are not modelled |
| `PlatformTreasury` | `PlatformTreasury.sol` | `deferred` is `deferredArbitratorRewards`; `treasuryTokens` is `token.balanceOf(this)` |
| `ArbitratorRegistry` | `ArbitratorRegistry.sol` | without `arbitratorList`, `hiredAt`, `totalSlashed`, which nothing reads |
| `EscrowContracts` | `EscrowFactory.sol`, `EscrowImplementation.sol`, composed with the three above | `terms` is what `initialize` stores; `held` is the clone's balance, which can be paid before the clone exists, its address being known; `toBuyer`, `toSeller`, `award` and `rewards` record the events, the contracts do not store them |
| `DealCustody` | the promise: one deposit per deal, locked once, paid out in one step, the disputed principal to the two parties in full | the abstract specification; `CustodySpec` in `EscrowContracts` maps statuses to stages and is checked and proved |
| `EscrowAccounts` | properties that need sums or ENABLED | the sums are proved, ENABLED is for TLC |

The roles other than the relay's are fixed (the administrator is any step of the setters). `block.timestamp` is `now`,
which starts at 1 and is bounded by `MaxTime`.

### 2.2 Payment funding

`PaymentFunding` is a set of workers (`Hooks` handle webhook deliveries, `Sweeps` run the periodic sweep), each in a
process (`Replica`), with its program counter, the payment it works on, and its copies of the deals it has read. A step
ends at an `await` that others can get between. Awaits that only read rows nobody changes, or that follow each other
without anything in between that others can see, are one step.

| action | code (`payment-webhook.service.ts` unless said otherwise) |
|---|---|
| `PaidWebhook`, `NoticeWebhook` | `handlePaymentWebhook` up to its first save; every other status of the provider overwrites the payment's |
| `LockFundingFx` | `lockFundingFx`: `save(deal)` with the rate, or nothing when the row has one and the notice none |
| `StartSweep` | `reconcilePayments` (reconciliation.service.ts): the query, which reads a limited number of completed payments in no order (`SweepLimit`), whatever has become of their deals, and the filter |
| `OtherCompletes` | a payment of a deal outside the model is completed: it takes up room in what a sweep reads |
| `Claim` | `claimFunding` (payment-operation.service.ts) with its insert, its `UPDATE ... WHERE`, and what the callers do with the answer |
| `Deploy`, `Attach` | `deployEscrow`, and the save of the address |
| `Review` | the check of the deal's status under the lease, `markManualReview` |
| `Forward`, `Transfer`, `Notify` | `forwardAndFund` (relay.service.ts): inspection of the clone, the missing transfer, `notifyFunded` |
| `RecordFunding`, `MarkCompleted`, `MarkRetryableFailure` | ledger entry and the marks |
| `LeaseLost`, `RenewWhileWaiting` | `withLease`: the renewal before it starts, its timer, and what it raises when the lease is gone |
| `ConfirmPayment`, `SavePaid` | `confirmPayment` of `deal.service.ts`, its read and its save |
| `ReadToCancel`, `SaveCancelled` | `cancel` of `deal.service.ts`, its read and its save |
| `AttachWallets`, `DetachWallets` | `attachWallet`, `detachWallet` of `user.service.ts` |
| `Crash`, `LeaseExpires`, `CallFails`, `AnswerLost` | a process dies (its transactions stay broadcast); time passes; a call fails before the broadcast; a receipt never arrives |

Things that matter and are easy to miss:

* TypeORM's `save(entity)` writes every column in which the entity differs from the row, and there is no version column:
  a save from an old copy restores the old values. `Save(d, copy)` therefore replaces the row.
* `deal.buyer` and `deal.seller` are eager relations, so the wallets come with every read of a deal.
* The lease belongs to a process and not to a worker, and `markX` asks only who owns it (`Mark`), never for the status.
* The relay's queue is one per process (`QueueFree`). Between processes the nonces order the transactions: `mempool` is
  a queue that is mined in order.
* A transaction whose worker has died or has given up waiting is still mined (`worker` becomes `NoOne`).

`PaymentOperations` is the operation row alone, with the code's conditional updates as actions; `RelayChain` has of the
clones what the relay and the parties can observe and do. It is an abstraction of `EscrowContracts` made by hand:
AWAITING_FUNDING, FUNDED, a void clone that can be rescued, and one settled state for release, refund and resolution.

### 2.3 The deal row

`DealLifecycle` is one deal, its invitations, its clone as far as the service looks at it, and a set of requests
(`Callers`), each with the row it has read and the row it is going to save. `DealStatus` has the two tables of
transitions, `deal-state-machine.ts` and `canTransitionTo` of the entity, which differ.

| action | code (`deal.service.ts` unless said otherwise) |
|---|---|
| `Begin` | the read, the guard (`Permits`) and the change (`Target`, `After`) of update, cancel, accept, reject, confirmPayment, markShipped, confirmReceipt, openDispute, syncEscrowRelease and the administrators' operations; of `lockFundingFx`, which only saves its old copy; of `DisputeService.openDispute`; of `recordResolutionTx` (dispute-blockchain.service.ts) |
| `LookUpDispute`, `InsertDispute` | `createDisputeForDeal` (dispute.service.ts): look for a dispute, insert one |
| `LookUpDispute`, `Arbitrate` | `DisputeService.openDispute`: look for a dispute, then dispute, deal and event in one transaction |
| `CloseDispute` | a dispute is closed (`updateStatus` and what enforces a decision) |
| `Count` | statistics and reputation, counted before the save |
| `Inspect` | confirmReceipt and syncEscrowRelease look at the clone |
| `Save` | `save(deal)`: the whole row, from the copy |
| `Publish` | the event is enqueued, after the save and in another transaction |
| `Remind` | the scheduler that expires unpaid deals and confirms stale ones |
| `LookUpInvite`, `InsertInvite`, `AcceptInvite`, `ExpireInvite` | invitations; `acceptInvite` holds a row lock and is one step |
| `Breaks` | a process dies, or a call throws: the request is gone where it stands |
| `Fund`, `Settle` | the clone is funded and settled (2.1, 2.2) |

`reached` (every status ever saved), `published`, `counted` and `forced` (an administrator has decided) are history.

### 2.4 Outbox

`Outbox` is the table of rows, and workers in several processes with a batch each.

| action | code |
|---|---|
| `Enqueue` | `enqueue` |
| `Claim` | `claimBatch`: the due rows that are pending or whose lease has run out, leased to the worker. The model takes a batch in any order (the code's is by `availableAt`), and all that is due: its rows are fewer than the limit of 25 |
| `Dispatch`, `Fails` | `dispatch` to the next recipient: muted, asleep, or given to `sendMessage`, which returns whether Telegram has reached him or not; or the look-up of the user or of his preferences throws |
| `Defer`, `MarkDelivered`, `FindFailed`, `MarkFailed` | the ends of a row in `tick`: a copy for those asleep, the mark, the read and the save of a failure |
| `LeaseExpires`, `BecomesDue`, `WakesUp`, `Die` | time passes; a worker's process dies |

### 2.5 The escrows on TON

`TonNativeEscrow` and `TonJettonEscrow` have one action per message of the contract, with its assertions as guards; a
transaction that fails is undone and is a step that is not enabled. Both implement `PayoutPlan`: the total is divided
once, each is paid his part at most once, the deal closes when all are paid.

* Native: `CanPay` is the action phase of the TON virtual machine: when the balance cannot pay for all messages of a
  transaction, its change of status is undone too. `Tick` takes rent. `TopUp` is a message that only brings money.
* Jetton: `Deposit` and the transfers are the jetton wallet's. A payout is `sent`, then accepted or refused (`WalletRefuses`
  bounces), then credited or returned (`PayoutReturns`, without a word to the escrow). `ReconcileAttempt` is the report of
  the authority: `Arrived` and `CannotArrive` say what it may report (external: finalized evidence). `RetryFailedLegs` and
  `FinalizeSettlement` do what the contract does, with `StorageValid` for the check that it makes whenever it loads its
  storage: a state that fails this check would brick it. A message carries the next query id or one of `Leaps`, up to
  `MaxQuery`, which stands for 2^64 - 1; a retry needs an id for each leg.

### 2.6 From TON to the deal

| module | models | how |
|---|---|---|
| `TonNativeWatch` | both cron jobs on any number of replicas, their backfills, the row lock, attempts, reconciliation, review, requeue, for one escrow | `Transact` is the chain. `StartRun`, `List`, `Observe`, `AdvanceCursor` scan; `LockEvent` ... `MoveWatch`, `Commit` apply one event, each write a step because only the event's own row is in a transaction; `Record` and `Review` count failures. `advanceCursor` saves the row it has read, so an older row can be written over a newer one. `ledger` has the entries booked for each event, `taken` what jobs have taken it for (`Taken`): a funding job takes every event it finds recorded for a funding, and for a funding the lifecycle job's query by a null id returns any row. `ahead` counts the older watches that still wait: a scheduled funding job reads the `MaxWatches` oldest (`Crowded`) |
| `TonDeposits` | rails, watcher, checks, sweep, scanner, match and ignore by hand, extension of a deadline | a step ends at an await. `Lock`, `TakeLocal`, `SetNx`, `Release` are the funding lock with its local set and its Redis key; `Forward`, `Transfer`, `Notify` the relay; `SaveResult` saves the payment from the copy; `MatchRead`, `MatchCredit`, `MatchMark` and `ExtendRead`, `ExtendMined`, `ExtendSave` the administrators. The extension's transaction is one step, `Look` merges the snapshot with the progress computed from it, and the sweep comes down to its confirmation. `credits` counts what `match` has credited to a payment, whether or not its row still says so |
| `TonJettonIngestion` | preparation, intents, append, application, failures, review and requeue, ledger reconciliation, breaker | rows are locked as PostgreSQL does (`PreparationFree`, `DealFree`, `Deadlock`). `Claim`, `LockPreparation`, `Decide`, `Commit`, `Record` are the stages of a worker; `Commit` writes ledger, deal, intent, watch and application at once, because the code does so in one transaction. `intents` holds what can have been prepared by now, `Transact` what the contract allows. `Move` is an operation of the deal service that reads the row, and `SaveMove` its save, which puts the row back as it was read, its new status apart |

---------------------------------------------------------------------------------------------------------------------

## 3. What the runs check

Every run takes between a second and about two minutes on two workers. Every property has a mutant (the
operators marked "Slip" in the modules): a plausible mistake in the code under which TLC finds that property violated in
the same run.

| run | instance | properties | what it shows |
|---|---|---|---|
| `escrow_one` | one deal of 20, two parties, one arbitrator, percent tariff and fine, deposits of 2 and 20 | `CloneSolvent`, `PayoutsMatchOutcome`, `TokensLeaveByRule`, `CustodySpec` | the life of a deal under every order of deposits, relay, parties, arbitrator and clock; the contracts implement `DealCustody` |
| `escrow_treasury` | one disputed deal of 20; the safe and the admin fill and drain the reserve by one | `TreasurySolvent`, `RewardsAccounted`, `AwardsNeverBlocked` | every fine is paid or owed once, and no state of the reserve blocks a decision |
| `escrow_disputes` | two deals of 1, one arbitrator with two tokens, stake policies, an admin who strikes him off, rehires and terminates him, slashes | `DisputesCounted`, `WithdrawalExcludesDisputes`, `StakesBacked` | counters of the registry and statuses of the clones agree; no withdrawal overlaps a dispute; recorded stakes are there |
| `funding` | a webhook and a sweep in two processes, one payment, late "processing" notices, a sweep that reads one payment, one mishap of any kind and a slow transaction after a crash | `LeaseExclusive`, `PaidOncePerLapse`, `DeliveryBacked`, `BooksTruthful`, `PaymentsSettle` | deliveries and sweep overlap or pay again only once per lapse of a lease or loss of a receipt, deal and books say funded only when the escrow is, nothing hangs that the sweep can read |
| `ton_jetton` | one deal of 4 (3 + 1), two deposits, two refusals, three attempts, three awards, three deadlines, 30 query ids and a leap to the 27th | `NeverBricked`, `LegsCovered`, `PlanSpec`, `DealsSettle` | refused, bounced and returned legs, reports and retries in any order: the contract implements `PayoutPlan` and comes to an end as long as query ids are left |
| `ton_native` | one deal of 4, five values of messages, rent of 1 and fee of 1 with a reserve of 2 | `DepositUntouched`, `PlanSpec`, `DealsSettle` | the deposit stays whole while the reserve lasts; the contract implements `PayoutPlan` and comes to an end |
| `deals` | two requests at a time, five in all, two sellers, two invitations, one request that dies | `EventsTruthful`, `EffectsPrecedeRow`, `StateMachineFollowed` | overlapping operations on one row, of the deal service, the disputes' and the payment's |
| `outbox` | two workers, one event and its copies, two recipients in three moods, two attempts, one death or stall, three errors of the database | `NobodyForgotten`, `WorkersApart`, `EventsSettle` | leases, copies and retries |
| `ton_watch` | two funding jobs, a scheduled one that reads one watch and a backfill, and a lifecycle job, three transactions, an older watch, reconciliation required, one crash, one other trouble | `CursorTruthful`, `AppliedWhole`, `BooksFollowChain`, `ClosedRests`, `Settles` | jobs that overlap record everything and answer it while the watch is read; what no job has taken for something else is applied wholly and in order (`Mistaken`, section 5) |
| `ton_missed` | the same with one job of each kind, two transactions, no crash, no reconciliation | `NothingMissed` (violated) | the finding of section 5 |
| `ton_deposits` | the watcher and an administrator in two processes, one deal of 2, one transfer of 2, one payment of any of three methods, a sweep that reads one payment, one mishap of seven kinds | `OneDepositPerLapse`, `FloatBacked`, `CompletedTruthful`, `DepositsSettle` | the rails, the lock with and without Redis, matching by hand, extension |
| `ton_ingestion` | two workers, one preparer, two versions, four events, one leg, two outcomes, one trouble, among them a deal moved from a copy read before | `OneEscrow`, `AppliedTogether`, `EventsAnswered` | preparing against funding, transactions against failures and requeues |

**Bounds.** Amounts are small, but chosen so that rounding happens: 10% of 20 is a fee of 2, its parts are 1, half of it
reaches the reserve, shares of 30% and 60% split odd amounts. `escrow_treasury` and `escrow_disputes` let one account be
both parties, which `createEscrow` allows and which halves the states of who holds what. The buyer owns one deposit and
2, so he can underpay, pay in pieces and overpay. `MaxTime` 3 gives a creation, a deadline, its extension and its
passing. A deposit is 2, and `Float` 4 in `ton_deposits` and 6 in `funding`: the hot wallet can pay
once more than the property allows, also after one lapse, if the code lets it.
`MaxCrashes`, `MaxStalls` (a lease runs out although its holder lives), `MaxSlow` (the lease of a dead process runs out
before its transaction is mined), `MaxFaults`, `MaxLost`, `MaxCrowd`, `MaxSwaps`, `MaxErrors`, `MaxTroubles` and
`MaxMishaps` bound how often each mishap happens in a behaviour; what the limits of the code are 100 for is 1
(`SweepLimit`, `MaxWatches`), and one more payment or watch of another deal (`MaxCrowd`, `MaxAhead`) is enough to fill it.
Where a property is known to give way by so much with each mishap, the property itself says so (`Happened`, `Lapses`,
`Mistaken`, `Crowded`, `Spent`), and the run has that mishap. Two workers are enough for every race over one row, since a
third can only do what one of the two does after it has finished; where the theorems of section 4 cover a property, they
do so for any number. In `ton_deposits` the two are in two processes, and Redis may fail: as far as the lock goes they
then do all that two workers of one process do, who share the local set besides; TLC has also checked the instance with
both in one process, and the theorems hold wherever the workers are. `ton_watch` requires reconciliation, as
`environment.validation.ts` (line 74) demands of production, and the theorems hold for both settings. `MaxQuery` 30 is
the end of the query ids in `ton_jetton`: without a leap no behaviour gets there, with one to 27 it does before it has
paid. `ton_ingestion` has one leg in TLC and any number in the proof; two versions are enough for a superseded and a
current escrow, and four events for funding, dispute, start and leg of one; its outcomes are a release and the resolution
of a dispute.

**Deadlock** is checked in the runs of the contracts, of the funding and of the native watch. It is not in `deals`,
`outbox`, `ton_jetton`, `ton_native`, `ton_deposits` and `ton_ingestion`, because the system really stops there: the deal
is closed, all rows are delivered or dead, the requests are used up, or the bounded chain has no more transactions.

**Fairness**, part of the specifications whose runs have a liveness property:

| specification | assumed | why |
|---|---|---|
| `PaymentFunding` | a worker that can go on does (`WF(Step(w))`); the sweep starts again while it reads all there is (`~Crowded`); a broadcast transaction is mined; the lease of a dead process whose transactions are mined runs out | event loop, cron job, chain, time. Nothing of the provider, the users, the parties or the mishaps |
| `TonJettonEscrow`, `TonNativeEscrow` | time passes; messages arrive; the authority reports and retries; whoever is owed money after a deadline asks for it; an arbitrator decides | each is in the interest of somebody who can do it alone. Nobody is assumed to release or refund |
| `Outbox` | a worker goes on and a tick starts again; a row becomes due; the lease of a dead worker runs out; people wake up | cron job, time |
| `TonNativeWatch` | a job that has begun goes on, and a scheduled one starts again (`WF(Works(w))`); not that a watch is among the oldest | cron jobs; no backfill has to begin, nothing of the administrators |
| `TonDeposits` | workers go on; the watcher comes to every open payment; the sweep runs while it reads all there is; the chain mines; the key of a dead holder runs out | event loop, cron jobs, chain, Redis. The watcher reads the 100 oldest open payments, each of which leaves the list at its deadline at the latest, so that every one gets its turn, if only to expire |
| `TonJettonIngestion` | workers go on (`WF`); a worker that waits for a row gets it although others get it in between (`SF(LockPreparation(w) \/ Decide(w))`); a preparer goes on or is aborted | PostgreSQL grants a row in the order in which it was asked for, and aborts one of a cycle |

---------------------------------------------------------------------------------------------------------------------

## 4. What is proved

Eight modules hold proofs. The assumptions are the `ASSUME`s of the modelled constants (`EscrowAssumption`,
`RegistryAssumption`, `FundingAssumption`, `OutboxAssumption`, `IngestionAssumption`, ...), which TLC evaluates on every
run. A theorem is for every number of workers, requests, deals and mishaps, and for all amounts; the runs show the same
property on a small instance.

| module | theorem | property |
|---|---|---|
| `EscrowContracts_proofs` | `ResolveSplitCorrect` | for all terms, balances and awards the split of a dispute adds up to the balance, has no negative part and gives each side its share of the principal |
| | `TypesHold`, `ClonesAreSolvent`, `TreasuryIsSolvent`, `PartiesGetTheirDue`, `StakesStayBehindDisputes`, `TokensLeaveOnlyByRule` | types; `CloneSolvent`, `TreasurySolvent`, `PayoutsMatchOutcome`, `WithdrawalExcludesDisputes`, `TokensLeaveByRule` |
| | `DisputesAreCounted` | `DisputesCounted`: the registry's counters are the cardinalities of sets of deals |
| | `StakesAreBacked`, `RewardsAreAccounted` | `StakesBacked`, `RewardsAccounted`: balances that are sums over all arbitrators and over all deals |
| | `ClonesImplementCustody` | `CustodySpec`: the contracts implement `DealCustody` |
| `PaymentFunding_proofs` | `FundingTypes`, `DeliveriesAreBacked`, `BooksAreTruthful`, `LeasesExclude` | types; `DeliveryBacked`, `BooksTruthful`, `LeaseExclusive` |
| | `DepositsPerLapse` | `PaidOncePerLapse`: one deposit for each order of a deal, and one more for each lapse |
| `TonDeposits_proofs` | `DepositTypes`, `CompletedIsTruthful`, `FloatIsBacked` | types; `CompletedTruthful`, `FloatBacked` |
| | `FloatIsSpentOnce` | without a lapse the float pays a clone one deposit at most, whatever dies: the case `Lapses = 0` of `OneDepositPerLapse` |
| `TonJetton_proofs` | `EscrowTyped`, `StorageStaysValid`, `LegsAreCovered`, `ImplementsPlan` | of `TonJettonEscrow`: types; `NeverBricked`, `LegsCovered`, `PlanSpec` |
| | `Typed`, `OneEscrowCounts`, `EventsAppliedTogether` | of `TonJettonIngestion`: types; `OneEscrow`, `AppliedTogether` |
| `TonNative_proofs` | `EscrowTyped`, `DepositIsUntouched`, `ImplementsPlan` | of `TonNativeEscrow`: types; `DepositUntouched`, `PlanSpec` |
| | `Typed`, `CursorIsTruthful`, `ClosedStaysPut` | of `TonNativeWatch`: types; `CursorTruthful`, `ClosedRests` |
| | `AppliedIsWhole`, `BooksFollow` | `AppliedWhole`, `BooksFollowChain`, for any number of funding jobs, lifecycle jobs and backfills |
| `DealLifecycle_proofs` | `Typed`, `EventsAreTruthful`, `EffectsComeFirst`, `StatusFollows` | types; `EventsTruthful`, `EffectsPrecedeRow`, `StateMachineFollowed` |
| `Outbox_proofs` | `Typed`, `NobodyIsForgotten`, `WorkersKeepApart` | types; `NobodyForgotten`, `WorkersApart` |
| `Sums` | lemmas | what a sum over a finite set is, and how it changes with its set and its summands |

In every module an invariant `Inv` is shown to hold initially and to be kept by every action, with one lemma for each
action or group of actions that disturb the same parts; a theorem then follows from `Inv`, or, for an action property
and a refinement, from `Inv` and the step. TLC has checked each `Inv` on the small instance before it was proved, and also the
invariants that say that something exists (`TurnsHeld` and `Books`, on the instance of the run `funding`).

**Contracts.** None of the invariants is inductive alone. `CloneSolvent` needs that a clone becomes funded only when it
holds its deposit, that nothing leaves it while it is funded, and that the seller's fee fits in the amount: the last is
decided in `createEscrow`, long before, and is a conjunct of its own (`FeeFits`) that speaks of every clone ever
created. `PayoutsMatchOutcome` needs the lemmas about the split; `TreasurySolvent` those about portions and about what
the reserve pays. The counters need in addition that only a deal in dispute, or resolved, has an arbitrator
(`AssignedInDispute`), and the lemmas on cardinalities of `FiniteSetTheorems`. `StakesBacked` and `RewardsAccounted` add
up over sets with `MapThenSumSet`. The lemmas on sums in `Sums` (`SumRemove`, `SumChange`, `SumSame`, ...) need
induction over finite sets, and the induction rule of the library takes an operator as its parameter; `Smallest`, which
follows from its operator-free theorems `FS_StrictSubsetOrderingWellFounded` and `WFMin`, says instead that of the sets
of a collection one is minimal, and each lemma derives a contradiction from a minimal counterexample. The sets of deals
and arbitrators are finite, since a chain has finitely many accounts. The refinement uses `Inv` and shows that every
step is a step of `DealCustody` or a stutter.

**Funding.** The first invariant is about who waits for what: `TypeOK`; a worker that is busy has a payment
(`JobsKnown`); a pending transaction that somebody waits for is about his deal (`WaitersKnown`); a funded clone holds its
deposit (`FundedHolds`, without which the settlement would drive a balance below zero). On top of it, `Truth` adds to
`DeliveryBacked` and `BooksTruthful` that a worker past the funding has a funded escrow and that whoever holds a copy of
a deal in progress has one too (`WorkersTruthful`): the copy matters because stale copies are saved. `LockedStays` is the
reason why it lasts: no step of anybody takes a clone from FUNDED to something other than RELEASED. The receipt of
`notifyFunded`, or the clone's own status, is the only way to become "record". For the other two theorems
the question is what a lapse costs: a lease that runs out under a process that lives (`stalls`) or before a dead
process' transaction is mined (`slow`), or a receipt that is lost (`lost`). Nothing in the state says which worker came
from which lapse, so the invariants say that there is a way to tell.

`TurnsHeld`, for `LeasesExclude`, is that there is a seat `at` for every worker and a seat `key` for every payment, with
numbers up to the number of stalls, such that (`Seated`) no two workers who are busy with a payment have the same seat,
and who sits on the seat `key` holds the lease, live. To claim a payment is to sit down on its key; a lease that runs
out under a living holder moves the key to the new number, on which nobody sits; a lease of a dead process has nobody on
its key. A renewal by a worker on another seat changes nothing. So a payment has one worker per seat.

`DepositsPerLapse` adds the pool of transactions and the money. Two orders of one deal have a lease each, so two
workers may fund the same clone, each with the shortfall he has seen. `Books` says that there are slots, one for each
order and one for each lapse at most (`SlotsOK`), as rights to send one deposit; that (`PoolOK`) whoever is busy has the
slot of his seat, every pending transaction has a slot of its own, who waits for one is where it was broadcast, and the
slot of a transaction whose worker has gone is not taken up again while the dead worker's lease lasts; and that
(`MoneyOK`) every slot has a `pledge` of at most a deposit, what a worker is about to send or has sent is within the
pledge of his slot, and what a clone has got and what its slots pledge is a deposit for each order and each lapse at most
(`Fits`). A slot pledges when its worker has seen the shortfall (there is room for it then, `RoomForShortfall`; a clone
that is not funded yet holds what has been sent to it), and the pledge is gone when the transfer is mined. A lapse opens
a slot that pledges nothing (`SlotAdded`), and makes room for it. The sum over the pending transfers of a deal is at most
the sum of the pledges, because the ones have slots of their own among the others (`SumMatched`).

**Direct rails.** Types need who waits for what, as for the funding (`JobsKnown`, `PoolKnown`). `CompletedIsTruthful`
adds that a worker past the funding has a funded clone and that no copy of a row that somebody will save is completed
(`KnowsFunded`): the operations read rows that are open, so a stale save may take a payment back, never forward. For
`FloatIsSpentOnce`, `LocksHeld` says that who forwards for a deal has its key, and alone; `OrphanOK` that the key of a
worker that has died stays as long as a transfer of his is pending, and `PoolOK` that a deal has one pending transfer at
most; `MoneyOK` that what is planned or pending fits in the deposit. A lock that runs out, an outage of Redis, or a
worker that gives up its lock for a receipt that is late breaks `LocksHeld`, hence the condition of the theorem; how much a
lapse costs (`OneDepositPerLapse`) is for TLC.

`FloatIsBacked` is about what `checkPaymentStatus` counts: the transfers that claim the payment and the amounts credited
by hand. `CreditsOK` says of the row and of every copy of it that it counts no more than `match` has credited. The copies
matter, because a watcher that started before the credit saves a row without it, which only loses a credit. `CoverOK`
carries the backing from the check to the broadcast (`Committed`), to the pool and to what was sent; it lasts because
neither what has arrived nor what has been credited grows less. A deposit may be credited more than once (section 5);
the theorem says what the float then stands in for, not that the money has come twice.

**TON escrows.** For jettons, the invariant follows the life of a leg: the transfers of a leg are told apart by their
query (`Keyed`), only those of the current attempt live (`OneLives`, `OldAreDead`), what is reported failed is dead
(`FailedAreDead`), what is confirmed has been paid (`ConfirmedArePaid`), so a retry never pays a leg again and the wallet
covers what is open (`LegsCovered`). For the native escrow it is that nobody has been paid before the deal is settled,
and that balance and what has been spent make up deposit and reserve. In both, the step that decides is `Decide` or
`PayAtOnce` of `PayoutPlan`.

**Deal row.** `RowOK` ties the row to its history (what has been reached, counted and disputed); `EventsOK` is what has
been published; `CallOK` says for every request what it has seen when it is at its place: that the row it will save
differs from the one it has read as its operation says (`Changes`), what it has done so far (`Progress`), and that what
it will announce was reached (`Announces`). All of these refer only to facts that stay true once they are (`reached`,
`counted` and the disputes, open or closed, grow; a clone is settled once), which is why overlapping saves cannot break them.

**Outbox.** `Serves` says that every addressee of the row a worker is sending is served, put off until he wakes, or still
waiting; with the copy for those put off, a row marked delivered has forgotten nobody. `Owns` says that a worker's rows
are leased to it as long as no lease has run out under a living worker, so that no two have the same.

**Native ingestion.** `Exclusive` says that one job at most is applying an event, since the row lock is kept from
`LockEvent` to the end; `JobOK` what a job knows of the watch it has read, which is older than the watch but never ahead
of what is recorded: that is why a stale save of the cursor only moves it back.
For `AppliedIsWhole` and `BooksFollow`, `Wholeness` adds what is written. `Progress` says what a job has written of the
event it applies, as what it takes it for, all of it in sets that only grow, so it holds whoever else writes. `LedgerOK`
says of an event that each of its entries belongs to something it was taken for, and that all of one such thing is there
once it counts as applied. `PhaseOK` says that the lifecycle jobs come second: once the watch is handed over (`Handed`:
by its status, or a row read earlier that will be saved, or a job at work) the funding is in the books
(`FundingBooked`), though other things may be booked with it. None of it counts the jobs; what two that overlap can do
is take an event for what it is not, and `taken` records that.

**Jetton ingestion.** `LocksOK` says that the status a worker has read is still the watch's, that no two workers have the
same preparation, that one at most has the deal, and no preparer with it. So an event that was found applicable is still
so at the commit: its watch is neither superseded nor new, hence the last version's (`WatchesOK`), and the first thing
booked on it is the funding (`LedgerOK`). Rows of the deal that others save late (`saves`) may take its `fundedAt` back,
never bring one that was not there. `AppliedOK` relates marks and books; a failure cannot touch an applied event
because it looks at the mark again, in its own transaction. That no more is paid out than came in follows from the
contract: a leg is paid while it is due and never again (`EscrowsOK`, `LegsOnce`), so legs inject into payouts.

**Only model-checked**, and why:

* liveness (`PaymentsSettle`, `DealsSettle`, `EventsSettle`, `Settles`, `DepositsSettle`, `EventsAnswered`) and
  `AwardsNeverBlocked`, which is about ENABLED: out of the prover's reach;
* `OneDepositPerLapse` with lapses: the theorem `FloatIsSpentOnce` is for none.

---------------------------------------------------------------------------------------------------------------------

## 5. Where the code and its documents disagree

The run `ton_missed` exists for its disagreement and ends with the violation. The others need no run of their own: a
property of a passing run counts the case, says what the code keeps in spite of it, and the run has the behaviours. `U/`
is left out where the file was named above.

| run, property | the code | the text |
|---|---|---|
| `ton_missed`, `NothingMissed` | `applyLockedEvent` of the funding ingestion (`ton-native-funding-ingestion.service.ts:404`) sets `appliedAt` before it moves the watch to FUNDED. When that update throws, the catch block saves the event with `appliedAt` still set: nothing retries it, and the watch stays WATCHING. The funding job scans on and records the delivery, release, refund or dispute that follows as a rejected funding, which the lifecycle job, finding it recorded, never applies | the same file, line 235: "A valid Fund is terminal for this watcher. Later lifecycle transactions are handled by their own settlement indexer." The lifecycle job guards against it (`ton-native-lifecycle-ingestion.service.ts:422`: "Never persist a failed attempt as applied: applyPending selects NULL here.") |
| `funding`, `PaidOncePerLapse` | what `forwardAndFund` (`relay.service.ts:103`) has to transfer is computed from the clone's balance, which shows no transfer that is broadcast and not mined: after a lease that was lost, or a receipt that never came, the next attempt sends a second deposit. The property: one deposit, and one more for each such lapse | `payment-operation.service.ts:39`: "The relay itself first inspects on-chain state, so a lease recovery never blindly repeats a transfer after a crash between broadcast and persistence." `relay.service.ts:88`: "So we inspect on-chain state first and only do the work that is still missing, making the whole operation idempotent." |
| `funding`, `PaymentsSettle` (and `ton_deposits`, `DepositsSettle`) | the sweep (`reconciliation.service.ts:80`) reads 100 of all completed payments with a deal, in no order, and filters by the deal's status afterwards: with more of them, a stuck one may never be read. For Toncoin nothing else confirms the deal. The properties: payments settle unless there are more (`Crowded`) | the same file, line 28: "Payments: completed but their Deal is still PENDING_PAYMENT and has both wallets attached ... Catches the case where wallets were attached AFTER payment landed, or where the live forwardAndFund call failed transiently." `docs/PAYMENTS_E2E_CHECKLIST.md:86`: "reconcile после attach wallet" |
| `ton_deposits`, `OneDepositPerLapse` | `acquire` (`ton-funding-lock.service.ts:57`) asks the local set before it awaits Redis and adds to it afterwards (78): when Redis fails, two checks of one process hold the lock together. A lock whose time runs out frees a slow holder's deal, and his release (87) deletes the next holder's lock. The property: one deposit, and one more for each lapse | lines 22 and 14 of the same file: "A single instance stays safe even without Redis; multi-instance safety simply needs Redis reachable." "Protects the relay float from a double `forwardAndFund` when the watcher tick and a user-triggered `checkStatus` race for the same escrow" |
| `ton_deposits`, `FloatBacked` | `match` saves the credited payment (`ton-recovery.service.ts:124`) before it marks the deposit (131): after a crash between the two the deposit can be matched, and credited, again; two administrators at once credit it twice. The property speaks of what was credited | the same file, line 49: "if the process dies in between, re-running match fails on the already-matched row, while the payment keeps the credit" |
| `ton_watch`, `BooksFollowChain`, `AppliedWhole` | a funding run takes whatever event it finds recorded for its transaction as a funding (`ton-native-funding-ingestion.service.ts:262`): of two that overlap, the one behind books the seller's delivery, or what else the lifecycle job has recorded, as a second funding, and closes the event. The properties: all else is whole and in order (`Mistaken`) | `docs/TON_NATIVE_LIFECYCLE.md:75`: "The durable unique identity (network, account, logical time, transaction hash) makes duplicate polling and concurrent scanner replicas converge on one event." `docs/TON_NATIVE_INGESTION.md:85`: "This serializes side effects across scheduler replicas without a lease-expiry overlap" |
| `ton_jetton`, `DealsSettle` | `markDelivered` and `openDispute` (`TonJettonEscrow.tolk:422`, `:440`) take any query id above the last, and every later message needs a greater one: a party can leave none. The property: the deal ends while there are ids (`Spent`) | `docs/ADR-001-NATIVE-TON-ESCROW.md:82`: "The acyclic state machine prevents replay without allowing one party to lock out another with a maximum nonce." (of the escrow in TON, whose code keeps it) |
| `ton_ingestion`, `OneEscrow` | `cancel` reads the deal (`deal.service.ts:645`) and saves the whole row (664): a jetton funding that commits in between is undone in the deal, which is CANCELLED and not funded while its escrow is. The property: a deal never claims a funding, it may forget one | `docs/SECURITY_AUDIT_FINDINGS.md:129`, of cancel and webhook at once: "допустим ровно один согласованный исход" |
| `deals`, `StateMachineFollowed` | `recordResolutionTx` (`dispute-blockchain.service.ts:223`) and `DisputeService.openDispute` (`dispute.service.ts:211`) write a status past the state machine. The property excepts the first | `docs/OPUS_HANDOFF.md:165`: "Любое изменение deal.status — через DealService + state machine, не прямой save." |
| none, `EffectsPrecedeRow` | the application of a jetton event (`ton-jetton-transactional-application.service.ts:314`) sets DISPUTED without a dispute, and COMPLETED without the statistics. The property is about deals that settle on Polygon | `docs/PAYMENTS_HARDENING_PLAN.md:148` lists the same as a defect of `openDispute`: it "НЕ создавал `Dispute`-сущность, поэтому `disputeId` для загрузки evidence не существовал" |
| `escrow_one`, `PayoutsMatchOutcome` | `_computeResolveSplit` (`EscrowImplementation.sol:382`) takes the reduced fee of a split award from what the buyer added to the deposit: the seller's payout is his share of the principal, undiminished | lines 301 and 357 of the same file call both payouts net of their part of the fee: "Комиссия удерживается из СОБСТВЕННОЙ доли каждой стороны (cap)" |
| `outbox`, `NobodyForgotten` | `sendMessage` of the bot (`telegram-bot.service.ts:834`) returns without a bot and logs the errors of Telegram, so the event of a recipient who was not reached becomes DELIVERED. The property: everybody was tried | `notification-dispatcher.service.ts:34`: "Transport-level failures (network down) DO throw so the worker retries." |

---------------------------------------------------------------------------------------------------------------------

## 6. What is not modelled

* Of the contracts: grants of the relay's role through `DEFAULT_ADMIN_ROLE` outside `setRelay`; `uint256` overflow (no
  balance can reach it); the views. On TON: cell layout and gas.
* Of the funding: the stub mode without a blockchain, a zero token address, gas; failures of the database (a call to it
  answers, or the process dies); refunds by the provider.
* Of the rails: `createInvoice` is an initial state; the lookback and page limits of the index; the rescue of a closed
  clone and a clone that is settled under a payment.
* Of the native ingestion: a row of the deal that is read, and saved after an event has moved it (`Move` is one step
  there): its properties ask for the statuses the deal has reached, not for the one it has.
* Of the ingestions: proofs and sources of a transaction are one bit (sound or not, valid or not); the jetton cursor,
  which decides nothing, and rejected events, which are only stored.
* Settlement agreement: each of its operations is a transaction under pessimistic row locks, so they are serial. A stale
  save of the deal elsewhere can overwrite its pointer to the quote, as 2.3 shows for the columns it has.
* Arbitration: that a dispute is opened, closed and its outcome recorded is in `DealLifecycle`. Assignment, evidence,
  decisions and appeals are not: these rows move no money, since a clone obeys the arbitrator's own transaction. Reading
  them showed:
  `dispute_id` is unique in decisions and appeals, so a second decision after an approved appeal cannot be stored;
  `enforceDecision` checks the appeal window and nothing else, so a decision under appeal is enforced once its window is
  over; `reviewAppeal` loads only `dispute`, so the overturned decision is not counted; a rejected or withdrawn appeal
  leaves the dispute APPEALED, and a native TON resolution is refused from then on; two concurrent `assignArbitrator`
  calls overwrite each other; `updateStatus` lets an arbitrator set DECISION_MADE without a decision; a save of the
  dispute cascades to an older copy of its decision.
* The TON proof kernel (validators' signatures, cells, proofs) is a pure function on bytes and out of TLC's reach. The
  other components are listed in `PROJECT.json` with the reason.

---------------------------------------------------------------------------------------------------------------------

## 7. Known limitations

What else building the models showed the code not to do. The properties are stated around these, and say so. Section 5
has what a text of the repository contradicts.

**Funding.** `lockFundingFx` saves the deal it read with the payment, before it has the lease: it can undo a cancellation
saved meanwhile, and reset the clone's address that another worker has stored. A process that dies after `createEscrow`
is mined and before the address is saved leaves a deal for which every later `createEscrow` reverts (`Orphan` in
`PaymentsSettle`). `forwardAndFund` takes every clone that is not funded for one still to be funded: when it is cancelled
or expires after the transfer and the buyer has rescued the deposit, a retry transfers another one into the closed clone
(`PaidOncePerLapse` speaks of clones that can be funded).
Nothing calls `expireUnfunded`: past the funding deadline a payment is retried without end. With two webhook workers,
endless redeliveries that reset the address, and a lease that runs out under one of them, a payment need not settle. Two
paid orders of one deal are both booked, and two workers may send a deposit for each of them to one clone:
`PaidOncePerLapse` allows for it. A party that takes its wallet off its account stops the sweep until there is one again.

**Rails.** A Toncoin payment is completed without its deal being finalized; only the sweep does that. Whole rows saved
from old copies: EXPIRED over COMPLETED leaves a funded escrow with its deal pending for ever, and the watcher's
PROCESSING wipes a credit made by hand. A partial deposit of an expired payment is recorded as unmatched; after
`extend()` it counts by its memo, and again if it is matched by hand. A second transfer with the memo of a completed
payment is dropped. Without Redis two processes of one deployment do not exclude each other. `checkStatus` marks any
payment of a funded escrow as completed.

**Deal row.** Overlapping `confirmReceipt` or `openDispute` calls count statistics twice. A saved change may never be
announced, if the process dies before the event is enqueued.

**Contracts.** An arbitrator struck off with a dispute in hand blocks `resolve` until he is hired
again.

**Native ingestion.** A scheduled funding run reads the 100 oldest watches that still wait
(`ton-native-funding-ingestion.service.ts:84`), and the watch of a deal that was given up waits for ever: with as many of
them, a newer watch is read by a backfill only (`Crowded` in `Settles`). A lifecycle job that comes upon a funding not
applied yet takes it for something else, as a funding job does with other events (section 5): the event has no intent,
`findOneOrFail({where: {id: event.intentId!}})` (`ton-native-lifecycle-ingestion.service.ts:364`) ignores the null and
finds any intent, whose action is then booked for the funding; with one funding job this takes two crashes.
Reconciliation of a pending event fails for ever once the account has moved on
(`ton-native-reconciliation.service.ts:108`). A dispute applied before a delayed delivery sends the delivery to review. A
stale save of `advanceCursor` can take the watch back to an older status. A stopped event under a watch that has left
review cannot be requeued. A deal cancelled after the funding and before there is a watch is never watched. A direct call
of the contract, without an intent, is rejected, and the deal stays where it is.

**Jetton ingestion.** `canTransitionTo` (`deal.entity.ts:365`) has no way from IN_PROGRESS to REFUNDED, so the end of a
refund before delivery goes to review. SETTLEMENT_FINALIZED does not wait for its payouts to be booked: with two workers
or a tripped breaker the deal completes first, and the legs can then not be booked any more. A transaction carries one
event, but `ReconcileAttempt` of the contract reports all legs at once. Two RECOVERY_REQUIRED in a row: the second fails.
A comparison with the chain while the booking lags trips the breaker, which nothing resets, and which also stops the
booking of payouts that have been made; so does the comparison of a superseded version, whose chain is held against the
ledger of the whole deal. A buyer may fund a superseded escrow; it is never booked. The preparation locks
deal and watch in the other order than the application (a deadlock that the database resolves). The scheduler is off by
default, and after an event has gone to review it goes on with later ones.

---------------------------------------------------------------------------------------------------------------------

## 8. Plan

Every module of the first plan is built except `SettlementAgreement` and the inner life of a dispute, for the reasons in
section 6. Every safety property that the runs check is proved, except `OneDepositPerLapse` with lapses and
`AwardsNeverBlocked`. What could follow: a proof of `OneDepositPerLapse` along the slots of `DepositsPerLapse`, and
decisions and appeals as a module of their own.
