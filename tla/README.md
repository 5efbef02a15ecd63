# Futarchy indexer: verification project

TLA+ models of the indexer service in `packages/indexer` and of the tables of
`packages/database` it writes, checked with TLC on small instances, with
theorems that TLAPS proves for every instance. Paths below are relative to the
repository root; line numbers refer to the commit beside which this project is kept.

## 1. The system

The service (`packages/indexer/src/index.ts`) is one process. It starts an HTTP
server for metrics, a cron job that discovers accounts to watch, the
transaction watchers and the indexers; everything shares one JavaScript thread and meets
only in Postgres. Each `await` is a point where anything else may run.

| Component | State it keeps | Operations | Interacts with |
|---|---|---|---|
| Transaction watchers `transaction/watcher.ts`, `transaction/history.ts` | rows `transaction_watchers`, `transactions`, `transaction_watcher_transactions`; objects in the `watchers` map with `latestTxSig`, `checkedUpToSlot`, `backfilling`, `stopped`, `errorCount` | poll, fetch history, store a transaction, advance the row, mark failed, reset on a new logic version, start, stop | RPC node; pushes each stored transaction to the queue of the history indexers |
| Transaction history indexers `indexers/start-transaction-history-indexers.ts` | `newTxQueue`, `indexers.latestSlotProcessed` | replay stored transactions from the last slot at start, handle pushed ones | reads link rows; calls the AMM instruction indexer |
| Swap persistence `builders/swaps.ts`, `indexers/amm-market/amm-market-instruction-indexer.ts`, `...logs-subscribe-indexer.ts` | `transactions`, `orders`, `takes` | build and persist a swap, from history or from a log subscription | both sources race on the same rows |
| Interval fetch jobs `indexers/start-interval-fetch-indexers.ts` | cron job, `errorCount`, `resets`, timers, `indexer_account_dependencies.status` | run, pause and resume, stop for good | calls the Jupiter, Birdeye, AMM, DAO, proposal and token indexers |
| Indexer start-up `indexers/index.ts` | the set of started dependencies | start the active ones, `LISTEN` for new rows | database trigger `sql/indexer-account-dependencies-insert-notify.sql` |
| Account subscriptions `indexers/start-account-info-indexers.ts` | subscriptions | initial fetch, then updates | AMM, OpenBook account indexers |
| AMM market accounts `indexers/amm-market/utils.ts` | `twaps`, `prices` | write a TWAP, then a price | interval jobs and subscriptions write the same rows |
| Autocrat proposals `indexers/autocrat/autocrat-proposal-indexer.ts` | `proposals`, `conditional_vaults`, `markets`, `users`, `user_performance` | insert new proposals, end pending ones, finalize vaults, aggregate user performance | on-chain program, orders |
| Autocrat DAO, token mint, Jupiter, Birdeye, OpenBook indexers | `daos`, `tokens`, `prices` | fetch and upsert | |
| Serializer `transaction/serializer.ts`, `account-resolver.ts` | none | serialize, deserialize, parse balances and instructions | |
| Watcher discovery `cli/txw/populate.ts` | `transaction_watchers`, `markets`, `indexer_account_dependencies` | find and insert accounts every five minutes | |
| CLI `cli/txw/reset.ts`, `validate.ts` | rows of the watchers | set a row back, compare counts | writes rows of running watchers |
| Database pool `packages/database/lib/index.ts` | connections | borrow, release | |
| Telegram alerts, metrics server, Hasura metadata, web client, migrations | - | I/O, configuration, generated code | |

What is hard here, and what makes each component correct:

* **Watchers.** Progress is kept twice, in the object and in the row, and written
  after awaits; a stopped object still finishes its work beside its successor;
  histories come from a lossy RPC node. Correct: `checkedUpToSlot` is never ahead
  of what is stored; `latestTxSig`, from which a restart resumes, never passes
  a missing transaction; `firstTxSig` stays the earliest; every confirmed transaction is
  stored in the end; a new logic version stores everything again.
* **History indexers and swaps.** The queue is lost in a crash, `latestSlotProcessed`
  is written without order, two sources persist the same swap in several
  statements without a transaction. Correct: every stored swap ends up with an
  order and a take, once.
* **Interval jobs.** Runs overlap, pauses and resumes are timers that a restart
  loses, and the status of the row is written after the job has changed, for all rows of an
  account at once. Correct: a row is disabled only after a final failure; a paused job resumes; a stopped one stays stopped.
* **Start-up and discovery.** Rows inserted between the query and `LISTEN` are missed; overlapping runs of the
  discovery abort each other. Correct: nothing is started twice, nothing else is missed, every token is priced.
* **Proposals.** Inserts are not awaited, runs overlap and end at the first exception, which their job counts. Correct: a proposal is completed once,
  its vaults are settled with it and stay so, and its users' performance counts all their orders.
* **AMM market accounts.** Three sources are given the same slot. Correct: one of them writes its price, and the last
  change is never missed.
* **Reading of transactions.** The chain grows while it is read backwards. Correct: an answer has no gap,
  and a stored transaction has the calls and balances of the response.

## 2. Plan

Modules, in the order they are written; `MC...` modules hold the instances.

| # | Module | Models | Composes | State |
|---|---|---|---|---|
| 1 | `TransactionWatcher`, `AccountBackup`, `TransactionWatcherProofs`, `WatcherCheckedProofs` | watchers and getWatchers; an abstract specification of the backup of several accounts | the first implements the second | done |
| 2 | `IntervalFetch`, `IntervalFetchProofs` | interval jobs | | done |
| 3 | `SwapIndexing`, `SwapIndexingProofs` | history replay, queue and log subscription persisting the same swaps | takes what module 1 hands over | done |
| 4 | `AutocratProposal`, `UserPerformance`, `ProposalJob`, `AutocratProposalProofs` | proposals, vaults, floating inserts, overlapping runs; user performance as operators; the indexer under its interval job | the DAO job as far as proposals need it; `ProposalJob` joins `AutocratProposal` with an instance of module 2 | done |
| 5 | `AmmMarket`, `AmmMarketProofs` | TWAP and price writes of start-up, subscription and interval job | | done |
| 6 | `IndexerStartup`, `DependencyDiscovery`, `DependencyDiscoveryProofs` | start-up, `LISTEN`, notifications; the discovery that inserts the rows | the second extends the first | done |
| 7 | `HistoryAnswer`, `TxHistory`, `Serializer`, `TxRead`, `TxReadProofs` | paging of the history, retries, `getTransaction`; an abstract specification of the backup | `TxRead` composes the two and implements `HistoryAnswer` | done |

Each component module comes with its theorems: type correctness, then the invariants and action properties that a run
checks, by an inductive invariant that TLC has checked first. Section 5 names what has no theorem.

## 3. What is modelled

### TransactionWatcher (`transaction/watcher.ts`)

One TLA+ action goes from one `await` of the code to the next, because between two
of them nothing else of the process can run and everything else can at them.

| Variable | In the code |
|---|---|
| `txs[i]`, `links` | rows of `transactions` (with `serializer_logic_version`) and of `transaction_watcher_transactions` |
| `row[a]` | the `transaction_watchers` row of account `a` |
| `watchers` | the `watchers` map (line 51) |
| `pc[w]`, `mem[w]` | which await object `w` is at, its fields and the locals of `backfillFromLatest` and `processTransactionInHistory` |
| `mgr` | `updatingWatchers` and the locals of `getWatchers` |
| `confirmedSlot`, `finalizedSlot` | what the RPC node serves and what `getSlot("finalized")` answers |
| `codeVersion` | `SERIALIZED_TRANSACTION_LOGIC_VERSION` of the running build |

| Actions | Code |
|---|---|
| `Poll`, `GetSlot`, `FetchHistory`, `HistoryError`, `MarkFailed` | lines 82-160, 328-395 |
| `ReadRow`, `ReadTx`, `GetTx`, `ParseFails`, `SkipStopped`, `UpdateRow` | the loop, lines 166-181 and 220-326 |
| `Upsert`, `Link`, `Push` | `handleNewTransaction`, lines 410-468 |
| `EndBackfill` | lines 182-216 |
| `SelectWatchers`, `StopForReset`, `ResetRow`, `StartAndStop`, `GetWatchersThrows` | `getWatchers`, lines 514-600 |
| `CallThrows` | a rejected call: nothing between the interval and the call catches it |
| `Restart`, `SetStatus`, `Confirm`, `Finalize` | the process manager, an operator, the chain |

A transaction is its position on the chain, with a slot (`SlotOf`) and the
watched accounts that name it (`Mentions`); several transactions may share a slot.

`Faults` says which of the following a run (or a theorem) admits: `throw`, `crash`,
`parse` (`getTransaction` returns an error), `rpcError` (the last attempt at the
history fails), `rpcLoss` (the node leaves signatures out), `disable` (an
operator edits the status), `upgrade` (a restart deploys the next logic version).

Abstractions, each of which keeps the control:

* The three attempts of `getTransactionHistoryFromFinalizedSlotWithRetry` are one
  action, which sees the chain as the third does. With `rpcLoss` the
  result is any subset of the history, which includes what a mix of earlier and later
  attempts returns.
* A rejected call has no effect. One whose effect took place shows as the
  effect followed by `CallThrows` at the next await; only for the last update of
  a backfill this is not so, and there the difference is an object that never runs again.
* An uncaught rejection either leaves the process running (`CallThrows`: the
  object is silent, since `backfilling` stays set) or ends it (`Restart`).
* Rows are not deleted, so an UPDATE always returns its row, and the error
  returns for an empty result are left out. The name of the main instruction
  (`getMainIxTypeFromTransaction`) is left out.
* `Push` only takes time here: what the queue does is in `SwapIndexing`.
* Confirmed transactions are never rolled back.

`AccountBackup` is what the backup of all the accounts together promises to a restart and to the indexers: `Store`
writes a transaction when those before it of *some* account that it names are stored (a transaction of two accounts is stored by whichever
watcher comes first), `Advance` moves a row to a stored transaction behind which none of the account is missing and notes the
account's first one, `Reset` starts a row over, and nothing stored is taken away. `TransactionWatcher` implements it (`BackedUpInOrder`) under the
mapping of `stored` to the transactions with a row, and of `resume` and `first` to `latestTxSig` and `firstTxSig`. `Upsert`,
`UpdateRow` and `ResetRow` are the steps that it sees; the objects, `getWatchers`, the versions, the slots, the faults and the restarts are hidden.

### IntervalFetch (`indexers/start-interval-fetch-indexers.ts`)

| Variable | In the code |
|---|---|
| `status[d]` | `indexer_account_dependencies.status` of row `d` |
| `job[d]` | the `Cron` object (paused, stopped) and `errorCount`, `resets` of its closure; `runs` counts the runs that have not ended |
| `waits[d]` | updates and timers that nothing awaits: to Paused, the timer that follows it, to Active, to Disabled; `lost` is history: an update to Paused was rejected since the job was last resumed |

`Tick` starts a run even if the last one has not ended, as `Cron` does without
`protect`. `RunSucceeds`, `CountedFailure`, `Failure` and `FinalFailure` are the four ways
through lines 42-67, `PauseWritten`, `Resume` and `ActiveWritten` the pause of
lines 94-154, `DisabledWritten` the update of lines 157-179, which has no
condition on the name of the indexer and therefore takes every row of the account: the discovery
(`cli/txw/populate.ts`, lines 59-69, 91-106, 238-248 and 318-328) gives a mint a row for each of several interval jobs, and an AMM market rows
of other kinds, so the instance has two jobs of one account beside a row of another. `GivenUp` says when a job runs no
more in this process: it was stopped for good, a restart did not take it, or it is paused, the update of the pause was rejected, and no timer
is set. What is promised of a job is promised until then.
`Restart` is `startAllIndexers`, which takes active rows only. What a run
fetches is reduced to whether it succeeds, fails or rejects. Rows exist from the
start; how they come to be started is in `IndexerStartup`.

### SwapIndexing (`builders/swaps.ts`, `indexers/start-transaction-history-indexers.ts`, `...logs-subscribe-indexer.ts`)

Three sources run the same code on a transaction: the replay of an account
(`startTransactionHistoryIndexer`), the queue its watcher feeds (`handleNewTxs`) and the
log subscription of a market. Each has its own copy of the work on each transaction.

| Variable | In the code |
|---|---|
| `txs`, `links`, `orders`, `takes` | rows of the four tables |
| `latestSlotProcessed` | the column of the one `indexers` row that all accounts of an indexer share |
| `watch[a]` | a watcher as far as it hands over: `latestTxSig`, and which statement of `handleNewTransaction` it is at |
| `worker[s][i]` | which await source `s` is at with transaction `i`: the check for the order, the reads, the three statements of `persist`, the update of the slot |
| `replay[a]` | what `startAllIndexers` read, and the rows the loop of `indexExistingTxs` has left |

`Confirm` sends a market's logs to its subscription, unless they are lost. `WatcherReads`,
`WatcherUpserts`, `WatcherLinks` and `HandleNewTxs` are lines 260-467 of `watcher.ts` and the
handler of the queue, which does not wait for the work it starts (line 139). `CheckOrder`, `Build`,
`UpsertTx`, `InsertOrder`, `InsertTake`, `PersistFails` and `Advance` are the awaits of
`withSignatureAndCtx`, `persist` and `indexExistingTxs`. `persist` returns nothing and throws
nothing, so `Advance` follows a failure as it follows a success.

`Refused` are the swaps of actors without a row in `users`, which `orders.actor_acct` refers
to (`schema.ts:508-510`): their order is rejected. `Faults` are `crash`, `lostLogs`, `nullTx` (a
subscription asks before the node has the transaction), `buildError` (any read before `persist` fails) and
`dbError` (a statement of `persist` throws). Abstractions: a watcher's faults belong to
`TransactionWatcher`; the reads of `withSignatureAndCtx` are one step, since none of
them is of a table that the module writes; an account has one dependency, where `handleNewTxs` would take
the first of several; rows of `users` do not appear in the course of a run.

### AutocratProposal, UserPerformance, ProposalJob (`indexers/autocrat/autocrat-proposal-indexer.ts`)

Cron starts `index()` every minute without waiting for the last run (`Start`). A run and each insert
it starts without awaiting it (`newProposals.map(async ...)`, lines 105-196) go from await to await.
`AutocratProposal` lets a run start at any time; when its job does start one is in `ProposalJob`.

| Variable | In the code |
|---|---|
| `chain`, `now` | the state of each proposal on the chain; the latest row of `prices`, the clock of a run |
| `dao[d]` | the two inserts of the DAO job: the base token, then the row of `daos` |
| `row`, `vault`, `markets`, `orders`, `perf` | rows of `proposals`, `conditional_vaults`, `markets`, `orders`, `user_performance` |
| `run[r]`, `found[r]` | which await run `r` is at, its snapshot and the proposal of its loop; the map of `calculateUserPerformance` |
| `inserts[p][s]` | how many unawaited inserts of proposal `p` await statement `s` |

| Actions | Code |
|---|---|
| `Start`, `ReadProposals`, `FetchProposals` | lines 59-105; the last starts the inserts |
| `InsertGoesOn`, `InsertEnds`, `Write`, `Accepted` | lines 105-196 and `insertAssociatedAccountsDataForProposal`, lines 408-643; `Accepted` says which rows a statement needs |
| `ReadDao`, `UpdatePending` | a pending proposal, lines 201-268 |
| `Complete`, `SettleVault` | a passed or failed one, lines 270-344, for base and quote |
| `ReadPerfRow`, `ReadOrders`, `WritePerf` | `calculateUserPerformance`, lines 645-886; a rejected row is caught (lines 878-880) and the run goes on without it |
| `ReadMarkets`, `InsertAssociated` | lines 360-395 |
| `RunFails`, `RunThrows` | the catch of `index()`, which ends the run before the proposals listed after: for what the program itself throws (no price yet, no DAO, a foreign key) and for a call that is rejected |
| `InsertThrows` | a rejected call of an insert, which nothing catches |
| `Enqueue`, `Finalize`, `RecordPrice`, `IndexOrder`, `DaoToken`, `DaoRow` | what the chain and the other indexers do |

`UserPerformance` has the reduction over the orders and the last leg as operators, and a
reference (`Profit`) that adds up a trader's orders in the resolving market and prices the
remaining position. Abstractions: amounts are in atoms; tokens and
token accounts of a proposal are one statement; the estimate of `endedAt` and the columns
that only repeat the chain are left out; a price of `prices` stands for the slot and the time it carries.

`ProposalJob` joins the indexer with the job that runs it, an instance of `IntervalFetch` with one row. `StartRun` is a tick of
cron, and so takes place only while the job is neither paused nor stopped; `RunEnds` is a success, which clears `errorCount`; `RunIsCounted` is
the error that `index()` returns (lines 401-403), which the job counts
(`start-interval-fetch-indexers.ts:43-59`); `JobMoves` are the updates of the row and the timer, `JobUpdateThrows` a
rejected update, `JobRestart` a restart, which takes the job only if its row is active. Under the code's fairness a finalized proposal is
settled, and its performance is that of all its orders, *unless the job is given up* (`GivenUp` of `IntervalFetch`). One proposal whose DAO has no row (line 223) is enough for that: every run fails
at it, whatever is listed before or after.

### AmmMarket (`indexers/amm-market/utils.ts`, `start-account-info-indexers.ts`, `amm-market-account-interval-indexer.ts`)

`call[c]` is a call of `indexAmmMarketAccountWithContext` for the slot in its context: that of the
start-up, one for each change that the subscription hears of, and the runs of the interval
job. `Fetch` is `getAccountInfoAndContext`, `ReadMarket` the reads of the token metadata and of the market,
`InsertTwap`, `TwapExists` and `InsertPrice` the two inserts: the first has the slot in its key and
does nothing if there is a row, which ends the call with an error; the key of the second is the time of the insert, so it
always adds a row. The start-up subscribes when its call has returned (`Return`). The values are those of a
`version` of the account; before `LiveFrom` its oracle has no aggregator and the TWAP is left out.
Faults: `throw` (a call rejects), `crash`, `lost` (the notice of a change is lost).

### IndexerStartup, DependencyDiscovery (`indexers/index.ts`, `sql/indexer-account-dependencies-insert-notify.sql`, `cli/txw/populate.ts`)

| Variable | In the code |
|---|---|
| `table[d]` | the rows of `indexer_account_dependencies` |
| `boot`, `left` | where `startIndexers` is: the query, the loop over its rows, `LISTEN` sent, `LISTEN` in effect |
| `notices` | notifications not handled yet |
| `starts[d]` | how often this process started row `d` |
| `missed` | (history) rows inserted between the query and `LISTEN`, and those whose start threw |
| `known`, `priced` | rows of `tokens` and `markets`; markets of spot prices |
| `run[r]` | where run `r` of the discovery is, and what its loop has left |

`Insert` is an INSERT with its trigger, which fires for each new row. `QueryActive`, `StartNext`, `Listen`,
`ListenTakesEffect` and `HandleNotice` are `index.ts`, lines 14-117. Each insert of the discovery is an action: `InsertMint`,
`InsertAmm` (three rows in one statement), `InsertOpenbook` and `OpenbookConflict` (this insert has no
conflict clause, and the rows that exist were read before), `InsertQuoteDep`, `InsertQuoteMarket`, `InsertBirdeyeDep` and
`InsertBirdeyeMarket`. `PopulateThrows` follows the three levels of `try`. What Jupiter answers is a choice
(`Quote`). `StartIndexer` counts; what a started row does is in the modules of its kind.

### HistoryAnswer, TxHistory, Serializer, TxRead (`transaction/history.ts`, `transaction/watcher.ts`, `transaction/serializer.ts`, `account-resolver.ts`)

`TransactionWatcher` takes the history in one action and leaves the content of a transaction out. Here both
are looked into, for one account and one watcher at a time.

* `TxHistory`: `ReadPage` is one round of the loop of `getTransactionHistory` (lines 36-108), a page from the node that is walked
  backwards from `before`, over a chain to which `Confirm` adds at any moment. `EndAttempt` keeps the longest of the
  attempts (`watcher.ts:331-370`); `RequestThrows` and `PageOutOfOrder` end an attempt in
  an exception, and the last one with it. `after` is the object's `latestTxSig`, which is
  read when the object is constructed and not moved afterwards; `latest` is the row's.
* `Serializer`: `getTransaction` with `resolveAccounts`, `Duplicates` (two balances of one account), `InvalidHeights` and `InvalidStep` (stack
  heights), `WithInner` (the groups of inner instructions under their outer one) and `Flatten`, `Path`
  and `Display` (names of accounts by the IDL). Pure operators. `parseTokenBalances` throws for a balance of an account that
  the message does not have, as `accountsRaw.get(accountIndex)!` does, and refuses duplicates. `flattenIdlAccounts` descends into groups
  of accounts; `Flatten` opens the groups of one depth after another, `IdlDepth` times, with the same result for IDLs nested no
  deeper (the code's type, `serializer.ts:354-368`, has groups in the list and only accounts in them; the instance takes 2).
  A name is a path and a number: the code joins the path with ` > `, and calls what the IDL has no account for `Remaining` with its
  number. An IDL's names are identifiers without a space, so two names are the same string only if they are the same path and number.
  `IdlAssumption` says of an IDL what the structs behind it give: no two items of a list have the same name, and no
  group is nested deeper than `IdlDepth` (`Levels`). `Idls` is what `getIdlForProgram` returned while the transaction was read: a program
  without an IDL, and one whose IDL could not be fetched (`serializer.ts:340-352`), is not in it. An instruction that its IDL does not decode, or that
  the coder cannot format (405-415), is displayed as unknown.
* `TxRead` composes them: `ReadTransaction`, `Store`, `ReadFails` (an error stops the watcher, an exception leaves it backfilling) and
  `UpdateRow` are the loop of `backfillFromLatest`; `Restart` constructs the watcher from its row.
* `HistoryAnswer` is the abstract specification: an answer is the run of transactions after the one the
  watcher was constructed with, without a gap, up to at least what was confirmed when it asked, and a
  transaction is stored only after those before it. The refinement mapping is the identity on `confirmed`, `after`, `asked` and `answer`,
  and `stored <- txs`; pages, attempts, retries and everything of a response are hidden. A round of pages is a
  stutter, the end of the last attempt is `Answer` or `Fail`, a restart is `Resume`.

`Responses[i]` are the answers that the node may give for transaction `i`. Abstracted: public
keys are indices, the data of an instruction stands for the method its discriminator selects,
amounts are numbers; `serialize` and `deserialize` (integers as strings) are left out.

## 4. What the runs check

| Run | Question | Instance | States |
|---|---|---|---|
| `watcher_checked` | is `checkedUpToSlot` ever ahead of what is stored, does it move back, do two accounts that share a transaction implement `AccountBackup`? | two accounts sharing a transaction, three transactions in two slots, one object each, a crash, rejected calls, failing histories | 1.3 million |
| `watcher_order` | does `latestTxSig` pass a missing transaction, does `firstTxSig` move, are overlapping objects, resets and failures steps of `AccountBackup`? | one account with two objects, two logic versions, a crash, all faults but `throw` and `rpcLoss` | 0.9 million |
| `watcher_live` | is everything stored in the end, does `checkedUpToSlot` follow the chain? | one account, three transactions in two of three slots, a lossy node, no restart | 46 thousand |
| `interval_fetch` | can a row that this process started say disabled without a final failure of its account, is a paused job forgotten, does a failing job pause and resume for ever, does the final update of a job stop its neighbour? | two jobs of one account and a row of another, two overlapping runs each, one of them with a retry, two resets; rejected runs and updates, a restart | 104 thousand |
| `swap_races` | does a race of the sources, a lost event or a crash lose a swap or the take of an order? | two swaps in one slot, the second refused and named by an account without an indexer; a subscription for the first; a crash | 203 thousand |
| `proposal_races` | do overlapping runs and unawaited inserts undo the completion of a proposal or a settled vault, or contradict the chain? | one proposal, two runs, two unfinished inserts, two prices, a rejected call or a restart | 1.6 million |
| `proposal_settles` | is a finalized proposal settled in the end, or the job given up? | two proposals, the DAO of the second unknown, the job with one retry and one pause, a rejected call or a restart | 390 thousand |
| `proposal_performance` | does the performance of the traders end as that of all orders, or the job given up? | one proposal, three orders of two traders, the job with one retry and one pause, a rejected call, a lost row or a restart | 174 thousand |
| `amm_market` | do three sources that are given one slot write its price twice, is the last change ever missed? | four slots, two versions of the account, two runs of the job, one fault | 495 thousand |
| `discovery` | is a row started twice or not at all, does an aborted run leave a token without a price? | a token, USDC, an AMM market with two followed rows, an Openbook market; two runs, one fault | 247 thousand |
| `tx_read` | has an answer a gap, does the reading implement `HistoryAnswer`, does what is stored keep the calls and balances of the response? | six transactions in four slots, pages of two, three attempts, two faults; some 3,000 responses for the last transaction | 55 thousand |
| `watcher_wedged` | a documented behaviour the code does not have, see section 7 | one transaction, one failed history | |

Why the bounds are enough to be worth running: two transactions in one slot
tell `<` from `<=` in every comparison of slots, and a third in a later slot
lets one arrive between `getSlot` and the history; two objects of one account are what
a stop and a start leave, and a third differs from them in nothing. With two logic versions there is one reset. One crash
is enough to start objects from rows at every stage; the theorems of section 6
remove these bounds for the properties they cover. `MAX_RETRIES` is 0 in
`watcher_order`, so that a single error marks the row failed, and 12, the value
of the code, in `watcher_checked`, where an error leaves the object silent. In
`interval_fetch` two overlapping runs are enough for a failure to arrive after the
pause or the stop another one caused, and two jobs of one account for the final update of the one to take the row of the other. In `swap_races` three sources meet on the first
transaction; the second moves `latestSlotProcessed` to the slot both have, which tells `>=` from
`>` in the query of the replay. In `proposal_races` two runs are enough for one to hold a snapshot or a clock that the other has
overtaken, and two inserts for one to come after the run that settled the vault; a third has no other role. In
`proposal_settles` the second proposal is the one that fails every run, and the first may be settled before, between or after the failures that pause and
stop the job: one retry and one pause give each of the counters a step that is not the last. In `proposal_performance` a trader has an order in each
market, so that the resolving one matters, and another one a lone sale. `MaxTime` is 1 in both: the price is what the
runs wait for. In `amm_market` the last slot is free of faults, since a job can only make good what it runs after.
In `discovery` two runs overlap at the Openbook insert, and two of the three rows of an AMM market are followed,
which tells a notification per row from one per statement. In `tx_read` six
transactions make three pages, with `after` at each place of a page, and a page that spans two slots; the trees
have up to two groups of up to three inner instructions at heights 1 to 3.

`watcher_order` declares the two objects symmetric (they have the same account and
occur nowhere else) and gives a VIEW that drops the slots that only end up in
`checkedUpToSlot`, and the link rows: no guard of any action reads them, and none of the
three properties does, so states that differ in them have the same futures. `proposal_races` declares its runs symmetric.
`CHECK_DEADLOCK FALSE` is there because the chain and the faults are bounded: a silenced
object of a chain that has ended may have no step left.

**Fairness.** For the watchers: the five-second interval calls `getWatchers` again
(weak fairness of its steps), the poll interval of each object fires, and an
awaited call returns in the end. A lossy node is asked again at every poll, and it is
assumed that it does not leave the same signatures out for ever (strong fairness of the
complete answer); without that nothing can be promised. For the jobs: cron
ticks, runs end (well or not), updates return and timers fire. For the swaps: watchers poll and
awaited calls return. For the proposals: cron ticks while the job is neither paused nor stopped, awaited calls return, the updates of its
row return and its timer fires; the chain, the traders, the prices and the DAO job may stop. For an AMM market: slots pass, cron ticks, calls
return. For the discovery: cron ticks, queries return, the start-up goes on and notices are handled. For the
reading of a history: the poll fires, the node answers and what it answered is stored. Nothing is assumed of
faults. All of it is weak fairness of one call or step, which is what an event loop gives to a timer and a promise
that resolves.

## 5. What only TLC checks

Liveness, and fairness with it: `EventuallyStored`, `CheckedCatchesUp`, `KeepsFetching`, `GivesUp`, `NoSwapLost`,
`ReplayCovers`, `Settles`, `PerformanceSettles`, `PriceCatchesUp`, `MarketIndexed`, `TokenPriced` and `PagingEnds`.

All invariants and action properties of the passing runs, and the two refinements, are theorems of section 6, some under an assumption on the faults:
`LatestIsPrefix` and `FirstIsEarliest` without `rpcLoss`, for example. Their
runs stay: they show that the states in question occur, and that a plausible bug breaks the property. Every inductive invariant was checked on a run
before it was proved.

With restarts *and* a lossy node `EventuallyStored` does not hold: the
row's `latestTxSig` passes a signature the node left out, and after a restart the
history starts behind it. That is the limit that the comment at
`watcher.ts:187-188` ("This logic needs rethinking") admits.

## 6. What is proved

For every chain, every set of accounts, objects and rows, and every bound:

| Theorem | Assumption | Statement |
|---|---|---|
| `TransactionWatcherProofs!TypeCorrect` | none | `Spec => []TypeOK` |
| `PrefixInvariant`, `LatestIsPrefixCorrect` | no `rpcLoss` | `Spec => []PrefixInv`, `Spec => []LatestIsPrefix` |
| `FirstIsEarliestCorrect` | no `rpcLoss` | `Spec => []FirstIsEarliest` |
| `BackedUpInOrderCorrect` | no `rpcLoss` | `Spec => BackedUpInOrder`, that is `Spec => Abstract!Spec` |
| `WatcherCheckedProofs!CheckedImpliesStoredCorrect` | faults are `throw`, `crash`, `rpcError` | `Spec => []CheckedImpliesStored` |
| `CheckedNeverMovesBackCorrect` | the same | `Spec => CheckedNeverMovesBack` |
| `IntervalFetchProofs!TypeCorrect` | none | `Spec => []TypeOK` |
| `PausedWillResumeCorrect` | none | `Spec => []PausedWillResume` |
| `DisabledByFinalFailureCorrect` | none | `Spec => []DisabledByFinalFailure` |
| `SwapIndexingProofs!TypeCorrect` | none | `Spec => []TypeOK` |
| `OrderGetsTakeCorrect` | no `dbError` | `Spec => []OrderGetsTake` |
| `StoredIsCarriedCorrect` | no `dbError`, no `buildError` | `Spec => []StoredIsCarried` |
| `AmmMarketProofs!TypeCorrect` | none | `Spec => []TypeOK` |
| `OnePricePerSlotCorrect` | none | `Spec => []OnePricePerSlot` |
| `TwapGetsPriceCorrect` | none | `Spec => []TwapGetsPrice` |
| `AutocratProposalProofs!TypeCorrect` | none | `Spec => []TypeOK` |
| `OutcomesAgreeCorrect` | none | `Spec => []OutcomesAgree` |
| `CompletedOnceCorrect` | none | `Spec => CompletedOnce` |
| `SettledVaultStaysCorrect` | none | `Spec => SettledVaultStays` |
| `JobRefines` | none | `JobSpec => Spec /\ Job!Spec`, which carries the four before over to the indexer under its job |
| `DependencyDiscoveryProofs!TypeCorrect` | none | `Spec => []TypeOK` |
| `StartedOnceCorrect` | none | `Spec => []StartedOnce` |
| `OnlyMissedUnstartedCorrect` | none | `Spec => []OnlyMissedUnstarted` |
| `TxReadProofs!TypeCorrect` | none | `Spec => []TypeOK` |
| `AnswersInFullCorrect` | none | `Spec => AnswersInFull`, that is `Spec => Abstract!Spec` |
| `BalancesKeptCorrect` | none | `Spec => []BalancesKept` |
| `CallsKeptCorrect` | none | `Spec => []CallsKept` |
| `NamesApartCorrect` | none | `Spec => []NamesApart` |

*LatestIsPrefix* is not inductive: the next value of a row's `latestTxSig` is the
signature in the hand of an object. `PrefixInv` follows it back. What `getWatchers` read
(`RowPrefix`) and what an object was constructed with (`ObjectPrefix`) have everything
below them stored; of a history that an object has fetched, whatever is missing before
a signature is still to do or in hand (`HistoryInv`), unless the object was
stopped, when it takes no more of it; and what is in hand has everything before it
stored (`InHandInv`). A parse failure breaks the middle fact and stops the
object in the same step, which is the reason for the word "unless".

*FirstIsEarliest* is about a field that is written once, from a row read several awaits before. `FirstInv` says why that
is enough: as long as the row has no `firstTxSig`, it has no `latestTxSig` either, and no object and nothing `getWatchers` read
has one (`RowFirst`, `ObjectFirst`), so that every history starts at the first transaction of the account; an object that is not
stopped skips none of it (`TodoFromFirst`); so what is in its hand when `firstTxSig` is still unset is the first one
(`FirstInHand`). A stopped object that finishes a transaction beside its successor writes the same signature, and a reset leaves
the field alone. A node that leaves signatures out breaks the second fact, hence the assumption.

*BackedUpInOrder* is the refinement of `AccountBackup`, from the two invariants above. A step that leaves `txs`, `latestTxSig` and `firstTxSig` alone
is a stutter (`UnseenStutters`), and that is every step but three. `UpsertStores`: by `InHandInv` what is before the signature in hand of the object's account is
stored, so the write is `Store`, even when another object has stored the transaction meanwhile or the process now runs another
version. `UpdateRowAdvances`: the signature in hand is stored and nothing is missing behind it, so the row moves as `Advance` does, backwards too when a stopped object writes last; the
`firstTxSig` that is written is the earliest by `FirstInv` *after* the step. `ResetRowResets`: a reset moves `latestTxSig` only.

*CheckedImpliesStored* needs two more. `CheckedInv` says that a loop covers
everything up to the finalized slot it began with (`LoopCovers`): the history asked for
later starts at a `latestTxSig` below which `PrefixInv` has everything stored, and reaches the
confirmed slot, which is never behind the finalized one. `ControlInv` says that
nobody skips a part of a loop: every object is in the map, there is one per account, its copy
of `checkedUpToSlot` is the row's, and an object whose row is not active rests for good, so
that `getWatchers` stops no object that is at work. With `parse`, `disable` or `upgrade` the
latter is false, and so is the property (section 7, on a parse failure).
`CheckedNeverMovesBack` follows from the equality of the two copies.

*DisabledByFinalFailure* rests on: an outstanding final update belongs to a job that was
stopped, no step but a restart takes that back, and a restart starts only the rows that are active, after which no
job is stopped and no row that was started says disabled. Nothing is assumed of which rows share an account.

*OrderGetsTake* and *StoredIsCarried* rest on `SourcesInv`: no source is given a transaction
it is still at work on, for the queue works on what its watcher has passed, the
subscription on what is confirmed, and a replay takes one at a time. What a source is about to do is
therefore lost only when it fails. A swap the subscription stores first has its
order next, although its watcher then skips it; one that the replay stores was stored before.

*OnePricePerSlot* rests on two facts. A slot has one version of the account, so that all calls for it agree
whether there is a TWAP (`CallsOfSlot`, `PricesOfSlot`: a later version comes with a later slot). And a call that has
inserted the TWAP is alone before the price of its slot, which has no row yet (`TwapDecides`). *TwapGetsPrice* also needs that
a change is not heard of before it happens (`NoEarlyNotice`), so that its notice displaces no call.

*CompletedOnce* and *SettledVaultStays* need to know that the runs agree. A run works from a snapshot that may be
minutes old (`GoodRun`): what it calls passed or failed has passed or failed on the chain, where that is
final; a run settles vaults of such a proposal only. So whatever rows are over say what the chain decided (`OutcomesAgree`), and a second
run that settles a vault again settles it as it is. The pending update of an overtaken run is stopped by its
condition on `completedAt`, an unawaited insert by `ON CONFLICT DO NOTHING`. That the loop always has a proposal to
work on is part of `TypeOK`; `Min` of what is left is shown to be one by well-founded induction on the subsets of
the proposals (`MinIsLeast`).

*StartedOnce* and *OnlyMissedUnstarted* rest on an account of the rows of the table. A row that waits to be started does so in
one place, the loop or the notices, and was not started before (`Waiting`); since the query each active row is started, waits, or is in `missed`
(`Accounted`). What the discovery inserts is new, which `Insert` takes from the conflict clause, and its runs touch nothing else of it.

*AnswersInFull* is the refinement of `HistoryAnswer`. Each step of `TxRead` is shown to be a step of the abstract specification or to leave its
variables alone (`StepRefines`, one lemma for each group of steps). The invariant is `ReadInv`: the pages read so far go
from a transaction that was confirmed at least when the fetch began back to `before` without a gap, and have not met `after`
(`FetchInv`; `BackJoins` joins a page to those before it, `LastPage` and `NextPage` are its two outcomes); the longest of the
attempts is then a run from `after` as well, since all of them begin there; what is left of an answer follows what is stored
(`AnswerInv`), so that it stays so after a restart, which resumes at the row.

*BalancesKept*, *CallsKept* and *NamesApart* hold of each response that `getTransaction` accepts; `ReadOfResponse` carries that the watcher stores what it
read. `BalancesKept` has a closed form, since duplicates are refused. The other two need inductions, which `SetInduction` provides: a set of
numbers that has each number whose predecessors it has is all of them (well-founded induction on `<`).

*CallsKept*: the list of an accepted response is the concatenation of one list per outer instruction, each with the outer one at height 1 followed
by its group at heights from 2 up (`Accepted`, `WithInnerParts`). `FlattenSteps` is the recursion of the concatenation and `FlattenPlaces` what it gives: the element
at place `p` of part `i` is at place `start[i] + p - 1` of the whole, every place of the whole is one of these, and `start` adds up the lengths
(`Places`). Since no index is repeated, the group of an outer instruction is the one that is found for it (`InnerFound`), and no inner one has
height 1; so the parts begin where the heights say, and hold the outer instruction and its group in their order (`ReadBack`, `CallsReadBack`).

*NamesApart*: the entries of each level of the flattened IDL have paths that differ pairwise at a position of both (`PathsApart`; `EntriesApart` for the
first level, `PartApart` and `OpenedApart` for the step). Opening a group replaces a path by longer ones that begin with it, so that
what was apart stays apart (`ApartContinued`), and the items of a group are apart by their own names (`Fields`). The induction is over the depth
(`LevelSteps`, `FlattenApart`). Accounts that the IDL does not have are apart by their number (`DisplayApart`).

`ResponsesAssumption` only says that `None` is no response, no result and no list of signatures, that balances are numbers, and that
the lists of a response are sequences; `IdlAssumption` is in section 3.

The assumptions on the constants (`ChainAssumption`, `ProcessAssumption`,
`DepsAssumption` and their like) are checked by TLC for every instance above. Liveness is out of the
provers' reach.

## 7. Where the code differs from what is written about it

* `watcher_wedged`: after a failed history fetch the code answers "retrying
  backfill" (`watcher.ts:158`) but leaves `backfilling` set, so no poll gets past line 136 again.

Seen while modelling, by reading or in a counterexample of an earlier state of the models, and not given a run:

* `schema.ts:343-344` says that no new transaction is at or below
  `checkedUpToSlot`; the end of a backfill that a parse failure stopped still moves
  the slot over what was skipped.
* A transaction that another account's watcher stored first gets
  no link row, while README.md:30 lets indexers rely on `checkedUpToSlot`.
* `serializer.ts:24-25` promises that a new logic version resets all the
  watchers; the first transaction a watcher processes writes the new version on its row, and a
  stopped object may write its `latestTxSig` over a reset.
* A restart during a pause loses the timer that
  `start-interval-fetch-indexers.ts:125` promises, and only active rows are started. (The
  comment says 100 minutes; the timer is 3,600,000 ms.)
* README.md:30 lets an indexer process what is backed up to a slot;
  `latestSlotProcessed` is the slot of whatever was indexed last, and after a crash the replay
  leaves out an earlier swap that had not come through.
* With a crash between the inserts of an order
  and of its take, the take is never inserted, because the order counts as the swap
  (`OrderGetsTake` says "while the process lives" for that reason).
* The only code of the repository that
  inserts `users` reads them from `orders`, whose foreign key needs them first.
* A failure after the last pause is to stop the job "for good" (`start-interval-fetch-indexers.ts:50`), but the timer of that pause (126-133) does not look
  whether the job was stopped since. If the run that paused the job and the one that stopped it overlapped, the timer writes Active over
  Disabled, and the next restart starts the job again. TLC showed this for one job, two runs and one pause.
* The final update of a job has no condition on the indexer (`start-interval-fetch-indexers.ts:169-171`): it writes Disabled on the rows of all indexers of the
  account, which go on in this process and are left out by the next restart.
* A row of `indexer_account_dependencies` inserted between the query and `LISTEN` is not started before the next restart, and
  the notification carries no status, so that the check for disabled rows (`index.ts:89`) never holds.
* A call that is cut off between the TWAP and the price leaves the slot without a price: later calls for it fail at the TWAP. The
  price of a later slot makes it good (`PriceCatchesUp`).
* One proposal whose DAO cannot be determined, listed anywhere, makes every run of the proposal indexer fail: the job is paused after four failures, and
  stopped for good at the first failure after its fifth pause. Proposals that are finalized later are never settled (`Settles` says "or the job
  is given up" for that reason).
* A row of `user_performance` that cannot be inserted is logged and left out (`autocrat-proposal-indexer.ts:878-880`). If it was Postgres that rejected it, the
  transaction is aborted and none of the rows is written, although the run goes on.
* The display of an inner instruction is made of the data and accounts of the outer one, with the IDL of the inner program
  (`serializer.ts:305-313`). `CallsKept` is about programs, data and order, not about the names shown; the model displays as the code does.
* The last attempt at a history that throws discards the answers of the earlier ones.

## 8. What is not modelled

* Prices and amounts: the arithmetic of the Jupiter, Birdeye and OpenBook indexers, of the TWAP and of a swap is decimal and
  floating point. `IntervalFetch` has their runs as ones that succeed, fail or reject. The token mint
  indexer upserts one row.
* `serialize` and `deserialize`: integers as strings of the form `BIGINT:digits`, character by character.
* The arguments of instructions and their kind (`getMainIxTypeFromTransaction`).
* A node that leaves signatures out of a page is `rpcLoss` of `TransactionWatcher`; `TxHistory` has a node that answers in full, in
  disorder or not at all.
* The interactive command line (`cli/txw/reset.ts`, `validate.ts`): it runs in another process, at the will of an operator.
* The pool of database connections (`usingDb` takes two per query) is listed as a hazard:
  its exhaustion depends on a limit of 1000, which no instance reaches. Each query is one atomic step.
* The metrics server, logging, alerts, the web client,
  Hasura metadata and migrations (I/O, configuration, generated code); `instruction-dispatch.ts` and
  `proposal-indexer.ts`, which the service does not call.
* `DependencyDiscovery` leaves out `populateOrcaWhirlpoolMarket`, which nothing calls.
