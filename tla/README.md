# ExoDuZe: TLA+ models, checks and proofs

ExoDuZe is an arena of AI forecasting agents. Users deploy agents into
competitions, stake SOL on them through a treasury wallet, and the best ranked
agents of a competition share the staked pool. The system is a NestJS API
(`api/src`), a PostgreSQL schema whose triggers and functions hold part of the
logic (`api/supabase`), an Anchor program (`programs/smart-contract`) and a web
client (`app`). This directory holds TLA+ modules of the parts that move money
or decide who gets it, TLC configurations that check them on small instances,
and TLAPS proofs of the properties that matter most.

Paths below are relative to the repository; `pool.service.ts` and the like
stand for the one file of that name.

## 1. The system

| Component | State | Operations | Hard behaviour |
|---|---|---|---|
| Prize claims (`pool.service.ts` claimPrize, sendPrizeTransfer) | `pool_winners`, audit rows, `onchain_disburse_txs`, in-memory `claimLocks`, transfers on Solana | claim, transfer with one retry, rollback, recording | requests on several servers; an answer of the RPC node that is lost; crashes; ignored errors |
| Stakes and settlement (`agents.service.ts` createWager, deleteForecaster; `pool.service.ts` addStake, settlePool; migrations 070, 080, 082, 101; `treasury-guard.service.ts`) | `pool_stakes`, `competition_pools`, `pool_winners`, `verifiedTxCache` | wager, unpaid stake, deletion of an agent, settlement and its fallbacks | triggers under READ COMMITTED, row locks, DELETE+INSERT fallback, restarts |
| Deposits and withdrawals (`deposit.service.ts`, 002_deposits.sql) | `deposit_transactions`, `withdrawal_transactions`, `user_balances`, `pendingDeposits` | initiate, verify, credit with fallback, lock, confirm | read-modify-write fallback, lock/unlock/debit in separate calls, restarts |
| Competition lifecycle (`competition-manager.service.ts`, `realtime-competition-seeder.service.ts`, migrations 074, 091) | `competitions`, `competition_pools`, flags `isSeeding`/`isSettling`, cooldowns | start-up clean-up, seed, auto-settle, settle and replenish, promote, force reset, event resolution, creation and settlement by hand | overlapping crons, stale snapshots, application-side fallback, restarts |
| Agent runner and scoring (`agent-runner.service.ts`, `leaderboard-scoring.service.ts`, migrations 089, 093) | `agents`, entries, predictions, snapshots, `isRunning`, cooldown maps | cron loop, immediate run, activation by a wager, toggle, scoring | a path round the mutex, three reads that do not belong together, triggers that count too |
| On-chain program (`programs/smart-contract`) | platform, market, position, pool, registry and agent accounts, vault | eleven instructions | transactions that land late, in any order or never; order of checks and initialisation; u64 arithmetic; ownership rules of the runtime |
| Claim rate limit (`claim-rate-limit.guard.ts`) | attempt windows, blocks | canActivate | two thresholds on one counter |
| Orders, market data, sports, auth, users, referrals, settings, notifications, admin, security, dashboard, common middleware, web client | rows of their own | CRUD, ETL, numeric pipelines | mostly none a model checker would reach |

How they interact. The web client sends SOL to the treasury and then calls
createWager, which verifies the transfer, records the wager and writes
`pool_stakes`; triggers keep `competition_pools.total_staked`. The seeder's
crons mark a competition settled and call settlePool, whose database function
ranks the agents and inserts `pool_winners`. A winner calls claimPrize, which
pays from the treasury wallet. Deposits and withdrawals use balances of their
own. The API does not call the Anchor program for any of this. `PROJECT.json`
lists every component and every hazard at its line.

What makes each component correct:

- claims: one payment per prize, to a wallet of the winner; a prize that was
  paid stays claimed; what is recorded is true; no in-memory lock is left;
- stakes: the pool holds what was paid; prizes never exceed what came in; a
  pool is settled once and hands out what it holds; calls do not wait for each
  other in a ring;
- deposits: credited once and only when confirmed; what is locked is there and
  belongs to a pending withdrawal; a withdrawal is debited before it completes;
- lifecycle: a slot is filled by one creator, an outcome does not change after
  the pool was paid on it, everything that expires is settled with its pool,
  an empty slot is filled again whatever failed;
- agent runner: only staked agents predict and are ranked, also when a wager
  moves the stake to another agent; an agent that has
  predicted can be settled, the chain of score snapshots is unbroken, the mutex
  comes back, idle agents and ended entries leave the round;
- on-chain program: the books match the lamports, a settled market is final,
  positions are opened in time, nothing leaves a vault that should not;
- rate limit: a blocked wallet stays blocked for its time.

## 2. Modules

| Module | Models |
|---|---|
| `PrizePayout` | abstract: a prize is open, reserved or paid; a reservation is given back or paid once |
| `PrizeClaim` | claimPrize and sendPrizeTransfer; refines `PrizePayout` |
| `PrizeClaimProofs` | types, exclusive claims, final confirmations, truthful records |
| `PrizePaymentProofs` | one payment per prize, and the refinement |
| `StakePool` | wagers, stakes, deletion of agents, settlement, the SQL triggers |
| `PoolLocks` | the row locks of the same transactions, one at a time |
| `StakePoolProofs` | types, a settlement is final and hands out its pool, prizes are covered by what came in |
| `Deposits` | deposits, withdrawals and balances |
| `DepositsProofs` | types, locks are backed and match the withdrawals, one credit, one debit |
| `CompetitionLifecycle` | seeding, settling, promotion and reset of competitions, their crons and flags |
| `CompetitionLifecycleProofs` | types, seeding is exclusive, what is settled stays |
| `AgentRunner` | the loop over the agents, wagers' immediate runs, predictions and their scoring |
| `AgentRunnerProofs` | types, predictions are staked and counted, the chain of snapshots |
| `MarketProgram` | the Anchor program and transactions in flight |
| `MarketProgramProofs` | types, books, positions in time, finality; no pool takes a stake, nothing is paid out |
| `SumTheorems` | sums over finite sets, for the modules above |
| `MCPrizeClaim`, `MCStakePool`, `MCPoolLocks`, `MCDeposits`, `MCCompetitionLifecycle`, `MCAgentRunner`, `MCMarketProgram` | instances for TLC |

In the modules of the API a request or a cron's call chain is a process with a program counter.
One action is the code between two awaits: the database call that was awaited,
with every outcome it may have, and the code that follows up to the next await.
A request stops at an error exactly where the code throws, and goes on where
the code ignores the error. What a request asks for is chosen in `Init` (a
prophecy of the caller's choice; it has no effect until the request starts).

### PrizeClaim

| TLA+ | Code |
|---|---|
| `row[w]` | claimed, disburse_tx, winner_wallet and "claimed_at within 24 h" of a `pool_winners` row |
| `claimLocks[s]` | the in-memory set of server s (layer 1) |
| `seenWallet[r]` | the snapshot of layer 2 that ownership is checked on |
| `tx[r][n]` | n-th transfer sent by r: unsent, pending, landed or dropped (Solana cluster, external) |
| `Enter` .. `LockRow` | layers 1 to 7 |
| `SendTransfer`, `ConfirmTransfer`, `FailTransfer` | one attempt of sendPrizeTransfer |
| `Rollback`, `RecordSignature`, `AuditClaim`, `ReadDisburseTxs`, `WriteDisburseTxs`, `ReleaseLock` | layer 8's failure path, layers 9 to 11, finally |

`Faults` selects what may go wrong: "crash" (a server loses its memory and its
requests), "db" (a Supabase call fails or its answer is lost), "rpc"
(sendAndConfirmTransaction throws although the transfer lands). Wallet
ownership (verifyWalletOwnership) is the constant `Linked`, prizes are small
numbers; the treasury's balance is one nondeterministic pre-flight failure.

### StakePool

A statement on `pool_stakes` is a READ COMMITTED transaction of three steps:
BEFORE trigger and uncommitted write; the AFTER trigger's SUM over committed
rows and its own; the UPDATE of the pool and the commit. Row, key and
foreign-key locks are guards (`Locked`, `PoolLockFree`). The settlement
function holds the pool row and is one step; who waits for whom over the rows
inside such a step is the subject of `PoolLocks`. `Outcomes` lets any subset of the
agents be scored in any order, so no property depends on the scores. Amounts
are integers of 1e-8 SOL and rounding is the rounding of DECIMAL(18,8).
`DeleteTrigger` says whether the totals trigger fires on DELETE (it does in
`full_sql/007_pool_settlement.sql`, no longer after migration 082).

### PoolLocks

A transaction is a statement with the list of locks that PostgreSQL still has to
take for it, in the order of the SQL: the row, the parents its foreign keys
name, the rows its AFTER trigger updates, the rows a DELETE cascades to.
`Acquire` takes the next one, or waits while somebody holds a lock in a
conflicting mode; `Commit` writes and releases. `Statements` are all the
statements of createWager, addStake, deleteForecaster, settlePool and the
seeder that touch these rows, in any combination; what a statement needs after
it has found its row (`Continuations`) depends on the row. A ring of waits is
broken by the deadlock detector (`Deadlocked`), which the calls of `StakePool`
see as a failed call. The rings that exist go through the deletion of an
agent: a settlement waits for the agent's row, the deletion for a stake of the
agent, and the UPDATE of this stake for the pool that the settlement holds. With
the trigger of migration 080, which fires on DELETE too, a settlement and one
deletion would do; 082 took that ring away. Deletions also update all entries
of an agent in one statement, in an order of the database's choice, and two of
these can form a ring.

### Deposits

`account[u]` is the row of `user_balances` (`open` when it exists);
`pendingDeposits` the nonces in memory; `deposit[d]` and `withdrawal[w]` the
statuses in the database. The balance functions lock the row and are atomic.
A call of a request is any operation on any item, so calls on one item may
overlap, be repeated or come in any order. `credits` and `debits` are history
variables; `raced` has the items on which two calls ran at once, and the label
"broken" is where a call ends that gave up between two effects on a withdrawal
that belong together (`Midway` for a restart). `aged` are the nonces whose
expiresAt has passed; a nonce is dropped from memory by the cleanup but is still
found in the database, whose lookup ignores expires_at. The verification of the
transaction itself is a placeholder in the code that accepts everything.

### CompetitionLifecycle

| TLA+ | Code |
|---|---|
| `Init` | an empty database, or one with a competition of a removed tier or one made by hand that is still "upcoming" |
| `comp[c]` | status, sector, time_horizon, winning_outcome of a `competitions` row; `phase` is where now() lies between its start and end |
| `pool[c]` | settlement_status; what a settlement does with stakes is `StakePool` |
| "boot" | onModuleInit: settle_expired_competitions (091) or the fallback of CompetitionManagerService, retired tiers, duplicates |
| "seed" | seedAllCategories, every 5 minutes, behind `isSeeding` |
| "settle" | settleAndReplenish, every 30 seconds, behind `isSettling`: mark, settlePool and its retry, forced settlement of empty pools, promotion, refill |
| "reset" | forceResetAndReseed, which ignores `isSettling` |
| "resolve" | the end of a simulated event |
| `guessed` | the missing slots come from the error path of the read and not from the table |
| `Releases`, `CronReleases` | the nested finally blocks |

Every call of Supabase is answered "ok", "failed" (no effect) or "lost" (effect
without an answer); `MaxFaults` bounds those and the restarts, `MaxCalls` the
calls from outside. `MAX_PER_SECTOR` is the cap of the insert trigger (074).
Competitions and sectors are symmetric in the code, time is reduced to phases.

### AgentRunner

| TLA+ | Code |
|---|---|
| "loop", `isRunning`, `batch` | runAgentLoop, its mutex, the agents it still has to run |
| `Wager`, `StakeHandled`, `ActivateAgent`, `UpsertEntry`, `RunSingleAgentId` | createWager from the point where the stake was written (or ended in an ignored error) to the immediate run |
| `StakeDeleted`, `StakeReinserted`, `Restake` | the UPDATE of the user's one stake in the competition, which moves it to the agent of the wager, and the fallback that deletes and inserts it; `Owner` is agents.user_id |
| `lapsed[p]` | history: competitions whose stake went away after run p read the stakes |
| `User`, `StartToggle` .. `ToggleUpdate` | toggleForecasterStatus |
| `ReadEntries` .. `CountEntries` | runSingleAgent, one await per action |
| `StorePrediction` | the insert with its triggers: anti-chunk guard (093), sync of prediction_count (089) |
| `ReadScore`, `InsertSnapshot`, `UpdateEntry` | scorePrediction |
| `snapshot[x][n]` | the snapshot whose hash snapshot n of the chain refers to |

Forecasts are opaque. The cooldown and the window of the anti-chunk guard are
nondeterministic: each may let a run pass or not. That covers the immediate run,
which deletes the cooldown entry that the loop writes back.

### MarketProgram

A handler is an operator from the ledger and a transaction to the next ledger;
`Land` makes it whole or without effect. `inFlight` are the transactions that
clients have sent and that may land in any order, late, or never (`Expire`). A
new account's address is derived from the counter the client read (`index`),
so of two concurrent creations one is refused. `ProgramOwned` is the rule of
the runtime that decides `claim_reward`: a program may only debit accounts it
owns, accounts created by `init` are, and the vault, which only transfers
fund, is not. Every sum that a handler checks is bounded by `U64`, and a
transaction whose sum does not fit is refused, as by checked_add and
MathOverflow. Rent, gifts to a vault, texts, risk levels and the shape of the
curve beyond `bonding_k` are left out; lamports of the users are not tracked.

## 3. Runs

| Run | Instance | Shows |
|---|---|---|
| `claim_servers` | 1 prize, 3 requests, 2 servers, all faults | `TypeOK`, `ExclusiveClaim`, `ConfirmedClaimIsFinal`, `RecordsTruthful` |
| `claim_promise` | 2 prizes, 2 wallets, 2 requests, crash and db | `AtMostOnePayment`, `ImplementsPayout`, `LocksReleased` |
| `claim_double_payment` | 1 prize, 2 requests, rpc | `AtMostOnePayment` is violated |
| `stake_pool` | 2 users, 3 agents, 4 payments, 4 calls, db and restart | `TypeOK`, `PrizesCovered`, `SettlementDistributesPool`, `WinnersFinal` |
| `pool_locks` | 2 users, 2 agents, 1 competition, 3 transactions | `TypeOK`, `RingsNeedDeletion` |
| `stake_unrecorded` | 2 wagers of one user | `StakesMatchPayments` is violated |
| `deposit_calls` | 2 deposits, 2 withdrawals, 4 calls, db and restart | `TypeOK`, `LockedIsBacked`, `CreditedOnce`, `CreditedIsConfirmed`, `LocksMatchWithdrawals`, `DebitedOnce` |
| `lifecycle_crons` | 1 slot, 2 competitions, 2 faults, no outside calls | `SeedsOnlyMissing`, `ExpiredIsPaid`, `SlotsAreRefilled` |
| `lifecycle_calls` | 1 slot, 2 competitions, 2 outcomes, 1 fault, 1 outside call | `TypeOK`, `SeedsOnlyMissing`, `SettledIsFinal` |
| `agent_runs` | 1 staked agent, 1 competition, a second wager, a user, 2 predictions, 1 fault | `TypeOK`, `PredictedIsCounted`, `ScoreChain`, `PredictsOnlyStaked`, `UnstakedLeaves`, `IdleIsPaused`, `EndedIsCompleted`, `LoopReturns` |
| `market_program` | 1 market, 2 positions, 2 transactions in flight, 3 ticks | `TypeOK`, `BooksBalance`, `OpenedInTime`, `SettledIsFinal` |
| `market_stakes` | the same, u64 out of reach | `FirstStakeIsTaken` is violated |

The violated properties quote what a comment or a document of the repository
says; "findings" in `PROJECT.json` has the quotation and the line.

Bounds. Three requests are the smallest number in which one holds a row, one
was rejected and one retries on another server; two prizes are needed for the
refinement to tell winners apart and for the daily limit. `MAX_RETRIES` is the
code's 2. In `StakePool` two users and three agents give a user with two
agents, a replaced stake and a settlement with several candidates; four calls
let a settlement run between the statements of a wager and be retried. In
`PoolLocks` three transactions are a deletion, a statement on a stake and a
settlement that keep each other waiting; two agents give a stake an agent to
move to and a settlement two winners in either order. In `Deposits` four calls
on two deposits and two withdrawals let a fallback write meet another credit
and a lock, two withdrawals compete for the same funds, and a confirmation be
repeated after a deposit, while the money it could take a second time is there.
Answers that are lost are left to the proofs: with them a deposit can be
credited twice, as section 5 says. In `CompetitionLifecycle` two rows are an
expired competition and its successor (or a duplicate, or one made by hand);
with one sector every process works on the same slot, which is where they meet;
two faults allow a failure on a retry or a restart after a failure. With a call
from outside one fault is what the fallback of the settlement needs; two calls
without faults (3.4 million states) were checked too. In `AgentRunner` a wager
of the owner updates or deletes the one stake, beside the loop and a toggle on
the same entry. Larger instances (2 agents of one user between which the wager
moves the stake, 2 agents in 2 competitions without users, 1 agent in 2
competitions) satisfy the invariants too, but are too slow for a regular run;
the theorem `StakedPredictions` covers the move. In `MarketProgram` two
transactions in flight are a settlement and whatever lands after it, or two
that name the same new address; `U64` = 11 lets the sums overflow (in
`market_stakes` it is 1000, so that no overflow is the reason of a refusal),
the window is one tick so that all its sides are reached, and the second
position pays a premium. The stakes of `StakePool` are above 200 units, so that
the fee exceeds the roundings as it does for real amounts. Requests are
symmetric where no constant distinguishes them. `CHECK_DEADLOCK FALSE` is set
because a system in which every request has ended is a legal final state;
`PoolLocks`, whose connections never stop, is checked for deadlock too.

Fairness. `LocksReleased` assumes that a request that has started takes its
next step (every await of the code answers: Supabase and RPC calls time out),
and that the cluster decides every transaction within the life of its
blockhash. Nobody is obliged to start a request, to crash or to fail. In
`CompetitionLifecycle` the running crons proceed, time passes, and the two
crons start again and again when their flags allow it (strong fairness: they
fire every 5 minutes and 30 seconds for ever, longer than a run takes); outside
calls owe nothing. In `AgentRunner` the loop's awaits are answered and its cron
ticks every 15 seconds; strong fairness of `Complete` stands for the shuffle of
the entries, by which an ended competition does not stay behind a running one
for ever. Wagers and toggles owe nothing. `MarketProgram` has safety properties
only: nothing obliges a client.

## 4. Proofs

Every safety invariant and every action property of the passing runs, those of
`PoolLocks` excepted, is also a theorem, for every value of the constants. What a module assumes of its
constants is a named assumption in it that TLC evaluates on every run; beyond
types these are:

- `StakePool`: finitely many users and agents, `MinStake` > 0 (a CHECK of
  `competition_pools`; with stakes of zero the shares of a settlement would be
  0 / 0);
- `AgentRunner`: there is an agent; `CompetitionLifecycle`: there is a sector;
- `MarketProgram`: amounts and bonding_k are u64 values, as the wire format
  makes them, and `MIN_POSITION_AMOUNT` > 1, so that half of a position is not
  nothing.

A hypothesis that the code does not guarantee is not among them: it stands in
the statement of the one theorem that needs it.

### Claims

- `TypeCorrect`: the type invariant is inductive.
- `ClaimsAreExclusive`, `ConfirmedClaimsAreFinal`: `ClaimInv` adds to
  `ExclusiveClaim` what it means to have been confirmed (`ConfirmedInv`: past
  the transfer, row still claimed, nobody else holds or was confirmed for the
  row). Exclusion alone is not inductive, because the unconditional rollback
  of one request could reopen the row of a confirmed one.
- `RecordsAreTruthful`: a request that writes records was confirmed, and the
  copies it carries name confirmed claims only.
- `PrizesArePaidOnce`, assuming "rpc" is not among the faults: `PaymentInv`
  says that a request with a live (pending or landed) transfer has only its
  last one live, is past the sending and not about to roll back, that the row
  is claimed and that nobody else can send for it. The assumption is
  necessary: `claim_double_payment` is the counterexample without it.
- `ClaimsImplementPayout`, same assumption: every step of `PrizeClaim` is a
  step of `PrizePayout` or a stutter; the invariant adds `PayeeInv` (the
  wallet of a request past the ownership check is one of the winner's).

### Stakes and settlement

- `TypeCorrect`: that totals and prizes are numbers needs `RowsInBounds` (every
  row, committed or not, is within the bounds the trigger checks), since the
  shares of a settlement divide by the sum of its weighted stakes.
- `SettlementIsFinal` (`WinnersFinal`), under every fault and for any calls:
  a step keeps the statuses and the winner rows (`StatusKept`), or deletes an
  agent with its own winner rows, or settles a pool that is pending. The
  pool marked settled without settlement, by the last resort of
  settleAndReplenish, is the case a reader would doubt: it does not touch winners.
- `PoolIsDistributed`: `Unsettled` (no winners before the settlement) and the
  arithmetic of at most three rounded shares (`ThreeShares`): whatever the
  stakes and weights are, the prizes miss the pool by half a unit each at most.
- `PrizesAreCovered` (`PrizesCovered`), under every fault and for any number of
  competitions. The totals drift: of two concurrent writes the later may count
  without the other, a deleted stake stays counted, a stake arrives after the
  settlement. The invariant `Covered` therefore does not relate a total to the
  rows of the moment. It says that every total, committed or about to be, is
  that of some rows each of which was backed (`Summed`, `Backed`): the row of a
  user has the amount of a call of that user on that competition that paid, or
  declared, it. Calls keep what they stand for, so what is backed stays
  backed. Since backing calls of different users are different, a sum of backed
  rows is within the payments; the fee of 2 % exceeds the tolerance of 0.5 % on
  a payment plus three half units of rounding once a stake is 200 units
  (`ToleranceMargin`, `SettlementCovered`). The hypotheses `CallsAsIntended` and
  `MinStake >= 200` are those of the run's instance too. They are needed: one
  payment named by two competitions at once passes the replay check of the
  same agent (agents.service.ts:787-799), and with stakes of a few units the
  roundings are larger than the fee. The default of min_stake is 1,000,000 units.

### Deposits and withdrawals

- `TypeCorrect`, `LocksAreBacked`: with `Sound` accounts (an account that does
  not exist is empty), under every fault, also for overlapping calls.
- `DepositsCreditedOnce`, `CreditsAreConfirmed`, assuming that no answer of the
  database is lost: `CallInv` says that calls on an item that is not in `raced`
  run one after the other, and `CreditInv` ties their program counters to the
  credits, the status and the nonce in memory. The assumption is necessary: a
  credit whose answer is lost is repeated by the fallback.
- `WithdrawalsDebitedOnce`, under every fault and every overlap of calls:
  `DebitInv` counts a debit against a confirmation that broke off, or against
  the one that has completed the withdrawal or has only that left. `StageInv`
  has what a call at each of its places knows of the status it read awaits
  before (a withdrawal that is confirmed was recorded, by one call; it is still
  pending unless it was raced for); `DebitedOnce` alone is not inductive,
  because the debit precedes the status that protects it.
- `LocksMatch`, likewise: `LockInv` is the property in terms of `Claims` (the
  withdrawals that hold a lock at their call's place, or may have left one
  behind). One action changes at most one withdrawal's claim, so each step
  compares two sums that differ in one element. What a repeated confirmation
  releases beyond its own lock is then bounded by the claims that remain.

### Competition lifecycle

Under every fault, restart and outside call:

- `TypeCorrect`: with `Control` (who works on a list has an entry left, who
  inserts has a slot left, the clean-up of start-up and the resolution of an
  event do not seed).
- `SeedingIsExclusive` (`SeedsOnlyMissing`): `Exclusive` says that of
  seedAllCategories (of the cron or at the end of start-up) and the refill of the
  settling cron at most one has something to seed, and it holds `isSeeding`. The flag has two users that
  release it in nested finally blocks, so the exclusion is what fails first when
  a release is moved.
- `SettlementStands` (`SettledIsFinal`): a step leaves a finished competition
  that nobody lists to mark or cancel as it is (`Finished`), and puts none of
  these into such a list (`Untouched`). The list of the fallback is not one of
  them: what it writes leaves a settled competition alone.

### Agent runner

- `TypeCorrect`: with `Busy` (who scores has the competition it predicted for).
- `StakedPredictions`: `StakedLists` says that after the read of the stakes every
  pair on the list of a run is staked, or has lost its stake since (`lapsed`);
  a stake that is moved or deleted enters the history of every run that relies
  on it, wherever it stands.
- `CountedPredictions`: what a scoring run has read of a count is not negative,
  and every writer of the count adds one.
- `ChainHolds`: `ReadInChain` adds that the hash a run has read, however long
  ago, names a snapshot of the entry it will extend.

### On-chain program

One inductive invariant (`IInv`: balances, records, positions and the arguments
of what is in flight, all within u64 because a handler that would leave it is
refused) gives `TypeCorrect` and `NoStakes`; with it

- `NothingIsPaid`, `Final`: one lemma per effect of an instruction (`Effects`):
  nothing, a created market, a rewritten probability or outcome, a new position;
- `NoStakes` and `NothingIsPaid` are about `PoolsStayEmpty` and `NeverPaidOut`,
  which no run checks as properties of the system: they say how far the
  violation that `market_stakes` finds on one stake reaches, and that no claim
  fares better, in any order of any transactions;
- `Opened`: a position is appended only within the window and before the
  settlement, and later settlements have a later clock;
- `Balanced`: `BooksInv` states the books with sums over functions; a new
  position adds one element to one sum, by the lemmas of `SumTheorems`.

### Sums

tlapm cannot instantiate the induction theorems of the library. `SumTheorems`
proves what is needed of `MapThenSumSet` by the least number of a set of
numbers (`LeastNumber`, from the well-foundedness of <): a table of all partial
sums exists, two tables agree, and so a sum does not depend on the order
(`SumRemove`, `SumAdd`, `SumChange`), is monotone (`SumSubset`, `SumCovered`,
`SumMargin`), and splits over images and disjoint families (`SumImage`,
`SumFamily`).

### Only model-checked

- Liveness (`LocksReleased`, `ExpiredIsPaid`, `SlotsAreRefilled`, `UnstakedLeaves`,
  `IdleIsPaused`, `EndedIsCompleted`, `LoopReturns`): TLAPS proves nothing about
  ENABLED, which fairness is made of.
- `RingsNeedDeletion` and the types of `PoolLocks`: a list of statements has no
  more structure to prove about than the runs of it.
- The violated properties, which are false: `AtMostOnePayment` with "rpc",
  `StakesMatchPayments` and `FirstStakeIsTaken`.

## 5. What the models say about the code beyond the runs

- A restart between the lock and the insert of a withdrawal leaves funds locked
  (deposit.service.ts:860-871), and a confirmation repeated after a failed
  step debits again and unlocks what another withdrawal holds
  (deposit.service.ts:951-988). `DebitedOnce` and `LocksMatchWithdrawals` bound
  both by the calls that broke off.
- The fallback of creditBalance (deposit.service.ts:511-541) credits twice when
  the function's answer was lost, and it overwrites what happens between its read
  and its write: a withdrawal that is debited there gets its money back.
  010_financial_ledger_and_referrals.sql:47 speaks of "atomic updates".
- Two verifications of one deposit that overlap both credit it: the UPDATE that
  confirms has no filter on the status (deposit.service.ts:431), and the nonce is
  deleted only after the credit, although line 41 promises "Nonce-based
  anti-replay protection". `CreditedOnce` excepts these deposits (`raced`).
- A withdrawal can be completed without a debit: confirmWithdrawal unlocks "to
  make funds available for debit" (deposit.service.ts:952), another withdrawal
  locks them, debit_user_balance answers FALSE, and only its error is looked at
  (line 966).
- A stake can be committed to a settled pool, which never pays it out or back:
  validate_stake reads the status without a lock, and a settlement may commit
  before the foreign key of the new row locks the pool
  (080_stake_proportional_settlement.sql:82-83, "Pool must be pending for new
  stakes").
- A deposit is still verified after its nonce expired: the database lookup
  ignores expires_at (deposit.controller.ts:219 says the nonce must be used
  within 5 minutes).
- A payment is cached as used before the stake is recorded
  (treasury-guard.service.ts:294), so a failed insert cannot be retried; the
  cache is lost on a restart.
- addStake records stakes that nobody paid for; `PrizesCovered` counts them as
  declared. Calls name agents of the calling user.
- logClaimAttempt inserts with a pool id that does not exist: failed claims
  are never audited. A rollback sets winner_wallet to null, so later claims
  depend on the ownership tables alone.
- A user's single stake is counted for every agent of that user that has no
  stake of its own (migration 101).
- The list `onchain_disburse_txs` loses entries when two claims of a
  competition interleave.
- Two claims of different prizes both pass the daily limit
  (pool.service.ts:487), which Stake-Integrity-System.md:275 describes as a
  limit on all disbursements of a rolling 24-hour window.
- Of two concurrent wagers the later commit may write a total without the
  other's stake (080_stake_proportional_settlement.sql:155).
- One payment can be named by wagers of the same agent in two competitions
  (agents.service.ts:787-799), and by anybody after a restart while it is young
  enough (treasury-guard.service.ts:53); `CallsAsIntended` keeps it to one
  competition, and `PrizesCovered` holds for one repeated there.
- A wager moves the user's stake in a competition to the agent of the wager: the
  other agent keeps its active entry until the loop reads the stakes again, and
  a run that has read them stores one more prediction (`PredictsOnlyStaked`).
- A force reset, an event resolution or the start-up clean-up that works from
  an older list may overwrite the outcome of a competition that was paid
  meanwhile; `SettledIsFinal` of `CompetitionLifecycle` therefore starts when
  nobody who marks or cancels has the competition on a list (`Held`).
- The outcome is nearly always 0: the database function COALESCEs a missing
  winning_outcome before the application draws one. POST /pool/settle can
  settle a pool before the end and leaves the outcome NULL.
- With three or more faults an expired upcoming row may stay "upcoming" after
  its pool was force-settled.
- After its first prediction an entry counts two: the trigger of migration 089
  counts on insert, then scorePrediction reads that count and adds one
  (leaderboard-scoring.service.ts:237-244), so the running average divides by
  one too many. 089_fix_prediction_count_drift.sql:173-174 means to prevent this.
- The loop may read no active entry, a wager then activates agent and entry
  (agents.service.ts:945-967), and the loop pauses the agent: a staked agent stays
  paused until its next activation.
- A failed read of entries or stakes counts as an empty answer: it pauses the
  agent or sets its entries to pending (agent-runner.service.ts:135, 151).
- The penalty that anti_chunk_guard_v2 inserts is rolled back by its own RAISE
  (093_advanced_storage_architecture.sql:208-293), so penalties never grow.
- getQuota counts `ai_agents`, deployForecaster inserts into `agents`
  (agents.service.ts:262, 626-650): the limit on forecasters never applies.
- On chain no pool ever takes a stake (finding of `market_stakes`, theorem
  `NoStakes`). No reward is paid either (`NothingIsPaid`): claim_reward.rs:57 says
  "The vault PDA is program-owned, so only this program can modify its
  lamports", but the vault is a bare address that transfers have funded, so it
  belongs to the system program and the runtime undoes the claim. Nothing ever sets is_settled of a pool, so claim_pool_prize and admin_disburse_prize
  always refuse; neither takes what it pays off the platform's pool_balance. The
  README of the program describes all of these as working, and prizes by rank
  where claim_pool_prize.rs:36 divides pro rata.
- A position's premium counts as exposure but is never transferred
  (take_position.rs:62-89): with premiums, rewards promise more than was paid in.

## 6. Not modelled

- Authentication, wallet signatures, one-time codes: cryptography. The models
  start from an authenticated user.
- Floating-point scoring, probability curves, ETL of sports and market data and
  the clients of external feeds: numeric pipelines and imports over data that
  nothing here decides on. Together with the web client they are most of the
  repository's lines, which is why the modules cover a small share of them.
- Orders and positions of the demo market, the claim rate limit (its block is
  never reached: the window refuses first), referrals, settings, notifications,
  dashboard, administration: single-row reads and writes.
- Agent deployment, updates, listing and statistics; news clusters and
  cancelAllAndSeedFresh (no caller).
- Within modelled parts: logging, formatting, the clock beyond what is said
  above, HTTP guards in front of the handlers, the security log; the race of
  two inserts inside their cap trigger; two inserts of predictions inside the
  anti-chunk trigger (each insert is atomic here); several servers outside
  `PrizeClaim`.

## 7. Plan

Every component that moves money or decides who gets it is modelled, and every
safety property of their runs is proved, the locks excepted. What is left:

1. `PrizesCovered` per competition, without the hypothesis that a payment is
   named for one competition only.
2. Properties for the hazards that have none yet: two claims that pass the
   daily limit, the count of predictions that trigger and application share.
3. The claim rate limit, orders and positions of the demo market.

## 8. Running

    tlc -workers 2 -config claim_servers.cfg MCPrizeClaim
    tlapm PrizePaymentProofs.tla
