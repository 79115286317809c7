# Formal models of leveraged-prediction

This directory models the program in `src/` in TLA+, checks the models with TLC
on small instances, and proves the main results for every value of the constants
with TLAPS. Paths below are relative to the repository, `LP` stands for
`src/programs/leveraged-prediction/src` and `IX` for
`src/services/indexer/crates`.

## 1. The system

Traders take short positions on an oracle price. Each position settles by itself
a few seconds later, against a pool that liquidity providers fund. The parts are:

| Part | State it keeps | Operations | What makes it correct |
|---|---|---|---|
| **Market program** (`LP`), on a MagicBlock Ephemeral Rollup (ER) | `Market` (shares, risk counters, nonce, mode), `UserPositions`, `UserLiquidity`, token balances, events | deposit, request / cancel / execute withdrawal, open, settle or refund (scheduled), claim fallback payout, withdraw fees, set mode | the pool can always pay; the books match; a position closes once, by the rule of the moment; no stake is stranded; nobody gains from rounding |
| **MagicBlock scheduler** (external) | tasks with an iteration count and an interval | runs `settle_position` once a second, 25 times | the last run comes after the refund time |
| **Oracle** (external) | one price update account per feed | posts updates | none: the program must be safe whatever it holds |
| **Indexer writer** (`IX/indexer`, `IX/storage`) | one cursor per source, raw transactions, dead letters, projections in PostgreSQL; in memory one session | resolve the route, subscribe, catch up, apply notifications, refresh route and leaderboards, reconnect | nothing behind a cursor is missing; the projection is that of the stored events; it catches up |
| **Account set-up and delegation** (`LP/instructions/initialize_*`, `delegate_*`, `undelegate_user_liquidity.rs`) | where each account is: absent, on the base layer, on a rollup | create, delegate, undelegate | what a user owns stays where it can be withdrawn or settled |
| **Source supervisor, exact-account reconciliation** (`IX/indexer/src/sources`, `reconcile`, `smoke.rs`) | routes with generations, tracked accounts, the Market's row | resolve and persist routes, read accounts of two layers, write their rows | a generation means one endpoint; an older answer is not put over a newer one; the writer gets ready |
| **Leaderboards** (`IX/indexer/src/projections`, the views in `IX/storage/migrations`) | two materialised views, a version and a high-water mark | refresh under an advisory lock, coalesced | one refresh at a time; the status promises no more than the views hold |
| **Storage** (`IX/storage/src/lib.rs`) | ten tables | apply a batch, a dead letter, a snapshot, each in a database transaction | replays, late and reordered deliveries end in the same rows |
| **Read API** (`IX/api`) | broadcast channel, socket state | pages by cursor, position stream (snapshot, upserts, resync) | a client ends with the latest row of each position; a walk of pages is whole |
| **Play flow of the frontend** (`src/app/lib/live/transaction-flow.ts`, `intent-store.ts`, `use-play-transaction.ts`) | one durable intent per (user, market) in localStorage | prepare, submit, confirm, recover | never two plays for one click, never blocked for ever |
| **Snapshot and streams of the frontend** (`use-game-snapshot.ts`, `position-stream.ts`) | one merged snapshot | poll, three streams, indexed history | a slow poll does not undo a stream |
| **Devnet faucet** (`devnet-faucet.ts`) | in-flight wallets of the process | top up to a target | at most one top-up per wallet at a time |
| Decoder, presentation, scripts | | | see `PROJECT.json` |

They interact as follows. The frontend signs `open_position` with a session key
and sends it to the ER that the router names for the Market. The handler takes the
stake, writes the position and schedules the task; the scheduler calls
`settle_position`, which reads the oracle and pays. Both emit events; the indexer
reads them from the ER's log subscription and history, projects them into
PostgreSQL, and notifies the API over LISTEN/NOTIFY. The frontend merges polls,
account streams and the API's history. Before any of this, the accounts are created on
the base layer and delegated to a rollup each by its owner's choice of validator; the
writer asks the router where they are, and follows the Market.

What is hard about it:

* *Order and time in the program.* Instructions are atomic but any order of them
  can happen, the scheduler may run late, and the oracle may be unusable at any
  moment. Solvency has to hold for every order of wins, losses, withdrawals and
  donations, and at the two boundary seconds of the settlement window.
* *Rounding.* Six integer divisions, whose remainders must all fall on the right
  side.
* *The indexer's restarts.* A crawl, a subscription and a cursor overlap. A failure
  between any two database transactions, a route change, equal slots and repeated
  deliveries must leave no hole.
* *Two processes over the same tables.* The writer and the commands of the CLI
  route, reconcile and refresh the same rows, from answers they got earlier and of
  two layers that are not equally new.
* *The client's ambiguity.* A lost confirmation says nothing about whether the
  play landed.

The hazards are listed one by one, with their line and the properties that cover
them, under `hazards` in `PROJECT.json`; those without a property say why.

## 2. Modules

| Module | Kind | What it holds |
|---|---|---|
| `SettlementMath` | operators | every function of `LP/math.rs` |
| `SettlementCurve` | state machine | one position while the price moves |
| `PredictionMarket` | state machine | one Market with its users, balances, scheduler tasks and clock |
| `PositionLedger` | abstract specification | what a trader is promised, with no market in it |
| `MarketLedger` | refinement mapping | `PredictionMarket` implements `PositionLedger` |
| `DelegatedAccounts` | state machine | where the program's accounts are, and which instructions that allows |
| `WriterSession` | composition | `DelegatedAccounts` with the writer and the smoke command starting sessions over it |
| `IndexerIngest` | state machine | chains, sessions, cursor, dead letters, position rows |
| `IndexerStorage` | operators | every table a database transaction of the storage writes, whole rows |
| `StorageFixture` | reference inputs | the replay and recovery fixtures and the log parser's tests, put to `IndexerStorage` |
| `LeaderboardViews` | operators | the two materialised views and the API's queries over them |
| `LeaderboardFixture` | reference inputs | what the leaderboard fixture seeds and expects, put to `LeaderboardViews` |
| `Leaderboards` | state machine | the refresh by two processes, the status row, clients that walk pages |
| `PlayIntent` | state machine | the intent of a play: localStorage, pages, sends and checks in flight |
| `PositionStream` | state machine | a row's change from the table to the page of its user |
| `MC_SettlementCurve`, `MC_Market`, `MC_Session`, `MC_Ingest`, `MC_Board`, `MC_Play`, `MC_Stream` | instances | values of the constants for TLC |
| `SettlementMathProofs`, `SettlementCurveProofs`, `PredictionMarketProofs` (with `MarketLedger`), `WriterSessionProofs` (with `DelegatedAccounts`), `IndexerIngestProofs` (with `IndexerStorage`), `LeaderboardsProofs`, `PlayIntentProofs`, `PositionStreamProofs` | proofs | see section 4 |

`PROJECT.json` maps each definition to its lines in the source. A definition named
after another with an underscore and what is wrong in it (`Refunds_Late`,
`Backlog_NewestFirst`) is a *mutant*: the slip a change to that code could make.
No specification uses it. It is there so that each property can be tried on a
model with that slip, where TLC must refute it.

### 2.1 SettlementMath and SettlementCurve

Amounts are naturals in minor units. A Rust helper that returns `Result` becomes an
operator with its value (`SharesForDeposit`) and a predicate that holds when it
returns `Ok` (`MintsShares`). The u128 limit of the share products is kept
(`U128_MAX`); the i128 and u64 limits of the settlement product are not, since the
limits on collateral and price keep it below them. Rust divides a signed number
toward zero and TLA+ floors, so `LeveragedMove` divides the distance and `Loss` and
`GrossProfit` choose the sign.

`SettlementCurve` has one action: the price moves to any other. Its properties are
those the holder of a position would argue about: `PaidFromReserve`,
`OppositesOffset`, `PayoutFollowsPrice`.

### 2.2 PredictionMarket

Each instruction of the ER is one action, enabled when its handler returns `Ok` and
changing everything the handler changes:

| Action | Handler |
|---|---|
| `DepositLiquidity`, `RequestWithdrawal`, `CancelWithdrawal`, `ExecuteWithdrawal` | the files of the same name in `LP/instructions` |
| `OpenPosition` with `AdmitsPosition`, `QualifyingSample`, `ScheduleTask` | `open_position.rs`, `read_oracle_price` in `mod.rs` |
| `RefundRun`, `SettlementRun`, `IdleRun` | the three ways a run of `settle_position.rs` can end |
| `ClaimFallbackPayout`, `WithdrawProtocolFees`, `SetMarketMode` | the files of the same name |
| `Tick`, `Donate`, `UseIteration` | external: the clock, a plain token transfer to the pool, the scheduler |

What the program reads but does not own is chosen where it is read and may differ
at every read: the oracle's update (any member of `OracleUpdates`: fresh, stale, of
the future, of another feed, not verified, non-positive, too uncertain), the
allowance of the session key, and whether the payout account is still usable. A
scheduled run that fails leaves the program's state alone but uses an iteration,
as `IdleRun` does.

The `log` holds the two events of each position. It is what the refinement mapping
and `SettledInWindow` read; no guard depends on it.

Left out: that a user account holds at most eight markets (`DelegatedAccounts` has it
for `UserLiquidity`), session-token and account validation, and rent.

### 2.3 PositionLedger and MarketLedger

`PositionLedger` says: positions are numbered without gaps, at most `Capacity` are
open together, each takes a stake once and pays once, at most `MaxReturn` stakes,
or exactly the stake when refunded (`LedgerSafety`); and each one closes
(`LedgerCloses`). `MarketLedger` maps it: whether position `n` is open is read from
the owner's account, unopened from the Market's nonce, stake and payout from the
events.

### 2.4 IndexerIngest

A source is an endpoint with a chain of transactions; a transaction is known by its
index, which is the order in which the RPC lists signatures. One database
transaction is one step. A session goes through

    down -> subscribed -> catching_up -> starting -> live -> down

as `subscription_session` in `IX/indexer/src/runtime.rs` does: resolve the route and
open the subscription (`Connect`), crawl newest first up to the limit and reverse
(`Crawl`), apply oldest first (`CatchUp`), check that the cursor was reached
(`FinishCatchUp`), refresh accounts and leaderboards (`GoLive`), then apply
notifications one by one (`Notify`) until the route has changed or the stream has
ended (`Leave`). Transactions keep landing meanwhile, some of them failed, without
events, or garbled; `LoseConnection` and `FailSession` can happen anywhere. A
position row keeps what events could undo of one another: created seen, status, and
the `is_partial` mark.

The two differences between the catch-up and the notifications are kept: a failed
transaction moves the cursor only in the second, and a dead letter is committed
before the batch beside it.

Left out: health and metrics; the other tables are in `IndexerStorage`. That an ER never
drops a transaction from its history is assumed.

### 2.5 IndexerStorage and StorageFixture

A table is a function from its key to the rest of the row, an upsert an operator on its
table, `None` is NULL. `Applied` is one call of `apply_batch`: it writes nothing when an
amount does not fit a BIGINT, and otherwise the transaction, the instructions, the
projection of each event, and the cursor. `DecodeEvent` and `ProgramDataLogs` say which
log lines are events of the program. `IndexerIngest` keeps three fields of a position row;
`RowsFollowIngest` proves that the whole-row upserts change those fields as it says.

`StorageFixture` runs the sequences of `IX/indexer/src/fixture.rs` and of the parser's
tests through these operators and states their assertions in an `ASSUME`, which TLC
evaluates in run `ingest`.

### 2.6 DelegatedAccounts and WriterSession

`DelegatedAccounts` has one action per instruction that creates, delegates or
undelegates an account, with the four that make or end a holding (`DepositLiquidity`,
`ExecuteWithdrawal`, `OpenPosition`, `SettlePosition`), of which only where they may run
and what they leave behind is kept. An instruction on a rollup changes only accounts
delegated to that rollup. `Commit` and `Migrate` are external: the rollup writes a Market
back to the base layer, and an operator replaces a rollup, whose Markets move together
with the accounts that hold something in them. The latter is assumed: without it
`HoldingsWithinReach` would fail, and no instruction of the program could repair it.

`WriterSession` adds two processes over the same tables:

| State | Code | Actions |
|---|---|---|
| `session` | the locals of `subscription_session` and `run_with_storage` | `Connect`, `TrackUserAccount`, `ResolveMarket` |
| `tracked`, `observed` | `tracked_accounts`, `route_observations` | `PersistMarket`, `LoadTracked`, `ResolveAccount`, `PersistAccount` (`persist_route`, one transaction) |
| `row` | the Market's row of `markets` | `ReadAccounts`, `Reconcile` (`apply_projection`) |
| | the end of a session | `RouteChanged`, `FailWriter`, `FailSmoke` |

Between `ResolveAccount` and `PersistAccount`, and between `ReadAccounts` and `Reconcile`,
everything else may happen. `run_with_storage` resolves the Market once more, for the
writer too, whose subscription may be to another rollup by then. It makes a
`SourceSupervisor` of its own each time, so that its generations and its draining never
come into play.

Left out: observations of accounts and of reconciliation runs (written, never read), the
request the smoke command sends to the API, and that two processes which both persist
the first route of an account may collide on its key, which fails one of them
(`FailWriter`, `FailSmoke`).

### 2.7 LeaderboardViews and Leaderboards

`LeaderboardViews` has the two views as functions of the position table and of the UTC
day, the rank of a page's rows, and a wallet's statistics. `LeaderboardFixture` seeds the
rows of `IX/indexer/src/leaderboard_fixture.rs` and states what it expects in an `ASSUME`,
which run `board` evaluates.

In `Leaderboards` a database statement is a step:

    idle -> market -> global -> mark -> record -> idle

`Begin` takes the advisory lock, reads the status row and the clock, and decides whether
to coalesce (`CoalescedIf`); `RefreshMarket` and `RefreshGlobal` commit one view each;
`ReadMark` and `Record` write the status row. `StoreClose` and `StoreEvents` may happen
between any two of them, `Midnight` too. A client asks for a leaderboard (`AskBoard`,
`ReadStatus`, `ReadPage`), for one wallet's statistics (`ReadStats`), or for its liquidity
history (`AskLiquidity`, `ReadLiquidity`); the version it carries, and the order
(time, signature, path, ...) it continues after, are those of the API's cursors.

Left out: durations, attempts and the error column, which only an operator reads; the
cursor's encoding.

### 2.8 PlayIntent

One user, one market, the pages (`Tabs`) of one browser. Code between two awaits is
one step; what is awaited is in flight and answers later.

| Action | Code |
|---|---|
| `OpenPage`, `ClosePage` | the effect that takes over a stored intent; leaving or reloading the page forgets all but localStorage |
| `SeePositions`, `SeeMarket` | the two account streams, and the poll, bring the present state |
| `Submit`, `SubmitRefused` | `openPositionFlow` up to `sendRawTransaction`, or its refusal |
| `SendReturns`, `SendThrows` | its continuation, which stores and shows the result |
| `Dismiss` | the effect that clears the intent when its nonce is among the plays |
| `TimerFires`, `PressCheckStatus` | the two ways `recoverOpenPositionIntent` is started |
| `ReadPosition`, `ReadSignature`, `ClearAccepted`, `CheckThrows` | its two reads of the rollup, and what its caller does with the result |
| `Execute`, `Settle`, `OtherUserOpens` | external: the market as the flow sees it |

A check carries the intent it was started for. The effect of the timer is cleaned up
whenever the page's intent changes, so its check turns inactive, but the result is
stored before `active` is asked; a check of the button always reports. A play's
salt is unique, so `Matches` compares plays, and `Sighted`, which sees only
nonces, compares nonces. A transaction may open its position if it carries the
next nonce, fail, or vanish (`lost`).

One check of each kind is in flight at a time, which the code does not enforce for
the button; a second one would read the same state again. Left out: session,
signature and setup, the reasons a play is refused other than a busy page or an
unresolved intent, and polls that answer late.

### 2.9 PositionStream

A change goes through five queues, any of which may break:

| State | Code | Actions |
|---|---|---|
| `row`, `sorted_at` | `indexer.positions`; a row without a user (`partial`, a close stored before its create) is neither notified nor read | `StoreCreated`, `StoreClosed`, `Rewrite` |
| `listener`, `notices` | `run_position_listener_session` in `IX/api/src/lib.rs` | `ListenerConnects`, `ListenerResyncs`, `Relay`, `LoseListener`, `HeartbeatTimesOut` |
| `socket`, `unread`, `lagged` | `serve_position_stream` and its broadcast receiver | `Connect`, `FirstSnapshot`, `Receive`, `SocketCloses` |
| `wire` | the websocket; `send` waits when it is full | `Deliver` |
| `shown`, `observedWins`, `celebrating`, `fetch` | `usePersistentPositions` with the pages of the history | `Mount`, `Unmount`, `FetchPage`, `FetchArrives`, `FetchFails`, `AnimationEnds` |

A dead connection of the listener is noticed at once (`down`) or only by the
heartbeat (`deaf`); the reconnection inside `PgListener` and that of a new session
both listen first and resync after. The row is read when it is sent, so a message of
the socket is never older than an earlier one; the history is the only way for an
older row to arrive later. Its pages follow `sort_time`, which moves when a position
is closed, so that a row can be missed between two of them.

Left out: the market filter, the other routes, and a websocket that is dead without
either end noticing, for which neither side has a timeout.

## 3. Runs

| Run | Distinct states | What it shows |
|---|---|---|
| `curve` | 3 thousand | with the program's own leverage 1000, multiplier 5 and fee rates: a settlement is paid from its reserve, favours neither direction, follows the price |
| `trade` | 1.4 million | two users, two positions, all orders of opens, runs, ticks, payouts and withdrawals: type, `RiskBooksBalance`, `SafetyBufferIntact`, `ExposureLimited`, `EveryPositionCovered`, `SettledInWindow` |
| `lp` | 1.0 million | two providers, donations, slippage bounds and every kind of unfit update: `SharesBacked`, `ShareRegisterBalances`, `TokensConserved`, `SharePriceNeverFalls` |
| `live` | 41 thousand | `ImplementsLedger` and, with fairness, `ClosesLedger` |
| `ingest` | 3.5 million | two endpoints, a route that leaves and returns, a failure anywhere: `NothingBehindCursor`, `LiveMissesNothing`, `ProjectionFaithful`, `TerminalIsMonotonic`, `EverythingIndexed` |
| `ingest_gap` | | finds `ReadyMeansCaughtUp` violated, see section 6 |
| `session` | 1.9 million | two rollups, one Market, one user, the writer and the command: `HoldingsWithinReach`, `GenerationNamesRoute`, `LiveRowIsFresh` and, with fairness, `ReadyUnlessStranded` |
| `board` | 585 thousand | two refreshers, a midnight, a failure, late closes and a walking client: `StatusHolds`, `WalkIsWhole`, `MarkNeverFalls` and, with fairness, `CatchesUp` |
| `play` | 311 thousand | one page, two plays, one failure: `FailedNeverLands`, `AcceptedHasLanded`, `DismissedIsDecided` and, with fairness, `FailureIsReported` |
| `play_durable` | | finds `IntentIsDurable` violated, see section 6 |
| `play_blocked` | | finds `BlockedOnlyWhileUnresolved` violated, see section 6 |
| `stream` | 2.5 million | two positions from the table to the page: `EveryChangeIsOnItsWay`, `NeverReopened`, `CelebratesNews` and, with fairness, `SettlementShown` |

**Bounds.** In the market runs rates are in tenths (`BPS = 10`), with a profit fee of
one half, of which half leaves the pool, so that both roundings happen on
single-digit amounts; prices 10 and 13 with leverage 10 make a position win its cap
or lose everything; with two user limits, one below and one at the position limit.
A position lasts 1 s and its buffer 1 s, with 3 runs a second apart, which is the
tightest that meets `CoverageAssumption`; the clock stops at 2 or 4, enough
for a position opened at any of the first seconds to be settled, be refunded and be
missed at each boundary. Two positions are enough for one to drain the pool that
the other's reserve stands on, for the epoch's equity to go stale, and for a task to
outlive its position while another is open. The pool starts near the minimum
equity, where solvency binds. `U32_MAX` bounds the number of positions, `MAX_NOW` the
clock; there are no state constraints.

In `ingest`, three transactions and a limit of three keep every outage within the
limit (its excess is the other run), the overlap is one, the first slot is before
v2; one failure and two route changes reach leaving and coming back, and failing in
the middle of a catch-up after a return.

In `session`, two rollups and two operations (instructions on a rollup, or migrations)
let an account be undelegated and delegated elsewhere, a Market be migrated between a
read and its write, and a holding be made and given up. Each process may fail any
number of times. One user's two accounts are enough for one of them to be astray while
the other is not.

In `board`, the three closes make two users equal and then unequal, once in the market a
client asks for and once over all; one midnight separates "today" from "all"; one forced
refresh and one failure put a second refresher between any two statements of the first,
and let a view stay refreshed under the old version. A page holds one row, so that every
walk of two rows has a boundary at which a refresh or an event can come.

In `play`, two plays let the continuation or a check of the first answer while the
second is under way, two nonces let another user take the one a play was signed
with, and one request throws. The two violations need less. `MAX_PLAYS`,
`MAX_NONCE` and `MAX_FAILURES` are the bounds. Two pages are a larger instance than
the runs finish in time; the module admits them.

In `stream`, channel, page of the history and websocket hold one each, which makes
lag, a row missed between two pages, and a waiting task reachable with two
positions, one change of another user (or one checkpoint of a settled row) and one
failure.

**Deadlock** is checked in `session` and `board`, where a process or a client can always
go on. Elsewhere it is not: the market may stop when the clock's bound is reached, the
writer when its bounds are used up and all is indexed, and a page when nobody plays.

**Fairness.** `PredictionMarket`: the clock runs (`WF` of `Tick`), and the scheduler
runs each task it holds when it is due (`WF` per nonce); both are services the
program relies on by design. No user is bound to do anything and no oracle to be
usable: `ClosesLedger` holds because a run after the buffer refunds without it.
`IndexerIngest`: the session's next step happens (`WF` of `Session`), as `run()`
retries for ever and each await of a session that does not fail returns. Failures
are bounded by `MAX_FAILURES`, which says that they stop for long enough; a start
that fails for ever (hazard at `smoke.rs:128`) is the subject of `WriterSession`, whose
`WF` of `Writer` says the same of the steps of a start: `ReadyUnlessStranded` then needs
that the accounts end together on one rollup, and that calls stop failing.
`Leaderboards`: time passes, the writer's timer ticks, and a refresh that was begun ends
or fails (`WF` per refresher); no operator is bound to run the command.
`PlayIntent`: transactions are executed or vanish and positions settle, requests
answer, the page polls, and the user presses "Check status" while it is shown. Nobody
is bound to play, return or stay, and the two violations do not rest on that: the
first needs no fairness and the second runs with all of it.
`PositionStream`: the listener, the socket's task and the delivery go on (each awaits only what
returns or fails, and both sides reconnect for ever); the history need not arrive.

## 4. Proofs

All leaves are checked by TLAPS; nothing is assumed but the named assumptions on
the constants:

* `RatesAssumption`, `LimitsAssumption`: ranges of the rates and limits, met by the
  constants in `LP/lib.rs`.
* `TimingAssumption`, `CoverageAssumption`: `(iterations - 1) * interval >= duration +
  buffer`. `LP/lib.rs:46-58` has (25 - 1) * 1 >= 10 + 10.
* `BufferAssumption`: the buffer of the smallest market is not zero.
* `UsersAssumption`: finitely many users, since a wallet is a key of 32 bytes.
* `InputsAssumption`: types of the inputs. `CurveAssumption`: positive collaterals and
  prices.
* `AccountsAssumption`, `SessionAssumption`: the base layer, the absent place and "no
  endpoint" are none of the rollups; the configured Market is a Market.
* `IngestAssumption`: there is an endpoint, limits are natural numbers, and the catch-up
  limit is not zero (`validate_config`).
* `LeaderboardsAssumption`: finitely many closes and events, whose slots are natural
  numbers; the marks for "not stored" and NULL are neither days nor slots.
* `EventsAssumption`: the columns a liquidity page is sorted by are numbers (texts in the
  order they compare), signature and path identify an event (they are the view's key),
  and NULL is not a cursor.
* `PlayAssumption`: the bounds are natural numbers.
* `StreamAssumption`, `MineAssumption`: the positions of the page's user are finitely
  many (a nonce has 64 bits) and nobody else's; capacities and page size are not zero.

TLC evaluates all of them in the runs.

| Theorem | Argument |
|---|---|
| `SettlementBounds`, `PayoutMonotone`, `RoundTripNeverGains`, `DepositKeepsPrice`, `WithdrawalKeepsPrice` | lemmas on integer division (`DivBounds`, `DivMonotone`, `RateOfAmount`), then the caps and fees one by one |
| `CurvePaidFromReserve`, `CurveOppositesOffset`, `CurvePayoutFollowsPrice` | from the lemmas above |
| `TypeCorrect` | one step per action; that a close keeps the balances natural is `TypeClose`, from the bounds of a settlement's terms |
| `PoolSolvent`, `SharesAlwaysBacked` | `Solvent`, the conjunction of the two properties, is inductive with the type: an open adds a reserve that `PostOpenSolvent` has checked, a close takes at most its own reserve away (`ReserveArithmetic`), and deposits and withdrawals require `IsNoRisk` |
| `PositionsCovered` | see below |
| `BooksBalance`, `ExposureBounded`, `RegisterBalances`, `NoTokenLost` | see below on sums; one step per action, each changing the sum and the counter beside it by the same amount |
| `PriceNeverFalls` | only deposits and withdrawals change the supply; the two price lemmas |
| `ClosesInWindow` | by cases on the runs; a position leaves its account in no other action |
| `MarketImplementsLedger` | see below |
| `IndexerIngestProofs`: `TypeCorrect`, `ProjectionIsFaithful`, `ClosedStaysClosed` | the projection is inductive with the types: only landed transactions are stored, so a stored event stays what it was while the chains grow (`LandKeeps`), and one more event changes a row as it should whatever came before (`RowFollows`). The types need that a session which is down has emptied its queues |
| `IndexerIngestProofs`: `OrderDoesNotMatter`, `LateDeliveryChangesNothing`, `ReplayChangesNothing`, `RowsFollowIngest`, `MissingTimeStays` | which columns each upsert fills (`Created`, `Closed`), and that rows with the same columns are the same; then two upserts of one key, or of two keys, in either order |
| `IndexerIngestProofs`: `CursorsLoseNothing`, `LiveSeesAll` | see below; under the hypothesis `OutagesAreShort` |
| `WriterSessionProofs`: `AccountsTyped`, `HoldingsStayWithinReach` | inductive with the types; an instruction finds both accounts on one rollup, an undelegation finds the account empty, a migration moves holdings with their market |
| `WriterSessionProofs`: `ImplementsAccounts`, `HoldingsStayWithinReachHere` | a session's step leaves the accounts alone, so the composition implements `AccountsSpec`, and what is proved of the accounts holds in it |
| `SessionTyped`, `GenerationsNameRoutes` | a persisted route is the current one unchanged or takes a generation of its own; besides that, only known accounts have observations |
| `ReadyMeansFresh` | see below |
| `LeaderboardsProofs`: `TypeCorrect`, `OneRefreshAtATime`, `StatusKeepsItsPromise`, `StatusAdvances`, `WalksAreWhole` | see below |
| `PlayIntentProofs`: `TypeCorrect`, `FailedIsFinal`, `AcceptedIsOpened`, `DismissesDecided` | see below |
| `PositionStreamProofs`: `TypeCorrect`, `ChangesArrive`, `SettledStaysShown`, `WinsAreNews` | see below |

`EveryPositionCovered` is not inductive. A run can idle on its last iteration if a
refund that is due can fail, and a refund fails when a counter or the pool is
short. So the invariant `Covered` adds that the risk counters equal what the users'
accounts hold (`Books`), that nonces are distinct and below the next one
(`Numbered`), and solvency. `RefundCannotFail` follows; `CoverAfterRun` shows that a run
which leaves the position open leaves a task whose last run is still late enough.

The sums over users and positions are folds, which take the elements of a set in the
order `CHOOSE` gives them, so that a sum is not obviously the sum of its parts. It is the
number of units: `Units(f, S)` is the set of pairs (element, unit), and `SumFacts` says
that the fold is its cardinality. The library's induction theorems take an operator and
cannot be used, so the lemma is proved by a least counterexample: strict inclusion of
finite sets is well-founded, and the fold takes one element from a set and leaves a
smaller one. What the proofs need of a sum then follows: it is unchanged where the
function is, and grows by as much as one of its terms. `RiskBooksBalance`,
`ExposureLimited`, `ShareRegisterBalances` and `TokensConserved` are inductive with that,
given the types and finitely many users, positions and events (`Books`).

`MarketImplementsLedger` maps every step of the program to a step of `PositionLedger` or
to none. The mapping reads the stake and the payout from the log, so the invariant
`Recorded` says what the log has: an opening for each nonce taken and no other, with the
stake of the position that is still held; a closing for just those no account holds; and
one record of each kind per position. An open is then the next position of the ledger,
below its capacity; a settlement, a claim or a refund closes the one position it removes
with the payout `SettlementBounds` limits; every other action leaves the ledger alone.
What is proved is safety: `LedgerSpec`'s fairness is left to TLC (`ClosesLedger`).

`NothingBehindCursor` holds only while what lands between two crawls of a source fits in
one, and the run `ingest_gap` shows what happens otherwise. The hypothesis
`OutagesAreShort` says just that, of each crawl when it is made, and of nothing else: not
of failures, routes or the order of deliveries. The bounds of the run `ingest` imply it
(three transactions, crawls of three). The invariant `Complete` adds to the two
properties that the backlog and the stream are runs of consecutive transactions, that
what is before the backlog is indexed and what is before the stream is indexed or in the
backlog (`QueuesInOrder`, `Accounted`), and that a failed transaction carries no event
(`FailedCarriesNothing`), so that one not stored is not missed.
Then only a crawl could leave something out, and a cursor in reach forbids it.

`LiveRowIsFresh` is about the row and one read, but a step compares the row with reads
that are held elsewhere. The invariant `ReadsHold` says that all rows of one layer that
anybody holds, in the table or in a session, are ordered by slot as they are by version,
and that none is ahead of its layer. It is kept because whatever changes what a layer
serves takes a slot of that layer (`LayersAdvance`), the commit of a Market to the
base layer included.

`StatusHolds` needs what a refresh knows between its statements (`JobHolds`): while it is
busy nobody else is, so each view it has refreshed still has what was stored when it
began; the day it decided on is not after today and not before the recorded one; its mark
is between the recorded one and what is stored now. That a finite set of slots has a
greatest one (`GreatestExists`) follows from the well-foundedness of strict inclusion.

`WalkIsWhole` speaks of a walk that has ended; `ClientHolds` says of one under way that
its version's promise holds of both views and that, if it met no refresh, it has the
first rows of its leaderboard; or, of a liquidity history, that its pages descend and that
every event stored when it began is in them or past the cursor. That needs what ranking
does: in a strict and total order of finitely many rows the number of rows before a
row is different for each (`RanksGrow`), and by the pigeonhole principle no place is left
empty, so the ranked sequence has every row once and in order (`RankedInOrder`). The
keys of liquidity events are so ordered (`NewerFirstOrders`) because signature and path
tell any two apart; a cursor without the path would not do (the mutant
`PastCursor_NoPath`).

`FailedNeverLands` and `AcceptedHasLanded` are about what any page knows of a play, and
what a page knows it has from storage, perhaps long ago, or from a check it began before
something else happened. Nothing has to be followed through the pages, though: every
record a page comes to hold was stored, or is stored in the same step. So `RecordsTruthful`
is about all records at once, and is kept because a play that has failed or opened never
changes into the other, and because the plays are numbered without a gap
(`PlaysAreNumbered`): a new play takes the number of no earlier one, so an old record does
not come to speak of it. `ChecksSound` says what a check in flight is about.
`DismissedIsDecided` needs two more facts. A position that a snapshot shows was opened,
so its nonce is below the next one (`OpenedIsPast`) and is no later play's. And the check
that is about to clear an accepted play is about the intent the page holds, unless the
effect it belongs to was cancelled (`PagesConsistent`); without that it could clear a newer
one.

`EveryChangeIsOnItsWay` is nearly inductive: every place a change is taken from is
followed by the next one it is in, and whatever empties a place (the listener lost, the
receiver lagged, the socket closed, the page left) leaves a snapshot to come. What it
lacks is that the merge of the page keeps the newer of two rows. `NothingAhead` says that
no row on its way to the page, fetched or shown is ahead of the table, and rows go from
open to settled only; so a row that says "settled" is right whenever it arrives. That a
history page of limited size has not cut off what matters needs the times of `sort_time`
to be distinct and bounded by the number of changes (`SortTimesBounded`). `NeverReopened`
and `CelebratesNews` then follow by cases on the steps that change what is shown.

Every safety invariant and action property that a passing run checks is stated by one of
these theorems, `NothingBehindCursor` and `LiveMissesNothing` under `OutagesAreShort`.

Not proved, and why. Liveness under fairness (`ClosesLedger`, `EverythingIndexed`,
`ReadyUnlessStranded`, `CatchesUp`, `FailureIsReported`, `SettlementShown`) is out of the
prover's reach, and so is what a recursive function computes for every input
(`SumFacts` gets around it for sums). The aggregation of a leaderboard row is checked by
`WalkIsWhole` only as far as which rows there are; its sums are definitions.

## 5. What is not modelled

With reasons also in `PROJECT.json`:

* The snapshot of the frontend and its account streams (`use-game-snapshot.ts`), the game
  session and the liquidity client: React state around calls whose outcomes the models
  of the program and of the play flow have. Who signs and when a session key expires is
  decided by the wallet and the session-keys library.
* The devnet faucet: a development service that tops up test wallets.
* The decoder: generated from the program's IDL. `DecodeEvent` has what the indexer makes
  of its answer.
* Metrics, health, the OpenAPI document, the mapping of errors to HTTP.
* Presentation, scripts, deployment.
* Several writers over one source set, which `src/services/indexer/README.md:64-65`
  excludes ("one active replica per Market/source set").

## 6. What the models found

**A gap in the index is reported once and then forgotten** (`ingest_gap`,
`ReadyMeansCaughtUp`). After an outage longer than `INDEXER_CATCHUP_LIMIT` the catch-up
applies the newest transactions and moves the cursor; only then does
`IX/indexer/src/runtime.rs:281` fail the session with "reconnect catch-up did not reach
the stored cursor within {} transactions". The next session finds the moved
cursor and becomes ready. In the trace: transaction 1 is indexed, 2 and 3 land
during the outage, the catch-up of one applies 3, the session fails, the next one
is live, and 2 is never fetched.

**A late continuation replaces the intent of a later play** (`play_durable`,
`IntentIsDurable`). `updateIntent` in `src/app/lib/live/transaction-flow.ts:1514` stores
its intent whatever is stored. In the trace: the first play is sent and opens, and the
position stream shows it before `sendRawTransaction` returns, so the page dismisses it;
the user sends a second play; the first send returns and stores the first intent over
the second; the page is reloaded. The second
play may still open and nothing is stored about it. `src/README.md:48-49` promises "a
durable nonce/salt intent so an ambiguous ER result is checked instead of blindly
retried".

**A play that settled unseen blocks the page for ever** (`play_blocked`,
`BlockedOnlyWhileUnresolved`). Recovery looks for the position among those open now,
then at the signature, of which only an error is conclusive
(`src/app/lib/live/transaction-flow.ts:2145-2190`). A position that opened and settled
before the page saw it, after a reload ten seconds later for instance, is
"still unknown" to every check, while `src/tests/intent-store.test.ts:15` has the
intent block "retries only while an economic submission is unresolved".

Seen while reading, with no property of their own:

* Withdrawals need a moment with no position in the whole market
  (`LP/instructions/execute_withdrawal.rs`). Traders that overlap without a gap keep
  providers waiting while the market stays Open. The program promises no bound.
* A donation may lift the pool above `MAX_MARKET_EQUITY`, after which no deposit fits.
* With the program's limits (8 positions of at most 1,000 USDC, 100,000 USDC of minimum
  equity) the post-open solvency check never refuses; the instances choose limits
  where it does.
* `INDEXER_CATCHUP_LIMIT` above 10,000 disables the gap check: the crawl is capped at
  10,000 and compared with the limit (`IX/indexer/src/ingest.rs:82`).
* A route change ends a session with what its stream still held; the tail of the
  old endpoint is fetched only if the Market comes back to it.
* One tracked account that is delegated nowhere, or elsewhere, fails every start of a
  session after its catch-up (`IX/indexer/src/smoke.rs:128`). A user who undelegates an
  empty `UserLiquidity` is enough; `ReadyUnlessStranded` states what the writer needs.
* After a migration the Market's row of `markets` stays with the rollup it was first read
  from: no branch of `apply_projection` lets another rollup replace it.
* `LiveRowIsFresh` is about one rollup for that reason. A `UserPositions` delegated to
  another rollup than its Market's cannot be undelegated: there is no such instruction.
* The timer's interval equals the minimum interval, and `last_success_at` is taken when a
  refresh ends, so that every second tick coalesces: leaderboards are refreshed once in
  60 s with the default of 30 s, which `src/services/indexer/README.md:72` calls the
  "normal refresh target".
* A page of version v may show newer rows: each view is committed before the version is
  written, and a refresh that fails at the second view leaves the first one new under the
  old version. `StatusHolds` has the direction that does hold: the views have every close
  of the version, and are of its day or later.
* The high-water mark may be ahead of what it is shown with: it is read after both views
  were refreshed, and the single-row routes of the API read the status row after their
  rows.
* A close without a block time enters no leaderboard, and a later delivery by the same
  source does not fill it in (`MissingTimeStays`), since `closed_at` is not among the columns
  whose difference makes the upsert write (`IX/storage/src/lib.rs:844-866`).
* Liquidity events are keyed by their source: crawled again under a new source they are
  listed twice.
* An amount above the BIGINT range fails its database transaction, and so every later
  session at the same place.
