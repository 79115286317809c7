-------------------------- MODULE PredictionMarket --------------------------
(***************************************************************************)
(* One Market of the leveraged-prediction program on its Ephemeral Rollup: *)
(* the Market account, the UserPositions and UserLiquidity accounts of its *)
(* users, the token balances they move, and the scheduler tasks that       *)
(* settle positions.  Instructions are atomic: one action per instruction, *)
(* enabled when the handler returns Ok.  A settlement run that changes     *)
(* nothing still uses one of its task's iterations.                        *)
(*                                                                         *)
(* Accounts the program reads but does not own are not variables, since    *)
(* their owners may change them between any two instructions.  Each is     *)
(* chosen where a handler reads it: the update found in the oracle account *)
(* (a member of OracleUpdates, aged against the rollup's clock), what the  *)
(* session key may spend (a member of Allowances), and whether the user's  *)
(* token account can be paid (usable).                                     *)
(*                                                                         *)
(* A definition named as Refunds_Late is a mutant, as in SettlementMath.   *)
(***************************************************************************)
EXTENDS SettlementMath, FiniteSets, FiniteSetsExt

CONSTANTS
  Users,                        \* wallets, each a trader and a liquidity provider
  POSITION_DURATION_SECONDS,
  SETTLEMENT_BUFFER_SECONDS,
  SETTLEMENT_TASK_INTERVAL,     \* seconds between two runs of a task
  SETTLEMENT_TASK_ITERATIONS,
  ORACLE_MAX_AGE_SECONDS,
  ORACLE_MAX_CONFIDENCE_BPS,
  MAX_ACTIVE_POSITIONS,         \* MAX_MARKET_FINANCIALLY_ACTIVE_POSITIONS
  USER_POSITIONS_CAPACITY,
  U32_MAX,                      \* width of a position nonce
  MAX_NOW,                      \* bound: the clock stops here
  InitialWallet,                \* bound: the tokens each user starts with
  OracleUpdates,                \* inputs: what a read of the oracle may find
  TaskSalts, ZERO_SALT,         \* inputs: the salts a client may draw
  PriceWindows,                 \* inputs: slippage bounds [min, max] of an open
  Collaterals, Allowances, Deposits, Donations, ShareAmounts, Minimums, FeeAmounts
                                \* inputs: amounts in the users' calls

ASSUME TimingAssumption ==
  /\ POSITION_DURATION_SECONDS \in Nat
  /\ SETTLEMENT_BUFFER_SECONDS \in Nat
  /\ SETTLEMENT_TASK_INTERVAL \in Nat \ {0}
  /\ SETTLEMENT_TASK_ITERATIONS \in Nat \ {0}
  /\ ORACLE_MAX_AGE_SECONDS \in Nat
  /\ MAX_NOW \in Nat

\* The last run of a task comes no earlier than the refund of its position.
ASSUME CoverageAssumption ==
  (SETTLEMENT_TASK_ITERATIONS - 1) * SETTLEMENT_TASK_INTERVAL
    >= POSITION_DURATION_SECONDS + SETTLEMENT_BUFFER_SECONDS

\* The safety buffer of the smallest market that may open a position is not nil.
ASSUME BufferAssumption == SafetyBuffer(MIN_MARKET_EQUITY) > 0

\* A wallet is a 32-byte key: there are finitely many.
ASSUME UsersAssumption == IsFiniteSet(Users)

ASSUME InputsAssumption ==
  /\ U32_MAX \in Nat /\ MAX_ACTIVE_POSITIONS \in Nat
  /\ InitialWallet \in [Users -> Nat]
  /\ \A inputs \in {Collaterals, Allowances, Deposits, Donations, ShareAmounts, Minimums,
                    FeeAmounts} : inputs \subseteq Nat
  /\ OracleUpdates \subseteq [genuine : BOOLEAN, final : BOOLEAN,
                              age : Int, price : Int, conf : Nat]
  /\ PriceWindows \subseteq [min : Int, max : Int]

VARIABLES
  now,                 \* Clock::unix_timestamp
  \* The Market account
  total_shares, open_collateral, risk_epoch_equity,
  active_positions, next_position_nonce, mode,
  \* UserPositions and UserLiquidity.  A user with no entry for the market has
  \* the entry remove_empty_market leaves behind: no shares, nothing pending.
  user_positions, user_liquidity,
  \* Token balances: the pool, the fee account, what fee withdrawals paid out,
  \* each user's own tokens, each user's fallback escrow
  pool, fees, withdrawn_fees, wallet, escrow,
  tasks,               \* the scheduler's live tasks
  log                  \* the PositionCreated and PositionClosed events, by nonce

marketVars   == <<total_shares, open_collateral, risk_epoch_equity,
                  active_positions, next_position_nonce, mode>>
balanceVars  == <<pool, fees, withdrawn_fees, wallet, escrow>>
positionVars == <<user_positions, tasks, log>>
vars == <<now, marketVars, balanceVars, positionVars, user_liquidity>>

Nonces == 0..(U32_MAX - 1)

MarketMode == {"Open", "CloseOnly"}

PositionOutcome == {"Won", "Lost", "Breakeven", "Refunded"}

CompactPosition ==
  [nonce : Nonces, task_salt : TaskSalts, collateral : Nat \ {0},
   entry_price : Nat \ {0}, expires_at : Nat, direction : Direction]

MarketLiquidity ==
  [shares : Nat, pending_withdrawal_shares : Nat, min_assets_out : Nat]

ScheduledTask ==
  [user : Users, nonce : Nonces, task_salt : TaskSalts,
   iterations : Nat \ {0}, due : Nat]

LogEntry ==
  [status : {"Unopened", "Open"} \cup PositionOutcome,
   collateral : Nat, payout : Nat, platform_fee : Nat]

EmptyEntry ==
  [shares |-> 0, pending_withdrawal_shares |-> 0, min_assets_out |-> 0]

Unopened ==
  [status |-> "Unopened", collateral |-> 0, payout |-> 0, platform_fee |-> 0]

\* initialize_market, and users whose accounts are delegated and still empty.
Init ==
  /\ now = 0
  /\ total_shares = 0 /\ open_collateral = 0 /\ risk_epoch_equity = 0
  /\ active_positions = 0 /\ next_position_nonce = 0
  /\ mode = "Open"
  /\ user_positions = [u \in Users |-> {}]
  /\ user_liquidity = [u \in Users |-> EmptyEntry]
  /\ pool = 0 /\ fees = 0 /\ withdrawn_fees = 0
  /\ wallet = InitialWallet
  /\ escrow = [u \in Users |-> 0]
  /\ tasks = {}
  /\ log = [n \in Nonces |-> Unopened]

IsNoRisk == active_positions = 0 /\ open_collateral = 0

(***************************************************************************)
(* Liquidity.                                                              *)
(***************************************************************************)

DepositLiquidity(u, amount, min_shares_out) ==
  LET shares == SharesForDeposit(amount, pool, total_shares)
  IN  /\ mode = "Open"
      /\ IsNoRisk
      /\ DepositFits(amount, pool, total_shares)
      /\ MintsShares(amount, pool, total_shares)
      /\ total_shares + shares <= U128_MAX
      /\ shares >= min_shares_out
      /\ wallet[u] >= amount
      /\ wallet' = [wallet EXCEPT ![u] = @ - amount]
      /\ pool' = pool + amount
      /\ user_liquidity' = [user_liquidity EXCEPT ![u].shares = @ + shares]
      /\ total_shares' = total_shares + shares
      /\ UNCHANGED <<now, open_collateral, risk_epoch_equity, active_positions,
                     next_position_nonce, mode, fees, withdrawn_fees, escrow,
                     positionVars>>

RequestWithdrawal(u, shares, min_assets_out) ==
  /\ shares > 0
  /\ shares <= user_liquidity[u].shares
  /\ user_liquidity[u].pending_withdrawal_shares = 0
  /\ user_liquidity' =
       [user_liquidity EXCEPT ![u].pending_withdrawal_shares = shares,
                              ![u].min_assets_out = min_assets_out]
  /\ UNCHANGED <<now, marketVars, balanceVars, positionVars>>

CancelWithdrawal(u) ==
  /\ user_liquidity[u].pending_withdrawal_shares > 0
  /\ user_liquidity' =
       [user_liquidity EXCEPT ![u].pending_withdrawal_shares = 0,
                              ![u].min_assets_out = 0]
  /\ UNCHANGED <<now, marketVars, balanceVars, positionVars>>

\* What an executed withdrawal leaves of the user's entry.
EntryAfterWithdrawal_KeepsRequest(entry, shares) == [entry EXCEPT !.shares = @ - shares]

EntryAfterWithdrawal(entry, shares) ==
  [shares |-> entry.shares - shares, pending_withdrawal_shares |-> 0, min_assets_out |-> 0]

\* Permissionless.  It pays the user's associated token account: where there is
\* none the instruction fails, and this action is not taken.
ExecuteWithdrawal(u) ==
  LET shares == user_liquidity[u].pending_withdrawal_shares
      assets == AssetsForShares(shares, pool, total_shares)
  IN  /\ IsNoRisk
      /\ RedeemsShares(shares, pool, total_shares)
      /\ assets > 0
      /\ assets >= user_liquidity[u].min_assets_out
      /\ ValidWithdrawalRemainder(mode, pool - assets, total_shares - shares)
      /\ user_liquidity[u].shares >= shares
      /\ pool' = pool - assets
      /\ wallet' = [wallet EXCEPT ![u] = @ + assets]
      /\ user_liquidity' =
           [user_liquidity EXCEPT ![u] = EntryAfterWithdrawal(@, shares)]
      /\ total_shares' = total_shares - shares
      /\ UNCHANGED <<now, open_collateral, risk_epoch_equity, active_positions,
                     next_position_nonce, mode, fees, withdrawn_fees, escrow,
                     positionVars>>

(***************************************************************************)
(* The oracle.  A genuine update has the program, feed and exponent the    *)
(* Market is bound to: reading any other one is an error.  A final update  *)
(* has been posted and is fully verified.                                  *)
(***************************************************************************)

PublishTime(update) == now - update.age

QualifyingSample(update) ==
  /\ update.genuine
  /\ update.final
  /\ PublishTime(update) + ORACLE_MAX_AGE_SECONDS >= now
  /\ PublishTime(update) <= now
  /\ update.price > 0
  /\ update.conf * BPS <= update.price * ORACLE_MAX_CONFIDENCE_BPS

(***************************************************************************)
(* Opening a position.                                                     *)
(***************************************************************************)

UserOpenCollateral(u) == SumFunction([p \in user_positions[u] |-> p.collateral])

\* The equity that limits users for as long as any position is open.
EpochEquity ==
  IF active_positions = 0 THEN BoundedRiskEpochEquity(pool) ELSE risk_epoch_equity

\* Everything the handler requires of the market and the user's own exposure.
AdmitsPosition(u, collateral) ==
  /\ mode = "Open"
  /\ CollateralInBounds(collateral)
  /\ active_positions < MAX_ACTIVE_POSITIONS
  /\ Cardinality(user_positions[u]) < USER_POSITIONS_CAPACITY
  /\ OpenLiquidity(total_shares, EpochEquity, pool)
  /\ UserCollateralFits(UserOpenCollateral(u), collateral, EpochEquity)
  /\ PostOpenSolvent(pool, open_collateral, open_collateral + collateral)

\* ScheduleTask through the native scheduler.  Its first run may be immediate.
ScheduleTask(u, nonce, task_salt) ==
  tasks' = tasks \cup
    {[user |-> u, nonce |-> nonce, task_salt |-> task_salt,
      iterations |-> SETTLEMENT_TASK_ITERATIONS, due |-> now]}

OpenPosition(u, nonce, task_salt, direction, collateral, window, delegated, update) ==
  LET position == [nonce |-> nonce, task_salt |-> task_salt,
                   collateral |-> collateral, entry_price |-> update.price,
                   expires_at |-> now + POSITION_DURATION_SECONDS,
                   direction |-> direction]
  IN  /\ task_salt # ZERO_SALT
      /\ nonce = next_position_nonce
      /\ nonce < U32_MAX
      /\ AdmitsPosition(u, collateral)
      /\ QualifyingSample(update)
      /\ update.price \in window.min..window.max
      /\ delegated >= collateral
      /\ wallet[u] >= collateral
      \* The bound on the clock stands for the u32 that holds expires_at.
      /\ now + POSITION_DURATION_SECONDS + SETTLEMENT_BUFFER_SECONDS <= MAX_NOW
      /\ ScheduleTask(u, nonce, task_salt)
      /\ wallet' = [wallet EXCEPT ![u] = @ - collateral]
      /\ pool' = pool + collateral
      /\ user_positions' = [user_positions EXCEPT ![u] = @ \cup {position}]
      /\ risk_epoch_equity' = EpochEquity
      /\ open_collateral' = open_collateral + collateral
      /\ active_positions' = active_positions + 1
      /\ next_position_nonce' = nonce + 1
      /\ log' = [log EXCEPT ![nonce] = [status |-> "Open", collateral |-> collateral,
                                        payout |-> 0, platform_fee |-> 0]]
      /\ UNCHANGED <<now, total_shares, mode, fees, withdrawn_fees, escrow, user_liquidity>>

(***************************************************************************)
(* Settling it: one run of a scheduled settle_position.                    *)
(***************************************************************************)

RefundAt(p) == p.expires_at + SETTLEMENT_BUFFER_SECONDS

TakesPosition(t, p) == p.nonce = t.nonce /\ p.task_salt = t.task_salt

\* At the end of the buffer the stake goes back, whatever the oracle says.
Refunds_Late(t, p) == TakesPosition(t, p) /\ now > RefundAt(p)

Refunds(t, p) == TakesPosition(t, p) /\ now >= RefundAt(p)

SettlesAt_NoDeadline(t, p, update) ==
  /\ TakesPosition(t, p)
  /\ now >= p.expires_at
  /\ QualifyingSample(update)
  /\ PublishTime(update) >= p.expires_at
  /\ PublishTime(update) < RefundAt(p)

SettlesAt(t, p, update) ==
  /\ TakesPosition(t, p)
  /\ now >= p.expires_at
  /\ now < RefundAt(p)
  /\ QualifyingSample(update)
  /\ PublishTime(update) >= p.expires_at
  /\ PublishTime(update) < RefundAt(p)

Outcome(amounts) ==
  CASE amounts.gross_profit > 0 -> "Won"
    [] amounts.gross_profit = 0 /\ amounts.loss > 0 -> "Lost"
    [] OTHER -> "Breakeven"

\* What a run pays: amounts and outcome of a refund, and of a settlement.
RefundTerms_TakesFee(p) ==
  [payout |-> p.collateral - ProfitFee(p.collateral), platform_fee |-> 0,
   outcome |-> "Refunded"]

RefundTerms(p) ==
  [payout |-> p.collateral, platform_fee |-> 0, outcome |-> "Refunded"]

SettlementTerms(p, update) ==
  LET amounts == CalculateSettlement(p.collateral, p.entry_price, update.price, p.direction)
  IN  [payout |-> amounts.user_payout, platform_fee |-> amounts.protocol_fee,
       outcome |-> Outcome(amounts)]

\* The transfers and the checked subtractions of the handler all succeed.
CanClose(p, terms) ==
  /\ pool >= terms.payout + terms.platform_fee
  /\ open_collateral >= p.collateral
  /\ active_positions >= 1

PayUser_NoFallback(u, amount, usable) ==
  /\ wallet' = [wallet EXCEPT ![u] = IF usable THEN @ + amount ELSE @]
  /\ UNCHANGED escrow

\* A payout goes to the account fixed at open time, or to the fallback escrow
\* when that account is no longer a live account of the collateral mint.
PayUser(u, amount, usable) ==
  IF usable
  THEN wallet' = [wallet EXCEPT ![u] = @ + amount] /\ UNCHANGED escrow
  ELSE escrow' = [escrow EXCEPT ![u] = @ + amount] /\ UNCHANGED wallet

ReleaseRisk_KeepsStake(p) ==
  /\ open_collateral' = open_collateral
  /\ active_positions' = active_positions - 1

\* The position leaves the Market's risk counters.
ReleaseRisk(p) ==
  /\ open_collateral' = open_collateral - p.collateral
  /\ active_positions' = active_positions - 1

ClosePosition(u, p, terms, usable) ==
  /\ CanClose(p, terms)
  /\ pool' = pool - terms.platform_fee - terms.payout
  /\ fees' = fees + terms.platform_fee
  /\ PayUser(u, terms.payout, usable)
  /\ user_positions' = [user_positions EXCEPT ![u] = @ \ {p}]
  /\ ReleaseRisk(p)
  /\ log' = [log EXCEPT ![p.nonce] = [status |-> terms.outcome,
                                      collateral |-> @.collateral,
                                      payout |-> terms.payout,
                                      platform_fee |-> terms.platform_fee]]
  /\ UNCHANGED <<now, total_shares, risk_epoch_equity, next_position_nonce, mode,
                 withdrawn_fees, user_liquidity>>

\* The scheduler runs a task no more often than its interval, and drops it
\* after its last iteration.  A run may be late by any time.
UseIteration(t) ==
  /\ t \in tasks
  /\ now >= t.due
  /\ tasks' = (tasks \ {t}) \cup
       {r \in {[t EXCEPT !.iterations = @ - 1, !.due = now + SETTLEMENT_TASK_INTERVAL]} :
          r.iterations > 0}

RefundRun(t, usable) ==
  \E p \in user_positions[t.user] :
    /\ Refunds(t, p)
    /\ UseIteration(t)
    /\ ClosePosition(t.user, p, RefundTerms(p), usable)

SettlementRun(t, update, usable) ==
  \E p \in user_positions[t.user] :
    /\ SettlesAt(t, p, update)
    /\ UseIteration(t)
    /\ ClosePosition(t.user, p, SettlementTerms(p, update), usable)

\* The position is gone, not expired, without a qualifying sample, or the run
\* fails: the program's state stays as it was.
IdleRun(t, update) ==
  /\ ~ \E p \in user_positions[t.user] :
         \/ Refunds(t, p) /\ CanClose(p, RefundTerms(p))
         \/ SettlesAt(t, p, update) /\ CanClose(p, SettlementTerms(p, update))
  /\ UseIteration(t)
  /\ UNCHANGED <<now, marketVars, balanceVars, user_positions, log,
                 user_liquidity>>

RunTask(t) ==
  \/ \E usable \in BOOLEAN : RefundRun(t, usable)
  \/ \E update \in OracleUpdates, usable \in BOOLEAN : SettlementRun(t, update, usable)
  \/ \E update \in OracleUpdates : IdleRun(t, update)

(***************************************************************************)
(* Payouts, fees, administration.                                          *)
(***************************************************************************)

\* The user names any live token account of theirs as the destination.
ClaimFallbackPayout(u) ==
  /\ escrow[u] > 0
  /\ wallet' = [wallet EXCEPT ![u] = @ + escrow[u]]
  /\ escrow' = [escrow EXCEPT ![u] = 0]
  /\ UNCHANGED <<now, marketVars, pool, fees, withdrawn_fees,
                 positionVars, user_liquidity>>

WithdrawProtocolFees(amount) ==
  /\ amount > 0
  /\ amount <= fees
  /\ fees' = fees - amount
  /\ withdrawn_fees' = withdrawn_fees + amount
  /\ UNCHANGED <<now, marketVars, pool, wallet, escrow, positionVars,
                 user_liquidity>>

SetMarketMode(m) ==
  /\ mode' = m
  /\ UNCHANGED <<now, total_shares, open_collateral, risk_epoch_equity,
                 active_positions, next_position_nonce, balanceVars,
                 positionVars, user_liquidity>>

(***************************************************************************)
(* The environment: the clock, and the token program used outside.         *)
(***************************************************************************)

Tick ==
  /\ now < MAX_NOW
  /\ now' = now + 1
  /\ UNCHANGED <<marketVars, balanceVars, positionVars, user_liquidity>>

\* Anyone may transfer tokens straight to the pool's account.
Donate(u, amount) ==
  /\ amount > 0
  /\ wallet[u] >= amount
  /\ wallet' = [wallet EXCEPT ![u] = @ - amount]
  /\ pool' = pool + amount
  /\ UNCHANGED <<now, marketVars, fees, withdrawn_fees, escrow,
                 positionVars, user_liquidity>>

Trade ==
  \E u \in Users, task_salt \in TaskSalts, direction \in Direction,
     collateral \in Collaterals, window \in PriceWindows, delegated \in Allowances,
     update \in OracleUpdates :
    OpenPosition(u, next_position_nonce, task_salt, direction, collateral, window,
                 delegated, update)

ProvideLiquidity ==
  \E u \in Users :
    \/ \E amount \in Deposits, minimum \in Minimums : DepositLiquidity(u, amount, minimum)
    \/ \E shares \in ShareAmounts, minimum \in Minimums : RequestWithdrawal(u, shares, minimum)
    \/ CancelWithdrawal(u)
    \/ ExecuteWithdrawal(u)

Administer ==
  \/ \E amount \in FeeAmounts : WithdrawProtocolFees(amount)
  \/ \E m \in MarketMode : SetMarketMode(m)

Environment ==
  \/ Tick
  \/ \E u \in Users, amount \in Donations : Donate(u, amount)

Next ==
  \/ Trade
  \/ ProvideLiquidity
  \/ \E t \in tasks : RunTask(t)
  \/ \E u \in Users : ClaimFallbackPayout(u)
  \/ Administer
  \/ Environment

\* The clock runs, and the scheduler runs each task it holds once it is due.
\* Nothing else is bound to happen.
Fairness ==
  /\ WF_vars(Tick)
  /\ \A n \in Nonces : WF_vars(\E t \in tasks : t.nonce = n /\ RunTask(t))

Spec == Init /\ [][Next]_vars

FairSpec == Spec /\ Fairness

-----------------------------------------------------------------------------
(***************************************************************************)
(* Properties.                                                             *)
(***************************************************************************)

TypeOK ==
  /\ now \in Nat
  /\ total_shares \in Nat /\ open_collateral \in Nat /\ risk_epoch_equity \in Nat
  /\ active_positions \in Nat /\ next_position_nonce \in 0..U32_MAX
  /\ mode \in MarketMode
  /\ user_positions \in [Users -> SUBSET CompactPosition]
  /\ user_liquidity \in [Users -> MarketLiquidity]
  /\ pool \in Nat /\ fees \in Nat /\ withdrawn_fees \in Nat
  /\ wallet \in [Users -> Nat] /\ escrow \in [Users -> Nat]
  /\ tasks \in SUBSET ScheduledTask
  /\ log \in [Nonces -> LogEntry]

\* The Market's risk counters are those of its users' accounts, so that no
\* checked_sub of a settlement fails and is_no_risk means no position at all.
RiskBooksBalance ==
  /\ open_collateral = SumFunction([u \in Users |-> UserOpenCollateral(u)])
  /\ active_positions = SumFunction([u \in Users |-> Cardinality(user_positions[u])])

\* While any position is open the pool can pay every open position its stake
\* and its capped profit, and still holds the safety buffer of the smallest
\* market that may open one: no order of settlements leaves a winner unpaid.
SafetyBufferIntact ==
  /\ pool >= open_collateral * (1 + MAX_GROSS_PROFIT_MULTIPLIER)
  /\ open_collateral > 0 =>
       pool >= open_collateral * (1 + MAX_GROSS_PROFIT_MULTIPLIER)
               + SafetyBuffer(MIN_MARKET_EQUITY)

\* Shares never stand against an empty pool: the next deposit can be priced and
\* every withdrawal of all the shares pays something.
SharesBacked == total_shares > 0 => pool > 0

\* The Market's supply is the sum of its users' shares, and what a user has asked
\* to withdraw is still theirs.
ShareRegisterBalances ==
  /\ total_shares = SumFunction([u \in Users |-> user_liquidity[u].shares])
  /\ \A u \in Users :
       user_liquidity[u].pending_withdrawal_shares <= user_liquidity[u].shares

\* No instruction makes or loses a token, fees and fallback payouts included.
TokensConserved ==
  pool + fees + withdrawn_fees + SumFunction(wallet) + SumFunction(escrow)
    = SumFunction(InitialWallet)

\* One user never has more at stake than their part of the equity that was there
\* when the market last went from no position to one, however it moved since.
ExposureLimited ==
  \A u \in Users :
    UserOpenCollateral(u) * BPS <= risk_epoch_equity * USER_OPEN_COLLATERAL_BPS
      \/ user_positions[u] = {}

\* The task that settles a position: its run with no iteration left after it
\* falls at or after the refund of the position.
CoveredBy(u, p, t) ==
  /\ t.user = u
  /\ TakesPosition(t, p)
  /\ t.due + (t.iterations - 1) * SETTLEMENT_TASK_INTERVAL >= RefundAt(p)

\* Every open position has a live task, which cannot use its last iteration
\* without refunding it: however late the runs and however long the oracle
\* stays unusable, no stake is stranded in the pool.
EveryPositionCovered ==
  \A u \in Users : \A p \in user_positions[u] : \E t \in tasks : CoveredBy(u, p, t)

\* Whoever deposits or withdraws, the shares of everyone else are worth no less
\* after it: every rounding of the share math favours the pool.
SharePriceNeverFalls ==
  [][ total_shares' # total_shares /\ total_shares > 0 /\ total_shares' > 0
      => pool' * total_shares >= pool * total_shares' ]_vars

\* A position is settled by price only inside its settlement window and refunded
\* only after it, and a refund returns the stake whole.
SettledInWindow ==
  [][ \A u \in Users : \A p \in user_positions[u] \ user_positions'[u] :
        LET closed == log'[p.nonce]
        IN  IF closed.status = "Refunded"
            THEN now >= RefundAt(p) /\ closed.payout = p.collateral
            ELSE now >= p.expires_at /\ now < RefundAt(p) ]_vars
=============================================================================
