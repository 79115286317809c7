--------------------------- MODULE SettlementMath ---------------------------
(***************************************************************************)
(* The arithmetic of the leveraged-prediction program: how a position      *)
(* settles, how liquidity shares are priced, and the limits a position     *)
(* must meet to be opened.  Amounts are natural numbers in minor units of  *)
(* the collateral; every division is the integer division of the program.  *)
(* A helper that returns an error in the program is an operator with a     *)
(* predicate of the same subject (for instance MintsShares) that holds     *)
(* when the helper returns Ok.                                             *)
(*                                                                         *)
(* A definition named after another with an underscore and what is wrong   *)
(* in it, as LeveragedMove_Floored, is a mutant: the slip a change could   *)
(* make there.  Only the test of the properties uses it, in the place of   *)
(* the definition, to see that they can tell the two apart.                *)
(***************************************************************************)
EXTENDS Integers

CONSTANTS
  BPS,                          \* the denominator of every rate, 10 000
  LEVERAGE,                     \* price sensitivity of a position
  MAX_GROSS_PROFIT_MULTIPLIER,  \* cap of the gross profit, in collaterals
  PROFIT_FEE_BPS,               \* fee taken from a gross profit
  PROTOCOL_FEE_SHARE_BPS,       \* part of that fee that leaves the pool
  SAFETY_BUFFER_BPS,            \* part of the pool no open may reserve
  USER_OPEN_COLLATERAL_BPS,     \* cap of one user's open collateral
  MIN_POSITION_COLLATERAL, MAX_POSITION_COLLATERAL,
  MIN_MARKET_EQUITY, MAX_MARKET_EQUITY,
  U128_MAX                      \* the largest u128, width of the share math

ASSUME RatesAssumption ==
  /\ BPS \in Nat \ {0}
  /\ LEVERAGE \in Nat
  /\ MAX_GROSS_PROFIT_MULTIPLIER \in Nat
  /\ PROFIT_FEE_BPS \in 0..BPS
  /\ PROTOCOL_FEE_SHARE_BPS \in 0..BPS
  /\ SAFETY_BUFFER_BPS \in 0..BPS
  /\ USER_OPEN_COLLATERAL_BPS \in Nat

ASSUME LimitsAssumption ==
  /\ MIN_POSITION_COLLATERAL \in Nat \ {0}
  /\ MAX_POSITION_COLLATERAL \in Nat
  /\ MIN_MARKET_EQUITY \in Nat \ {0}
  /\ MAX_MARKET_EQUITY \in Nat
  /\ U128_MAX \in Nat

Direction == {"Up", "Down"}

Lesser(a, b) == IF a <= b THEN a ELSE b

(***************************************************************************)
(* Settlement of a position.                                               *)
(***************************************************************************)

DirectedDelta_Undirected(entry_price, settle_price, direction) == settle_price - entry_price

\* The price move in the position's favour.
DirectedDelta(entry_price, settle_price, direction) ==
  IF direction = "Up" THEN settle_price - entry_price
                      ELSE entry_price - settle_price

LeveragedMove_Floored(collateral, entry_price, delta) ==
  LET numerator == collateral * LEVERAGE * delta
      floored   == numerator \div entry_price
  IN  IF delta >= 0 THEN floored ELSE -floored

\* collateral * LEVERAGE * |delta| / entry_price.  Rust's division of a signed
\* numerator truncates toward zero, so a gain and a loss are both this floor.
LeveragedMove(collateral, entry_price, delta) ==
  LET distance == IF delta >= 0 THEN delta ELSE -delta
  IN  (collateral * LEVERAGE * distance) \div entry_price

GrossProfit_Uncapped(collateral, entry_price, delta) ==
  IF delta >= 0 THEN LeveragedMove(collateral, entry_price, delta) ELSE 0

GrossProfit(collateral, entry_price, delta) ==
  IF delta >= 0
  THEN Lesser(LeveragedMove(collateral, entry_price, delta),
              collateral * MAX_GROSS_PROFIT_MULTIPLIER)
  ELSE 0

Loss_Uncapped(collateral, entry_price, delta) ==
  IF delta < 0 THEN LeveragedMove(collateral, entry_price, delta) ELSE 0

Loss(collateral, entry_price, delta) ==
  IF delta < 0
  THEN Lesser(LeveragedMove(collateral, entry_price, delta), collateral)
  ELSE 0

ProfitFee(gross_profit) == (gross_profit * PROFIT_FEE_BPS) \div BPS

ProtocolFee(fee) == (fee * PROTOCOL_FEE_SHARE_BPS) \div BPS

CalculateSettlement(collateral, entry_price, settle_price, direction) ==
  LET delta  == DirectedDelta(entry_price, settle_price, direction)
      profit == GrossProfit(collateral, entry_price, delta)
      lost   == Loss(collateral, entry_price, delta)
      fee    == ProfitFee(profit)
  IN  [ user_payout  |-> collateral + profit - fee - lost,
        protocol_fee |-> ProtocolFee(fee),
        lp_fee       |-> fee - ProtocolFee(fee),
        gross_profit |-> profit,
        loss         |-> lost ]

(***************************************************************************)
(* Liquidity shares.                                                       *)
(***************************************************************************)

SharesForDeposit_RoundedUp(amount, equity_before, total_shares) ==
  IF total_shares = 0
  THEN equity_before + amount
  ELSE (amount * total_shares + equity_before - 1) \div equity_before

\* The first deposit mints one share per unit of the pool it leaves behind, so
\* it absorbs what was in the pool before it.
SharesForDeposit(amount, equity_before, total_shares) ==
  IF total_shares = 0
  THEN equity_before + amount
  ELSE (amount * total_shares) \div equity_before

\* shares_for_deposit returns Ok: something to mint, no division by zero, no
\* u128 overflow in the product.
MintsShares(amount, equity_before, total_shares) ==
  /\ amount > 0
  /\ total_shares # 0 =>
       /\ equity_before > 0
       /\ amount * total_shares <= U128_MAX
       /\ SharesForDeposit(amount, equity_before, total_shares) > 0

\* require_deposit_capacity, with the bounds the handler puts on a first deposit.
DepositFits(amount, equity_before, total_shares) ==
  IF total_shares = 0
  THEN amount \in MIN_MARKET_EQUITY..MAX_MARKET_EQUITY
  ELSE equity_before + amount <= MAX_MARKET_EQUITY

AssetsForShares_OfTheRest(shares, pool_balance, total_shares) ==
  IF shares = total_shares THEN pool_balance
                           ELSE (shares * pool_balance) \div (total_shares - shares)

AssetsForShares(shares, pool_balance, total_shares) ==
  (shares * pool_balance) \div total_shares

\* assets_for_shares returns Ok.
RedeemsShares(shares, pool_balance, total_shares) ==
  /\ shares > 0
  /\ total_shares >= shares
  /\ shares * pool_balance <= U128_MAX

\* require_valid_withdrawal_remainder: an Open market keeps supply and minimum.
ValidWithdrawalRemainder(mode, remaining_assets, remaining_shares) ==
  mode = "Open" =>
    /\ remaining_shares > 0
    /\ remaining_assets >= MIN_MARKET_EQUITY

(***************************************************************************)
(* Admission of a position.                                                *)
(***************************************************************************)

CollateralInBounds(collateral) ==
  /\ collateral >= MIN_POSITION_COLLATERAL
  /\ collateral <= MAX_POSITION_COLLATERAL

BoundedRiskEpochEquity(realized_equity) ==
  Lesser(realized_equity, MAX_MARKET_EQUITY)

\* require_open_liquidity
OpenLiquidity(total_shares, risk_epoch_equity, pool_before) ==
  /\ total_shares > 0
  /\ risk_epoch_equity >= MIN_MARKET_EQUITY
  /\ pool_before >= MIN_MARKET_EQUITY

UserCollateralFits_NewAlone(existing_user_collateral, new_collateral, risk_epoch_equity) ==
  new_collateral * BPS <= risk_epoch_equity * USER_OPEN_COLLATERAL_BPS

\* require_user_open_collateral_capacity
UserCollateralFits(existing_user_collateral, new_collateral, risk_epoch_equity) ==
  (existing_user_collateral + new_collateral) * BPS
    <= risk_epoch_equity * USER_OPEN_COLLATERAL_BPS

SafetyBuffer(pool_equity) == (pool_equity * SAFETY_BUFFER_BPS) \div BPS

PostOpenSolvent_OldReserve(pool_before, existing_open_collateral, open_collateral_after) ==
  pool_before >= existing_open_collateral
                 + existing_open_collateral * MAX_GROSS_PROFIT_MULTIPLIER
                 + SafetyBuffer(pool_before)

\* require_post_open_solvency
PostOpenSolvent(pool_before, existing_open_collateral, open_collateral_after) ==
  pool_before >= existing_open_collateral
                 + open_collateral_after * MAX_GROSS_PROFIT_MULTIPLIER
                 + SafetyBuffer(pool_before)
=============================================================================
