--------------------------- MODULE SettlementCurve ---------------------------
(***************************************************************************)
(* What a position would settle for, as the price moves under it: the      *)
(* settlement arithmetic seen by the holder of one position from its entry *)
(* to any price.                                                           *)
(***************************************************************************)
EXTENDS SettlementMath

CONSTANTS
  CurveCollaterals,   \* inputs: the collaterals tried
  CurvePrices         \* inputs: the prices an update may carry

ASSUME CurveAssumption ==
  /\ CurveCollaterals \subseteq Nat \ {0}
  /\ CurvePrices \subseteq Nat \ {0}

VARIABLES collateral, entry_price, direction, settle_price

curveVars == <<collateral, entry_price, direction, settle_price>>

Init ==
  /\ collateral \in CurveCollaterals
  /\ entry_price \in CurvePrices
  /\ direction \in Direction
  /\ settle_price = entry_price

MovePrice ==
  /\ settle_price' \in CurvePrices
  /\ UNCHANGED <<collateral, entry_price, direction>>

Spec == Init /\ [][MovePrice]_curveVars

\* The position, and the one in the opposite direction, at the present price.
Settled == CalculateSettlement(collateral, entry_price, settle_price, direction)

Opposite ==
  CalculateSettlement(collateral, entry_price, settle_price,
                      CHOOSE d \in Direction : d # direction)

-----------------------------------------------------------------------------
\* What the user and the fee account receive is what the trade moved, less the
\* fee that stays in the pool, and never more than what an open position makes
\* the pool hold back for it.
PaidFromReserve ==
  /\ Settled.user_payout + Settled.protocol_fee + Settled.lp_fee
       = collateral + Settled.gross_profit - Settled.loss
  /\ Settled.user_payout >= 0 /\ Settled.protocol_fee >= 0 /\ Settled.lp_fee >= 0
  /\ Settled.user_payout + Settled.protocol_fee
       <= collateral * (1 + MAX_GROSS_PROFIT_MULTIPLIER)

\* Of two opposite positions with the same entry one gains what the other loses,
\* to the unit, until the loser has lost everything: rounding favours neither.
OppositesOffset ==
  MAX_GROSS_PROFIT_MULTIPLIER >= 1 /\ Settled.loss = 0
    => Opposite.loss = Lesser(Settled.gross_profit, collateral)

\* A price better for the position never pays it less, whatever the fee and the
\* caps round to.
PayoutFollowsPrice ==
  [][ \/ direction = "Up" /\ settle_price' < settle_price
      \/ direction = "Down" /\ settle_price' > settle_price
      \/ Settled'.user_payout >= Settled.user_payout ]_curveVars
=============================================================================
