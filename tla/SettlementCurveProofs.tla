------------------------ MODULE SettlementCurveProofs ------------------------
(***************************************************************************)
(* The properties of SettlementCurve, for all collaterals, prices and      *)
(* rates.  Each follows from a fact of SettlementMathProofs and the types. *)
(***************************************************************************)
EXTENDS SettlementCurve, SettlementMathProofs

CurveType ==
  /\ collateral \in Nat \ {0}
  /\ entry_price \in Nat \ {0}
  /\ direction \in Direction
  /\ settle_price \in Nat \ {0}

\* The price moves among the prices an update may carry; the position stays.
LEMMA CurveTypeInvariant == Spec => []CurveType
<1>1. Init => CurveType
  BY CurveAssumption DEF Init, CurveType
<1>2. CurveType /\ [MovePrice]_curveVars => CurveType'
  BY CurveAssumption DEF CurveType, MovePrice, curveVars
<1>. QED BY <1>1, <1>2, PTL DEF Spec

\* Every settlement is paid from what the pool holds back for the position.
THEOREM CurvePaidFromReserve == Spec => []PaidFromReserve
<1>1. CurveType => PaidFromReserve
  <2> SUFFICES ASSUME CurveType PROVE PaidFromReserve
    OBVIOUS
  <2>1. PICK a : a = Settled
    OBVIOUS
  <2>2. /\ a.user_payout \in Nat /\ a.protocol_fee \in Nat /\ a.lp_fee \in Nat
        /\ a.user_payout + a.protocol_fee + a.lp_fee = collateral + a.gross_profit - a.loss
        /\ a.user_payout + a.protocol_fee <= collateral * (1 + MAX_GROSS_PROFIT_MULTIPLIER)
    BY <2>1, SettlementBounds DEF CurveType, Settled
  <2> QED  BY <2>1, <2>2 DEF PaidFromReserve
<1>. QED BY <1>1, CurveTypeInvariant, PTL

\* Rounding favours neither of two opposite positions.
THEOREM CurveOppositesOffset == Spec => []OppositesOffset
<1>1. ASSUME CurveType PROVE OppositesOffset
  <2> DEFINE other == CHOOSE d \in Direction : d # direction
             delta == DirectedDelta(entry_price, settle_price, direction)
             move  == LeveragedMove(collateral, entry_price, delta)
  <2>1. other \in Direction /\ other # direction
    BY <1>1 DEF CurveType, Direction
  <2>2. delta \in Int /\ DirectedDelta(entry_price, settle_price, other) = -delta
    BY <1>1, <2>1 DEF CurveType, Direction, DirectedDelta
  <2>3. LeveragedMove(collateral, entry_price, -delta) = move
    BY <2>2 DEF LeveragedMove
  <2>4. move \in Nat
    BY <1>1, <2>2, MoveType DEF CurveType
  <2>5. /\ Settled.gross_profit = GrossProfit(collateral, entry_price, delta)
        /\ Settled.loss = Loss(collateral, entry_price, delta)
        /\ Opposite.loss = Loss(collateral, entry_price, -delta)
    BY <2>2 DEF Settled, Opposite, CalculateSettlement
  <2> HIDE DEF other, delta, move
  <2>6. MAX_GROSS_PROFIT_MULTIPLIER >= 1 => collateral * MAX_GROSS_PROFIT_MULTIPLIER >= collateral
    BY <1>1, RatesAssumption DEF CurveType
  <2>7. collateral * MAX_GROSS_PROFIT_MULTIPLIER \in Nat /\ collateral \in Nat \ {0}
    BY <1>1, RatesAssumption DEF CurveType
  <2>8. ASSUME MAX_GROSS_PROFIT_MULTIPLIER >= 1, Settled.loss = 0
        PROVE  Loss(collateral, entry_price, -delta)
                 = Lesser(GrossProfit(collateral, entry_price, delta), collateral)
    <3>1. CASE delta > 0
      BY <2>2, <2>3, <2>4, <2>6, <2>7, <2>8, <3>1 DEF Loss, GrossProfit, Lesser, move
    <3>2. CASE delta < 0
      <4>1. move = 0
        BY <2>2, <2>4, <2>5, <2>7, <2>8, <3>2 DEF Loss, Lesser, move
      <4>. QED BY <2>2, <2>7, <3>2, <4>1 DEF Loss, GrossProfit, Lesser
    <3>3. CASE delta = 0
      <4>1. move = 0
        BY <1>1, <2>7, <3>3, RatesAssumption DEF CurveType, move, LeveragedMove
      <4>. QED BY <2>7, <3>3, <4>1 DEF Loss, GrossProfit, Lesser, move
    <3>. QED BY <2>2, <3>1, <3>2, <3>3
  <2>. QED BY <2>5, <2>8 DEF OppositesOffset
<1>. QED BY <1>1, CurveTypeInvariant, PTL

\* What a better price is for each direction.
LEMMA BetterPrice ==
  ASSUME NEW e \in Nat, NEW s \in Nat, NEW t \in Nat, NEW d \in Direction,
         ~(d = "Up" /\ t < s), ~(d = "Down" /\ t > s)
  PROVE  DirectedDelta(e, s, d) <= DirectedDelta(e, t, d)
<1>1. d = "Up" \/ d = "Down"
  BY DEF Direction
<1>2. CASE d = "Up"
  BY <1>2 DEF DirectedDelta
<1>3. CASE d = "Down"
  BY <1>3 DEF DirectedDelta
<1>. QED BY <1>1, <1>2, <1>3

\* A better price never pays less.
THEOREM CurvePayoutFollowsPrice == Spec => PayoutFollowsPrice
<1> DEFINE Follows ==
             \/ direction = "Up" /\ settle_price' < settle_price
             \/ direction = "Down" /\ settle_price' > settle_price
             \/ Settled'.user_payout >= Settled.user_payout
<1>1. CurveType /\ CurveType' /\ [MovePrice]_curveVars => [Follows]_curveVars
  <2> SUFFICES ASSUME CurveType, CurveType', MovePrice,
                      ~(direction = "Up" /\ settle_price' < settle_price),
                      ~(direction = "Down" /\ settle_price' > settle_price)
               PROVE  Settled'.user_payout >= Settled.user_payout
    OBVIOUS
  <2>1. DirectedDelta(entry_price, settle_price, direction)
          <= DirectedDelta(entry_price, settle_price', direction)
    BY BetterPrice DEF CurveType
  <2>2. CalculateSettlement(collateral, entry_price, settle_price, direction).user_payout
          <= CalculateSettlement(collateral, entry_price, settle_price', direction).user_payout
    BY <2>1, PayoutMonotone DEF CurveType
  <2>3. /\ CalculateSettlement(collateral, entry_price, settle_price, direction).user_payout
              \in Nat
        /\ CalculateSettlement(collateral, entry_price, settle_price', direction).user_payout
              \in Nat
    BY SettlementBounds DEF CurveType
  <2>. QED BY <2>2, <2>3 DEF Settled, MovePrice
<1>. QED BY <1>1, CurveTypeInvariant, PTL DEF Spec, PayoutFollowsPrice
=============================================================================
