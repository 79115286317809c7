------------------------- MODULE SettlementMathProofs -------------------------
(***************************************************************************)
(* Facts about the arithmetic of SettlementMath for all amounts, prices    *)
(* and rates.                                                              *)
(***************************************************************************)
EXTENDS SettlementMath, TLAPS

-----------------------------------------------------------------------------
(***************************************************************************)
(* Integer division of naturals.                                           *)
(***************************************************************************)

\* The floor of a quotient, as two inequalities on products.
LEMMA DivBounds ==
  ASSUME NEW a \in Nat, NEW b \in Nat \ {0}
  PROVE  /\ a \div b \in Nat
         /\ b * (a \div b) <= a
         /\ a < b * (a \div b) + b
  OBVIOUS

\* A larger dividend has no smaller quotient.
LEMMA DivMonotone ==
  ASSUME NEW a \in Nat, NEW b \in Nat, NEW c \in Nat \ {0}, a <= b
  PROVE  a \div c <= b \div c
  BY DivBounds

\* Products of naturals are naturals and grow with each factor.
LEMMA ProductMonotone ==
  ASSUME NEW a \in Nat, NEW b \in Nat, NEW c \in Nat, a <= b
  PROVE  a * c \in Nat /\ b * c \in Nat /\ a * c <= b * c
  OBVIOUS

\* A part of an amount, taken at a rate of at most one, is part of it; and what is
\* left grows with the amount: a rate never takes two units of one more.
LEMMA RateOfAmount ==
  ASSUME NEW a \in Nat, NEW b \in Nat, NEW r \in Nat, NEW c \in Nat \ {0}, r <= c, a <= b
  PROVE  /\ (a * r) \div c \in 0..a
         /\ a - (a * r) \div c <= b - (b * r) \div c
<1>1. a * r \in Nat /\ b * r \in Nat /\ a * r <= a * c
  OBVIOUS
<1>2. (a * r) \div c \in Nat /\ c * ((a * r) \div c) <= a * r
  BY <1>1, DivBounds
<1>3. (a * r) \div c <= a
  BY <1>1, <1>2
<1>4. (b * r) \div c <= (a * r) \div c + (b - a)
  <2>1. b * r <= a * r + (b - a) * c
    OBVIOUS
  <2>2. (b * r) \div c <= (a * r + (b - a) * c) \div c
    BY <1>1, <2>1, DivMonotone
  <2>3. (a * r + (b - a) * c) \div c = (a * r) \div c + (b - a)
    BY <1>1
  <2>. QED BY <2>2, <2>3, <1>2
<1>. QED BY <1>2, <1>3, <1>4, DivBounds, <1>1

-----------------------------------------------------------------------------
(***************************************************************************)
(* Settlement.                                                             *)
(***************************************************************************)

\* The leveraged move is a natural number, whatever the sign of the price move.
LEMMA MoveType ==
  ASSUME NEW c \in Nat, NEW e \in Nat \ {0}, NEW delta \in Int
  PROVE  LeveragedMove(c, e, delta) \in Nat
<1> DEFINE distance == IF delta >= 0 THEN delta ELSE -delta
<1>1. c * LEVERAGE \in Nat
  BY RatesAssumption
<1>2. distance \in Nat
  OBVIOUS
<1> HIDE DEF distance
<1>3. c * LEVERAGE * distance \in Nat
  BY <1>1, <1>2
<1>4. (c * LEVERAGE * distance) \div e \in Nat
  BY <1>3, DivBounds
<1>. QED BY <1>4 DEF LeveragedMove, distance

\* It grows with the distance the price has moved.
LEMMA MoveMonotone ==
  ASSUME NEW c \in Nat, NEW e \in Nat \ {0}, NEW d1 \in Int, NEW d2 \in Int,
         \/ 0 <= d1 /\ d1 <= d2
         \/ d2 <= d1 /\ d1 <= 0
  PROVE  LeveragedMove(c, e, d1) <= LeveragedMove(c, e, d2)
<1> DEFINE x1 == IF d1 >= 0 THEN d1 ELSE -d1
           x2 == IF d2 >= 0 THEN d2 ELSE -d2
<1>1. c * LEVERAGE \in Nat
  BY RatesAssumption
<1>2. x1 \in Nat /\ x2 \in Nat /\ x1 <= x2
  OBVIOUS
<1> HIDE DEF x1, x2
<1>3. /\ c * LEVERAGE * x1 \in Nat /\ c * LEVERAGE * x2 \in Nat
      /\ c * LEVERAGE * x1 <= c * LEVERAGE * x2
  BY <1>1, <1>2
<1>4. (c * LEVERAGE * x1) \div e <= (c * LEVERAGE * x2) \div e
  BY <1>3, DivMonotone
<1>. QED BY <1>4 DEF LeveragedMove, x1, x2

\* Profit and loss are naturals within their caps, and one of them is nil.
LEMMA ProfitLossBounds ==
  ASSUME NEW c \in Nat, NEW e \in Nat \ {0}, NEW delta \in Int
  PROVE  /\ GrossProfit(c, e, delta) \in Nat
         /\ GrossProfit(c, e, delta) <= c * MAX_GROSS_PROFIT_MULTIPLIER
         /\ Loss(c, e, delta) \in Nat
         /\ Loss(c, e, delta) <= c
         /\ GrossProfit(c, e, delta) = 0 \/ Loss(c, e, delta) = 0
<1>1. c * MAX_GROSS_PROFIT_MULTIPLIER \in Nat
  BY RatesAssumption
<1>2. LeveragedMove(c, e, delta) \in Nat
  BY MoveType
<1>. QED BY <1>1, <1>2 DEF GrossProfit, Loss, Lesser

\* The fee is part of the profit, and what it leaves grows with the profit.
LEMMA ProfitFeeBounds ==
  ASSUME NEW x \in Nat
  PROVE  /\ ProfitFee(x) \in Nat
         /\ ProfitFee(x) <= x
         /\ \A y \in Nat : x <= y => x - ProfitFee(x) <= y - ProfitFee(y)
<1>1. PROFIT_FEE_BPS \in Nat /\ BPS \in Nat \ {0} /\ PROFIT_FEE_BPS <= BPS
  BY RatesAssumption
<1>2. ProfitFee(x) \in 0..x
  BY <1>1, RateOfAmount DEF ProfitFee
<1>3. ASSUME NEW y \in Nat, x <= y
      PROVE  x - ProfitFee(x) <= y - ProfitFee(y)
  BY <1>1, <1>3, RateOfAmount DEF ProfitFee
<1>. QED BY <1>2, <1>3

\* The protocol's share is part of the fee.
LEMMA ProtocolFeeBounds ==
  ASSUME NEW x \in Nat
  PROVE  ProtocolFee(x) \in Nat /\ ProtocolFee(x) <= x
<1>1. PROTOCOL_FEE_SHARE_BPS \in Nat /\ BPS \in Nat \ {0} /\ PROTOCOL_FEE_SHARE_BPS <= BPS
  BY RatesAssumption
<1>2. ProtocolFee(x) \in 0..x
  BY <1>1, RateOfAmount DEF ProtocolFee
<1>. QED BY <1>2

\* What a settlement pays, fee included, is what the trade moved, and it never
\* exceeds the stake and the capped profit.
THEOREM SettlementBounds ==
  ASSUME NEW c \in Nat, NEW e \in Nat \ {0}, NEW s \in Nat, NEW d \in Direction
  PROVE  LET a == CalculateSettlement(c, e, s, d)
         IN  /\ a.user_payout \in Nat /\ a.protocol_fee \in Nat /\ a.lp_fee \in Nat
             /\ a.gross_profit \in Nat /\ a.loss \in Nat
             /\ a.user_payout + a.protocol_fee + a.lp_fee = c + a.gross_profit - a.loss
             /\ a.user_payout + a.protocol_fee <= c * (1 + MAX_GROSS_PROFIT_MULTIPLIER)
<1> DEFINE delta  == DirectedDelta(e, s, d)
           profit == GrossProfit(c, e, delta)
           lost   == Loss(c, e, delta)
           fee    == ProfitFee(profit)
<1>1. delta \in Int
  BY DEF DirectedDelta
<1>2. /\ profit \in Nat /\ profit <= c * MAX_GROSS_PROFIT_MULTIPLIER
      /\ lost \in Nat /\ lost <= c
  BY <1>1, ProfitLossBounds
<1>3. fee \in Nat /\ fee <= profit
  BY <1>2, ProfitFeeBounds
<1>4. ProtocolFee(fee) \in Nat /\ ProtocolFee(fee) <= fee
  BY <1>3, ProtocolFeeBounds
<1>5. c * (1 + MAX_GROSS_PROFIT_MULTIPLIER) = c + c * MAX_GROSS_PROFIT_MULTIPLIER
  BY RatesAssumption
<1>6. CalculateSettlement(c, e, s, d) =
        [ user_payout  |-> c + profit - fee - lost,
          protocol_fee |-> ProtocolFee(fee),
          lp_fee       |-> fee - ProtocolFee(fee),
          gross_profit |-> profit,
          loss         |-> lost ]
  BY DEF CalculateSettlement
<1> HIDE DEF delta, profit, lost, fee
<1>7. c * MAX_GROSS_PROFIT_MULTIPLIER \in Nat
  BY RatesAssumption
<1>. QED BY <1>2, <1>3, <1>4, <1>5, <1>6, <1>7

\* A move of the price in the position's favour never lowers the payout.
THEOREM PayoutMonotone ==
  ASSUME NEW c \in Nat, NEW e \in Nat \ {0}, NEW s \in Nat, NEW t \in Nat,
         NEW d \in Direction, DirectedDelta(e, s, d) <= DirectedDelta(e, t, d)
  PROVE  CalculateSettlement(c, e, s, d).user_payout
           <= CalculateSettlement(c, e, t, d).user_payout
<1> DEFINE ds == DirectedDelta(e, s, d)
           dt == DirectedDelta(e, t, d)
           gain(x) == GrossProfit(c, e, x) - ProfitFee(GrossProfit(c, e, x))
<1>1. ds \in Int /\ dt \in Int /\ ds <= dt
  BY DEF DirectedDelta
<1>2. /\ GrossProfit(c, e, ds) \in Nat /\ GrossProfit(c, e, dt) \in Nat
      /\ Loss(c, e, ds) \in Nat /\ Loss(c, e, dt) \in Nat
  BY <1>1, ProfitLossBounds
<1> HIDE DEF ds, dt
<1>3. LeveragedMove(c, e, ds) \in Nat /\ LeveragedMove(c, e, dt) \in Nat
  BY <1>1, MoveType
<1>4. c * MAX_GROSS_PROFIT_MULTIPLIER \in Nat
  BY RatesAssumption
<1>5. GrossProfit(c, e, ds) <= GrossProfit(c, e, dt)
  <2>1. CASE ds >= 0
    <3>1. LeveragedMove(c, e, ds) <= LeveragedMove(c, e, dt)
      BY <1>1, <2>1, MoveMonotone
    <3>. QED
      BY <1>1, <1>3, <1>4, <2>1, <3>1 DEF GrossProfit, Lesser
  <2>2. CASE ds < 0
    BY <1>1, <1>2, <2>2 DEF GrossProfit
  <2>. QED BY <1>1, <2>1, <2>2
<1>6. Loss(c, e, dt) <= Loss(c, e, ds)
  <2>1. CASE dt >= 0
    BY <1>1, <1>2, <2>1 DEF Loss
  <2>2. CASE dt < 0
    <3>1. LeveragedMove(c, e, dt) <= LeveragedMove(c, e, ds)
      BY <1>1, <2>2, MoveMonotone
    <3>. QED BY <1>1, <1>3, <2>2, <3>1 DEF Loss, Lesser
  <2>. QED BY <1>1, <2>1, <2>2
<1>7. gain(ds) <= gain(dt)
  BY <1>2, <1>5, ProfitFeeBounds
<1>8. ProfitFee(GrossProfit(c, e, ds)) \in Nat /\ ProfitFee(GrossProfit(c, e, dt)) \in Nat
  BY <1>2, ProfitFeeBounds
<1>9. /\ CalculateSettlement(c, e, s, d).user_payout
            = c + GrossProfit(c, e, ds) - ProfitFee(GrossProfit(c, e, ds)) - Loss(c, e, ds)
      /\ CalculateSettlement(c, e, t, d).user_payout
            = c + GrossProfit(c, e, dt) - ProfitFee(GrossProfit(c, e, dt)) - Loss(c, e, dt)
  BY DEF CalculateSettlement, ds, dt
<1>. QED BY <1>2, <1>6, <1>7, <1>8, <1>9

-----------------------------------------------------------------------------
(***************************************************************************)
(* Liquidity shares.                                                       *)
(***************************************************************************)

\* A deposit into a pool with shares leaves every share worth no less.
THEOREM DepositKeepsPrice ==
  ASSUME NEW a \in Nat, NEW P \in Nat, NEW T \in Nat \ {0}, MintsShares(a, P, T)
  PROVE  /\ SharesForDeposit(a, P, T) \in Nat
         /\ (P + a) * T >= P * (T + SharesForDeposit(a, P, T))
<1> DEFINE shares == SharesForDeposit(a, P, T)
<1>1. P \in Nat \ {0} /\ a * T \in Nat
  BY DEF MintsShares
<1>2. shares \in Nat /\ P * shares <= a * T
  BY <1>1, DivBounds DEF SharesForDeposit
<1> HIDE DEF shares
<1>3. (P + a) * T = P * T + a * T /\ P * (T + shares) = P * T + P * shares
  BY <1>2
<1>4. P * T \in Nat /\ P * shares \in Nat
  BY <1>2
<1>5. (P + a) * T >= P * (T + shares)
  BY <1>1, <1>2, <1>3, <1>4
<1>. QED BY <1>2, <1>5 DEF shares

\* A withdrawal takes at most the pool, takes all of it only with all the shares,
\* and leaves every other share worth no less.
THEOREM WithdrawalKeepsPrice ==
  ASSUME NEW P \in Nat, NEW T \in Nat, NEW k \in Nat, RedeemsShares(k, P, T)
  PROVE  /\ AssetsForShares(k, P, T) \in Nat
         /\ AssetsForShares(k, P, T) <= P
         /\ P > 0 /\ k < T => AssetsForShares(k, P, T) < P
         /\ (P - AssetsForShares(k, P, T)) * T >= P * (T - k)
<1> DEFINE assets == AssetsForShares(k, P, T)
<1>1. T \in Nat \ {0} /\ k * P \in Nat /\ k <= T
  BY DEF RedeemsShares
<1>2. assets \in Nat /\ T * assets <= k * P
  BY <1>1, DivBounds DEF AssetsForShares
<1> HIDE DEF assets
<1>3. assets <= P
  <2>1. SUFFICES ASSUME assets > P PROVE FALSE
    BY <1>2
  <2>2. T * assets > T * P
    BY <1>1, <1>2, <2>1
  <2>3. k * P <= T * P
    BY <1>1
  <2>. QED BY <1>2, <2>2, <2>3
<1>4. P > 0 /\ k < T => assets < P
  <2>1. SUFFICES ASSUME P > 0, k < T, assets >= P PROVE FALSE
    BY <1>2
  <2>2. T * assets >= T * P
    BY <1>1, <1>2, <2>1
  <2>3. k * P < T * P
    BY <1>1, <2>1
  <2>. QED BY <1>1, <1>2, <2>2, <2>3
<1>5. (P - assets) * T = P * T - T * assets /\ P * (T - k) = P * T - k * P
  BY <1>1, <1>2
<1>6. P * T \in Nat /\ T * assets \in Nat
  BY <1>1, <1>2
<1>7. (P - assets) * T >= P * (T - k)
  BY <1>1, <1>2, <1>5, <1>6
<1>. QED BY <1>2, <1>3, <1>4, <1>7 DEF assets

\* Shares bought and redeemed at once never return more than they cost.
THEOREM RoundTripNeverGains ==
  ASSUME NEW a \in Nat, NEW P \in Nat, NEW T \in Nat \ {0}, MintsShares(a, P, T)
  PROVE  AssetsForShares(SharesForDeposit(a, P, T), P + a, T + SharesForDeposit(a, P, T)) <= a
<1> DEFINE shares == SharesForDeposit(a, P, T)
           assets == AssetsForShares(shares, P + a, T + shares)
<1>1. P \in Nat \ {0} /\ a * T \in Nat
  BY DEF MintsShares
<1>2. shares \in Nat /\ P * shares <= a * T
  BY <1>1, DivBounds DEF SharesForDeposit
<1> HIDE DEF shares
<1>3. shares * (P + a) \in Nat /\ T + shares \in Nat \ {0}
  BY <1>2
<1>4. assets \in Nat /\ (T + shares) * assets <= shares * (P + a)
  BY <1>3, DivBounds DEF AssetsForShares
<1> HIDE DEF assets
<1>5. shares * (P + a) <= (T + shares) * a
  <2>1. shares * (P + a) = P * shares + shares * a /\ (T + shares) * a = a * T + shares * a
    BY <1>2
  <2>2. P * shares \in Nat /\ shares * a \in Nat
    BY <1>2
  <2>. QED BY <1>1, <1>2, <2>1, <2>2
<1>6. (T + shares) * assets <= (T + shares) * a
  <2>1. (T + shares) * assets \in Nat /\ (T + shares) * a \in Nat
    BY <1>2, <1>4
  <2>. QED BY <1>3, <1>4, <1>5, <2>1
<1>7. assets <= a
  <2>1. SUFFICES ASSUME assets > a PROVE FALSE
    BY <1>4
  <2>2. (T + shares) * assets > (T + shares) * a
    BY <1>3, <1>4, <2>1
  <2>3. (T + shares) * assets \in Nat /\ (T + shares) * a \in Nat
    BY <1>2, <1>4
  <2>. QED BY <1>6, <2>2, <2>3
<1>. QED BY <1>7 DEF assets, shares
=============================================================================
