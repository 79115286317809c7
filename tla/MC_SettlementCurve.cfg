SPECIFICATION Spec
CONSTANTS
  BPS = 10000
  LEVERAGE = 1000
  MAX_GROSS_PROFIT_MULTIPLIER = 5
  PROFIT_FEE_BPS = 1000
  PROTOCOL_FEE_SHARE_BPS = 2000
  SAFETY_BUFFER_BPS = 1000
  USER_OPEN_COLLATERAL_BPS = 100
  MIN_POSITION_COLLATERAL = 1
  MAX_POSITION_COLLATERAL = 1009
  MIN_MARKET_EQUITY = 10
  MAX_MARKET_EQUITY = 20
  U128_MAX = 1000
  CurveCollaterals <- OddCollaterals
  CurvePrices <- NearPrices
INVARIANTS
  PaidFromReserve OppositesOffset
PROPERTIES
  PayoutFollowsPrice
