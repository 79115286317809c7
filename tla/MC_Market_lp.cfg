SPECIFICATION Spec
CONSTANTS
  BPS = 10
  LEVERAGE = 10
  MAX_GROSS_PROFIT_MULTIPLIER = 2
  PROFIT_FEE_BPS = 5
  PROTOCOL_FEE_SHARE_BPS = 5
  SAFETY_BUFFER_BPS = 1
  USER_OPEN_COLLATERAL_BPS = 2
  MIN_POSITION_COLLATERAL = 1
  MAX_POSITION_COLLATERAL = 2
  MIN_MARKET_EQUITY = 10
  MAX_MARKET_EQUITY = 16
  U128_MAX = 1000
  alice = alice
  bob = bob
  salt = salt
  noSalt = noSalt
  Users = {alice, bob}
  POSITION_DURATION_SECONDS = 1
  SETTLEMENT_BUFFER_SECONDS = 1
  SETTLEMENT_TASK_INTERVAL = 1
  SETTLEMENT_TASK_ITERATIONS = 3
  ORACLE_MAX_AGE_SECONDS = 1
  ORACLE_MAX_CONFIDENCE_BPS = 1
  MAX_ACTIVE_POSITIONS = 2
  USER_POSITIONS_CAPACITY = 2
  U32_MAX = 1
  MAX_NOW = 2
  InitialWallet <- Providers
  OracleUpdates <- UnfitUpdates
  TaskSalts = {salt, noSalt}
  ZERO_SALT = noSalt
  PriceWindows <- SomeWindows
  Collaterals = {2}
  Allowances = {1, 2}
  Deposits = {3, 12}
  Donations = {3}
  ShareAmounts = {3, 12}
  Minimums = {2}
  FeeAmounts = {}
INVARIANTS
  SharesBacked ShareRegisterBalances TokensConserved
PROPERTIES
  SharePriceNeverFalls
CHECK_DEADLOCK FALSE
