SPECIFICATION Spec
CONSTANTS
  BPS = 10
  LEVERAGE = 10
  MAX_GROSS_PROFIT_MULTIPLIER = 2
  PROFIT_FEE_BPS = 5
  PROTOCOL_FEE_SHARE_BPS = 5
  SAFETY_BUFFER_BPS = 1
  USER_OPEN_COLLATERAL_BPS = 4
  MIN_POSITION_COLLATERAL = 1
  MAX_POSITION_COLLATERAL = 4
  MIN_MARKET_EQUITY = 10
  MAX_MARKET_EQUITY = 20
  U128_MAX = 1000
  alice = alice
  bob = bob
  salt = salt
  noSalt = noSalt
  Users = {alice, bob}
  POSITION_DURATION_SECONDS = 1
  SETTLEMENT_BUFFER_SECONDS = 1
  SETTLEMENT_TASK_INTERVAL = 1
  SETTLEMENT_TASK_ITERATIONS = 3
  ORACLE_MAX_AGE_SECONDS = 1
  ORACLE_MAX_CONFIDENCE_BPS = 1
  MAX_ACTIVE_POSITIONS = 2
  USER_POSITIONS_CAPACITY = 2
  U32_MAX = 2
  MAX_NOW = 4
  InitialWallet <- Wallets
  OracleUpdates <- Updates
  TaskSalts = {salt}
  ZERO_SALT = noSalt
  PriceWindows <- AnyWindow
  Collaterals = {1, 4}
  Allowances = {4}
  Deposits = {12}
  Donations = {}
  ShareAmounts = {12}
  Minimums = {0}
  FeeAmounts = {1}
INVARIANTS
  TypeOK RiskBooksBalance SafetyBufferIntact ExposureLimited EveryPositionCovered
PROPERTIES
  SettledInWindow
CHECK_DEADLOCK FALSE
