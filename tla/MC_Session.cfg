SPECIFICATION FairSpec
CONSTANTS
  m1 = m1
  u1 = u1
  r1 = r1
  r2 = r2
  Markets = {m1}
  Users = {u1}
  Rollups = {r1, r2}
  MarketRollups = {r1}
  Base = Base
  Absent = Absent
  None = None
  MARKET = m1
  USER_LIQUIDITY_MARKET_CAPACITY = 1
  MAX_OPERATIONS = 2
INVARIANTS
  TypeOK HoldingsWithinReach  LiveRowIsFresh
PROPERTIES
  ReadyUnlessStranded
