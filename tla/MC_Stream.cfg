SPECIFICATION FairSpec
CONSTANTS
  won = won
  lost = lost
  other = other
  Resync = Resync
  Mine = {won, lost}
  Others = {other}
  Won = {won}
  CAPACITY = 1
  PAGE = 1
  SOCKET_BUFFER = 1
  MAX_REWRITES = 1
  MAX_FAILURES = 1
INVARIANTS
  TypeOK EveryChangeIsOnItsWay
PROPERTIES
  NeverReopened CelebratesNews SettlementShown
CHECK_DEADLOCK FALSE
