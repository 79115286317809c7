SPECIFICATION FairSpec
CONSTANTS
  er1 = er1
  er2 = er2
  None = None
  Endpoints = {er1}
  Positions = {1}
  INDEXER_CATCHUP_LIMIT = 1
  CRAWL_CAP = 4
  OVERLAP = 1
  V2_MIN_SLOT = 1
  MAX_TRANSACTIONS = 3
  MAX_FAILURES = 1
  MAX_MOVES = 0
PROPERTIES
  ReadyMeansCaughtUp
CHECK_DEADLOCK FALSE
