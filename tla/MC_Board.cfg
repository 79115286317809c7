SPECIFICATION FairSpec
CONSTANTS
  None = None
  Unstored = Unstored
  DAYS_IN_WEEK = 7
  DAYS_IN_MONTH = 31
  Closes = {1, 2, 3}
  PositionOf <- SmallPositionOf
  Events = {1, 2, 3}
  EventOf <- SmallEventOf
  EarlyCloses = {1, 2}
  EarlyEvents = {1, 2}
  MARKET = 1
  ASKED_PERIODS = {"today", "all"}
  LIMIT = 1
  LAST_DAY = 1
  MAX_FORCED = 1
  MAX_FAILURES = 1
INVARIANTS
  StatusHolds 
PROPERTIES
  MarkNeverFalls CatchesUp
