SPECIFICATION FairSpec
CONSTANTS
  tab = tab
  Tabs = {tab}
  MAX_PLAYS = 1
  MAX_NONCE = 1
  MAX_FAILURES = 0
PROPERTIES
  BlockedOnlyWhileUnresolved
CHECK_DEADLOCK FALSE
