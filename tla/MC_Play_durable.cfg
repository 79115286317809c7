SPECIFICATION Spec
CONSTANTS
  tab = tab
  Tabs = {tab}
  MAX_PLAYS = 2
  MAX_NONCE = 2
  MAX_FAILURES = 0
INVARIANTS
  IntentIsDurable
CHECK_DEADLOCK FALSE
