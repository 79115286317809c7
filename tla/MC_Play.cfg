SPECIFICATION FairSpec
CONSTANTS
  tab = tab
  Tabs = {tab}
  MAX_PLAYS = 2
  MAX_NONCE = 2
  MAX_FAILURES = 1
INVARIANTS
  TypeOK FailedNeverLands AcceptedHasLanded
PROPERTIES
  DismissedIsDecided FailureIsReported
CHECK_DEADLOCK FALSE
