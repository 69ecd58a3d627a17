CONSTANTS
  MaxPage = 1
  MaxId = 2
  MaxEvals = 0
  MaxAlerts = 0
SPECIFICATION FairSpec
INVARIANTS
  NoPromiseIsLost
CHECK_DEADLOCK FALSE
