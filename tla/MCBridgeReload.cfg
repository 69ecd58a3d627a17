CONSTANTS
  MaxPage = 2
  MaxId = 2
  MaxEvals = 0
  MaxAlerts = 0
SPECIFICATION FairSpec
INVARIANTS
  ResultsReachTheirCall
CHECK_DEADLOCK FALSE
