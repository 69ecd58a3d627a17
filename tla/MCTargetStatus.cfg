CONSTANTS
  Pids = {1}
  OwnPid = 9
  MaxLife = 2
  Addresses = {"a"}
  Chunks = 1
SPECIFICATION FairSpec
INVARIANTS
  StatusIsTrue
CHECK_DEADLOCK FALSE
