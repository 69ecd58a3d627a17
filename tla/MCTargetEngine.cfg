CONSTANTS
  Pids = {1}
  OwnPid = 9
  MaxLife = 2
  Addresses = {"a", "b"}
  Chunks = 2
SPECIFICATION FairSpec
INVARIANTS
  RightsAreAccounted
  FreezesStayHome
  TimerMatchesEntries
  DumpTellsTheTruth
PROPERTIES
  CancelTakesEffect
  DumpEnds
CHECK_DEADLOCK FALSE
