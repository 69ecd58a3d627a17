CONSTANTS
  m1 = m1
  m2 = m2
  m3 = m3
  b1 = b1
  MainCalls <- MCMainCalls
  BackCalls <- MCBackCalls
  Requests <- MCRequests
SPECIFICATION FairSpec
INVARIANTS
  StatusMatchesQueue
  ArrivalOrder
  NoMissedWakeup
  OneDialogAtATime
  AnswerBeforeReturn
PROPERTIES
  TurnsSpec
  ReturnsUnlessBuried
CHECK_DEADLOCK FALSE
