CONSTANTS
  m1 = m1
  m2 = m2
  m3 = m3
  b1 = b1
  MainCalls <- MCMainCalls
  BackCalls <- NoBackCalls
  Requests <- MCMainCalls
SPECIFICATION FairSpec
PROPERTIES
  EveryCallReturns
CHECK_DEADLOCK FALSE
