CONSTANTS
  MaxPage = 2
  MaxId = 2
  MaxEvals = 1
  MaxAlerts = 1
SPECIFICATION FairSpec
INVARIANTS
  AnsweredOnce
  AnswersDoNotCross
  LostOnlyIfShadowed
PROPERTIES
  SettlesUnlessShadowed
  EvalEndsUnlessDeadlocked
\* When every call of the model has been made and answered, nothing is left.
CHECK_DEADLOCK FALSE
