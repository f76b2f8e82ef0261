SPECIFICATION FairSpec
CONSTANTS
  p1 = p1
  p2 = p2
  Others <- TwoOthers
  Limits <- SmallLimits
  Interval = 20
  MaxTime = 2
  MaxRuns = 2
  MaxSteps = 1
INVARIANTS
  TypeOK
  BoxIsEmptied
  EndIsExplained
  NeverDies
PROPERTIES
  LimitIsEnforced
  SlaveEndEndsRun
CHECK_DEADLOCK FALSE
