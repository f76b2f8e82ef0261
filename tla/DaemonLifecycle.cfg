SPECIFICATION FairSpec
CONSTANTS
  w1 = w1
  w2 = w2
  Workers <- TwoWorkers
  Faults <- AllFaults
  MaxClients = 2
  MaxSignals = 2
INVARIANTS
  TypeOK
  StoppedMeansAllStopped
PROPERTIES
  RequestsSurviveStop
  DeadWorkerEndsService
  StopEndsUnlessMissed
CHECK_DEADLOCK FALSE
