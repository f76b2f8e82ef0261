SPECIFICATION Spec
CONSTANTS
  Requests <- MixedRequests
  MaxTasks = 2
  MaxRequests = 2
  Faults <- AllFaults
INVARIANTS
  TypeOK
  PipesInherited
  BoxIsClean
  ResetIsSafe
  GracefulStopLeavesNothing
  NoRunAfterDeath
  NoDeadlock
PROPERTIES
  TaskDataStable
  KeepsPromise
CHECK_DEADLOCK FALSE
