SPECIFICATION FairSpec
CONSTANTS
  Requests <- PermanentRequests
  MaxTasks = 2
  MaxRequests = 2
  Faults <- AllFaults
PROPERTIES
  RequestAnsweredOrDead
  WorkerDeathStopsPrograms
CHECK_DEADLOCK FALSE
