SPECIFICATION FairSpec
CONSTANTS
  Requests <- TwoTemporaries
  MaxTasks = 2
  MaxRequests = 1
  Faults <- AllFaults
PROPERTY RequestAnsweredOrDead
CHECK_DEADLOCK FALSE
