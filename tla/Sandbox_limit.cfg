SPECIFICATION Spec
CONSTANTS
  Requests <- OneLimited
  MaxTasks = 1
  MaxRequests = 1
  Faults <- NoFaults
INVARIANT HealthyServiceStaysUp
CHECK_DEADLOCK FALSE
