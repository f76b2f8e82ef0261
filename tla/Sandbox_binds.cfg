SPECIFICATION Spec
CONSTANTS
  Requests <- OneBare
  MaxTasks = 1
  MaxRequests = 1
  Faults <- NoFaults
INVARIANT StandardBindsAsAsked
CHECK_DEADLOCK FALSE
