SPECIFICATION FairSpec
CONSTANTS
  w1 = w1
  w2 = w2
  Workers <- OneWorker
  Faults <- NoFaults
  MaxClients = 1
  MaxSignals = 1
PROPERTY WorkersHearSigterm
CHECK_DEADLOCK FALSE
