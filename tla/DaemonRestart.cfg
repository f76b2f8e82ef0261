SPECIFICATION FairSpec
CONSTANTS
  d1 = d1
  d2 = d2
  d3 = d3
  s1 = s1
  s2 = s2
  Nobody = Nobody
  Daemons <- ThreeDaemons
  Shells <- TwoShells
  Commands <- AllCommands
  MaxCommands = 2
  Faults <- ServeFaults
INVARIANTS
  TypeOK
  OneDaemon
  ServiceIsReachable
PROPERTIES
  StartSucceeds
  OnlyOwnFiles
CHECK_DEADLOCK FALSE
