SPECIFICATION Spec
CONSTANTS
  w1 = w1
  w2 = w2
  nobody = nobody
  Workers <- TwoWorkers
  Nobody <- nobody
  FirstUid = 10
  Count = 3
SYMMETRY WorkerSymmetry
INVARIANTS
  TypeOK
  UniqueIds
  IdsConserved
  SharedIdsAreLate
CHECK_DEADLOCK FALSE
