SPECIFICATION FairSpec
CONSTANTS
  c1 = c1
  c2 = c2
  w1 = w1
  w2 = w2
  nobody = nobody
  Clients <- Callers
  Workers <- TwoWorkers
  NoClient <- nobody
  Requests <- RequestsOfAllKinds
  Impatient <- OneImpatient
  Pieces = 2
  Room = 1
INVARIANTS
  TypeOK
  AnswerIsOwn
  DeathIsExplained
PROPERTY CallReturns
CHECK_DEADLOCK FALSE
