SPECIFICATION Spec
CONSTANTS
  Threads = {t1, t2}
  Keys = {1, 2}
  Light = {1}
  None = None
  NIL = NIL
  MaxHeight = 2
  LinksPerNode = 2
  Margin = 2
  Budget = 1
  MaxSeq = 4
  MaxGets = 1
  MaxFailures = 1
  Replays = {0}
INVARIANTS
  LevelsOrdered
  WalksInside
  FlushVisitsNewest
  
PROPERTIES
  Linearizable
  CallsReturn
CHECK_DEADLOCK FALSE
