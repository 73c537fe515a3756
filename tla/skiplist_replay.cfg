SPECIFICATION Spec
CONSTANTS
  Threads = {t1}
  Keys = {1, 2}
  Light = {1}
  None = None
  NIL = NIL
  MaxHeight = 2
  LinksPerNode = 2
  Margin = 1
  Budget = 2
  MaxSeq = 4
  MaxGets = 1
  MaxFailures = 0
  Replays = {0, 4}
INVARIANTS
  ArenaSuffices
CHECK_DEADLOCK FALSE
