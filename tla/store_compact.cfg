\* Three writes over two keys, flushes and a compaction that reaches level 2.
SPECIFICATION Spec
CONSTANTS
  Writers = {w1}
  Keys = {1, 2}
  Mutations = {"set", "delete"}
  None = none
  Policies = {"group"}
  MemtableBytes = 1
  L0Trigger = 2
  Fanout = 1
  MaxSeq = 3
  MaxRestarts = 0
  MaxFailures = 0
  MaxUnlinkFailures = 0
INVARIANTS
  LevelsInOrder
  
  PlanIsCurrent
