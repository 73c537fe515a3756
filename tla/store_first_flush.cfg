\* One write, its flush and a crash.
SPECIFICATION Spec
CONSTANTS
  Writers = {w1}
  Keys = {1}
  Mutations = {"set"}
  None = none
  Policies = {"group"}
  MemtableBytes = 1
  L0Trigger = 2
  Fanout = 1
  MaxSeq = 1
  MaxRestarts = 1
  MaxFailures = 0
  MaxUnlinkFailures = 0
CHECK_DEADLOCK FALSE
INVARIANTS
  OpenSucceeds
