\* Two racing writers, rotation, flushes, a log that cannot be unlinked and one
\* restart; no compaction.  A store that is refused stays refused.
SPECIFICATION Spec
CONSTANTS
  Writers = {w1, w2}
  Keys = {1, 2}
  Mutations = {"set"}
  None = none
  Policies = {"group", "interval"}
  MemtableBytes = 1
  L0Trigger = 0
  Fanout = 1
  MaxSeq = 2
  MaxRestarts = 1
  MaxFailures = 0
  MaxUnlinkFailures = 1
SYMMETRY WriterSymmetry
CHECK_DEADLOCK FALSE
INVARIANTS
  ReadsNewest
  AckedReadable
