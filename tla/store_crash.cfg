\* A key set and deleted, flushes and compactions, with one failure and one
\* restart at any point.  A store that is refused stays refused.
SPECIFICATION Spec
CONSTANTS
  Writers = {w1}
  Keys = {1}
  Mutations = {"set", "delete"}
  None = none
  Policies = {"group"}
  MemtableBytes = 1
  L0Trigger = 2
  Fanout = 1
  MaxSeq = 2
  MaxRestarts = 1
  MaxFailures = 1
  MaxUnlinkFailures = 0
CHECK_DEADLOCK FALSE
INVARIANTS
  TypeOK
  ManifestFilesExist
  NumbersFresh
PROPERTIES
  ImplementsKeyValue
  LogsGoLast
