\* Two callers and the syncer under weak fairness, with failures.
SPECIFICATION FairSpec
CONSTANTS
  Threads = {t1, t2}
  Syncer = syncer
  None = none
  Policies = {"always", "group", "interval"}
  BaseSeq = 0
  MaxSeq = 2
  MaxPending = 2
  MaxWriteFailures = 1
  MaxFlushFailures = 1
  MaxCrashes = 0
  CrashKinds = {}
PROPERTIES
  CallsReturn
  DropEnds
