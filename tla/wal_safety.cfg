\* Two callers, every policy, numbering that continues from an earlier log, one
\* failed write, one failed device flush and one crash of either kind.
SPECIFICATION Spec
CONSTANTS
  Threads = {t1, t2}
  Syncer = syncer
  None = none
  Policies = {"always", "group", "interval"}
  BaseSeq = 1
  MaxSeq = 4
  MaxPending = 2
  MaxWriteFailures = 1
  MaxFlushFailures = 1
  MaxCrashes = 1
  CrashKinds = {"process", "power"}
SYMMETRY CallerSymmetry
INVARIANTS
  TypeOK
  MemoryIsReplayUnlessFailed
  AckedSurvives
  SyncCovers
  PendingIsTheGap
  OneFlushAtATime
