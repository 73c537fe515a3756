\* Three appenders under Group: one owns the flush, one's write fails, one has
\* passed the checks.
SPECIFICATION Spec
CONSTANTS
  Threads = {t1, t2, t3}
  Syncer = syncer
  None = none
  Policies = {"group"}
  BaseSeq = 0
  MaxSeq = 3
  MaxPending = 2
  MaxWriteFailures = 1
  MaxFlushFailures = 0
  MaxCrashes = 0
  CrashKinds = {}
SYMMETRY CallerSymmetry
INVARIANT
  AckedIsDurable
