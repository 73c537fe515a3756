\* Two callers and the background thread: every notification against every wait,
\* with a failing flush or compaction and a log that cannot be unlinked.
SPECIFICATION FairSpec
CONSTANTS
  Callers = {c1, c2}
  None = none
  MaxCalls = 3
  MaxFailures = 1
INVARIANTS
  PendingIsFrozen
  WaitMeansFlushed
PROPERTIES
  CallsReturn
  FrozenDrains
  CompactionsRun
  DropReturns
\* A closed store takes no step.
CHECK_DEADLOCK FALSE
