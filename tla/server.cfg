SPECIFICATION Spec
CONSTANTS
  MaxArgs = 3
  MaxBulk = 3
  MaxInline = 9
  Upper <- MCUpper
  Connections = {c1, c2}
  Scripts <- MCScripts
  Keys <- MCKeys
  Chunks = {1, 60}
  MaxFailures = 1
INVARIANTS
  InStep
  AnswersFit
  DelHolds
SYMMETRY Symmetric
CHECK_DEADLOCK FALSE
