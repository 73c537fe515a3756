\* One small instance of each file format and of the merge.
SPECIFICATION Spec
CONSTANTS
  LogRecords <- MCLogRecords
  MaxAppends = 3
  MaxCrashes = 2
  BitsPerKey = 3
  MinBits = 10
  Word = 19
  TableKeys <- MCTableKeys
  Hashes <- MCHashes
  Sources <- MCSources
  BlockSize = 8
  Inputs <- MCInputs
  Below <- MCBelow
  BlockLen = 2
  Target = 1
  Snapshots <- MCSnapshots
  ToCells <- EncodeSnapshot
  FromCells <- DecodeSnapshot
  Unreadable = NoSnapshot
  NoSnapshot = NoSnapshot
  Stride = 8
  Alphabet <- MCAlphabet
  Cuts = {0, 4, 9}
  MaxLength = 17
INVARIANTS
  ReplayFindsLog
  TableAnswers
  ScanIsWhole
  MergeIsComplete
  LoadIsWhole
  ChecksumAgrees
PROPERTIES
  CommittedSurvives
CHECK_DEADLOCK FALSE
