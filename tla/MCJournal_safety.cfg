SPECIFICATION Spec
CONSTANTS
  Kind <- MCKind
  Value <- MCValue
  Default = Default
  MaxSize = 6
  FileMax = 3
  MayFail = TRUE
INVARIANTS
  OverrunExplained
  ReadsWhatWasWritten
PROPERTY
  RefinesLog
