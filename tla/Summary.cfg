SPECIFICATION Spec
CONSTANTS
  Null = Null
  NewLine <- EndOfLine
  Compare <- ScalarNodeComparison
  Capacity = 3
  Files <- SummaryFiles
  Values = {1, 2}
  StatusFiles = {1}
  Skippable = {2}
  OldResults <- OldFiles
  MaxInputs = 2
  MaxLength = 10
  MaxOptions = 1
CHECK_DEADLOCK FALSE
INVARIANTS
  TypeOK
  StorageIsSound
  SummaryIsExact
  FailuresAreNoted
