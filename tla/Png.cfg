SPECIFICATION Spec
CONSTANTS
  Width = 2
  Height = 2
  Sample <- MCSample
  NumSamples = 2
  BatchSize = 1
  MaxLabel = 9
  BLOCK_SIZE = 8
INVARIANTS ReadsTheImage ReadsEverySound SuccessIsWritten
