\* An experiment that has ended is the end of a behaviour.
CHECK_DEADLOCK FALSE
SPECIFICATION Spec
CONSTANTS
  Doc <- MCDoc
  Input <- MCInput
  NoMeta = NoMeta
  NoClass = NoClass
  ReadLen = 2
  MaxRuns = 2
INVARIANTS SvmWhole LabelsAgree Readable
