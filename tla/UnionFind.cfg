CONSTANTS
  count = 4
  ROOT = ROOT
SPECIFICATION FairSpec
INVARIANTS TypeOK Rooted
PROPERTIES ImplementsPartition Returns
