CONSTANTS
  Key = {k1, k2, k3, k4, k5}
  NoKey = null
  Prefix <- MCPrefixFree
  Hash <- MCHash
  InitCapacity = 2
  MaxLines = 5
SPECIFICATION Spec
INVARIANTS Counted NeverFull PrintsEach
SYMMETRY MCSymmetry
\* linefreq ends.
CHECK_DEADLOCK FALSE
