CONSTANTS
  Width = 3
  Height = 3
  Colour = {0, 2, 3}
  Threshold <- MCThreshold
SPECIFICATION Spec
INVARIANTS Accounts Connected Settled
PROPERTIES Ends
\* The function has returned.
CHECK_DEADLOCK FALSE
