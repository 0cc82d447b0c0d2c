SPECIFICATION Spec
CONSTANTS
  MaxDepth = 3
  Profile <- MCProfile
INVARIANTS RejectsAtOnce OpenContainers CountsNodes
PROPERTIES Returns
\* The call has returned, or the text is at its bound.
CHECK_DEADLOCK FALSE
