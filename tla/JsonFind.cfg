SPECIFICATION Spec
CONSTANTS
  MaxDepth = 5
  Document <- MCDocument
  Path <- MCPath
INVARIANTS FoundIsFirst MissesHiddenOnly ReadsNoFurther
\* The call has returned.
CHECK_DEADLOCK FALSE
