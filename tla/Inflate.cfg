SPECIFICATION Spec
CONSTANTS
  MaxLone = 3
  MaxFirst = 3
INVARIANTS OutputIsText EndsAsEncoded
