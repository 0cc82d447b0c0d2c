CONSTANTS
  Client = {c1}
  NoClient = none
  NotSent = notSent
  NUL = "0"
  Byte <- MCByte
  BufLen = 3
  Message <- MCMessage
  MaxSignals = 1
SPECIFICATION BusySpec
PROPERTIES ShutsDown
\* The program ends.
CHECK_DEADLOCK FALSE
