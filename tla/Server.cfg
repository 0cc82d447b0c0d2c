CONSTANTS
  Client = {c1, c2}
  NoClient = none
  NotSent = notSent
  NUL = "0"
  Byte <- MCByte
  BufLen = 3
  Message <- MCMessage
  MaxSignals = 2
SPECIFICATION BusySpec
INVARIANTS TypeOK OwnBytesOnly AtMostOneMore CleanExit
PROPERTIES StopsWhenBusy
\* The program ends.
CHECK_DEADLOCK FALSE
