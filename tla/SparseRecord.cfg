CONSTANTS
  Value = {v1, v2}
  Zero = zero
  Length = 7
  WriteLens <- MCWriteLens
  ReadLen = 2
SPECIFICATION FairSpec
INVARIANTS TypeOK RoundTrip NothingLost ClientAgrees
PROPERTIES Completes ImplementsStream
\* The program stops: after an error, and when everything has been read.
CHECK_DEADLOCK FALSE
