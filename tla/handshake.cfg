SPECIFICATION FairSpec
CONSTANTS
  Client = {c1}
  Offset <- MCOffset
  Retries = 1
  Skew = 1
  Timeout = 2
  MaxTime = 3
  MaxMishaps = 2
CHECK_DEADLOCK FALSE
INVARIANT TypeOK
INVARIANT AcceptedTwiceOnlyFromAhead
INVARIANT AcceptanceWindow
INVARIANT DoneIsThisAttempt
PROPERTY CommandEnds
