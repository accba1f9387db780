SPECIFICATION Spec
CONSTANTS
  MaxSessions = 3
  Key = {k1, k2}
  NoKey = NoKey
  MaxLives = 3
  MaxFaults = 1
CHECK_DEADLOCK FALSE
INVARIANT KeyServedOnce
INVARIANT NoKeyIsMissing
INVARIANT OrderlyStopRestarts
