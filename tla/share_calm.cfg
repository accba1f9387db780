SPECIFICATION Spec
CONSTANTS
  Peer = {a}
  Session = {s1, s2, s3}
  File = {f, g}
  NoFile = NoFile
  Partial = Partial
  Gone = Gone
  NoEntry = NoEntry
  Idle = Idle
  Circumstance = {}
  MaxEdits = 1
  MaxFaults = 1
  MaxRestarts = 0
SYMMETRY Symmetry
CHECK_DEADLOCK FALSE
INVARIANT SkippedLands
