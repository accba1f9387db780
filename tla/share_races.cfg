SPECIFICATION Spec
CONSTANTS
  Peer = {a, b}
  Session = {s1, s2, s3}
  File = {f}
  NoFile = NoFile
  Partial = Partial
  Gone = Gone
  NoEntry = NoEntry
  Idle = Idle
  Circumstance = {"overlap", "recut", "expiry", "cleanup"}
  MaxEdits = 0
  MaxFaults = 2
  MaxRestarts = 1
SYMMETRY Symmetry
CHECK_DEADLOCK FALSE
INVARIANT TypeOK
INVARIANT OneOwner
INVARIANT ArchivedLands
PROPERTY CopySurvives
