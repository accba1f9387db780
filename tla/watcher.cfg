SPECIFICATION FairSpec
CONSTANTS
  root = root
  d = d
  e = e
  Root = root
  Dir = {d, e}
  Path <- MCPath
  Ignored <- MCIgnored
  Backend = {"notify", "windows"}
  MaxEdits = 3
CHECK_DEADLOCK FALSE
INVARIANT TypeOK
INVARIANT Carried
INVARIANT TracksWhatExists
INVARIANT IgnoredIsNeverTold
PROPERTY Reported
