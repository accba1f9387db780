SPECIFICATION Spec
CONSTANTS
  Node = {n1, n2}
  Path = {p, q}
  Content = {c1, c2}
  Base = {Absent, c1}
  Stamp = {s1}
  Absent = Absent
  Torn = Torn
  NoMark = NoMark
  RemovedMark = RemovedMark
  Renamer = {n1, n2}
  Daemon = {n2}
  Encrypt = {TRUE}
  FreshDir = {}
  Calm = TRUE
  Editor = {n1, n2}
  MaxEdits = 4
  MaxLog = 8
  MaxLostAcks = 0
  MaxFailures = 0
CHECK_DEADLOCK FALSE
INVARIANT Converged
INVARIANT EchoesAreDropped
INVARIANT EndsOnlyOnRedelivery
