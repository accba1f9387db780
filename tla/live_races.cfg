SPECIFICATION FairSpec
CONSTANTS
  Node = {n1, n2}
  Path = {p}
  Content = {c1, c2}
  Base = {Absent, c1}
  Stamp = {s1}
  Absent = Absent
  Torn = Torn
  NoMark = NoMark
  RemovedMark = RemovedMark
  Renamer = {}
  Daemon = {n2}
  Encrypt = {TRUE, FALSE}
  FreshDir = {}
  Calm = FALSE
  Editor = {n1, n2}
  MaxEdits = 2
  MaxLog = 8
  MaxLostAcks = 1
  MaxFailures = 1
CHECK_DEADLOCK FALSE
INVARIANT TypeOK
INVARIANT LogIsCausal
INVARIANT FirstDeliveryDecides
INVARIANT ConflictsAreMutual
INVARIANT OpenedOnceInOrder
INVARIANT EndsOnlyOnRedelivery
PROPERTY ComesToRest
