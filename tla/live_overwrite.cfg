SPECIFICATION FairSpec
CONSTANTS
  Node = {n1, n2}
  Path = {p}
  Content = {c1, c2}
  Base = {Absent}
  Stamp = {s1}
  Absent = Absent
  Torn = Torn
  NoMark = NoMark
  RemovedMark = RemovedMark
  Renamer = {}
  Daemon = {n2}
  Encrypt = {FALSE}
  FreshDir = {}
  Calm = FALSE
  Editor = {n1, n2}
  MaxEdits = 2
  MaxLog = 8
  MaxLostAcks = 0
  MaxFailures = 0
CHECK_DEADLOCK FALSE
PROPERTY NoSilentOverwrite
