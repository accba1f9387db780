SPECIFICATION FairSpec
CONSTANTS
  Node = {i, r}
  Initiator = i
  Responder = r
  Path = {p}
  Content = {c1, c2}
  Base <- MCBase
  Absent = Absent
  NoMark = NoMark
  RemovedMark = RemovedMark
  Encrypt = {TRUE, FALSE}
  Calm = FALSE
  MaxEdits = 1
  MaxLostAcks = 1
  MaxFailures = 1
CHECK_DEADLOCK FALSE
INVARIANT TypeOK
INVARIANT StaysInStep
INVARIANT UnionReached
INVARIANT Converged
INVARIANT VersionsAgree
PROPERTY ImplementsBarrier
PROPERTY SetUpEnds
