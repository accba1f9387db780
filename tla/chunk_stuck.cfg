SPECIFICATION FairSpec
CONSTANTS
  Chunks = 3
  MaxLostAcks = 0
CHECK_DEADLOCK FALSE
PROPERTY AlwaysEnds
