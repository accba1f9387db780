SPECIFICATION FairSpec
CONSTANTS
  Chunks = 4
  MaxLostAcks = 2
CHECK_DEADLOCK FALSE
INVARIANT TypeOK
INVARIANT AckedWereTaken
INVARIANT GapNeedsLoss
PROPERTY ChunksInOrderOnce
PROPERTY EndsUnlessGivenUp
