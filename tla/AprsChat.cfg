SPECIFICATION FairSpec
CONSTANTS
  MaxOut = 2
  MaxStarts = 2
  MaxNo = 2
  MaxRetries = 1
INVARIANTS
  AckedMeansTaken
  FailedMeansTried
PROPERTY
  ChatSettles
CHECK_DEADLOCK FALSE
