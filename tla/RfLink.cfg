SPECIFICATION LiveSpec
CONSTANTS
  Modulus = 3
  Retries = 1
  Total = 4
  RevTotal = 1
  ChanMax = 2
  Faults = {"drop", "echo", "others"}
INVARIANTS
  LinkInOrder
  SendMeansDelivered
  Recoverable
PROPERTY
  SendEnds
CONSTRAINT Followed
