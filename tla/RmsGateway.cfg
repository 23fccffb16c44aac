SPECIFICATION FairSpec
CONSTANTS
  s1 = s1
  s2 = s2
  Stations <- MCStations
  None = None
  Modulus = 3
  MaxSabm = 2
  TxBlocks = FALSE
INVARIANTS
  ForwardToOwnSession
  NoCrossTalk
  NoLeakedCms
  SessionOfCaller
PROPERTY
  HandlerReturns
