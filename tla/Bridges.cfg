SPECIFICATION FairSpec
CONSTANTS
  Sockets <- MCSockets
  MaxData = 3
  QueueSize = 2
  MaxWrites = 3
  c1 = c1
  c2 = c2
  Clients <- MCClients
  Page = page
  Enabled <- MCEnabled
INVARIANTS
  NoSocketLeaked
  OnlyClientEnds
PROPERTIES
  Pipes
  SessionEnds
  FoundAgain
  ModemReturns
  BackToPacket
CHECK_DEADLOCK FALSE
