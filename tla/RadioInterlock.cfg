SPECIFICATION FairSpec
CONSTANTS
  c1 = c1
  c2 = c2
  c3 = c3
  f1 = f1
  f2 = f2
  Chatters <- MCOneChat
  Senders <- MCSends
  None = None
INVARIANT
  HandedBack
PROPERTY
  RmsReturns
