SPECIFICATION FairSpec
CONSTANTS
  s1 = s1
  s2 = s2
  Sources <- MCOneSource
  None = None
  Day = 8
  Zone <- MCZone
  Threshold = 1
  Cooldown = 2
  Required = 3
  Begins <- MCBegins
  MaxTime = 14
PROPERTIES
  StepOnTime
  ListenAfterLoss
  NtpTakesOver
